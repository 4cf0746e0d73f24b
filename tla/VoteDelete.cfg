SPECIFICATION Spec
CONSTANTS
    Proposals = {2, 3, 4}
    Texts = {"old", "new"}
    MaxEdits = 3
    MaxActs = 4
INVARIANT DeletedProposalsGo
CHECK_DEADLOCK FALSE
