SPECIFICATION Spec
CONSTANTS
    Proposals = {2, 3, 4}
    Texts = {"old", "new"}
    MaxEdits = 3
    MaxActs = 4
INVARIANTS SavedAsSubmitted CleanMeansSaved OrdersDistinct OrderIInv
PROPERTY SaveSettles
CHECK_DEADLOCK FALSE
