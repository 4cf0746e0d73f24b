SPECIFICATION Spec
CONSTANTS
  Thread = {w1}
  Web = {w1}
  Script = {}
  Post = {p1, p2}
  Columns = {"text", "shown", "link"}
  MaxText = 3
  MaxOutages = 0
INVARIANTS
  SyncedUnlessOutage
  InSync
