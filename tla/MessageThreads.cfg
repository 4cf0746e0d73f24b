SPECIFICATION Spec
CONSTANTS
  PageSize = 2
  MaxDisplay = 3
  Size = 4
  MayHide = {2}
  SortStyles = {"threads", "recent", "starters"}
INVARIANTS
  ListedInThreads
  ListedByDate
  PageIsRendered
  ContextCounted
CHECK_DEADLOCK FALSE
