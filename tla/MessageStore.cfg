SPECIFICATION Spec
CONSTANTS
  Messages = {1}
  MaxVersion = 3
  MaxOpens = 2
  MaxFailures = 1
  Callers = {v1}
  Workers = {w1}
  NoWorker = NoWorker
  Collections = {"all"}
  BatchSize = 2
INVARIANTS
  SettledUnlessRaced
  CopyIInv
PROPERTIES
  EventuallyAgrees
CHECK_DEADLOCK FALSE
