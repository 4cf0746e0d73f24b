SPECIFICATION Spec
CONSTANTS
  Messages = {1, 2}
  MaxVersion = 1
  MaxOpens = 0
  MaxFailures = 1
  Callers = {v1, v2}
  Workers = {w1, w2}
  NoWorker = NoWorker
  Collections = {"all", "deleted"}
  BatchSize = 2
INVARIANTS
  LoaderIInv
  PromiseHasCarrier
PROPERTIES
  PromisesSettle
CHECK_DEADLOCK FALSE
