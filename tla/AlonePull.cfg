SPECIFICATION CleanSpec
CONSTANTS
  Readers = {r1}
  Imap = FALSE
  TransientLimit = 2
  ClientLimit = 2
PROPERTIES
  LifecycleRefined
  EscalationEnds
CHECK_DEADLOCK FALSE
