SPECIFICATION Spec
CONSTANTS
  Readers = {r1}
  Imap = TRUE
  TransientLimit = 2
  ClientLimit = 2
INVARIANTS
  AloneIInv
  IrrecoverableNotContacted
  ReadsOpenMailbox
PROPERTIES
  ErrorIsRetried
CHECK_DEADLOCK FALSE
