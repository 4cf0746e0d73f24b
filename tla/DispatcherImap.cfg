SPECIFICATION Spec
CONSTANTS
  Readers = {r1}
  Imap = TRUE
  TransientLimit = 1
  ClientLimit = 1
  MaxMessages = 3
  MaxRestarts = 1
INVARIANTS
  IInv
  MailboxBeforeUse
  EndedThreadIsDisconnected
CHECK_DEADLOCK FALSE
