SPECIFICATION FairSpec
CONSTANTS
  Readers = {r1, r2}
  Imap = FALSE
  TransientLimit = 2
  ClientLimit = 1
  MaxMessages = 2
  MaxRestarts = 0
INVARIANTS
  CountBounded
PROPERTIES
  WakeIsServed
CHECK_DEADLOCK FALSE
