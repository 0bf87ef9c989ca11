CONSTANTS
  Msg = {m1, m2}
  Proc = {p1, p2}
  NoProc = NoProc
  Encrypted = TRUE
  MaxFaults = 2
  MaxRestarts = 1
  m1 = m1
  m2 = m2
  p1 = p1
  p2 = p2

SPECIFICATION Spec
SYMMETRY Symmetry
INVARIANTS TypeOK NothingLost RedeliveryNeedsNoKey NoDuplicateHistory SentWasAccepted
PROPERTIES SavesLoseNothing DeliversInOrder
CHECK_DEADLOCK FALSE
