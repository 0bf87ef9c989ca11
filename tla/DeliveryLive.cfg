CONSTANTS
  Msg = {m1, m2}
  Proc = {p1, p2}
  NoProc = NoProc
  Encrypted = TRUE
  MaxFaults = 2
  MaxRestarts = 0
  m1 = m1
  m2 = m2
  p1 = p1
  p2 = p2

SPECIFICATION FairSpec
INVARIANTS RetryQueuesOnce
PROPERTIES QueueDrains
CHECK_DEADLOCK FALSE
