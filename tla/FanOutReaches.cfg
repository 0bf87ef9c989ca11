CONSTANTS
  s = s
  h = h
  p = p
  q = q
  Home = {s, h}
  Away = {p, q}
  Sender = s
  IdOrder <- Backwards
  Call = {c1, c2}
  MaxFaults = 2
  MaxRestarts = 1

SPECIFICATION Spec
SYMMETRY Symmetry
INVARIANTS TypeOK SentReachesAll SentNamesEnvelope SendsDoNotInterleave FailureTearsOne
CHECK_DEADLOCK FALSE
