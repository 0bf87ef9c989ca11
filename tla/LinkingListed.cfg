CONSTANTS
  Companion = {c1, c2}
  MaxOffers = 1
  MaxLinks = 2
  MaxFaults = 1
  MaxFailures = 0
  MaxRestarts = 0
  c1 = c1
  c2 = c2

SPECIFICATION Spec
SYMMETRY Symmetry
INVARIANTS LinkedIsListed
CHECK_DEADLOCK FALSE
