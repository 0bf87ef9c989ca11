CONSTANTS
  Alice = Alice
  Bob = Bob
  MaxSends = 4
  MaxAbandoned = 0
  MaxRestarts = 0

SPECIFICATION Spec
SYMMETRY Symmetry
INVARIANTS PeersDeriveMatchingKeys
CHECK_DEADLOCK FALSE
