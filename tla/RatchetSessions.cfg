CONSTANTS
  Alice = Alice
  Bob = Bob
  MaxSends = 4
  MaxAbandoned = 1
  MaxRestarts = 1

SPECIFICATION Spec
CONSTRAINT FewSends
SYMMETRY Symmetry
INVARIANTS TypeOK KeysUsedOnce ActiveIsHeld HeadOpens TurnsKeepMatching
CHECK_DEADLOCK FALSE
