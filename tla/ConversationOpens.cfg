CONSTANTS
  Alice = Alice
  Bob = Bob
  MaxSends = 3
  MaxAbandoned = 1
  MaxRestarts = 1
  MaxFaults = 2

SPECIFICATION Spec
CONSTRAINT FewFaults
SYMMETRY Symmetry
INVARIANTS TypeOK NextOpens
PROPERTIES ReceivesAtomically
CHECK_DEADLOCK FALSE
