CONSTANTS
  b1 = b1
  b2 = b2
  Bundle = {b1, b2}
  NoBundle = NoBundle
  PoolSize = 3
  MaxFailures = 2
  MaxRestarts = 2

SPECIFICATION Spec
SYMMETRY Symmetry
INVARIANTS TypeOK ServedOnce ServedIsDurable OfferedIsHeld IdentityIsKept
CHECK_DEADLOCK FALSE
