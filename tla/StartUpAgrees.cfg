CONSTANTS
  Proc = {p1, p2, p3}
  None = None
  MaxCrashes = 2
  MaxFailures = 1
  MaxRestarts = 1

SPECIFICATION Spec
SYMMETRY Symmetry
INVARIANTS TypeOK StartsAgree KeysAreShared RegisteredKeysAreHeld CredentialIsAccounts CredentialLogsIn
CHECK_DEADLOCK FALSE
