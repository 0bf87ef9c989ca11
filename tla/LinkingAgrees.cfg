CONSTANTS
  Companion = {c1, c2}
  MaxOffers = 2
  MaxLinks = 2
  MaxFaults = 2
  MaxFailures = 1
  MaxRestarts = 1
  c1 = c1
  c2 = c2

SPECIFICATION Spec
SYMMETRY Symmetry
INVARIANTS TypeOK CredentialIsRegistered CertificateIsHeld ListedIsKnown ListsAgree
CHECK_DEADLOCK FALSE
