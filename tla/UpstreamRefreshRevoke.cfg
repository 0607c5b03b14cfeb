\* A revocation between the two statements of UpdateOcisTokens.
CONSTANTS
  Reqs = {r1}
  Rotating = TRUE
  Lifetimes = {1, 3}
  Skew = 1
  Faults = {"idp"}
  MaxTime = 4
  MaxMinted = 4
SYMMETRY Symmetry
SPECIFICATION Spec
PROPERTY RevokedStaysRevoked
