\* Everything may fail.
CONSTANTS
  Reqs = {r1, r2, r3}
  Rotating = TRUE
  Lifetimes = {1, 3}
  Skew = 2
  Faults = {"select", "put", "idp", "lost", "restart"}
  MaxTime = 4
  MaxMinted = 4
SYMMETRY Symmetry
SPECIFICATION Spec
INVARIANTS TypeOK RefreshTokenKept
PROPERTIES StoredTokensAdvance ClosedStaysClosed
