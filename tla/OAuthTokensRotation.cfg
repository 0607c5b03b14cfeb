\* Three requests fight for the credentials of one grant over its rotations;
\* without symmetry, for the liveness property.
CONSTANTS
  Reqs = {r1, r2, r3}
  Grants = {g1}
  Codes = {c1}
  Refreshes = {t1, t2, t3}
  Clients = {k1}
  Redirects = {u1}
  Verifiers = {v1}
  None = None
  CodeTTL = 1
  RefreshTTL = 1
  MaxTime = 1
  Faults = {"select", "put"}
SPECIFICATION Spec
INVARIANTS TypeOK SingleUse OneLiveCredential
PROPERTIES RefinesGrantCredential Answered
