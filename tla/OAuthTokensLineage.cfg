\* Two grants of two clients, forms with right and wrong clients and verifiers.
CONSTANTS
  Reqs = {r1, r2}
  Grants = {g1, g2}
  Codes = {c1, c2}
  Refreshes = {t1, t2}
  Clients = {k1, k2}
  Redirects = {u1}
  Verifiers = {v1, v2}
  None = None
  CodeTTL = 0
  RefreshTTL = 0
  MaxTime = 1
  Faults = {"put"}
SYMMETRY Symmetry
SPECIFICATION Spec
INVARIANT LineageBound
PROPERTY SpentStaysSpent
