\* Two tabs of one browser on the same session.
CONSTANTS
  s1 = s1
  s2 = s2
  Reqs = {r1, r2}
  Sids = {a}
  Spaces = {s1, s2}
  Accounts <- MCAccounts
  SessionTTL = 1
  Faults = {"session", "put"}
  MaxTime = 1
  MaxGrants = 1
SPECIFICATION SpecShown
INVARIANT GrantedAsShown
CHECK_DEADLOCK FALSE
