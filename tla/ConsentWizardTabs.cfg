\* Two requests on one session that may expire: every login, every form, every
\* write that may fail, a restart at any point.
CONSTANTS
  s1 = s1
  s2 = s2
  Reqs = {r1, r2}
  Sids = {a}
  Spaces = {s1}
  Accounts <- MCAccountsOneSpace
  SessionTTL = 0
  Faults = {"session", "put"}
  MaxTime = 1
  MaxGrants = 1
SYMMETRY Symmetry
SPECIFICATION Spec
INVARIANTS TypeOK GrantWithinLogin CodeNamesGrant AdminOnlyIfAdmin
PROPERTY EndedStaysEnded
