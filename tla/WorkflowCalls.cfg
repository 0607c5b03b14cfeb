\* Any three of seven calls: failing and lost requests, an oCIS that accepts
\* untyped recipients and one that does not, others at the same path.
CONSTANTS
  Uploads = {u1, u2}
  Creations = {p1, p2}
  Downloads = {d1}
  Links = {l1}
  Overviews = {o1}
  Bare = {p1}
  Faults = {"error", "lost"}
  Others = {"write", "delete"}
  MaxRunning = 3
  MaxItems = 3
SPECIFICATION Spec
INVARIANTS TypeOK RepliesAreTrue SharedIsUploaded
CHECK_DEADLOCK FALSE
