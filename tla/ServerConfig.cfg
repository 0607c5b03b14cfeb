\* Every combination of settings at the first start, then restarts with another
\* key, public URL, mode or secret.
CONSTANTS
  Grants = {g1, g2}
  Environments <- MCEvery
  Later <- MCLater
  MaxStarts = 3
SPECIFICATION Spec
INVARIANTS CallersAreKnown AcceptedIsReadable
PROPERTY RefreshNotWasted
CHECK_DEADLOCK FALSE
