\* Retry-After in every form, answers that never come, a cancellation at any
\* point.  Two calls would share nothing but the clock.
CONSTANTS
  Calls = {c1}
  Headers <- MCHeaders
  Faults = {"lost"}
  MaxTime = 4
SPECIFICATION FairSpec
INVARIANT TypeOK
PROPERTIES KeepsPromise HonoursRetryAfter Returns
CHECK_DEADLOCK FALSE
