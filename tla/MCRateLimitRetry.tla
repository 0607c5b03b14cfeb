-------------------------- MODULE MCRateLimitRetry --------------------------
EXTENDS RateLimitRetry, TLC

\* No header, a number of seconds of either sign, dates before and after the
\* time they are read.
MCHeaders == {[kind |-> "other"], [kind |-> "secs", n |-> 1],
              [kind |-> "secs", n |-> -1], [kind |-> "date", n |-> 1],
              [kind |-> "date", n |-> 4]}
=============================================================================
