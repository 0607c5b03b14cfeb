\* Every tool and resource, every combination of blank inputs, three tries;
\* oCIS may refuse a property and answer 207.
CONSTANTS
  Tools <- MCTools
  MaxTries = 3
  Faults = {"propstat"}
SPECIFICATION Spec
INVARIANTS ReadOnlyChangesNothing ConfirmedBeforeRemoved RepeatIsHarmless ReplyIsTrue IDsValidated
CHECK_DEADLOCK FALSE
