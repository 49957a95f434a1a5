SPECIFICATION Spec
CONSTANTS
  r1 = r1
  r2 = r2
  g1 = g1
  b1 = b1
  Requests = {r1, r2}
  Guaranteed = {g1}
  BestEffort = {b1}
  NumProcessors = 1
INVARIANT CancelOnlyAfterTimeout
\* After Shutdown and the last answer nothing is left to do.
CHECK_DEADLOCK FALSE
