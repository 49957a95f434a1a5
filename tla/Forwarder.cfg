SPECIFICATION FairSpec
CONSTANTS
  r1 = r1
  r2 = r2
  Requests = {r1, r2}
INVARIANTS
  TypeOK
  CleanStopAnswersAll
  OutputsClosedLast
  ShutdownKeepsFanOuts
PROPERTIES
  RunReturns
\* The process ends.
CHECK_DEADLOCK FALSE
