SPECIFICATION FairSpec
CONSTANTS
  r1 = r1
  g1 = g1
  g2 = g2
  b1 = b1
  b2 = b2
  Requests = {r1}
  Guaranteed = {g1, g2}
  BestEffort = {b1, b2}
  NumProcessors = 2
PROPERTIES
  EveryRequestAnswered
  ShutdownReturns
\* After Shutdown and the last answer nothing is left to do.
CHECK_DEADLOCK FALSE
