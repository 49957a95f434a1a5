SPECIFICATION Spec
CONSTANTS
  r1 = r1
  r2 = r2
  g1 = g1
  g2 = g2
  b1 = b1
  Requests = {r1, r2}
  Guaranteed = {g1, g2}
  BestEffort = {b1}
  NumProcessors = 1
INVARIANTS
  TypeOK
  AckedMeansDelivered
  OnlyShutdownInterrupts
  ShutdownDrains
  MetricsAddUp
PROPERTY ImplementsForwarding
SYMMETRY Symmetry
\* After Shutdown and the last answer nothing is left to do.
CHECK_DEADLOCK FALSE
