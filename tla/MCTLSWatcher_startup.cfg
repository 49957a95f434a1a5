SPECIFICATION Spec
CONSTANTS
  k1 = k1
  Configured <- PairOnly
  DirOf <- TwoDirs
  Closers = {k1}
  QueueLimit = 1
  MaxWrites = 2
INVARIANT RotationNoticed
\* A closed output does nothing.
CHECK_DEADLOCK FALSE
