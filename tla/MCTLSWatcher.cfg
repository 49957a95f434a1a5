SPECIFICATION FairSpec
CONSTANTS
  k1 = k1
  k2 = k2
  Configured <- AllFiles
  DirOf <- TwoDirs
  Closers = {k1, k2}
  QueueLimit = 1
  MaxWrites = 2
INVARIANTS
  TypeOK
  DrainNeverBlocks
  ClientUsable
  NoLostRotation
PROPERTIES
  NoReloadAfterClose
  EventuallyFresh
  CloseReturns
\* A closed output does nothing.
CHECK_DEADLOCK FALSE
