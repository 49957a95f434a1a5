SPECIFICATION Spec
CONSTANTS
  c1 = c1
  c2 = c2
  c3 = c3
  Calls = {c1, c2, c3}
  MaxSendAttempts = 2
  MaxReloads = 2
  MaxIdle = 2
INVARIANTS
  TypeOK
  OnlyLateCallsLinger
  RetryUsesNewest
SYMMETRY Symmetry
\* When every call has returned nothing is left to do.
CHECK_DEADLOCK FALSE
