SPECIFICATION Spec
CONSTANTS
  c1 = c1
  Calls = {c1}
  MaxSendAttempts = 2
  MaxReloads = 1
  MaxIdle = 2
INVARIANT RetiredPoolsDrain
\* When every call has returned nothing is left to do.
CHECK_DEADLOCK FALSE
