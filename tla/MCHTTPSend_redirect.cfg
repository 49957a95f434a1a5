SPECIFICATION Spec
CONSTANTS
  moved = moved
  Calls = {moved}
  Malformed = {}
  Redirecting = {moved}
  MaxSendAttempts = 4
  BaseBackoff = 500
  MaxBackoff = 3000
  StatusCodes <- OutcomeCodes
INVARIANTS
  OkAlwaysDelivered
\* Send returns: when every call has, nothing is left to do.
CHECK_DEADLOCK FALSE
