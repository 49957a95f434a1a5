SPECIFICATION FairSpec
CONSTANTS
  post = post
  noURL = noURL
  moved = moved
  Calls = {post, noURL, moved}
  Malformed = {noURL}
  Redirecting = {moved}
  MaxSendAttempts = 6
  BaseBackoff = 1000
  MaxBackoff = 6000
  StatusCodes <- BoundaryCodes
CONSTRAINT OneCall
INVARIANTS
  TypeOK
  SendOkMeansAccepted
  BackoffInRange
  GivesUpOnlyForCause
PROPERTIES
  RetryDiscipline
  ImplementsContract
  EveryCallReturns
\* Send returns: when every call has, nothing is left to do.
CHECK_DEADLOCK FALSE
