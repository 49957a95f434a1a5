SPECIFICATION PipelineSpec
CONSTANTS
  r1 = r1
  r2 = r2
  Nil = Nil
  Requests = {r1, r2}
  Configs <- SmallConfigs
  Bodies <- SmallBodies
INVARIANTS
  PipelineTypeOK
  NothingLeaks
  OutputsAsConfigured
  DocumentedIsAccepted
  AcceptedIsUsable
  ValidatedIsUsed
  ForwardedAsConfigured
\* Start-up ends: it either serves or has returned an error.
CHECK_DEADLOCK FALSE
