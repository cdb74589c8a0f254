SPECIFICATION Spec
\* A settled session stops: nothing is left to do.
CHECK_DEADLOCK FALSE
CONSTANTS
  w1 = w1
  w2 = w2
  api1 = api1
  api2 = api2
  nobody = nobody
  NoOne = nobody
  Requester = api1
  N = 4
  ApprovalTtl = FALSE
  MaxRounds = 1
  MaxLapses = 0
  MaxCrashes = 0
  Actor <- TwoThreads
  Worker <- NoWorker
  Inline <- TwoThreads
  Kind <- ReviewedRewriteKind
  Deps <- Chain
  MaxAttempts <- Once
  CanFail <- NoStep
  Delayed <- NoStep
  Verdict <- Gated
  Slow <- Unhurried
PROPERTIES
  DependencyOrder
