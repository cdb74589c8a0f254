SPECIFICATION Spec
\* A settled session stops: nothing is left to do.
CHECK_DEADLOCK FALSE
CONSTANTS
  w1 = w1
  w2 = w2
  api1 = api1
  api2 = api2
  nobody = nobody
  NoOne = nobody
  Requester = api1
  N = 6
  ApprovalTtl = TRUE
  MaxRounds = 1
  MaxLapses = 1
  MaxCrashes = 1
  Actor <- MixedCast
  Worker <- OneWorker
  Inline <- OneThread
  Kind <- LongestKind
  Deps <- LongestDeps
  MaxAttempts <- RetryTarget
  CanFail <- TargetStep
  Delayed <- TargetStep
  Verdict <- Restrained
  Slow <- Unhurried
INVARIANTS
  ExclusiveExecution
  AttemptsAccounted
