SPECIFICATION MCSpec
CONSTANTS
  r1 = r1
  r2 = r2
  c1 = c1
  c2 = c2
  w1 = w1
  w2 = w2
  w3 = w3
  b1 = b1
  b2 = b2
  NoWorker = noworker
  NoResponse = noresponse
  Response <- Responses
  Caller <- Callers
  Worker <- Workers
  Timeout = 2
  MaxTime = 3
  MaxRestarts = 1
  Outages = TRUE
SYMMETRY AnyThread
\* The clock is bounded: polls of a response that ended change nothing.
CHECK_DEADLOCK FALSE
INVARIANTS
  SlotsAccounted
PROPERTIES
  DeadlineKept
  CooldownKept
