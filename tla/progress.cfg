SPECIFICATION MCSpec
CONSTANTS
  r1 = r1
  r2 = r2
  r3 = r3
  k1 = k1
  k2 = k2
  b1 = b1
  b2 = b2
  none = none
  Request <- Requests
  Key <- Keys
  Backend <- Backends
  KeyOf <- KeyOfs
  Order <- Route
  Ui <- UiBackends
  MaxActive = 1
  QueueTimeout = 1
  CacheTtl = 1
  ChallengeCooldown = 1
  UnavailableCooldown = 1
  MaxTime = 2
\* Calls and clocks are bounded.
CHECK_DEADLOCK FALSE
PROPERTIES
  LaneMoves
  EveryDeliverySettles
  LeasesEnd
  ReturnResumes
  ResponsesEnd
