SPECIFICATION MCSpec
CONSTANTS
  d3 = d3
  e1 = e1
  e2 = e2
  w1 = w1
  k1 = k1
  g1 = g1
  g2 = g2
  m1 = m1
  m2 = m2
  none = none
  Call <- Calls
  NoRow = none
  Key <- Keys
  NoKey = none
  KeyOf <- KeyOfCall
  Direct <- SendsItself
  Drained <- Calls
  Scheduler <- Schedulers
  MaxAttempts = 2
  MaxSends = 2
  Limit = 3
  MaxFaults = 1
  MaxMarks = 1
  MaxDeferrals = 0
SYMMETRY Alike
VIEW Distinct
\* The clock of EmailGuard and the calls of DeliveryOutbox are bounded.
CHECK_DEADLOCK FALSE
INVARIANTS
  RepeatsExplained
  RetriesLimited
  WindowBudget
  ClearMeansFree
