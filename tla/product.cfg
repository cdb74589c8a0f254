SPECIFICATION MCSpec
CONSTANTS
  c1 = c1
  c2 = c2
  o1 = o1
  o2 = o2
  t1 = t1
  t2 = t2
  s1 = s1
  s2 = s2
  a1 = a1
  a2 = a2
  a3 = a3
  x = x
  none = none
  Task <- Tasks
  Operator <- Operators
  Nobody = none
  Worker <- Threads
  Step <- Steps
  NoStep = none
  MaxCalls = 4
  MaxRestarts = 0
  OutputsFail = FALSE
SYMMETRY Alike
\* Bounded calls: a client that has made them makes no more.
CHECK_DEADLOCK FALSE
INVARIANTS
  WinnersTold
  DraftKept
  AcceptedKept
PROPERTIES
  PausesKept
