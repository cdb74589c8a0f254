SPECIFICATION MCSpec
CONSTANTS
  w1 = w1
  o1 = o1
  r1 = r1
  r2 = r2
  r3 = r3
  k1 = k1
  k2 = k2
  k3 = k3
  f1 = f1
  f2 = f2
  j1 = j1
  b1 = b1
  b2 = b2
  c1 = c1
  c2 = c2
  s1 = s1
  p1 = p1
  a1 = a1
  l1 = l1
  l2 = l2
  l3 = l3
  none = none
  Slot <- Slots
  Fp <- Texts
  Job <- Jobs
  NoFp = none
  JobOf <- OneJob
  Reserve = 2
  MaxPointsPerJob = 2
  MaxSegmentsPerJob = 3
  Worker <- Workers
  Observer <- NoObservers
  Request <- Requests
  Nobody = none
  NoRequest = none
  SlotOf <- Keys
  FpOf <- Segment
  Estimate <- Points
  StartBalance = 5
  Overrun = 1
  MaxFaults = 1
  PartitionVerified = TRUE
SYMMETRY Alike
\* Leases and requests are bounded: used up, nothing is left to do.
CHECK_DEADLOCK FALSE
INVARIANTS
  PostedOnce
  ReserveKept
  CapsKept
PROPERTIES
  ImplementsPurchase
