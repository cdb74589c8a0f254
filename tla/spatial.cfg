SPECIFICATION MCSpec
CONSTANTS
  p1 = p1
  p2 = p2
  c1 = c1
  b1 = b1
  s1 = s1
  m1 = m1
  m2 = m2
  t1 = t1
  t2 = t2
  q1 = q1
  q2 = q2
  w1 = w1
  w2 = w2
  w3 = w3
  nobuild = nobuild
  Nobody = nobody
  Proc <- Procs
  Composition <- CompositionKeys
  Build <- BuildKeys
  Scope <- ScopeKeys
  MaxAttempts = 2
  Offered <- OfferedToAny
  MaxLength = 6
  Faults <- AllKinds
  MaxFaults = 2
\* A damaged directory and a settled build stay as they are.
CHECK_DEADLOCK FALSE
INVARIANTS
  AcksKept
  CalledOnce
  SettledMeansSettled
PROPERTIES
  ImplementsReceiptLog
  DirectoryKept
  KeepsReceiptLog
  Concludes
