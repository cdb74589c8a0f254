SPECIFICATION Spec
CONSTANTS
  c1 = c1
  c2 = c2
  nobody = nobody
  N = 2
  Actor <- MCActor
  NoOne = nobody
  Reported <- MCReported
  Statuses <- MCStatuses
  MaxGrants = 2
SYMMETRY ClientSymmetry
INVARIANTS
  TypeOK
  LeaseAccounting
  GrantsCounted
PROPERTIES
  ImplementsLock
