SPECIFICATION Spec
CONSTANTS
  o1 = o1
  o2 = o2
  o3 = o3
  None = None
  Raises = 3
  Op <- ThreeOps
  MaxRequests = 2
  Parallel = FALSE
  Overlapping = FALSE
  MaxCrashes = 0
SYMMETRY Symmetry
INVARIANTS
  TypeOK
  OpenIsListed
  DecidedOnce
  AuditKeptUntilEnd
  LimitKept
\* Requests and operators' calls are finitely many: then the system rests.
CHECK_DEADLOCK FALSE
