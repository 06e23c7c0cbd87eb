SPECIFICATION Spec
CONSTANTS
  o1 = o1
  o2 = o2
  o3 = o3
  None = None
  Raises = 2
  Op <- TwoOps
  MaxRequests = 1
  Parallel = TRUE
  Overlapping = TRUE
  MaxCrashes = 1
SYMMETRY Symmetry
INVARIANTS
  SnapshotBehind
PROPERTIES
  KeepsRequests
\* Requests and operators' calls are finitely many: then the system rests.
CHECK_DEADLOCK FALSE
