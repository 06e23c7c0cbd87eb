SPECIFICATION Spec
CONSTANTS
  a = a
  b = b
  c = c
  d = d
  None = None
  Node <- MCNode
  Plans <- BranchPlans
  MaxGotos = 0
  MaxResumes = 0
  MaxReplans = 0
INVARIANTS
  ForwardPlansNeverDeadlock
\* A run ends: completed, failed, deadlocked, or paused at the bound.
CHECK_DEADLOCK FALSE
