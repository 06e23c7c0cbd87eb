SPECIFICATION FairSpec
CONSTANTS
  a = a
  b = b
  c = c
  d = d
  None = None
  Node <- MCNode
  Plans <- AllPlans
  MaxGotos = 2
  MaxResumes = 2
  MaxReplans = 1
INVARIANTS
  TypeOK
  FrontierExact
  LocksMatchSelections
  UnselectedNeverRuns
  DoneIsClosed
  DeadlockExplained
PROPERTIES
  ResumeKeepsFrontier
  ExecuteSettles
\* A run ends: completed, failed, deadlocked, or paused at the bound.
CHECK_DEADLOCK FALSE
