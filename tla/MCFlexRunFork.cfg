SPECIFICATION Spec
CONSTANTS
  q1 = q1
  q2 = q2
  q3 = q3
  r1 = r1
  r2 = r2
  r3 = r3
  None = None
  Request <- Three
  Run <- TwoRuns
  GoalLimit = 1
  HasThread = FALSE
  Overlapping = TRUE
  MaxVersion = 2
  MaxCrashes = 0
SYMMETRY Symmetry
INVARIANTS
  ResumeStaysOnRun
\* Requests are finitely many: when all have ended, the system rests.
CHECK_DEADLOCK FALSE
