SPECIFICATION Spec
CONSTANTS
  q1 = q1
  q2 = q2
  q3 = q3
  r1 = r1
  r2 = r2
  r3 = r3
  None = None
  Request <- Three
  Run <- ThreeRuns
  GoalLimit = 1
  HasThread = TRUE
  Overlapping = FALSE
  MaxVersion = 3
  MaxCrashes = 1
SYMMETRY Symmetry
INVARIANTS
  TypeOK
  AwaitingIsResumable
  OutputDecides
  RunningIsDriven
PROPERTIES
  VersionGrows
  KeepsLifecycle
\* Requests are finitely many: when all have ended, the system rests.
CHECK_DEADLOCK FALSE
