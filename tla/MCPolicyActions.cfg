SPECIFICATION Spec
CONSTANTS
  Length = 2
  None = None
  ask = ask
  redraft = redraft
  back = back
  halt = halt
  guard1 = guard1
  guard2 = guard2
  begin = begin
  question = question
  again = again
  rejected = rejected
  redo = redo
  jump = jump
  wait = wait
  replan = replan
  recheck = recheck
  tell = tell
  Policy <- MCPolicy
  Action <- MCAction
  Trigger <- MCTrigger
  First <- MCFirst
  Detail <- MCDetail
  Owner <- MCOwner
  Allowed <- MCAllowed
  MaxRetries = 1
  HitlLimit = 3
  MaxResumes = 3
  MaxReplans = 1
INVARIANTS
  TypeOK
  GotoBounded
  NoDirectiveForgotten
  RepeatsAreInterruptions
PROPERTY
  RetriesKept
CHECK_DEADLOCK FALSE
