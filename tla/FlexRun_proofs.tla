--------------------------- MODULE FlexRun_proofs ---------------------------
(* Type correctness of FlexRun and, whatever clients do, that a run without  *)
(* a request behind it is one whose resume failed.                           *)
EXTENDS FlexRun, TLAPS

\* A call has missed its goal no more often than allowed, until it ends for that.
WithinLimit ==
  \A q \in Request : pc[q] \notin {"exceeded", "ended"} => tries[q] <= GoalLimit

\* What request q drives at each point of its call.
LocatedAt(q) ==
  /\ pc[q] \in {"idle", "queued"} => run[q] = None
  /\ Active(q) /\ pc[q] # "queued" => run[q] \in Run
  /\ pc[q] = "resuming" => resumed[q]

\* A run that request q drives is not left pending or running behind its back.
Accounts(q) ==
  run[q] \in Run /\ status[run[q]] \in {"pending", "running"} => Active(q) \/ resumed[q]

TypeInv == TypeOK /\ WithinLimit

DrivenInv ==
  /\ TypeInv
  /\ \A q \in Request : LocatedAt(q)
  /\ RunningIsDriven

USE DEF Lifecycle!Status, Lifecycle!Awaiting, Lifecycle!Terminal, Awaiting, Terminal,
        Versions, Resting, Kinds

-----------------------------------------------------------------------------
LEMMA InitTypeInv == Init => TypeInv
BY LimitsAssumption DEF Init, TypeInv, TypeOK, WithinLimit

LEMMA SetStatusType ==
  ASSUME TypeOK, NEW q \in Request, NEW s \in Lifecycle!Status, SetStatus(q, s)
  PROVE  status' \in [Run -> Lifecycle!Status]
BY DEF TypeOK, SetStatus

LEMMA StoreType ==
  ASSUME TypeOK, NEW q \in Request, NEW v \in Versions,
         NEW what \in {"plan", "pause", "final"}, Store(q, v, what)
  PROVE  /\ version' \in [Run -> 0..MaxVersion]
         /\ snapshot' \in [Run -> [Versions -> {"none", "plan", "pause", "final"}]]
<1>1. version' \in [Run -> 0..MaxVersion]
  <2>1. v \in 0..MaxVersion
    BY LimitsAssumption
  <2>2. version \in [Run -> 0..MaxVersion]
    BY DEF TypeOK
  <2>3. version' = [version EXCEPT ![run[q]] = v]
    BY DEF Store
  <2> QED
    BY <2>1, <2>2, <2>3
<1>2. ASSUME NEW r \in Run
      PROVE  snapshot'[r] \in [Versions -> {"none", "plan", "pause", "final"}]
  <2>1. snapshot[r] \in [Versions -> {"none", "plan", "pause", "final"}]
    BY DEF TypeOK
  <2>2. DOMAIN snapshot = Run
    BY DEF TypeOK
  <2>3. snapshot'[r] = IF r = run[q] THEN [snapshot[r] EXCEPT ![v] = what] ELSE snapshot[r]
    BY <2>2, Zenon DEF Store
  <2> QED
    BY <2>1, <2>3
<1>3. snapshot' = [r \in Run |-> snapshot'[r]]
  BY DEF TypeOK, Store
<1> QED
  BY <1>1, <1>2, <1>3

\* A request's step keeps the types and the limit of versions.
LEMMA StepTypeInv ==
  ASSUME TypeInv, NEW q \in Request, Step(q)
  PROVE  TypeInv'
<1> USE LimitsAssumption DEF TypeInv, TypeOK, WithinLimit, Advance, SetStatus, Store, rows, locals
<1>1. CASE Arrive(q)
  BY <1>1 DEF Arrive
<1>2. ASSUME NEW k \in Kinds, NEW r \in Run, Check(q, k, r) PROVE TypeInv'
  BY <1>2 DEF Check
<1>3. ASSUME NEW r \in Run, LoadRun(q, r) PROVE TypeInv'
  BY <1>3 DEF LoadRun, IsAwaiting
<1>4. ASSUME NEW r \in Run, CreateRun(q, r) PROVE TypeInv'
  BY <1>4 DEF CreateRun
<1>5. CASE Reject(q)
  <2>1. status' \in [Run -> Lifecycle!Status]
    BY <1>5, SetStatusType DEF Reject
  <2> QED
    BY <1>5, <2>1 DEF Reject
<1>6. CASE RefuseSubmission(q)
  BY <1>6 DEF RefuseSubmission
<1>7. CASE DeclineTask(q)
  BY <1>7 DEF DeclineTask
<1>8. CASE ReopenTask(q)
  BY <1>8 DEF ReopenTask
<1>9. CASE Continue(q)
  BY <1>9 DEF Continue
<1>10. CASE SavePlan(q)
  <2>1. 1 \in Versions /\ 1 \in 0..MaxVersion
    OBVIOUS
  <2>2. /\ version' \in [Run -> 0..MaxVersion]
        /\ snapshot' \in [Run -> [Versions -> {"none", "plan", "pause", "final"}]]
    BY <1>10, <2>1, StoreType DEF SavePlan
  <2> QED
    BY <1>10, <2>1, <2>2 DEF SavePlan
<1>11. CASE MarkRunning(q)
  BY <1>11 DEF MarkRunning
<1>12. CASE StorePause(q)
  BY <1>12 DEF StorePause
<1>13. CASE WritePause(q)
  BY <1>13 DEF WritePause
<1>14. CASE EndPause(q)
  BY <1>14 DEF EndPause
<1>15. CASE Record(q)
  BY <1>15 DEF Record
<1>16. CASE Finish(q)
  BY <1>16 DEF Finish
<1>17. CASE FailRun(q)
  BY <1>17 DEF FailRun
<1>18. CASE Throw(q)
  <2>1. status' \in [Run -> Lifecycle!Status]
    BY <1>18, SetStatusType DEF Throw
  <2> QED
    BY <1>18, <2>1 DEF Throw
<1>19. CASE RequestReplan(q)
  BY <1>19 DEF RequestReplan
<1>20. CASE MissGoal(q)
  <2>0. tries[q] + 1 \in 0..GoalLimit + 1
    <3>1. pc[q] = "executing"
      BY <1>20 DEF MissGoal
    <3>2. tries[q] \in 0..GoalLimit + 1 /\ tries[q] <= GoalLimit
      BY <3>1
    <3> QED
      BY <3>2
  <2>1. tries' \in [Request -> 0..GoalLimit + 1]
    BY <1>20, <2>0 DEF MissGoal
  <2>2. output' \in [Run -> {"none", "running", "completed", "failed"}]
    BY <1>20 DEF MissGoal
  <2>3. WithinLimit'
    BY <1>20 DEF MissGoal
  <2>4. pc' \in [Request -> Resting \union
              {"queued", "planning", "planned", "resuming", "executing", "replanning",
               "exceeded", "pausing", "paused", "recorded"}]
    BY <1>20 DEF MissGoal
  <2> QED
    BY <1>20, <2>1, <2>2, <2>3, <2>4 DEF MissGoal
<1>21. CASE ExceedGoalLimit(q)
  BY <1>21 DEF ExceedGoalLimit
<1>22. CASE SaveReplan(q)
  <2>1. planned[q] + 1 \in Versions /\ planned[q] + 1 \in 0..MaxVersion
    BY <1>22 DEF SaveReplan
  <2>2. /\ version' \in [Run -> 0..MaxVersion]
        /\ snapshot' \in [Run -> [Versions -> {"none", "plan", "pause", "final"}]]
    BY <1>22, <2>1, StoreType DEF SaveReplan
  <2> QED
    BY <1>22, <2>1, <2>2 DEF SaveReplan
<1> QED
  BY <1>1, <1>2, <1>3, <1>4, <1>5, <1>6, <1>7, <1>8, <1>9, <1>10, <1>11, <1>12, <1>13,
     <1>14, <1>15, <1>16, <1>17, <1>18, <1>19, <1>20, <1>21, <1>22 DEF Step

LEMMA CrashTypeInv ==
  ASSUME TypeInv, Crash
  PROVE  TypeInv'
BY LimitsAssumption DEF TypeInv, TypeOK, WithinLimit, Crash, Active, rows, locals

LEMMA NextTypeInv == TypeInv /\ [Next]_vars => TypeInv'
<1> SUFFICES ASSUME TypeInv, [Next]_vars PROVE TypeInv'
  OBVIOUS
<1>1. CASE Next
  BY <1>1, StepTypeInv, CrashTypeInv DEF Next
<1>2. CASE UNCHANGED vars
  BY <1>2 DEF TypeInv, TypeOK, WithinLimit, vars, rows, locals
<1> QED
  BY <1>1, <1>2

\* The rows and the locals of every request are well typed: in particular no call
\* counts more goal-condition failures than the limit and one
\* (goalConditionReplanAttempts in FlexRunCoordinator.run).
THEOREM RunsTyped == Spec => []TypeOK
<1>1. TypeInv => TypeOK
  BY DEF TypeInv
<1> QED
  BY <1>1, InitTypeInv, NextTypeInv, PTL DEF Spec
-----------------------------------------------------------------------------
LEMMA InitDriven == Init => DrivenInv
BY InitTypeInv DEF Init, DrivenInv, LocatedAt, Active, RunningIsDriven

\* A request touches only its own locals and the row of the run it drives.
LEMMA StepFrame ==
  ASSUME TypeInv, NEW q \in Request, Step(q), \A p \in Request : LocatedAt(p)
  PROVE  /\ \A p \in Request \ {q} :
              run'[p] = run[p] /\ pc'[p] = pc[p] /\ resumed'[p] = resumed[p]
         /\ \A r \in Run : r # run'[q] => status'[r] = status[r]
         /\ crashes' = crashes
<1> USE DEF TypeInv, TypeOK, Advance, SetStatus, rows, locals
<1>1. CASE Arrive(q)
  BY <1>1 DEF Arrive
<1>2. CASE \E k \in Kinds, r \in Run : Check(q, k, r)
  BY <1>2 DEF Check
<1>3. CASE \E r \in Run : LoadRun(q, r)
  BY <1>3 DEF LoadRun, IsAwaiting
<1>4. CASE \E r \in Run : CreateRun(q, r)
  BY <1>4 DEF CreateRun
<1>5. CASE Reject(q)
  BY <1>5 DEF Reject
<1>6. CASE RefuseSubmission(q)
  BY <1>6 DEF RefuseSubmission, NeedsSubmission
<1>7. CASE DeclineTask(q)
  BY <1>7 DEF DeclineTask, NeedsSubmission
<1>8. CASE ReopenTask(q)
  BY <1>8 DEF ReopenTask, NeedsSubmission
<1>9. CASE Continue(q)
  BY <1>9 DEF Continue, NeedsSubmission
<1>10. CASE SavePlan(q)
  BY <1>10 DEF SavePlan, Store
<1>11. CASE MarkRunning(q)
  BY <1>11 DEF MarkRunning
<1>12. CASE StorePause(q)
  BY <1>12 DEF StorePause, Store
<1>13. CASE WritePause(q)
  BY <1>13 DEF WritePause
<1>14. CASE EndPause(q)
  BY <1>14 DEF EndPause
<1>15. CASE Record(q)
  BY <1>15 DEF Record, Store
<1>16. CASE Finish(q)
  BY <1>16 DEF Finish
<1>17. CASE FailRun(q)
  BY <1>17 DEF FailRun
<1>18. CASE Throw(q)
  BY <1>18 DEF Throw
<1>19. CASE RequestReplan(q)
  BY <1>19 DEF RequestReplan
<1>20. CASE MissGoal(q)
  BY <1>20 DEF MissGoal
<1>21. CASE ExceedGoalLimit(q)
  BY <1>21 DEF ExceedGoalLimit
<1>22. CASE SaveReplan(q)
  BY <1>22 DEF SaveReplan, Store
<1> QED
  BY <1>1, <1>2, <1>3, <1>4, <1>5, <1>6, <1>7, <1>8, <1>9, <1>10, <1>11, <1>12,
     <1>13, <1>14, <1>15, <1>16, <1>17, <1>18, <1>19, <1>20, <1>21, <1>22 DEF Step

\* After its step a request has a run to answer for, and answers for it.
LEMMA StepSelf ==
  ASSUME TypeInv, NEW q \in Request, Step(q), \A p \in Request : LocatedAt(p)
  PROVE  /\ LocatedAt(q)'
         /\ Accounts(q)'
         /\ run[q] = None \/ (run'[q] = run[q] /\ (resumed[q] => resumed'[q]))
<1> USE NoneAssumption DEF TypeInv, TypeOK, Advance, SetStatus, rows, locals, LocatedAt,
        Accounts, Active
<1>1. CASE Arrive(q)
  BY <1>1 DEF Arrive
<1>2. CASE \E k \in Kinds, r \in Run : Check(q, k, r)
  BY <1>2 DEF Check
<1>3. CASE \E r \in Run : LoadRun(q, r)
  BY <1>3 DEF LoadRun, IsAwaiting
<1>4. CASE \E r \in Run : CreateRun(q, r)
  BY <1>4 DEF CreateRun
<1>5. CASE Reject(q)
  BY <1>5 DEF Reject
<1>6. CASE RefuseSubmission(q)
  BY <1>6 DEF RefuseSubmission, NeedsSubmission
<1>7. CASE DeclineTask(q)
  BY <1>7 DEF DeclineTask, NeedsSubmission
<1>8. CASE ReopenTask(q)
  BY <1>8 DEF ReopenTask, NeedsSubmission
<1>9. CASE Continue(q)
  BY <1>9 DEF Continue, NeedsSubmission
<1>10. CASE SavePlan(q)
  BY <1>10 DEF SavePlan, Store
<1>11. CASE MarkRunning(q)
  BY <1>11 DEF MarkRunning
<1>12. CASE StorePause(q)
  BY <1>12 DEF StorePause, Store
<1>13. CASE WritePause(q)
  BY <1>13 DEF WritePause
<1>14. CASE EndPause(q)
  BY <1>14 DEF EndPause
<1>15. CASE Record(q)
  BY <1>15 DEF Record, Store
<1>16. CASE Finish(q)
  BY <1>16 DEF Finish
<1>17. CASE FailRun(q)
  BY <1>17 DEF FailRun
<1>18. CASE Throw(q)
  BY <1>18 DEF Throw
<1>19. CASE RequestReplan(q)
  BY <1>19 DEF RequestReplan
<1>20. CASE MissGoal(q)
  BY <1>20 DEF MissGoal
<1>21. CASE ExceedGoalLimit(q)
  BY <1>21 DEF ExceedGoalLimit
<1>22. CASE SaveReplan(q)
  BY <1>22 DEF SaveReplan, Store
<1> QED
  BY <1>1, <1>2, <1>3, <1>4, <1>5, <1>6, <1>7, <1>8, <1>9, <1>10, <1>11, <1>12,
     <1>13, <1>14, <1>15, <1>16, <1>17, <1>18, <1>19, <1>20, <1>21, <1>22 DEF Step

\* A request's step leaves every running run with a request that drives it.
LEMMA StepDriven ==
  ASSUME DrivenInv, NEW q \in Request, Step(q)
  PROVE  DrivenInv'
<1> USE DEF DrivenInv
<1>1. TypeInv'
  BY StepTypeInv
<1>2. \A p \in Request : LocatedAt(p)'
  <2> TAKE p \in Request
  <2>1. CASE p = q
    BY <2>1, StepSelf
  <2>2. CASE p # q
    BY <2>2, StepFrame DEF LocatedAt, Active
  <2> QED
    BY <2>1, <2>2
<1>3. RunningIsDriven'
  <2> SUFFICES ASSUME crashes' = 0, NEW r \in Run, status'[r] \in {"pending", "running"}
               PROVE  \E p \in Request : run'[p] = r /\ (Active(p)' \/ resumed'[p])
    BY DEF RunningIsDriven
  <2>1. CASE run'[q] = r
    BY <2>1, StepSelf DEF Accounts
  <2>2. CASE run'[q] # r
    <3>1. status[r] \in {"pending", "running"} /\ crashes = 0
      BY <2>2, StepFrame
    <3>2. PICK p \in Request : run[p] = r /\ (Active(p) \/ resumed[p])
      BY <3>1 DEF RunningIsDriven
    <3>3. p # q
      BY <2>2, <3>2, StepSelf, NoneAssumption
    <3> QED
      BY <3>2, <3>3, StepFrame DEF Active
  <2> QED
    BY <2>1, <2>2
<1> QED
  BY <1>1, <1>2, <1>3

LEMMA NextDriven == DrivenInv /\ [Next]_vars => DrivenInv'
<1> SUFFICES ASSUME DrivenInv, [Next]_vars PROVE DrivenInv'
  OBVIOUS
<1>1. CASE Crash
  <2>1. TypeInv'
    BY <1>1, CrashTypeInv DEF DrivenInv
  <2>2. \A p \in Request : LocatedAt(p)'
    BY <1>1 DEF Crash, DrivenInv, TypeInv, TypeOK, LocatedAt, Active, rows, locals
  <2>3. crashes' # 0
    BY <1>1 DEF Crash, DrivenInv, TypeInv, TypeOK
  <2> QED
    BY <2>1, <2>2, <2>3 DEF DrivenInv, RunningIsDriven
<1>2. CASE \E q \in Request : Step(q)
  BY <1>2, StepDriven
<1>3. CASE UNCHANGED vars
  <2>1. TypeInv'
    BY <1>3, NextTypeInv DEF DrivenInv
  <2> QED
    BY <1>3, <2>1
    DEF DrivenInv, LocatedAt, Active, RunningIsDriven, vars, rows, locals
<1> QED
  BY <1>1, <1>2, <1>3 DEF Next

\* However clients overlap, and with no restart, a run shown as pending or running
\* is being driven, unless a resume of it ended with an error: the initial branch
\* of FlexRunCoordinator.run leaves no run behind.
THEOREM RunningRunsAreDriven == Spec => []RunningIsDriven
<1>1. DrivenInv => RunningIsDriven
  BY DEF DrivenInv
<1> QED
  BY <1>1, InitDriven, NextDriven, PTL DEF Spec
-----------------------------------------------------------------------------
(* What is left of AwaitingIsResumable when requests overlap: the snapshot    *)
(* under a run's version need not be that of its pause, but there is one.     *)

\* A run that awaits an operator has a snapshot under its version: the routes'
\* last check (run.resume, tasks/decline) refuses no run that is shown as
\* awaiting, and a resume finds a plan to go on with.
AwaitingHasPlan ==
  \A r \in Run :
    status[r] \in Awaiting =>
      version[r] \in Versions /\ snapshot[r][version[r]] # "none"

\* Where a request has a plan of the run it drives.
Planned ==
  {"planned", "resuming", "executing", "replanning", "exceeded", "pausing",
   "paused", "recorded"}

HasPlan(q) ==
  pc[q] \in Planned => planned[q] \in Versions /\ version[run[q]] \in Versions

PlanInv ==
  /\ \A r \in Run :
       /\ version[r] \in Versions => snapshot[r][version[r]] # "none"
       /\ status[r] \in Awaiting => version[r] \in Versions
  /\ \A q \in Request : HasPlan(q)

\* Versions are never taken back, and each has its snapshot.
LEMMA PlansStay ==
  ASSUME DrivenInv, PlanInv, NEW q \in Request, Step(q), NEW r \in Run
  PROVE  /\ version[r] \in Versions => version'[r] \in Versions
         /\ version'[r] \in Versions => snapshot'[r][version'[r]] # "none"
<1>1. ASSUME UNCHANGED <<version, snapshot>>
      PROVE  /\ version[r] \in Versions => version'[r] \in Versions
             /\ version'[r] \in Versions => snapshot'[r][version'[r]] # "none"
  BY <1>1 DEF PlanInv
<1>2. ASSUME NEW v \in Versions, NEW what \in {"plan", "pause", "final"},
             Store(q, v, what)
      PROVE  /\ version[r] \in Versions => version'[r] \in Versions
             /\ version'[r] \in Versions => snapshot'[r][version'[r]] # "none"
  <2>1. /\ version \in [Run -> 0..MaxVersion]
        /\ snapshot \in [Run -> [Versions -> {"none", "plan", "pause", "final"}]]
    BY DEF DrivenInv, TypeInv, TypeOK
  <2>2. CASE r = run[q]
    <3>1. version'[r] = v
      BY <1>2, <2>1, <2>2 DEF Store
    <3>2. snapshot'[r] = [snapshot[r] EXCEPT ![v] = what]
      BY <1>2, <2>1, <2>2, Zenon DEF Store
    <3>3. snapshot[r] \in [Versions -> {"none", "plan", "pause", "final"}]
      BY <2>1
    <3>4. snapshot'[r][v] = what
      BY <3>2, <3>3
    <3> QED
      BY <3>1, <3>4
  <2>3. CASE r # run[q]
    <3>1. version'[r] = version[r] /\ snapshot'[r] = snapshot[r]
      BY <1>2, <2>1, <2>3 DEF Store
    <3> QED
      BY <3>1 DEF PlanInv
  <2> QED
    BY <2>2, <2>3
<1>3. CASE SavePlan(q)
  BY <1>2, <1>3, LimitsAssumption DEF SavePlan
<1>4. CASE StorePause(q) \/ Record(q)
  <2>1. planned[q] \in Versions
    BY <1>4 DEF StorePause, Record, PlanInv, HasPlan, Planned
  <2> QED
    BY <1>2, <1>4, <2>1 DEF StorePause, Record
<1>5. CASE SaveReplan(q)
  <2>1. planned[q] + 1 \in Versions
    BY <1>5, LimitsAssumption DEF SaveReplan, DrivenInv, TypeInv, TypeOK
  <2> QED
    BY <1>2, <1>5, <2>1 DEF SaveReplan
<1>6. CASE \/ Arrive(q) \/ (\E k \in Kinds, s \in Run : Check(q, k, s))
           \/ (\E s \in Run : LoadRun(q, s) \/ CreateRun(q, s))
  BY <1>1, <1>6 DEF Arrive, Check, LoadRun, CreateRun, rows
<1>7. CASE \/ Reject(q) \/ RefuseSubmission(q) \/ DeclineTask(q) \/ ReopenTask(q)
           \/ Continue(q) \/ MarkRunning(q)
  BY <1>1, <1>7
     DEF Reject, RefuseSubmission, DeclineTask, ReopenTask, Continue, MarkRunning, rows
<1>8. CASE \/ WritePause(q) \/ EndPause(q) \/ Finish(q) \/ FailRun(q) \/ Throw(q)
           \/ RequestReplan(q) \/ MissGoal(q) \/ ExceedGoalLimit(q)
  BY <1>1, <1>8
     DEF WritePause, EndPause, Finish, FailRun, Throw, RequestReplan, MissGoal,
         ExceedGoalLimit, rows
<1> QED
  BY <1>3, <1>4, <1>5, <1>6, <1>7, <1>8 DEF Step

\* A request makes a run await only when it has a plan of it.
LEMMA AwaitsWithPlan ==
  ASSUME DrivenInv, PlanInv, NEW q \in Request, Step(q), NEW r \in Run,
         status'[r] \in Awaiting
  PROVE  version[r] \in Versions
<1>1. ASSUME status'[r] = status[r] PROVE version[r] \in Versions
  BY <1>1 DEF PlanInv
<1>2. ASSUME pc[q] \in Planned, status' = [status EXCEPT ![run[q]] = status'[run[q]]]
      PROVE  version[r] \in Versions
  <2>1. r = run[q] \/ status'[r] = status[r]
    BY <1>2 DEF DrivenInv, TypeInv, TypeOK
  <2> QED
    BY <1>1, <1>2, <2>1 DEF PlanInv, HasPlan
<1>3. ASSUME NEW s \in Lifecycle!Status \ Awaiting, NEW t,
             status' = [status EXCEPT ![t] = s]
      PROVE  version[r] \in Versions
  <2>1. status'[r] = status[r]
    BY <1>3 DEF DrivenInv, TypeInv, TypeOK
  <2> QED
    BY <1>1, <2>1
<1>4. CASE WritePause(q) \/ EndPause(q) \/ ReopenTask(q)
  <2>1. pc[q] \in Planned
    BY <1>4 DEF WritePause, EndPause, ReopenTask, NeedsSubmission, Planned
  <2>2. \E s \in Awaiting : status' = [status EXCEPT ![run[q]] = s]
    BY <1>4
       DEF WritePause, EndPause, ReopenTask, SetStatus, DrivenInv, TypeInv, TypeOK
  <2>3. status' = [status EXCEPT ![run[q]] = status'[run[q]]]
    BY <2>2 DEF DrivenInv, TypeInv, TypeOK
  <2> QED
    BY <1>2, <2>1, <2>3
<1>5. CASE UNCHANGED status
  BY <1>1, <1>5
<1>6. CASE \/ (\E s \in Run : CreateRun(q, s)) \/ Reject(q) \/ DeclineTask(q)
           \/ Continue(q) \/ MarkRunning(q)
  BY <1>3, <1>6 DEF CreateRun, Reject, DeclineTask, Continue, MarkRunning, SetStatus
<1>7. CASE Record(q) \/ Finish(q) \/ FailRun(q) \/ Throw(q) \/ ExceedGoalLimit(q)
  BY <1>3, <1>5, <1>7 DEF Record, Finish, FailRun, Throw, ExceedGoalLimit, SetStatus
<1>8. CASE \/ Arrive(q) \/ (\E k \in Kinds, s \in Run : Check(q, k, s))
           \/ (\E s \in Run : LoadRun(q, s)) \/ RefuseSubmission(q)
           \/ SavePlan(q) \/ StorePause(q) \/ RequestReplan(q) \/ MissGoal(q)
           \/ SaveReplan(q)
  BY <1>5, <1>8
     DEF Arrive, Check, LoadRun, RefuseSubmission, SavePlan, StorePause,
         RequestReplan, MissGoal, SaveReplan, rows
<1> QED
  BY <1>4, <1>6, <1>7, <1>8 DEF Step

\* A request with a plan keeps it; one that gets to where it needs one has it.
LEMMA RequestHasPlan ==
  ASSUME DrivenInv, PlanInv, NEW q \in Request, Step(q), NEW p \in Request,
         pc'[p] \in Planned
  PROVE  planned'[p] \in Versions /\ run'[p] \in Run /\ version'[run'[p]] \in Versions
<1> USE DEF Planned
<1>1. ASSUME pc[p] \in Planned, planned'[p] = planned[p], run'[p] = run[p]
      PROVE  planned'[p] \in Versions /\ run'[p] \in Run /\ version'[run'[p]] \in Versions
  <2>1. run[p] \in Run
    BY <1>1 DEF DrivenInv, LocatedAt, Active
  <2> QED
    BY <1>1, <2>1, PlansStay DEF PlanInv, HasPlan
<1>2. pc \in [Request -> Resting \union
               {"queued", "planning", "planned", "resuming", "executing", "replanning",
                "exceeded", "pausing", "paused", "recorded"}]
      /\ planned \in [Request -> 0..MaxVersion] /\ run \in [Request -> Run \union {None}]
  BY DEF DrivenInv, TypeInv, TypeOK
<1>3. CASE p = q
  <2>1. CASE SavePlan(q)
    <3>1. run[q] \in Run /\ run' = run
      BY <2>1 DEF SavePlan, DrivenInv, LocatedAt, Active
    <3>2. planned'[q] = 1 /\ version'[run[q]] = 1
      BY <1>2, <2>1, <3>1 DEF SavePlan, Store, DrivenInv, TypeInv, TypeOK
    <3> QED
      BY <1>3, <3>1, <3>2, LimitsAssumption
  <2>2. CASE SaveReplan(q)
    <3>1. run[q] \in Run /\ run' = run /\ pc[q] \in Planned
      BY <2>2 DEF SaveReplan, DrivenInv, LocatedAt, Active
    <3>2. planned'[q] = planned[q] + 1 /\ planned[q] < MaxVersion
      BY <1>2, <2>2 DEF SaveReplan
    <3>3. planned'[q] \in Versions
      BY <1>2, <3>2, LimitsAssumption
    <3>4. version[run[q]] \in Versions
      BY <3>1 DEF PlanInv, HasPlan
    <3> QED
      BY <1>3, <3>1, <3>3, <3>4, PlansStay
  <2>3. ASSUME NEW r \in Run, LoadRun(q, r)
        PROVE  planned'[p] \in Versions /\ run'[p] \in Run /\ version'[run'[p]] \in Versions
    <3>1. planned'[q] = version[r] /\ run'[q] = r
      BY <1>2, <2>3 DEF LoadRun
    <3>2. version[r] \in Versions
      BY <2>3 DEF LoadRun, IsAwaiting, PlanInv
    <3> QED
      BY <1>3, <3>1, <3>2, PlansStay
  <2>4. CASE \/ Arrive(q) \/ (\E k \in Kinds, s \in Run : Check(q, k, s))
             \/ (\E s \in Run : CreateRun(q, s))
             \/ Reject(q) \/ RefuseSubmission(q) \/ DeclineTask(q) \/ ReopenTask(q)
             \/ EndPause(q) \/ Finish(q) \/ FailRun(q) \/ Throw(q) \/ ExceedGoalLimit(q)
    <3>1. pc'[q] \in {"queued", "planning", "ended"}
      BY <1>2, <2>4
         DEF Arrive, Check, CreateRun, Reject, RefuseSubmission, DeclineTask, ReopenTask,
             EndPause, Finish, FailRun, Throw, ExceedGoalLimit, Advance
    <3> QED
      BY <1>3, <3>1
  <2>5. CASE \/ Continue(q) \/ MarkRunning(q) \/ StorePause(q) \/ WritePause(q)
             \/ Record(q) \/ RequestReplan(q) \/ MissGoal(q)
    <3>1. pc[q] \in Planned /\ planned'[q] = planned[q] /\ run'[q] = run[q]
      BY <2>5 DEF Continue, MarkRunning, StorePause, WritePause, Record, RequestReplan,
                  MissGoal, locals
    <3> QED
      BY <1>1, <1>3, <3>1
  <2> QED
    BY <2>1, <2>2, <2>3, <2>4, <2>5 DEF Step
<1>4. CASE p # q
  <2>1. pc'[p] = pc[p]
    BY <1>2, <1>4
       DEF Step, Arrive, Check, LoadRun, CreateRun, Reject, RefuseSubmission, DeclineTask,
           ReopenTask, Continue, SavePlan, MarkRunning, StorePause, WritePause, EndPause,
           Record, Finish, FailRun, Throw, RequestReplan, MissGoal, ExceedGoalLimit,
           SaveReplan, Advance
  <2>2. planned'[p] = planned[p] /\ run'[p] = run[p]
    BY <1>2, <1>4
       DEF Step, Arrive, Check, LoadRun, CreateRun, Reject, RefuseSubmission, DeclineTask,
           ReopenTask, Continue, SavePlan, MarkRunning, StorePause, WritePause, EndPause,
           Record, Finish, FailRun, Throw, RequestReplan, MissGoal, ExceedGoalLimit,
           SaveReplan, locals
  <2> QED
    BY <1>1, <2>1, <2>2
<1> QED
  BY <1>3, <1>4

LEMMA PlanNext == DrivenInv /\ PlanInv /\ [Next]_vars => PlanInv'
<1> SUFFICES ASSUME DrivenInv, PlanInv, [Next]_vars PROVE PlanInv'
  OBVIOUS
<1>1. ASSUME NEW q \in Request, Step(q) PROVE PlanInv'
  <2>1. \A r \in Run :
          /\ version'[r] \in Versions => snapshot'[r][version'[r]] # "none"
          /\ status'[r] \in Awaiting => version'[r] \in Versions
    BY <1>1, PlansStay, AwaitsWithPlan
  <2>2. \A p \in Request : HasPlan(p)'
    BY <1>1, RequestHasPlan DEF HasPlan
  <2> QED
    BY <2>1, <2>2 DEF PlanInv
<1>2. CASE Crash
  BY <1>2 DEF Crash, PlanInv, HasPlan, Planned, Active, rows, locals, DrivenInv, TypeInv,
              TypeOK
<1>3. CASE UNCHANGED vars
  BY <1>3 DEF vars, rows, locals, PlanInv, HasPlan
<1> QED
  BY <1>1, <1>2, <1>3 DEF Next

\* However requests overlap and whenever the server restarts, an awaiting run
\* passes the routes' snapshot check.
THEOREM AwaitingRunsHavePlans == Spec => []AwaitingHasPlan
<1>1. Init => PlanInv
  <2> SUFFICES ASSUME Init PROVE PlanInv
    OBVIOUS
  <2>1. \A r \in Run : version[r] = 0 /\ status[r] = "absent"
    BY DEF Init
  <2>2. \A q \in Request : pc[q] = "idle"
    BY DEF Init
  <2> QED
    BY <2>1, <2>2 DEF PlanInv, HasPlan, Planned
<1>2. PlanInv => AwaitingHasPlan
  BY DEF PlanInv, AwaitingHasPlan
<1> QED
  BY <1>1, <1>2, InitDriven, NextDriven, PlanNext, PTL DEF Spec
-----------------------------------------------------------------------------
(* Clients that wait for the response: one request at a time concerns a run,  *)
(* so that what a request has loaded of its run stays true until it writes.   *)

Concerns(q) == {asked[q], run[q]} \ {None}

Apart ==
  \A p, q \in Request :
    p # q /\ Active(p) /\ Active(q) => ~HasThread /\ Concerns(p) \intersect Concerns(q) = {}

\* What each request knows of the runs it concerns.
Arrived(q) ==
  /\ pc[q] = "idle" => asked[q] = None
  /\ Active(q) => \A r \in Concerns(q) : status[r] # "absent"

\* The row of its run, at each point of a call.
Follows(q) ==
  LET r == run[q] IN
    /\ pc[q] = "queued" /\ asked[q] \in Run => status[asked[q]] \in Awaiting
    /\ pc[q] = "planning" => version[r] = 0
    /\ pc[q] \in {"planning", "planned"} => status[r] = "pending"
    /\ pc[q] \in {"resuming", "paused"} => status[r] = waits[q]
    /\ pc[q] \in {"executing", "replanning", "exceeded", "pausing"} => status[r] = "running"
    /\ pc[q] = "recorded" => status[r] = "completed"
    /\ Active(q) /\ pc[q] \notin {"queued", "planning", "recorded"} =>
         version[r] \in Versions /\ planned[q] = version[r]
    /\ pc[q] = "pausing" => snapshot[r][version[r]] = "pause"

\* The rows of a run agree with each other.
Agree(r) ==
  /\ status[r] = "absent" => version[r] = 0
  /\ status[r] \in Awaiting => version[r] \in Versions /\ snapshot[r][version[r]] = "pause"
  /\ output[r] \in {"completed", "failed"} => status[r] = output[r]

SerialInv ==
  /\ TypeInv
  /\ \A q \in Request : LocatedAt(q) /\ Arrived(q) /\ Follows(q)
  /\ \A r \in Run : Agree(r)
  /\ Apart

LEMMA InitSerial == Init => SerialInv
BY InitTypeInv DEF Init, SerialInv, LocatedAt, Arrived, Follows, Agree, Apart, Active

\* A request touches only the row of the run it drives.
LEMMA RowsFrame ==
  ASSUME TypeInv, NEW q \in Request, Step(q), \A p \in Request : LocatedAt(p)
  PROVE  /\ \A p \in Request \ {q} :
              asked'[p] = asked[p] /\ waits'[p] = waits[p] /\ planned'[p] = planned[p]
         /\ \A r \in Run : r # run'[q] =>
              version'[r] = version[r] /\ snapshot'[r] = snapshot[r] /\ output'[r] = output[r]
<1> USE DEF TypeInv, TypeOK, rows, locals
<1>1. CASE \/ Arrive(q) \/ RefuseSubmission(q) \/ RequestReplan(q)
           \/ \E k \in Kinds, r \in Run : Check(q, k, r)
           \/ \E r \in Run : LoadRun(q, r)
  BY <1>1 DEF Arrive, RefuseSubmission, RequestReplan, Check, LoadRun
<1>2. CASE \/ Reject(q) \/ DeclineTask(q) \/ ReopenTask(q) \/ Continue(q) \/ MarkRunning(q)
           \/ WritePause(q) \/ EndPause(q) \/ Finish(q) \/ FailRun(q) \/ Throw(q)
           \/ \E r \in Run : CreateRun(q, r)
  BY <1>2 DEF Reject, DeclineTask, ReopenTask, Continue, MarkRunning, WritePause, EndPause,
              Finish, FailRun, Throw, CreateRun
<1>3. CASE SavePlan(q) \/ StorePause(q) \/ Record(q) \/ SaveReplan(q)
  BY <1>3 DEF SavePlan, StorePause, Record, SaveReplan, Store
<1>4. CASE MissGoal(q) \/ ExceedGoalLimit(q)
  BY <1>4 DEF MissGoal, ExceedGoalLimit
<1> QED
  BY <1>1, <1>2, <1>3, <1>4 DEF Step

Moved(r) ==
  /\ status'[r] = status[r] \/ status'[r] \in Lifecycle!Allowed[status[r]]
  /\ version'[r] >= version[r]

\* The moves of the abstract life cycle, as a table.
LEMMA AllowedMoves ==
  /\ "pending" \in Lifecycle!Allowed["absent"]
  /\ Lifecycle!Allowed["pending"] = {"running", "failed", "cancelled"}
  /\ Lifecycle!Allowed["running"] = Awaiting \union Terminal
  /\ \A s \in Awaiting : Lifecycle!Allowed[s] = {"running", "completed", "failed"}
  /\ \A s \in Terminal : Lifecycle!Allowed[s] = {}
BY DEF Lifecycle!Allowed

\* The values of one request and of its run.
LEMMA Values ==
  ASSUME TypeInv, NEW q \in Request
  PROVE  /\ waits[q] \in Awaiting /\ planned[q] \in 0..MaxVersion
         /\ run[q] \in Run => /\ status[run[q]] \in Lifecycle!Status
                              /\ version[run[q]] \in 0..MaxVersion
BY DEF TypeInv, TypeOK

\* What is to be shown of a request that follows its run.
Serves(q) ==
  /\ \A r \in Run : r = run'[q] => Agree(r)' /\ Moved(r)
  /\ Arrived(q)' /\ Follows(q)'

\* The call goes on where the status it leaves behind says it is.
GoesOn(q, s, label) ==
  \/ label = "ended"
  \/ label = "executing" /\ s = "running" /\ pc[q] \in {"planned", "resuming"}
  \/ label = "paused" /\ s = waits[q] /\ pc[q] = "pausing"
  \/ label = "replanning" /\ s = status[run[q]] /\ pc[q] = "executing"

\* A request that writes at most the status of its run.
LEMMA StatusStep ==
  ASSUME SerialInv, NEW q \in Request, Active(q), pc[q] # "queued", NEW s, NEW label,
         SetStatus(q, s), Advance(q, label), UNCHANGED <<version, snapshot, output, locals>>,
         s = status[run[q]] \/ s \in Lifecycle!Allowed[status[run[q]]],
         s \in Awaiting => s = status[run[q]] \/ pc[q] = "pausing",
         GoesOn(q, s, label)
  PROVE  Serves(q)
<1>1. /\ TypeInv /\ LocatedAt(q) /\ Arrived(q) /\ Follows(q) /\ run[q] \in Run
      /\ Agree(run[q])
  BY DEF SerialInv, LocatedAt
<1>2. /\ pc'[q] = label /\ status'[run[q]] = s
      /\ asked' = asked /\ run' = run /\ waits' = waits /\ planned' = planned
      /\ version' = version /\ snapshot' = snapshot /\ output' = output
  BY <1>1 DEF TypeInv, TypeOK, SetStatus, Advance, locals
<1>3. /\ waits[q] \in Awaiting /\ planned[q] \in 0..MaxVersion
      /\ status[run[q]] \in Lifecycle!Status /\ version[run[q]] \in 0..MaxVersion
  BY <1>1, Values
<1>4. s = status[run[q]] \/ (s # "absent" /\ status[run[q]] \notin Terminal)
  BY <1>3, AllowedMoves
<1>5. Agree(run[q])'
  BY <1>1, <1>2, <1>4 DEF Agree, Follows, Active
<1>6. Moved(run[q])
  BY <1>2, <1>3 DEF Moved
<1>7. Arrived(q)'
  <2>1. asked[q] \in Run \union {None} /\ \A r \in Run \ {run[q]} : status'[r] = status[r]
    BY <1>1 DEF TypeInv, TypeOK, SetStatus
  <2> QED
    BY <1>1, <1>2, <1>4, <2>1 DEF Arrived, Active, Concerns, GoesOn
<1>8. Follows(q)'
  BY <1>1, <1>2, <1>3 DEF Follows, Active, GoesOn
<1> QED BY <1>2, <1>5, <1>6, <1>7, <1>8 DEF Serves

\* A request that serves its run, whatever its step.
LEMMA SerialSelf ==
  ASSUME SerialInv, NEW q \in Request, Step(q), ~Overlapping
  PROVE  Serves(q)
<1>1. /\ TypeInv /\ LocatedAt(q) /\ Arrived(q) /\ Follows(q)
      /\ \A r \in Run : Agree(r)
  BY DEF SerialInv
<1>2. /\ waits[q] \in Awaiting /\ planned[q] \in 0..MaxVersion
      /\ run[q] \in Run => /\ status[run[q]] \in Lifecycle!Status
                           /\ version[run[q]] \in 0..MaxVersion
  BY <1>1, Values
<1>3. ASSUME UNCHANGED status PROVE SetStatus(q, status[run[q]])
  BY <1>1, <1>3 DEF SetStatus, TypeInv, TypeOK
<1>4. CASE \/ Reject(q) \/ RefuseSubmission(q) \/ DeclineTask(q) \/ ReopenTask(q)
           \/ Continue(q) \/ MarkRunning(q) \/ WritePause(q) \/ EndPause(q) \/ Finish(q)
           \/ FailRun(q) \/ Throw(q) \/ RequestReplan(q)
  <2>1. /\ Active(q) /\ pc[q] # "queued" /\ run[q] \in Run
        /\ UNCHANGED <<version, snapshot, output, locals>>
    BY <1>1, <1>4
       DEF Reject, RefuseSubmission, DeclineTask, ReopenTask, NeedsSubmission, Continue,
           MarkRunning, WritePause, EndPause, Finish, FailRun, Throw, RequestReplan, Active,
           LocatedAt, rows
  <2> USE <1>1, <1>2, <2>1, AllowedMoves, StatusStep DEF GoesOn, Follows
  <2>2. CASE Reject(q)
    BY <2>2 DEF Reject
  <2>3. CASE RefuseSubmission(q) \/ RequestReplan(q)
    BY <1>3, <2>3 DEF RefuseSubmission, RequestReplan, rows
  <2>4. CASE DeclineTask(q) \/ ReopenTask(q)
    BY <2>4 DEF DeclineTask, ReopenTask, NeedsSubmission
  <2>5. CASE Continue(q) \/ MarkRunning(q)
    BY <2>5 DEF Continue, MarkRunning
  <2>6. CASE WritePause(q) \/ EndPause(q)
    BY <2>6 DEF WritePause, EndPause
  <2>7. CASE Finish(q) \/ FailRun(q)
    BY <1>3, <2>7 DEF Finish, FailRun
  <2>8. CASE Throw(q)
    BY <1>3, <2>8 DEF Throw
  <2> QED
    BY <1>4, <2>2, <2>3, <2>4, <2>5, <2>6, <2>7, <2>8
<1>5. ASSUME \/ Arrive(q) \/ \E k \in Kinds, r \in Run : Check(q, k, r)
             \/ \E r \in Run : LoadRun(q, r)
      PROVE  Serves(q)
  <2>1. /\ UNCHANGED rows
        /\ pc[q] \in {"idle", "queued"} /\ run[q] = None
    BY <1>1, <1>5 DEF Arrive, Check, LoadRun, LocatedAt
  <2>2. CASE Arrive(q)
    <3>1. pc'[q] = "queued" /\ asked' = asked /\ run' = run /\ asked[q] = None
      BY <1>1, <2>2 DEF Arrive, Arrived, Advance, locals, TypeInv, TypeOK
    <3> QED
      BY <1>1, <2>1, <3>1, NoneAssumption
         DEF Serves, Arrived, Follows, Active, Concerns, rows
  <2>3. ASSUME NEW k \in Kinds, NEW r \in Run, Check(q, k, r) PROVE Serves(q)
    <3>1. pc'[q] = "queued" /\ asked'[q] = r /\ run' = run /\ status[r] \in Awaiting
      BY <1>1, <2>3 DEF Check, Advance, TypeInv, TypeOK
    <3> QED
      BY <1>1, <2>1, <3>1, NoneAssumption
         DEF Serves, Arrived, Follows, Active, Concerns, rows
  <2>4. ASSUME NEW r \in Run, LoadRun(q, r) PROVE Serves(q)
    <3>1. /\ pc'[q] = "resuming" /\ asked' = asked /\ run'[q] = r /\ waits'[q] = status[r]
          /\ planned'[q] = version[r] /\ status[r] \in Awaiting /\ pc[q] = "queued"
      BY <1>1, <2>4 DEF LoadRun, Advance, IsAwaiting, TypeInv, TypeOK
    <3>2. version[r] \in 0..MaxVersion
      BY <1>1 DEF TypeInv, TypeOK
    <3> QED
      BY <1>1, <2>1, <3>1, <3>2, NoneAssumption
         DEF Serves, Arrived, Follows, Agree, Moved, Active, Concerns, rows
  <2> QED BY <1>5, <2>2, <2>3, <2>4
<1>6. ASSUME NEW r \in Run, CreateRun(q, r) PROVE Serves(q)
  <2>1. /\ pc'[q] = "planning" /\ asked' = asked /\ run'[q] = r
        /\ status' = [status EXCEPT ![r] = "pending"] /\ status[r] = "absent"
        /\ UNCHANGED <<version, snapshot, output>>
        /\ pc[q] = "queued" /\ run[q] = None
    BY <1>1, <1>6 DEF CreateRun, Advance, LocatedAt, TypeInv, TypeOK
  <2>2. /\ status'[r] = "pending" /\ \A t \in Run \ {r} : status'[t] = status[t]
        /\ asked[q] \in Run \union {None} /\ version[r] \in 0..MaxVersion
    BY <1>1, <2>1 DEF TypeInv, TypeOK
  <2> QED
    BY <1>1, <2>1, <2>2, AllowedMoves, NoneAssumption
       DEF Serves, Arrived, Follows, Agree, Moved, Active, Concerns
<1>7. CASE SavePlan(q) \/ StorePause(q) \/ Record(q) \/ SaveReplan(q)
  <2>1. /\ Active(q) /\ pc[q] # "queued" /\ run[q] \in Run /\ asked' = asked /\ run' = run
        /\ asked[q] \in Run \union {None}
    BY <1>1, <1>7
       DEF SavePlan, StorePause, Record, SaveReplan, Active, LocatedAt, locals, TypeInv, TypeOK
  <2>2. ASSUME NEW v \in Versions, NEW what, Store(q, v, what)
        PROVE  version'[run[q]] = v /\ snapshot'[run[q]][v] = what
    <3>1. snapshot[run[q]] \in [Versions -> {"none", "plan", "pause", "final"}]
      BY <1>1, <2>1 DEF TypeInv, TypeOK
    <3>2. snapshot'[run[q]] = [snapshot[run[q]] EXCEPT ![v] = what]
      BY <1>1, <2>1, <2>2, Zenon DEF TypeInv, TypeOK, Store
    <3>3. version'[run[q]] = v
      BY <1>1, <2>1, <2>2 DEF TypeInv, TypeOK, Store
    <3> QED BY <3>1, <3>2, <3>3
  <2>3. CASE SavePlan(q)
    <3>1. 1 \in Versions
      BY LimitsAssumption
    <3>2. version'[run[q]] = 1
      BY <2>2, <2>3, <3>1 DEF SavePlan
    <3>3. pc[q] = "planning" /\ pc'[q] = "planned" /\ planned'[q] = 1 /\ UNCHANGED <<status, output>>
      BY <1>1, <2>3 DEF SavePlan, Advance, TypeInv, TypeOK
    <3> QED
      BY <1>1, <1>2, <2>1, <3>1, <3>2, <3>3
         DEF Serves, Arrived, Follows, Agree, Moved, Active, Concerns
  <2>4. CASE StorePause(q)
    <3>1. planned[q] \in Versions /\ planned[q] = version[run[q]] /\ status[run[q]] = "running"
      BY <1>1, <2>4 DEF StorePause, Follows, Active
    <3>2. version'[run[q]] = planned[q] /\ snapshot'[run[q]][planned[q]] = "pause"
      BY <2>2, <2>4, <3>1 DEF StorePause
    <3>3. pc'[q] = "pausing" /\ planned' = planned /\ UNCHANGED <<status, output>>
      BY <1>1, <2>4 DEF StorePause, Advance, TypeInv, TypeOK
    <3> QED
      BY <1>1, <2>1, <3>1, <3>2, <3>3
         DEF Serves, Arrived, Follows, Agree, Moved, Active, Concerns
  <2>5. CASE Record(q)
    <3>1. planned[q] \in Versions /\ planned[q] = version[run[q]] /\ status[run[q]] = "running"
      BY <1>1, <2>5 DEF Record, Follows, Active
    <3>2. version'[run[q]] = planned[q]
      BY <2>2, <2>5, <3>1 DEF Record
    <3>3. pc'[q] = "recorded" /\ status'[run[q]] = "completed" /\ output'[run[q]] = "completed"
          /\ \A r \in Run \ {run[q]} : status'[r] = status[r]
      BY <1>1, <2>1, <2>5 DEF Record, Advance, SetStatus, TypeInv, TypeOK
    <3> QED
      BY <1>1, <2>1, <3>1, <3>2, <3>3, AllowedMoves
         DEF Serves, Arrived, Follows, Agree, Moved, Active, Concerns
  <2>6. CASE SaveReplan(q)
    <3>1. planned[q] \in Versions /\ planned[q] = version[run[q]] /\ status[run[q]] = "running"
      BY <1>1, <2>6 DEF SaveReplan, Follows, Active
    <3>2. planned[q] + 1 \in Versions
      BY <2>6, <3>1, LimitsAssumption DEF SaveReplan
    <3>3. version'[run[q]] = planned[q] + 1
      BY <2>2, <2>6, <3>2 DEF SaveReplan
    <3>4. pc'[q] = "executing" /\ planned'[q] = planned[q] + 1 /\ UNCHANGED <<status, output>>
      BY <1>1, <2>6 DEF SaveReplan, Advance, TypeInv, TypeOK
    <3> QED
      BY <1>1, <2>1, <3>1, <3>2, <3>3, <3>4
         DEF Serves, Arrived, Follows, Agree, Moved, Active, Concerns
  <2> QED BY <1>7, <2>3, <2>4, <2>5, <2>6
<1>8. CASE MissGoal(q) \/ ExceedGoalLimit(q)
  <2>1. /\ pc[q] \in {"executing", "exceeded"} /\ run[q] \in Run
        /\ asked' = asked /\ run' = run /\ planned' = planned
        /\ UNCHANGED <<version, snapshot>>
        /\ asked[q] \in Run \union {None}
    BY <1>1, <1>8 DEF MissGoal, ExceedGoalLimit, Active, LocatedAt, locals, TypeInv, TypeOK
  <2>2. CASE MissGoal(q)
    <3>1. pc'[q] \in {"replanning", "exceeded"} /\ output'[run[q]] = "running" /\ status' = status
      BY <1>1, <2>1, <2>2 DEF MissGoal, Advance, TypeInv, TypeOK
    <3> QED
      BY <1>1, <1>2, <2>1, <3>1 DEF Serves, Arrived, Follows, Agree, Moved, Active, Concerns
  <2>3. CASE ExceedGoalLimit(q)
    <3>1. pc'[q] = "ended" /\ output'[run[q]] = "failed" /\ status'[run[q]] = "failed"
          /\ \A r \in Run \ {run[q]} : status'[r] = status[r]
          /\ status[run[q]] = "running"
      BY <1>1, <2>1, <2>3 DEF ExceedGoalLimit, Advance, SetStatus, Follows, TypeInv, TypeOK
    <3> QED
      BY <1>1, <1>2, <2>1, <3>1, AllowedMoves
         DEF Serves, Arrived, Follows, Agree, Moved, Active, Concerns
  <2> QED BY <1>8, <2>2, <2>3
<1> QED
  BY <1>4, <1>5, <1>6, <1>7, <1>8 DEF Step

\* Whatever step request q takes, it stays clear of the runs that other requests concern.
LEMMA KeepsApart ==
  ASSUME SerialInv, NEW q \in Request, Step(q), ~Overlapping,
         NEW p \in Request \ {q}, Active(p)
  PROVE  /\ ~HasThread
         /\ {asked'[q], run'[q]} \intersect Concerns(p) = {}
<1>1. /\ TypeInv /\ LocatedAt(q) /\ Arrived(q) /\ Arrived(p)
      /\ Active(q) => ~HasThread /\ Concerns(q) \intersect Concerns(p) = {}
  BY DEF SerialInv, Apart
<1> USE <1>1, NoneAssumption DEF TypeInv, TypeOK, Concerns, Active
<1>2. CASE Arrive(q)
  BY <1>2 DEF Arrive, MayArrive, Arrived, LocatedAt, locals
<1>3. CASE \E k \in Kinds, r \in Run : Check(q, k, r)
  BY <1>3 DEF Check, MayArrive, LocatedAt
<1>4. CASE \E r \in Run : LoadRun(q, r)
  <2> PICK r \in Run : LoadRun(q, r)
    BY <1>4
  <2>1. /\ Active(q) /\ asked' = asked /\ run'[q] = r
        /\ r = asked[q] \/ r \in InThread
    BY DEF LoadRun
  <2>2. ~HasThread /\ r = asked[q]
    BY <2>1 DEF InThread
  <2> QED BY <2>1, <2>2
<1>5. CASE \E r \in Run : CreateRun(q, r)
  <2> PICK r \in Run : CreateRun(q, r)
    BY <1>5
  <2>1. Active(q) /\ asked' = asked /\ run'[q] = r /\ status[r] = "absent"
    BY DEF CreateRun
  <2>2. r \notin Concerns(p)
    BY <2>1 DEF Arrived
  <2>3. ~HasThread /\ asked[q] \notin Concerns(p)
    BY <2>1
  <2> QED BY <2>1, <2>2, <2>3
<1>6. CASE Active(q) /\ asked' = asked /\ run' = run
  BY <1>6
<1>7. CASE \/ Reject(q) \/ RefuseSubmission(q) \/ DeclineTask(q) \/ ReopenTask(q)
           \/ Continue(q) \/ MarkRunning(q) \/ WritePause(q) \/ EndPause(q) \/ Finish(q)
           \/ FailRun(q) \/ Throw(q) \/ RequestReplan(q)
  BY <1>6, <1>7
     DEF Reject, RefuseSubmission, DeclineTask, ReopenTask, NeedsSubmission, Continue,
         MarkRunning, WritePause, EndPause, Finish, FailRun, Throw, RequestReplan, locals
<1>8. CASE \/ SavePlan(q) \/ StorePause(q) \/ Record(q) \/ SaveReplan(q)
           \/ MissGoal(q) \/ ExceedGoalLimit(q)
  BY <1>6, <1>8 DEF SavePlan, StorePause, Record, SaveReplan, MissGoal, ExceedGoalLimit, locals
<1> QED
  BY <1>2, <1>3, <1>4, <1>5, <1>7, <1>8 DEF Step

\* When clients wait, a request's step keeps every request in its place.
LEMMA StepSerial ==
  ASSUME SerialInv, NEW q \in Request, Step(q), ~Overlapping
  PROVE  SerialInv' /\ \A r \in Run : Moved(r)
<1>1. TypeInv /\ \A p \in Request : LocatedAt(p) /\ Arrived(p) /\ Follows(p)
  BY DEF SerialInv
<1>2. Serves(q)
  BY SerialSelf
<1>3. /\ \A p \in Request \ {q} :
           /\ pc'[p] = pc[p] /\ run'[p] = run[p] /\ resumed'[p] = resumed[p]
           /\ asked'[p] = asked[p] /\ waits'[p] = waits[p] /\ planned'[p] = planned[p]
      /\ \A r \in Run : r # run'[q] =>
           /\ status'[r] = status[r] /\ version'[r] = version[r]
           /\ snapshot'[r] = snapshot[r] /\ output'[r] = output[r]
  BY <1>1, StepFrame, RowsFrame
<1>4. \A r \in Run : Agree(r)' /\ Moved(r)
  <2> TAKE r \in Run
  <2>1. CASE r = run'[q]
    BY <1>2, <2>1 DEF Serves
  <2>2. CASE r # run'[q]
    BY <1>1, <1>3, <2>2 DEF SerialInv, Agree, Moved, TypeInv, TypeOK
  <2> QED BY <2>1, <2>2
<1>5. ASSUME NEW p \in Request PROVE (LocatedAt(p) /\ Arrived(p) /\ Follows(p))'
  <2>1. CASE p = q
    BY <1>1, <1>2, <2>1, StepSelf DEF Serves
  <2>2. CASE p # q
    <3>1. LocatedAt(p)' /\ (pc[p] = "idle" => Arrived(p)')
      BY <1>1, <1>3, <2>2 DEF LocatedAt, Arrived, Active
    <3>2. ASSUME Active(p)
          PROVE  \A r \in Concerns(p) : /\ status'[r] = status[r] /\ version'[r] = version[r]
                                        /\ snapshot'[r] = snapshot[r]
      <4>1. run'[q] \notin Concerns(p)
        BY <2>2, <3>2, KeepsApart
      <4>2. Concerns(p) \subseteq Run
        BY <1>1 DEF Concerns, TypeInv, TypeOK
      <4> QED BY <1>3, <4>1, <4>2
    <3>3. Arrived(p)'
      BY <1>1, <1>3, <2>2, <3>1, <3>2 DEF Arrived, Active, Concerns
    <3>4. Active(p) => {asked[p], run[p]} \intersect Run \subseteq Concerns(p)
      BY NoneAssumption DEF Concerns
    <3>5. Follows(p)'
      BY <1>1, <1>3, <2>2, <3>2, <3>4 DEF Follows, Active, LocatedAt
    <3> QED BY <3>1, <3>3, <3>5
  <2> QED BY <2>1, <2>2
<1>6. Apart'
  <2>1. ASSUME NEW p \in Request \ {q}, Active(p)
        PROVE  ~HasThread /\ Concerns(q)' \intersect Concerns(p) = {}
    BY <2>1, KeepsApart DEF Concerns
  <2>2. \A p \in Request \ {q} : (Active(p)' <=> Active(p)) /\ Concerns(p)' = Concerns(p)
    BY <1>3 DEF Active, Concerns
  <2> QED BY <2>1, <2>2 DEF SerialInv, Apart
<1> QED
  BY <1>1, <1>4, <1>5, <1>6, StepTypeInv DEF SerialInv

\* A restart leaves the rows, and no request that concerns a run.
LEMMA NextSerial ==
  ASSUME SerialInv, [Next]_vars, ~Overlapping
  PROVE  SerialInv' /\ \A r \in Run : Moved(r)
<1>1. CASE \E q \in Request : Step(q)
  BY <1>1, StepSerial
<1>2. CASE Crash \/ UNCHANGED vars
  <2>1. TypeInv /\ \A r \in Run : version[r] \in Nat
    BY DEF SerialInv, TypeInv, TypeOK
  <2>2. TypeInv' /\ UNCHANGED <<rows, locals>>
    BY <1>2, <2>1, CrashTypeInv, NextTypeInv DEF Crash, vars
  <2>3. \A q \in Request : pc'[q] = pc[q] \/ pc'[q] = "ended"
    BY <1>2, <2>1 DEF Crash, vars, TypeInv, TypeOK
  <2>4. \A q \in Request : (LocatedAt(q) /\ Arrived(q) /\ Follows(q))'
    BY <2>2, <2>3 DEF SerialInv, LocatedAt, Arrived, Follows, Active, Concerns, rows, locals
  <2>5. (\A r \in Run : Agree(r)' /\ Moved(r)) /\ Apart'
    BY <2>1, <2>2, <2>3
       DEF SerialInv, Agree, Moved, Apart, Active, Concerns, rows, locals
  <2> QED BY <2>2, <2>4, <2>5 DEF SerialInv
<1> QED
  BY <1>1, <1>2 DEF Next

LEMMA SerialInvariant ==
  ASSUME ~Overlapping
  PROVE  Spec => []SerialInv
<1>1. SerialInv /\ [Next]_vars => SerialInv'
  BY NextSerial
<1> QED BY <1>1, InitSerial, PTL DEF Spec

\* When clients wait for the response before they resume, a run shown as awaiting
\* can be resumed where it stopped: pauseRun stores its state before the status.
THEOREM AwaitingRunsAreResumable ==
  ASSUME ~Overlapping
  PROVE  Spec => []AwaitingIsResumable
<1>1. SerialInv => AwaitingIsResumable
  BY DEF SerialInv, Agree, AwaitingIsResumable
<1> QED BY <1>1, SerialInvariant, PTL

\* For such clients, flex_runs and flex_run_outputs never disagree about how a run
\* ended, however often it was checkpointed and replanned.
THEOREM OutputsDecide ==
  ASSUME ~Overlapping
  PROVE  Spec => []OutputDecides
<1>1. SerialInv => OutputDecides
  BY DEF SerialInv, Agree, OutputDecides
<1> QED BY <1>1, SerialInvariant, PTL

\* For such clients, no write of FlexRunCoordinator.run takes a later plan back.
THEOREM VersionsGrow ==
  ASSUME ~Overlapping
  PROVE  Spec => VersionGrows
<1>1. SerialInv /\ [Next]_vars => [\A r \in Run : version'[r] >= version[r]]_vars
  BY NextSerial DEF Moved
<1> QED BY <1>1, SerialInvariant, PTL DEF Spec, VersionGrows

\* For such clients, the status rows of any number of runs live as RunLifecycle says:
\* the step of a request is a move of one run, or of none.
THEOREM ImplementsRunLifecycle ==
  ASSUME ~Overlapping
  PROVE  Spec => KeepsLifecycle
<1>1. Init => Lifecycle!Init
  BY DEF Init, Lifecycle!Init
<1>2. SerialInv /\ [Next]_vars => [Lifecycle!Next]_status
  <2> SUFFICES ASSUME SerialInv, [Next]_vars PROVE Lifecycle!Next \/ UNCHANGED status
    OBVIOUS
  <2>1. /\ TypeInv /\ TypeInv' /\ \A r \in Run : Moved(r)
        /\ \A q \in Request : LocatedAt(q)
    BY NextSerial DEF SerialInv
  <2>2. /\ status \in [Run -> Lifecycle!Status] /\ status' \in [Run -> Lifecycle!Status]
    BY <2>1 DEF TypeInv, TypeOK
  <2>3. CASE Crash \/ UNCHANGED vars
    BY <2>3 DEF Crash, vars, rows
  <2>4. ASSUME NEW q \in Request, Step(q) PROVE Lifecycle!Next \/ UNCHANGED status
    <3>1. \A r \in Run : r # run'[q] => status'[r] = status[r]
      BY <2>1, <2>4, StepFrame
    <3>2. CASE \E r \in Run : status'[r] # status[r]
      <4> PICK r \in Run : status'[r] # status[r]
        BY <3>2
      <4>1. /\ status' = [status EXCEPT ![r] = status'[r]]
            /\ status'[r] \in Lifecycle!Allowed[status[r]]
        BY <2>1, <2>2, <3>1 DEF Moved
      <4> QED BY <2>2, <4>1 DEF Lifecycle!Next, Lifecycle!Move
    <3>3. CASE \A r \in Run : status'[r] = status[r]
      BY <2>2, <3>3
    <3> QED BY <3>2, <3>3
  <2> QED BY <2>3, <2>4 DEF Next
<1> QED
  BY <1>1, <1>2, SerialInvariant, PTL DEF Spec, KeepsLifecycle, Lifecycle!Spec
=============================================================================
