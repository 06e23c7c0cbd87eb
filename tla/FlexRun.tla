------------------------------ MODULE FlexRun ------------------------------
(* FlexRunCoordinator.run and the routes that call it, over the rows that    *)
(* all requests share: flex_runs, flex_plan_snapshots and flex_run_outputs.  *)
(*                                                                           *)
(* Each request is one asynchronous call; its steps lie between two writes   *)
(* to the database, and requests interleave at every step. What the engine   *)
(* does inside one execute() call is PlanExecution; here its outcome is any  *)
(* of those it has. The envelope decides whether the caller gave a thread    *)
(* id, by which run() also finds runs.                                       *)
EXTENDS Integers, FiniteSets

CONSTANTS
  Request,      \* requests to the routes
  Run,          \* run ids
  None,         \* no run
  GoalLimit,    \* FLEX_GOAL_CONDITION_REPLAN_LIMIT
  HasThread,    \* the envelopes carry a common thread id
  Overlapping,  \* clients may resume a run before the last response has ended
  MaxVersion,   \* exploration bound: plan versions of a run
  MaxCrashes    \* exploration bound: restarts of the server

ASSUME NoneAssumption == None \notin Run
ASSUME LimitsAssumption ==
  /\ GoalLimit \in Nat \ {0}
  /\ MaxVersion \in Nat \ {0}
  /\ MaxCrashes \in Nat
ASSUME SwitchesAssumption == HasThread \in BOOLEAN /\ Overlapping \in BOOLEAN

VARIABLES
  status,    \* flex_runs.status
  version,   \* flex_runs.plan_version, 0 before the first plan
  snapshot,  \* flex_plan_snapshots: what was last stored under each version
  output,    \* flex_run_outputs.status
  pc,        \* where each request is
  kind,      \* what each request asks for
  asked,     \* the run a route accepted it for
  run,       \* the run it drives
  resumed,   \* it took the resume branch of run()
  waits,     \* the awaiting status it loaded, later the one it is writing
  planned,   \* the version of its activePlan
  tries,     \* its goalConditionReplanAttempts
  crashes    \* restarts so far

rows == <<status, version, snapshot, output>>
locals == <<kind, asked, run, resumed, waits, planned, tries>>
vars == <<rows, pc, locals, crashes>>

Lifecycle == INSTANCE RunLifecycle

Awaiting == Lifecycle!Awaiting
Terminal == Lifecycle!Terminal
Kinds == {"start", "resume", "submit", "decline"}
Resting == {"idle", "ended"}
Versions == 1..MaxVersion

TypeOK ==
  /\ status \in [Run -> Lifecycle!Status]
  /\ version \in [Run -> 0..MaxVersion]
  /\ snapshot \in [Run -> [Versions -> {"none", "plan", "pause", "final"}]]
  /\ output \in [Run -> {"none", "running", "completed", "failed"}]
  /\ pc \in [Request -> Resting \union
       {"queued", "planning", "planned", "resuming", "executing", "replanning",
        "exceeded", "pausing", "paused", "recorded"}]
  /\ kind \in [Request -> Kinds]
  /\ asked \in [Request -> Run \union {None}]
  /\ run \in [Request -> Run \union {None}]
  /\ resumed \in [Request -> BOOLEAN]
  /\ waits \in [Request -> Awaiting]
  /\ planned \in [Request -> 0..MaxVersion]
  /\ tries \in [Request -> 0..GoalLimit + 1]
  /\ crashes \in 0..MaxCrashes

Init ==
  /\ status = [r \in Run |-> "absent"]
  /\ version = [r \in Run |-> 0]
  /\ snapshot = [r \in Run |-> [v \in Versions |-> "none"]]
  /\ output = [r \in Run |-> "none"]
  /\ pc = [q \in Request |-> "idle"]
  /\ kind = [q \in Request |-> "start"]
  /\ asked = [q \in Request |-> None]
  /\ run = [q \in Request |-> None]
  /\ resumed = [q \in Request |-> FALSE]
  /\ waits = [q \in Request |-> "awaiting_hitl"]
  /\ planned = [q \in Request |-> 0]
  /\ tries = [q \in Request |-> 0]
  /\ crashes = 0

-----------------------------------------------------------------------------
Active(q) == pc[q] \notin Resting

Advance(q, label) == pc' = [pc EXCEPT ![q] = label]

SetStatus(q, s) == status' = [status EXCEPT ![run[q]] = s]

\* savePlanSnapshot: one transaction sets the version and stores the snapshot.
Store(q, v, what) ==
  /\ version' = [version EXCEPT ![run[q]] = v]
  /\ snapshot' = [snapshot EXCEPT ![run[q]] = [@ EXCEPT ![v] = what]]

\* Clients that do not overlap wait for every response that may concern run r.
MayArrive(r) ==
  \/ Overlapping
  \/ \A q \in Request : Active(q) => ~HasThread /\ asked[q] # r /\ run[q] # r

-----------------------------------------------------------------------------
(* The routes.                                                               *)

\* run.stream: no run is named.
Arrive(q) ==
  /\ pc[q] = "idle"
  /\ HasThread => MayArrive(None)
  /\ Advance(q, "queued")
  /\ UNCHANGED <<rows, locals, crashes>>

\* run.resume and tasks/decline: the run must be awaiting, a submission must
\* come with a run awaiting a human, and the snapshot must exist. The request
\* then waits for a slot.
Check(q, k, r) ==
  /\ pc[q] = "idle"
  /\ MayArrive(r)
  /\ k # "start"
  /\ status[r] \in Awaiting
  /\ status[r] = "awaiting_human" => k # "resume"
  /\ version[r] \in Versions /\ snapshot[r][version[r]] # "none"
  /\ kind' = [kind EXCEPT ![q] = k]
  /\ asked' = [asked EXCEPT ![q] = r]
  /\ Advance(q, "queued")
  /\ UNCHANGED <<rows, run, resumed, waits, planned, tries, crashes>>

-----------------------------------------------------------------------------
(* The start of run(): find a run to resume, or create one.                  *)

IsAwaiting(r) == status[r] \in Awaiting

\* The runs findFlexRunByThreadId may return: it takes any one row.
InThread == IF HasThread THEN {r \in Run : status[r] # "absent"} ELSE {}

\* Mutant: the rehydrated plan has the version the planner gives every plan.
LoadRun_PlannersVersion(q, r) ==
  /\ pc[q] = "queued"
  /\ IsAwaiting(r)
  /\ r = asked[q] \/ (r \in InThread /\ ~(asked[q] \in Run /\ IsAwaiting(asked[q])))
  /\ run' = [run EXCEPT ![q] = r]
  /\ resumed' = [resumed EXCEPT ![q] = TRUE]
  /\ waits' = [waits EXCEPT ![q] = status[r]]
  /\ planned' = [planned EXCEPT ![q] = 1]
  /\ Advance(q, "resuming")
  /\ UNCHANGED <<rows, kind, asked, tries, crashes>>

\* The resume candidate is run r.
LoadRun(q, r) ==
  /\ pc[q] = "queued"
  /\ IsAwaiting(r)
  /\ \/ r = asked[q]
     \/ r \in InThread /\ ~(asked[q] \in Run /\ IsAwaiting(asked[q]))
  /\ run' = [run EXCEPT ![q] = r]
  /\ resumed' = [resumed EXCEPT ![q] = TRUE]
  /\ waits' = [waits EXCEPT ![q] = status[r]]
  /\ planned' = [planned EXCEPT ![q] = version[r]]
  /\ Advance(q, "resuming")
  /\ UNCHANGED <<rows, kind, asked, tries, crashes>>

\* There is none: the envelope starts a run of its own.
CreateRun(q, r) ==
  /\ pc[q] = "queued"
  /\ ~(asked[q] \in Run /\ IsAwaiting(asked[q]))
  /\ InThread = {} \/ \E t \in InThread : ~IsAwaiting(t)
  /\ status[r] = "absent"
  /\ status' = [status EXCEPT ![r] = "pending"]
  /\ run' = [run EXCEPT ![q] = r]
  /\ Advance(q, "planning")
  /\ UNCHANGED <<version, snapshot, output, kind, asked, resumed, waits, planned, tries,
                 crashes>>

-----------------------------------------------------------------------------
(* The resume branch, up to its first write.                                 *)

NeedsSubmission(q) == pc[q] = "resuming" /\ waits[q] = "awaiting_human"

\* Mutant: the rejection does not end the call.
Reject_GoesOn(q) ==
  /\ pc[q] = "resuming"
  /\ \E s \in {"failed", "completed"} : SetStatus(q, s)
  /\ UNCHANGED <<version, snapshot, output, pc, locals, crashes>>

\* An operator rejected a HITL request: the run fails, or emits and completes.
Reject(q) ==
  /\ pc[q] = "resuming"
  /\ \E s \in {"failed", "completed"} : SetStatus(q, s)
  /\ Advance(q, "ended")
  /\ UNCHANGED <<version, snapshot, output, locals, crashes>>

\* The submission is missing or names an unknown node: run() throws.
RefuseSubmission(q) ==
  /\ NeedsSubmission(q)
  /\ Advance(q, "ended")
  /\ UNCHANGED <<rows, locals, crashes>>

DeclineTask(q) ==
  /\ NeedsSubmission(q)
  /\ kind[q] = "decline"
  /\ SetStatus(q, "failed")
  /\ Advance(q, "ended")
  /\ UNCHANGED <<version, snapshot, output, locals, crashes>>

\* The output does not validate: the task stays open.
ReopenTask(q) ==
  /\ NeedsSubmission(q)
  /\ kind[q] = "submit"
  /\ SetStatus(q, "awaiting_human")
  /\ Advance(q, "ended")
  /\ UNCHANGED <<version, snapshot, output, locals, crashes>>

Continue(q) ==
  /\ pc[q] = "resuming"
  /\ NeedsSubmission(q) => kind[q] = "submit"
  /\ SetStatus(q, "running")
  /\ Advance(q, "executing")
  /\ UNCHANGED <<version, snapshot, output, locals, crashes>>

-----------------------------------------------------------------------------
(* The initial branch, up to the engine.                                     *)

SavePlan(q) ==
  /\ pc[q] = "planning"
  /\ planned' = [planned EXCEPT ![q] = 1]
  /\ Store(q, 1, "plan")
  /\ Advance(q, "planned")
  /\ UNCHANGED <<status, output, kind, asked, run, resumed, waits, tries, crashes>>

MarkRunning(q) ==
  /\ pc[q] = "planned"
  /\ SetStatus(q, "running")
  /\ Advance(q, "executing")
  /\ UNCHANGED <<version, snapshot, output, locals, crashes>>

-----------------------------------------------------------------------------
(* The loop around execute().                                                *)

\* Mutant: the pause is not stored.
StorePause_Skips(q) ==
  /\ pc[q] = "executing"
  /\ \E s \in Awaiting : waits' = [waits EXCEPT ![q] = s]
  /\ Advance(q, "pausing")
  /\ UNCHANGED <<rows, kind, asked, run, resumed, planned, tries, crashes>>

\* The engine pauses: it stores its state,
StorePause(q) ==
  /\ pc[q] = "executing"
  /\ \E s \in Awaiting : waits' = [waits EXCEPT ![q] = s]
  /\ Store(q, planned[q], "pause")
  /\ Advance(q, "pausing")
  /\ UNCHANGED <<status, output, kind, asked, run, resumed, planned, tries, crashes>>

\* writes the status, from which moment the run can be resumed,
WritePause(q) ==
  /\ pc[q] = "pausing"
  /\ SetStatus(q, waits[q])
  /\ Advance(q, "paused")
  /\ UNCHANGED <<version, snapshot, output, locals, crashes>>

\* and the coordinator writes the same status again when the pause reaches it.
EndPause(q) ==
  /\ pc[q] = "paused"
  /\ SetStatus(q, waits[q])
  /\ Advance(q, "ended")
  /\ UNCHANGED <<version, snapshot, output, locals, crashes>>

\* recordResult: status, output row and last snapshot in one transaction.
Record(q) ==
  /\ pc[q] = "executing"
  /\ SetStatus(q, "completed")
  /\ output' = [output EXCEPT ![run[q]] = "completed"]
  /\ Store(q, planned[q], "final")
  /\ Advance(q, "recorded")
  /\ UNCHANGED <<locals, crashes>>

\* Only the initial branch writes the status once more.
Finish(q) ==
  /\ pc[q] = "recorded"
  /\ IF resumed[q] THEN UNCHANGED status ELSE SetStatus(q, "completed")
  /\ Advance(q, "ended")
  /\ UNCHANGED <<version, snapshot, output, locals, crashes>>

\* A policy or failed post-conditions ask for a replan.
RequestReplan(q) ==
  /\ pc[q] = "executing"
  /\ Advance(q, "replanning")
  /\ UNCHANGED <<rows, locals, crashes>>

\* Goal conditions fail: a checkpoint of the output comes before the replan.
MissGoal(q) ==
  /\ pc[q] = "executing"
  /\ tries' = [tries EXCEPT ![q] = @ + 1]
  /\ output' = [output EXCEPT ![run[q]] = "running"]
  /\ Advance(q, IF tries[q] < GoalLimit THEN "replanning" ELSE "exceeded")
  /\ UNCHANGED <<status, version, snapshot, kind, asked, run, resumed, waits, planned,
                 crashes>>

\* Mutant: the failure is recorded and the run is replanned all the same.
ExceedGoalLimit_GoesOn(q) ==
  /\ pc[q] = "exceeded"
  /\ SetStatus(q, "failed")
  /\ output' = [output EXCEPT ![run[q]] = "failed"]
  /\ Advance(q, "replanning")
  /\ UNCHANGED <<version, snapshot, locals, crashes>>

\* They failed once too often: the failure is the result.
ExceedGoalLimit(q) ==
  /\ pc[q] = "exceeded"
  /\ SetStatus(q, "failed")
  /\ output' = [output EXCEPT ![run[q]] = "failed"]
  /\ Advance(q, "ended")
  /\ UNCHANGED <<version, snapshot, locals, crashes>>

\* The planner versions every plan 1, so the coordinator counts up.
SaveReplan(q) ==
  /\ pc[q] = "replanning"
  /\ planned[q] < MaxVersion
  /\ planned' = [planned EXCEPT ![q] = @ + 1]
  /\ Store(q, planned[q] + 1, "plan")
  /\ Advance(q, "executing")
  /\ UNCHANGED <<status, output, kind, asked, run, resumed, waits, tries, crashes>>

\* A runtime policy fails the run, or an output violates its contract.
FailRun(q) ==
  /\ pc[q] = "executing"
  /\ SetStatus(q, "failed")
  /\ Advance(q, "ended")
  /\ UNCHANGED <<version, snapshot, output, locals, crashes>>

\* Mutant: no branch catches what the engine or the planner throws.
Throw_Uncaught(q) ==
  /\ pc[q] \in {"planning", "planned", "executing", "replanning"}
  /\ Advance(q, "ended")
  /\ UNCHANGED <<rows, locals, crashes>>

\* The engine or the planner throws anything else. The initial branch catches
\* it and fails or cancels the run; the resume branch lets it pass.
Throw(q) ==
  /\ pc[q] \in {"planning", "planned", "executing", "replanning"}
  /\ IF resumed[q] THEN UNCHANGED status
     ELSE \E s \in {"failed", "cancelled"} : SetStatus(q, s)
  /\ Advance(q, "ended")
  /\ UNCHANGED <<version, snapshot, output, locals, crashes>>

\* The server restarts: no request survives, and nothing looks for the runs they
\* drove.
Crash ==
  /\ crashes < MaxCrashes
  /\ \E q \in Request : Active(q)
  /\ crashes' = crashes + 1
  /\ pc' = [q \in Request |-> IF Active(q) THEN "ended" ELSE pc[q]]
  /\ UNCHANGED <<rows, locals>>

-----------------------------------------------------------------------------
Step(q) ==
  \/ Arrive(q)
  \/ \E k \in Kinds, r \in Run : Check(q, k, r)
  \/ \E r \in Run : LoadRun(q, r) \/ CreateRun(q, r)
  \/ Reject(q) \/ RefuseSubmission(q) \/ DeclineTask(q) \/ ReopenTask(q) \/ Continue(q)
  \/ SavePlan(q) \/ MarkRunning(q)
  \/ StorePause(q) \/ WritePause(q) \/ EndPause(q)
  \/ Record(q) \/ Finish(q) \/ FailRun(q) \/ Throw(q)
  \/ RequestReplan(q) \/ MissGoal(q) \/ ExceedGoalLimit(q) \/ SaveReplan(q)

Next == Crash \/ \E q \in Request : Step(q)

Spec == Init /\ [][Next]_vars

-----------------------------------------------------------------------------
(* Properties.                                                               *)

\* A run shown as awaiting an operator can be resumed where it stopped: the
\* snapshot stored under its version is the one the pause wrote. Needs clients
\* that do not overlap.
AwaitingIsResumable ==
  \A r \in Run :
    status[r] \in Awaiting =>
      version[r] \in Versions /\ snapshot[r][version[r]] = "pause"

\* The row in flex_run_outputs and the status of the run never disagree about
\* how the run ended. Needs clients that do not overlap.
OutputDecides ==
  \A r \in Run : output[r] \in {"completed", "failed"} => status[r] = output[r]

\* Without a restart, a run shown as pending or running has a request behind it,
\* unless a resume of it ended with an error. Holds however requests overlap.
RunningIsDriven ==
  crashes = 0 =>
    \A r \in Run :
      status[r] \in {"pending", "running"} =>
        \E q \in Request : run[q] = r /\ (Active(q) \/ resumed[q])

\* Plan versions of a run never decrease: a replan never takes the place of a
\* later plan. Needs clients that do not overlap.
VersionGrows == [][\A r \in Run : version'[r] >= version[r]]_vars

\* The status rows implement the abstract life cycle, through every write that
\* the engine and the coordinator both make. Needs clients that do not overlap.
KeepsLifecycle == Lifecycle!Spec

-----------------------------------------------------------------------------
(* Documented, and not what the code does.                                   *)

\* "Ensure concurrency protection when multiple resume requests occur": a request
\* accepted for a run never starts another.
ResumeStaysOnRun ==
  \A q \in Request : asked[q] \in Run => run[q] \in {None, asked[q]}
=============================================================================
