---------------------------- MODULE HitlRequests ----------------------------
(* Human-in-the-loop requests of one run: raised by its agents during a run  *)
(* call (HitlService.raiseRequest), answered or cancelled by operators       *)
(* through /api/hitl/resume and /api/hitl/remove.                            *)
(*                                                                           *)
(* A request is a row of hitl_requests. The run's row in orchestrator_runs   *)
(* repeats the requests as a snapshot, with the request that is being waited *)
(* for, and the routes decide by that snapshot. Raises and routes run in two *)
(* servers, without a transaction: a step here is the code between two calls *)
(* to the database. One run call at a time: of what else it does, here are   *)
(* its writes to orchestrator_runs; its life in flex_runs is FlexRun.        *)
EXTENDS Integers, FiniteSets

CONSTANTS
  Raises,       \* exploration bound: requests the run raises, in this order
  Op,           \* calls of the operators' routes
  None,         \* no request, no call
  MaxRequests,  \* HITL_MAX_REQUESTS
  Parallel,     \* the tool calls of one model turn overlap
  Overlapping,  \* operators and run calls do not wait for each other
  MaxCrashes    \* exploration bound: restarts of either server

Request == 1..Raises
Writer == Request \union Op

ASSUME RaisesAssumption == Raises \in Nat /\ MaxRequests \in Nat \ {0}
ASSUME OpAssumption == Op \intersect Request = {}
ASSUME NoneAssumption == None \notin Writer
ASSUME SwitchAssumption ==
  Parallel \in BOOLEAN /\ Overlapping \in BOOLEAN /\ MaxCrashes \in Nat

VARIABLES
  row,       \* hitl_requests.status
  answer,    \* hitl_responses: the call that stored the latest one
  json,      \* orchestrator_runs.hitl_state_json: its requests
  top,       \*   and its pendingRequestId
  column,    \* orchestrator_runs.pending_request_id
  status,    \* orchestrator_runs.status
  audit,     \* runner_metadata.auditLog
  phase,     \* the run call under way, if any
  held,      \*   the audit log its route has read
  asked,     \*   it has raised a request: pendingRecord
  accepted,  \*   its HITL context: limit.current
  known,     \*   snapshot.requests
  knownTop,  \*   snapshot.pendingRequestId
  pc,        \* where each raise and each operator's call is
  view,      \* the run state it is about to save or to go by
  viewTop,   \*   and its pendingRequestId
  next,      \* the run status it is about to save
  count,     \* a raise: limit.current when it was called
  kind,      \* an operator's call: resume or remove
  target,    \*   the request
  verdict,   \*   what it decides
  log,       \*   the audit log it has read
  crashes    \* restarts so far

run == <<json, top, column, status, audit>>
call == <<phase, held, asked, accepted, known, knownTop>>
saving == <<view, viewTop, next>>
op == <<kind, target, verdict, log>>
vars == <<row, answer, run, call, pc, saving, count, op, crashes>>

\* The requests and their responses as the coordinator reads them.
Requests == INSTANCE RequestLifecycle

Closed == {"denied", "resolved"}
Copies == [Request -> {"absent", "pending"} \union Closed]
Statuses ==
  {"pending", "running", "awaiting_hitl", "awaiting_human", "completed", "failed",
   "cancelled"}
Calling == {"auditing", "starting", "loaded", "on"}
Resting == {"idle", "done", "dead"}
Raising == {"creating", "created"}
Deciding ==
  {"answering", "closing", "reading", "rereading", "logging", "finishing"}

TypeOK ==
  /\ row \in Copies /\ json \in Copies /\ known \in Copies
  /\ answer \in [Request -> Op \union {None}]
  /\ {top, column, knownTop} \subseteq Request \union {None}
  /\ status \in Statuses
  /\ audit \subseteq Op
  /\ phase \in Calling \union {"away", "ended"}
  /\ held \subseteq Op
  /\ asked \in BOOLEAN
  /\ accepted \in Nat
  /\ pc \in [Writer -> Resting \union Raising \union Deciding
                               \union {"loading", "saving"}]
  /\ view \in [Writer -> Copies]
  /\ viewTop \in [Writer -> Request \union {None}]
  /\ next \in [Writer -> Statuses]
  /\ count \in [Request -> Nat]
  /\ kind \in [Op -> {"resume", "remove"}]
  /\ target \in [Op -> Request \union {None}]
  /\ verdict \in [Op -> {"go", "fail", "emit"}]
  /\ log \in [Op -> SUBSET Op]
  /\ crashes \in 0..MaxCrashes
  /\ \A r \in Request : pc[r] \notin Deciding
  /\ \A o \in Op : /\ pc[o] \notin Raising
                   /\ pc[o] \notin Resting => target[o] \in Request

Nothing == [r \in Request |-> "absent"]

Init ==
  /\ row = Nothing /\ json = Nothing /\ known = Nothing
  /\ answer = [r \in Request |-> None]
  /\ top = None /\ column = None /\ knownTop = None
  /\ status = "pending"
  /\ audit = {}
  /\ phase = "away"
  /\ held = {}
  /\ asked = FALSE
  /\ accepted = 0
  /\ pc = [w \in Writer |-> "idle"]
  /\ view = [w \in Writer |-> Nothing]
  /\ viewTop = [w \in Writer |-> None]
  /\ next = [w \in Writer |-> "pending"]
  /\ count = [r \in Request |-> 0]
  /\ kind = [o \in Op |-> "resume"]
  /\ target = [o \in Op |-> None]
  /\ verdict = [o \in Op |-> "go"]
  /\ log = [o \in Op |-> {}]
  /\ crashes = 0

-----------------------------------------------------------------------------
Advance(w, label) == pc' = [pc EXCEPT ![w] = label]
AtRest(W) == \A w \in W : pc[w] \in Resting

\* The request that a run state names as pending: the oldest.
Pending(v, r) == r \in Request /\ v[r] = "pending"
Oldest(v) ==
  LET first == {r \in Request : Pending(v, r) /\ \A s \in 1..(r - 1) : ~Pending(v, s)}
  IN IF first = {} THEN None ELSE CHOOSE r \in first : TRUE

\* The requests that count against the limit.
Accepted(v) == Cardinality({r \in Request : v[r] \in {"pending", "resolved"}})

\* load(): the column, or what the snapshot says.
Shown == IF column # None THEN column ELSE top

\* resolveHitlDecision, parseHitlDecisionAction: the latest response decides.
Decision(r) ==
  IF row[r] = "resolved" /\ answer[r] # None THEN verdict[answer[r]] ELSE "go"

-----------------------------------------------------------------------------
(* The run call.                                                             *)

Quiet == phase \notin Calling /\ AtRest(Op)

\* run.resume accepts the call while flex_runs awaits input. A client that waits
\* resumes when the requests are decided. recordResumeAudit reads the audit log
\* and saves it with an entry for the call, which is not kept track of here.
RequestCall ==
  /\ phase = "away"
  /\ Overlapping \/ (AtRest(Op) /\ \A r \in Request : ~Pending(row, r))
  /\ phase' = "auditing"
  /\ held' = audit
  /\ UNCHANGED <<row, answer, run, asked, accepted, known, knownTop, pc, saving,
                 count, op, crashes>>

RecordResume ==
  /\ phase = "auditing"
  /\ phase' = "starting"
  /\ audit' = held
  /\ held' = {}
  /\ UNCHANGED <<row, answer, json, top, column, status, asked, accepted, known,
                 knownTop, pc, saving, count, op, crashes>>

\* Mutant: resolved requests no longer count.
StartCall_CountsOpen ==
  /\ phase = "starting"
  /\ \A r \in Request : Decision(r) = "go"
  /\ phase' = "loaded"
  /\ accepted' = Cardinality({r \in Request : row[r] = "pending"})
  /\ known' = row
  /\ knownTop' = Oldest(row)
  /\ UNCHANGED <<row, answer, run, held, asked, pc, saving, count, op, crashes>>

\* FlexRunCoordinator.run loads the run state and finds no rejection in it.
StartCall ==
  /\ phase = "starting"
  /\ \A r \in Request : Decision(r) = "go"
  /\ phase' = "loaded"
  /\ accepted' = Accepted(row)
  /\ known' = row
  /\ knownTop' = Oldest(row)
  /\ UNCHANGED <<row, answer, run, held, asked, pc, saving, count, op, crashes>>

\* A rejection is the outcome of the run.
RejectRun ==
  /\ phase = "starting"
  /\ \E r \in Request :
       /\ Decision(r) # "go"
       /\ status' = IF Decision(r) = "fail" THEN "failed" ELSE "completed"
  /\ phase' = "ended"
  /\ UNCHANGED <<row, answer, json, top, column, audit, held, asked, accepted,
                 known, knownTop, pc, saving, count, op, crashes>>

\* From here on the engine executes.
MarkRunning ==
  /\ phase = "loaded"
  /\ phase' = "on"
  /\ status' = "running"
  /\ UNCHANGED <<row, answer, json, top, column, audit, held, asked, accepted,
                 known, knownTop, pc, saving, count, op, crashes>>

\* What the call had in memory goes with it.
Leave(label) ==
  /\ phase' = label
  /\ held' = {} /\ asked' = FALSE
  /\ accepted' = 0 /\ known' = Nothing /\ knownTop' = None

EndCall(label) ==
  /\ AtRest(Request)
  /\ Leave(label)
  /\ UNCHANGED <<row, answer, json, top, column, pc, saving, count, op, crashes>>

\* The run waits for an operator, or for a person to do a task, which may also
\* be one that was reopened. A request of this call always pauses it.
PauseCall ==
  /\ EndCall("away")
  /\ \/ phase = "on" /\ status' = "awaiting_hitl"
     \/ phase \in {"loaded", "on"} /\ ~asked /\ status' = "awaiting_human"
  /\ UNCHANGED audit

\* recordResult: the run has its output, or has missed its goal too often.
RecordResult ==
  /\ phase = "on" /\ ~asked
  /\ EndCall("ended")
  /\ status' \in {"completed", "failed"}
  /\ audit' = {}

FailCall ==
  /\ phase \in {"loaded", "on"}
  /\ EndCall("ended")
  /\ status' \in {"failed", "cancelled"}
  /\ UNCHANGED audit

\* An error that the resume branch lets pass: flex_runs stays as it was, so
\* only a run that was not yet running may be resumed again.
ThrowCall ==
  /\ phase \in {"loaded", "on"}
  /\ EndCall(IF phase = "on" THEN "ended" ELSE "away")
  /\ UNCHANGED <<status, audit>>

-----------------------------------------------------------------------------
(* Raising a request.                                                        *)

\* raiseRequest reads the limit at once and writes the row later.
BeginRaise(r) ==
  /\ phase = "on"
  /\ pc[r] = "idle"
  /\ \A s \in 1..(r - 1) : pc[s] # "idle"
  /\ Parallel \/ AtRest(Request)
  /\ count' = [count EXCEPT ![r] = accepted]
  /\ Advance(r, "creating")
  /\ UNCHANGED <<row, answer, run, call, saving, op, crashes>>

Raised(r) == IF count[r] >= MaxRequests THEN "denied" ELSE "pending"

InsertRow(r) ==
  /\ pc[r] = "creating"
  /\ row' = [row EXCEPT ![r] = Raised(r)]
  /\ Advance(r, "created")
  /\ UNCHANGED <<answer, run, call, saving, count, op, crashes>>

\* The context's snapshot takes the request in; that version is to be saved.
NoteRow(r) ==
  /\ pc[r] = "created"
  /\ known' = [known EXCEPT ![r] = Raised(r)]
  /\ \/ /\ Raised(r) = "pending"
        /\ accepted' = count[r] + 1
        /\ knownTop' = r
     \/ /\ Raised(r) = "denied"
        /\ UNCHANGED <<accepted, knownTop>>
  /\ view' = [view EXCEPT ![r] = known']
  /\ viewTop' = [viewTop EXCEPT ![r] = knownTop']
  /\ Advance(r, "loading")
  /\ UNCHANGED <<row, answer, run, phase, held, asked, next, count, op, crashes>>

-----------------------------------------------------------------------------
(* DatabaseHitlRepository.setRunState, for raises and routes alike.          *)

LoadStatus(w) ==
  /\ pc[w] = "loading"
  /\ next' = [next EXCEPT ![w] =
                IF viewTop[w] # None THEN "awaiting_hitl"
                ELSE IF status \in {"awaiting_hitl", "pending"} THEN "running"
                ELSE status]
  /\ Advance(w, "saving")
  /\ UNCHANGED <<row, answer, run, call, view, viewTop, count, op, crashes>>

Clear(w) ==
  /\ view' = [view EXCEPT ![w] = Nothing]
  /\ viewTop' = [viewTop EXCEPT ![w] = None]
  /\ next' = [next EXCEPT ![w] = "pending"]

SaveState(w) ==
  /\ pc[w] = "saving"
  /\ json' = view[w]
  /\ top' = viewTop[w]
  /\ column' = viewTop[w]
  /\ status' = next[w]
  /\ Clear(w)

\* onRequest and onDenied recount the limit from the context's snapshot.
EndRaise(r) ==
  /\ SaveState(r)
  /\ accepted' = Accepted(known)
  /\ asked' = (asked \/ Raised(r) = "pending")
  /\ Advance(r, "done")
  /\ UNCHANGED <<row, answer, audit, phase, held, known, knownTop, count, op,
                 crashes>>

SaveDecision(o) ==
  /\ SaveState(o)
  /\ Advance(o, "rereading")
  /\ UNCHANGED <<row, answer, audit, call, count, op, crashes>>

-----------------------------------------------------------------------------
(* The operators' routes.                                                    *)

MayDecide == Overlapping \/ Quiet

Accept(o, k, r) ==
  /\ pc[o] = "idle"
  /\ kind' = [kind EXCEPT ![o] = k]
  /\ target' = [target EXCEPT ![o] = r]

\* Mutant: any request that was ever raised may be answered.
CheckResume_Unchecked(o, r, v) ==
  /\ MayDecide
  /\ json[r] # "absent"
  /\ Shown \in {None, r}
  /\ Accept(o, "resume", r)
  /\ verdict' = [verdict EXCEPT ![o] = v]
  /\ Advance(o, "answering")
  /\ UNCHANGED <<row, answer, run, call, saving, count, log, crashes>>

\* Mutant: the row is resolved and the response is not stored.
CheckResume_SkipsAnswer(o, r, v) ==
  /\ MayDecide
  /\ json[r] = "pending"
  /\ Shown \in {None, r}
  /\ Accept(o, "resume", r)
  /\ verdict' = [verdict EXCEPT ![o] = v]
  /\ Advance(o, "closing")
  /\ UNCHANGED <<row, answer, run, call, saving, count, log, crashes>>

\* resume.post: the snapshot has the request open, and waits for no other.
CheckResume(o, r, v) ==
  /\ MayDecide
  /\ json[r] = "pending"
  /\ Shown \in {None, r}
  /\ Accept(o, "resume", r)
  /\ verdict' = [verdict EXCEPT ![o] = v]
  /\ Advance(o, "answering")
  /\ UNCHANGED <<row, answer, run, call, saving, count, log, crashes>>

\* Mutant: a removal with nothing to remove goes ahead.
CheckRemove_Untargeted(o, given) ==
  LET r == IF given # None THEN given ELSE Shown
  IN /\ MayDecide
     /\ r # None => json[r] = "pending"
     /\ Accept(o, "remove", r)
     /\ Advance(o, "closing")
     /\ UNCHANGED <<row, answer, run, call, saving, count, verdict, log, crashes>>

\* Mutant: only the snapshot is updated.
CheckRemove_SkipsRow(o, given) ==
  LET r == IF given # None THEN given ELSE Shown
  IN /\ MayDecide
     /\ r # None
     /\ json[r] = "pending"
     /\ Accept(o, "remove", r)
     /\ Advance(o, "reading")
     /\ UNCHANGED <<row, answer, run, call, saving, count, verdict, log, crashes>>

\* remove.post: the request asked for or, by default, the one shown.
CheckRemove(o, given) ==
  LET r == IF given # None THEN given ELSE Shown
  IN /\ MayDecide
     /\ r # None
     /\ json[r] = "pending"
     /\ Accept(o, "remove", r)
     /\ Advance(o, "closing")
     /\ UNCHANGED <<row, answer, run, call, saving, count, verdict, log, crashes>>

\* appendResponse, first write.
InsertAnswer(o) ==
  /\ pc[o] = "answering"
  /\ answer' = [answer EXCEPT ![target[o]] = o]
  /\ Advance(o, "closing")
  /\ UNCHANGED <<row, run, call, saving, count, op, crashes>>

\* appendResponse, second write; updateStatus, first write.
CloseRow(o) ==
  /\ pc[o] = "closing"
  /\ row' = [row EXCEPT ![target[o]] =
               IF kind[o] = "resume" THEN "resolved" ELSE "denied"]
  /\ Advance(o, "reading")
  /\ UNCHANGED <<answer, run, call, saving, count, op, crashes>>

\* getRunState, for setRunState; updateStatus sets its status once more.
ReadRows(o) ==
  /\ pc[o] = "reading"
  /\ view' = [view EXCEPT ![o] =
                IF kind[o] = "resume" THEN row ELSE [row EXCEPT ![target[o]] = "denied"]]
  /\ viewTop' = [viewTop EXCEPT ![o] = Oldest(view'[o])]
  /\ Advance(o, "loading")
  /\ UNCHANGED <<row, answer, run, call, next, count, op, crashes>>

\* The routes' own getRunState: resume derives the run's status from it.
RereadRows(o) ==
  /\ pc[o] = "rereading"
  /\ viewTop' = [viewTop EXCEPT ![o] = IF kind[o] = "resume" THEN Oldest(row) ELSE None]
  /\ next' = [next EXCEPT ![o] =
                CASE kind[o] = "remove"           -> "cancelled"
                  [] Decision(target[o]) = "fail" -> "failed"
                  [] Decision(target[o]) = "emit" -> "completed"
                  [] OTHER -> IF viewTop'[o] # None THEN "awaiting_hitl" ELSE "running"]
  /\ Advance(o, "logging")
  /\ UNCHANGED <<row, answer, run, call, view, count, op, crashes>>

ReadLog(o) ==
  /\ pc[o] = "logging"
  /\ log' = [log EXCEPT ![o] = audit]
  /\ Advance(o, "finishing")
  /\ UNCHANGED <<row, answer, run, call, saving, count, kind, target, verdict,
                 crashes>>

\* Mutant: the request waited for is cleared, though another may be open.
Finish_ClearsPending(o) ==
  /\ pc[o] = "finishing"
  /\ column' = None
  /\ status' = next[o]
  /\ audit' = log[o] \union {o}
  /\ log' = [log EXCEPT ![o] = {}]
  /\ Clear(o)
  /\ Advance(o, "done")
  /\ UNCHANGED <<row, answer, json, top, call, count, kind, target, verdict, crashes>>

\* Mutant: the audit log starts anew with every decision.
Finish_ForgetsLog(o) ==
  /\ pc[o] = "finishing"
  /\ column' = viewTop[o]
  /\ status' = next[o]
  /\ audit' = {o}
  /\ log' = [log EXCEPT ![o] = {}]
  /\ Clear(o)
  /\ Advance(o, "done")
  /\ UNCHANGED <<row, answer, json, top, call, count, kind, target, verdict, crashes>>

\* The last save leaves the snapshot as it is.
Finish(o) ==
  /\ pc[o] = "finishing"
  /\ column' = viewTop[o]
  /\ status' = next[o]
  /\ audit' = log[o] \union {o}
  /\ log' = [log EXCEPT ![o] = {}]
  /\ Clear(o)
  /\ Advance(o, "done")
  /\ UNCHANGED <<row, answer, json, top, call, count, kind, target, verdict, crashes>>

-----------------------------------------------------------------------------
(* Restarts: what a server was doing is gone, the rows are not.              *)
Stop(W) ==
  /\ crashes < MaxCrashes
  /\ crashes' = crashes + 1
  /\ pc' = [w \in Writer |-> IF w \in W /\ pc[w] \notin Resting THEN "dead" ELSE pc[w]]
  /\ UNCHANGED <<row, answer, run, saving, count, op>>

\* flex_runs stays "running", which no route accepts, or as it was before.
RestartAgents ==
  /\ phase \in Calling
  /\ Leave(IF phase = "on" THEN "ended" ELSE "away")
  /\ Stop(Request)

RestartRoutes == ~AtRest(Op) /\ Stop(Op) /\ UNCHANGED call

Call ==
  \/ RequestCall \/ RecordResume \/ StartCall \/ RejectRun \/ MarkRunning
  \/ PauseCall \/ RecordResult \/ FailCall \/ ThrowCall

Raise(r) == BeginRaise(r) \/ InsertRow(r) \/ NoteRow(r) \/ EndRaise(r)

Decide(o) ==
  \/ \E r \in Request, v \in {"go", "fail", "emit"} : CheckResume(o, r, v)
  \/ \E r \in Request \union {None} : CheckRemove(o, r)
  \/ InsertAnswer(o)
  \/ CloseRow(o)
  \/ ReadRows(o)
  \/ SaveDecision(o)
  \/ RereadRows(o)
  \/ ReadLog(o)
  \/ Finish(o)

Next ==
  \/ Call
  \/ \E r \in Request : Raise(r)
  \/ \E w \in Writer : LoadStatus(w)
  \/ \E o \in Op : Decide(o)
  \/ RestartAgents
  \/ RestartRoutes

Spec == Init /\ [][Next]_vars

-----------------------------------------------------------------------------
(* Whatever overlaps and whenever a server restarts.                         *)

\* The routes go by the snapshot. It may lag behind the request rows, each of
\* whose writers saves an older copy over a newer one, but it is never ahead:
\* it shows no request that does not exist, none closed that is open, and none
\* resolved that has no response, which the coordinator would take for consent.
SnapshotBehind ==
  \A r \in Request :
    /\ json[r] # "absent" => row[r] # "absent"
    /\ json[r] \in Closed => row[r] \in Closed
    /\ json[r] = "resolved" => answer[r] # None

\* The two tables implement the abstract life cycle, although a raise or a
\* route writes them in steps that others and restarts come between: none
\* writes a row on what it has read of it that would take the request back.
KeepsRequests == Requests!Spec

-----------------------------------------------------------------------------
(* When operators and run calls wait for each other, tool calls do not       *)
(* overlap and no server restarts.                                           *)

Ended == {"completed", "failed", "cancelled"}

\* An open request of a live run is offered to the operators: listAwaitingHitl
\* returns the run, with a request that is open.
OpenIsListed ==
  Quiet /\ status \notin Ended /\ (\E r \in Request : Pending(row, r))
    => status = "awaiting_hitl" /\ Pending(row, column)

\* Two operators are never both told that their decision on a request stands.
DecidedOnce ==
  \A o, p \in Op : pc[o] = "done" /\ pc[p] = "done" /\ o # p => target[o] # target[p]

\* A run has no more than MaxRequests requests that were not denied.
LimitKept == Accepted(row) <= MaxRequests

\* As long as the run may go on, the audit log has an entry for each decision
\* that was reported as taken.
AuditKeptUntilEnd == phase # "ended" => \A o \in Op : pc[o] = "done" => o \in audit
=============================================================================
