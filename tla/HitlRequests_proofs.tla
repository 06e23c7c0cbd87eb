------------------------ MODULE HitlRequests_proofs ------------------------
(* However raises, routes and restarts interleave, the run's snapshot stays  *)
(* behind the request rows. Several writers save copies of the run state, so *)
(* the invariant is that every copy is behind the rows, in the snapshot, in  *)
(* the run call's context or in a writer's hands, and that the rows only     *)
(* move on: the copies then need not be compared with each other.            *)
(*                                                                           *)
(* When operators and clients wait for each other, they take turns: raises   *)
(* while the engine executes, one route at a time between two calls. Then a  *)
(* decision, once saved, cannot be undone by any save that is still to come, *)
(* and who writes the audit log has read the latest. Unless a server         *)
(* restarts, what the run call raised is what its last save names; and if    *)
(* tool calls do not overlap either, the context counts what the rows say.   *)
EXTENDS HitlRequests, TLAPS, FiniteSetTheorems, WellFoundedInduction

USE RaisesAssumption, OpAssumption, NoneAssumption, SwitchAssumption

-----------------------------------------------------------------------------
(* What the helpers return.                                                  *)

\* The request a run state names as pending is a request, or there is none.
LEMMA OldestType ==
  ASSUME NEW v
  PROVE Oldest(v) \in Request \union {None}
BY DEF Oldest

\* The number of requests against the limit is a number.
LEMMA AcceptedType ==
  ASSUME NEW v
  PROVE Accepted(v) \in Nat
<1> DEFINE S == {r \in Request : v[r] \in {"pending", "resolved"}}
<1>1. IsFiniteSet(Request)
  BY FS_Interval DEF Request
<1>2. IsFiniteSet(S)
  BY <1>1, FS_Subset
<1> QED
  BY <1>2, FS_CardinalityType DEF Accepted

\* A run state without requests has the type of one.
LEMMA NothingType == Nothing \in Copies
BY DEF Nothing, Copies

\* What a writer had in hand has its types when it is cleared.
LEMMA ClearType ==
  ASSUME TypeOK, NEW w \in Writer, Clear(w)
  PROVE /\ view' \in [Writer -> Copies]
        /\ viewTop' \in [Writer -> Request \union {None}]
        /\ next' \in [Writer -> Statuses]
BY NothingType DEF Clear, TypeOK, Statuses

-----------------------------------------------------------------------------
(* Type correctness.                                                         *)

\* The first state has the types.
LEMMA TypeInit == Init => TypeOK
<1> SUFFICES ASSUME Init
             PROVE TypeOK
  OBVIOUS
<1>2. \A w \in Writer : pc[w] = "idle"
  BY DEF Init
<1>3. \A w \in Request \union Op : pc[w] = "idle"
  BY <1>2 DEF Writer
<1>4. 0 \in 0..MaxCrashes
  OBVIOUS
<1> QED
  BY <1>3, <1>4, NothingType DEF Init, TypeOK, Statuses, Resting, Raising, Deciding

\* Steps of the run call and of raises keep the types.
LEMMA TypeRun ==
  ASSUME TypeOK,
         Call \/ (\E r \in Request : Raise(r))
  PROVE TypeOK'
<1>1. CASE StartCall
  BY <1>1, OldestType, AcceptedType
  DEF StartCall, TypeOK, run, saving, op, Calling, Resting, Raising, Deciding
<1>2. ASSUME RequestCall \/ RecordResume \/ RejectRun \/ MarkRunning
      PROVE TypeOK'
  <2>1. phase' \in Calling \union {"away", "ended"} /\ held' \subseteq Op
    BY <1>2 DEF RequestCall, RecordResume, RejectRun, MarkRunning, TypeOK, Calling
  <2>2. status' \in Statuses /\ audit' \subseteq Op
    BY <1>2 DEF RequestCall, RecordResume, RejectRun, MarkRunning, TypeOK, Statuses,
                run
  <2> QED
    BY <1>2, <2>1, <2>2
    DEF RequestCall, RecordResume, RejectRun, MarkRunning, TypeOK, run, saving, op,
        Resting, Raising, Deciding
<1>4. ASSUME PauseCall \/ RecordResult \/ FailCall \/ ThrowCall
      PROVE TypeOK'
  <2>1. PICK label \in {"away", "ended"} : EndCall(label)
    BY <1>4 DEF PauseCall, RecordResult, FailCall, ThrowCall
  <2>2. status' \in Statuses /\ audit' \subseteq Op
    BY <1>4 DEF PauseCall, RecordResult, FailCall, ThrowCall, TypeOK, Statuses
  <2> QED
    BY <2>1, <2>2, NothingType
    DEF EndCall, Leave, TypeOK, saving, op, Resting, Raising, Deciding
<1>3. ASSUME NEW r \in Request, Raise(r)
      PROVE TypeOK'
  <2> r \in Writer /\ r \notin Op
    BY DEF Writer
  <2>1. CASE BeginRaise(r)
    BY <2>1 DEF BeginRaise, Advance, TypeOK, run, call, saving, op, Resting,
                Raising, Deciding
  <2>2. CASE InsertRow(r)
    BY <2>2 DEF InsertRow, Raised, Advance, TypeOK, run, call, saving, op,
                Resting, Raising, Deciding, Copies, Closed
  <2>3. CASE NoteRow(r)
    <3>1. known' \in Copies /\ knownTop' \in Request \union {None} /\ accepted' \in Nat
      BY <2>3 DEF NoteRow, Raised, TypeOK, Copies, Closed
    <3> QED
      BY <2>3, <3>1 DEF NoteRow, Advance, TypeOK, run, op, Resting, Raising, Deciding
  <2>4. CASE EndRaise(r)
    BY <2>4, AcceptedType, ClearType
    DEF EndRaise, SaveState, Advance, TypeOK, op, Resting, Raising, Deciding
  <2> QED
    BY <1>3, <2>1, <2>2, <2>3, <2>4 DEF Raise
<1> QED
  BY <1>1, <1>2, <1>3, <1>4 DEF Call

\* Steps of the operators' routes keep the types.
LEMMA TypeDecide ==
  ASSUME TypeOK, NEW o \in Op, Decide(o)
  PROVE TypeOK'
<1> o \in Writer /\ o \notin Request
  BY DEF Writer
<1>1. ASSUME NEW r \in Request, NEW v \in {"go", "fail", "emit"}, CheckResume(o, r, v)
      PROVE TypeOK'
  BY <1>1 DEF CheckResume, Accept, Advance, TypeOK, run, call, saving, Resting,
              Raising, Deciding
<1>2. ASSUME NEW r \in Request \union {None}, CheckRemove(o, r)
      PROVE TypeOK'
  <2>1. PICK q \in Request : Accept(o, "remove", q)
    BY <1>2 DEF CheckRemove, Shown, TypeOK
  <2> QED
    BY <1>2, <2>1 DEF CheckRemove, Accept, Advance, TypeOK, run, call, saving,
                      Resting, Raising, Deciding
<1>3. CASE InsertAnswer(o)
  BY <1>3 DEF InsertAnswer, Advance, TypeOK, run, call, saving, op, Resting,
              Raising, Deciding
<1>4. CASE CloseRow(o)
  BY <1>4 DEF CloseRow, Advance, TypeOK, run, call, saving, op, Resting,
              Raising, Deciding, Copies, Closed
<1>5. CASE ReadRows(o)
  <2>1. view' \in [Writer -> Copies]
    BY <1>5 DEF ReadRows, TypeOK, Copies, Closed
  <2>2. viewTop' \in [Writer -> Request \union {None}]
    BY <1>5, OldestType DEF ReadRows, TypeOK
  <2> QED
    BY <1>5, <2>1, <2>2 DEF ReadRows, Advance, TypeOK, run, call, op, Resting,
                            Raising, Deciding
<1>6. CASE SaveDecision(o)
  BY <1>6, ClearType
  DEF SaveDecision, SaveState, Advance, TypeOK, call, op, Resting, Raising, Deciding
<1>7. CASE RereadRows(o)
  <2>1. viewTop' \in [Writer -> Request \union {None}]
    BY <1>7, OldestType DEF RereadRows, TypeOK
  <2>2. next' \in [Writer -> Statuses]
    BY <1>7 DEF RereadRows, TypeOK, Statuses
  <2> QED
    BY <1>7, <2>1, <2>2 DEF RereadRows, Advance, TypeOK, run, call, op, Resting,
                            Raising, Deciding
<1>8. CASE ReadLog(o)
  BY <1>8 DEF ReadLog, Advance, TypeOK, run, call, saving, Resting, Raising, Deciding
<1>9. CASE Finish(o)
  BY <1>9, ClearType
  DEF Finish, Advance, TypeOK, call, Resting, Raising, Deciding
<1> QED
  BY <1>1, <1>2, <1>3, <1>4, <1>5, <1>6, <1>7, <1>8, <1>9 DEF Decide

\* The remaining steps keep the types.
LEMMA TypeOthers ==
  ASSUME TypeOK,
         \/ \E w \in Writer : LoadStatus(w)
         \/ RestartAgents
         \/ RestartRoutes
         \/ UNCHANGED vars
  PROVE TypeOK'
<1>1. ASSUME NEW w \in Writer, LoadStatus(w)
      PROVE TypeOK'
  BY <1>1 DEF LoadStatus, Advance, TypeOK, run, call, op, Resting, Raising,
              Deciding, Statuses, Writer
<1>2. CASE RestartAgents \/ RestartRoutes
  <2>1. PICK W \in {Request, Op} : Stop(W)
    BY <1>2 DEF RestartAgents, RestartRoutes
  <2>2. /\ phase' \in Calling \union {"away", "ended"} /\ held' \subseteq Op
        /\ asked' \in BOOLEAN /\ accepted' \in Nat /\ known' \in Copies
        /\ knownTop' \in Request \union {None}
    <3>1. CASE RestartAgents
      BY <3>1, NothingType DEF RestartAgents, Leave
    <3>2. CASE RestartRoutes
      BY <3>2 DEF RestartRoutes, call, TypeOK
    <3> QED
      BY <1>2, <3>1, <3>2
  <2> QED
    BY <2>1, <2>2
    DEF Stop, TypeOK, run, saving, op, Resting, Raising, Deciding, Writer
<1>3. CASE UNCHANGED vars
  BY <1>3 DEF vars, TypeOK, run, call, saving, op, Resting, Raising, Deciding
<1> QED
  BY <1>1, <1>2, <1>3

\* Every variable keeps its type, and a route at work has a request to decide.
THEOREM TypeCorrect == Spec => []TypeOK
<1>1. Init => TypeOK
  BY TypeInit
<1>2. TypeOK /\ [Next]_vars => TypeOK'
  BY TypeRun, TypeDecide, TypeOthers DEF Next
<1> QED
  BY <1>1, <1>2, PTL DEF Spec

-----------------------------------------------------------------------------
(* Every copy of the run state is behind the rows.                           *)

\* Copy v shows nothing that the rows do not bear out.
Behind(v) ==
  \A r \in Request :
    /\ v[r] # "absent" => row[r] # "absent"
    /\ v[r] \in Closed => row[r] \in Closed
    /\ v[r] = "resolved" => answer[r] # None

\* The row of request r appears when its raise writes it.
RaiseFollows(r) ==
  /\ pc[r] \in {"idle", "creating"} => row[r] = "absent"
  /\ pc[r] = "created" => /\ row[r] # "absent"
                          /\ Raised(r) = "denied" => row[r] \in Closed

\* What a route has done so far to the request it decides.
RouteFollows(o) ==
  /\ pc[o] \notin Resting => row[target[o]] # "absent"
  /\ pc[o] = "closing" /\ kind[o] = "resume" => answer[target[o]] # None
  /\ pc[o] = "reading" => row[target[o]] \in Closed

CopyInv ==
  /\ TypeOK
  /\ Behind(row) /\ Behind(json) /\ Behind(known)
  /\ \A w \in Writer : Behind(view[w])
  /\ \A r \in Request : RaiseFollows(r)
  /\ \A o \in Op : RouteFollows(o)

\* The rows move on: no request disappears or opens again, no answer is lost.
Forward ==
  \A r \in Request :
    /\ row[r] # "absent" => row'[r] # "absent"
    /\ row[r] \in Closed => row'[r] \in Closed
    /\ answer[r] # None => answer'[r] # None

BehindNext(v) ==
  \A r \in Request :
    /\ v[r] # "absent" => row'[r] # "absent"
    /\ v[r] \in Closed => row'[r] \in Closed
    /\ v[r] = "resolved" => answer'[r] # None

\* A copy that was behind stays behind when the rows move on.
LEMMA BehindStays ==
  ASSUME NEW v, Behind(v), Forward
  PROVE BehindNext(v)
BY DEF Behind, Forward, BehindNext

\* The coordinator leaves requests, snapshot, raises and routes alone.
LEMMA CallWrites ==
  ASSUME Call
  PROVE /\ UNCHANGED <<row, answer, json, pc, count, kind, target, view>>
        /\ StartCall \/ known' \in {known, Nothing}
<1>1. CASE RequestCall \/ RecordResume \/ StartCall \/ RejectRun \/ MarkRunning
  BY <1>1 DEF RequestCall, RecordResume, StartCall, RejectRun, MarkRunning, run,
              saving, op
<1>2. CASE PauseCall \/ RecordResult \/ FailCall \/ ThrowCall
  BY <1>2 DEF PauseCall, RecordResult, FailCall, ThrowCall, EndCall, Leave, saving, op
<1> QED
  BY <1>1, <1>2 DEF Call

\* A restart leaves what is stored alone, and the records of what was done.
LEMMA RestartWrites ==
  ASSUME RestartAgents \/ RestartRoutes
  PROVE /\ UNCHANGED <<row, answer, json, count, kind, target, view>>
        /\ known' \in {known, Nothing}
BY DEF RestartAgents, RestartRoutes, Leave, Stop, run, call, saving, op

\* Only three steps write rows or answers.
LEMMA RowWriters ==
  ASSUME [Next]_vars
  PROVE \/ UNCHANGED <<row, answer>>
        \/ \E r \in Request : InsertRow(r)
        \/ \E o \in Op : InsertAnswer(o) \/ CloseRow(o)
<1>1. CASE UNCHANGED vars
  BY <1>1 DEF vars
<1>2. CASE Call \/ RestartAgents \/ RestartRoutes
  BY <1>2, CallWrites, RestartWrites
<1>3. ASSUME NEW r \in Request, Raise(r)
      PROVE UNCHANGED <<row, answer>> \/ InsertRow(r)
  BY <1>3 DEF Raise, BeginRaise, NoteRow, EndRaise
<1>4. ASSUME NEW w \in Writer, LoadStatus(w)
      PROVE UNCHANGED <<row, answer>>
  BY <1>4 DEF LoadStatus
<1>5. ASSUME NEW o \in Op, Decide(o)
      PROVE UNCHANGED <<row, answer>> \/ InsertAnswer(o) \/ CloseRow(o)
  BY <1>5 DEF Decide, CheckResume, CheckRemove, ReadRows, SaveDecision,
              RereadRows, ReadLog, Finish
<1> QED
  BY <1>1, <1>2, <1>3, <1>4, <1>5 DEF Next

\* A request row is written once by its raise and then only closed.
LEMMA RowsMoveOn ==
  ASSUME CopyInv, [Next]_vars
  PROVE Forward /\ Behind(row)'
<1>1. ASSUME NEW r \in Request, InsertRow(r)
      PROVE Forward /\ Behind(row)'
  <2>1. row[r] = "absent"
    BY <1>1 DEF CopyInv, RaiseFollows, InsertRow
  <2> QED
    BY <1>1, <2>1
    DEF CopyInv, TypeOK, Copies, Behind, Forward, InsertRow, Raised, Closed
<1>2. ASSUME NEW o \in Op, InsertAnswer(o)
      PROVE Forward /\ Behind(row)'
  BY <1>2 DEF CopyInv, TypeOK, Behind, Forward, InsertAnswer, Writer
<1>3. ASSUME NEW o \in Op, CloseRow(o)
      PROVE Forward /\ Behind(row)'
  <2>1. kind[o] = "resume" => answer[target[o]] # None
    BY <1>3 DEF CopyInv, RouteFollows, CloseRow
  <2> QED
    BY <1>3, <2>1 DEF CopyInv, TypeOK, Copies, Behind, Forward, CloseRow, Closed
<1>4. CASE UNCHANGED <<row, answer>>
  BY <1>4 DEF CopyInv, Behind, Forward
<1> QED
  BY <1>1, <1>2, <1>3, <1>4, RowWriters

\* The snapshot is what it was, or the copy that a writer had in hand.
LEMMA SnapshotWriters ==
  ASSUME [Next]_vars
  PROVE json' = json \/ \E w \in Writer : json' = view[w]
<1>1. CASE UNCHANGED vars
  BY <1>1 DEF vars, run
<1>2. CASE Call \/ RestartAgents \/ RestartRoutes
  BY <1>2, CallWrites, RestartWrites
<1>3. ASSUME NEW r \in Request, Raise(r)
      PROVE json' = json \/ json' = view[r]
  BY <1>3 DEF Raise, BeginRaise, InsertRow, NoteRow, EndRaise, SaveState, run
<1>4. ASSUME NEW w \in Writer, LoadStatus(w)
      PROVE json' = json
  BY <1>4 DEF LoadStatus, run
<1>5. ASSUME NEW o \in Op, Decide(o)
      PROVE json' = json \/ json' = view[o]
  BY <1>5 DEF Decide, CheckResume, CheckRemove, InsertAnswer, CloseRow, ReadRows,
              SaveDecision, SaveState, RereadRows, ReadLog, Finish, run
<1> QED
  BY <1>1, <1>2, <1>3, <1>4, <1>5 DEF Next, Writer

\* The call's context and a writer's copy change when the rows are read, or
\* when a raise notes the row it has written; the rows do not change then.
\* Otherwise they are cleared, if they change at all.
LEMMA CopyWriters ==
  ASSUME TypeOK, [Next]_vars
  PROVE \/ /\ known' \in {known, Nothing}
           /\ \A w \in Writer : view'[w] \in {view[w], Nothing}
        \/ StartCall
        \/ \E r \in Request : NoteRow(r)
        \/ \E o \in Op : ReadRows(o)
<1> DEFINE Cleared == /\ known' \in {known, Nothing}
                      /\ \A w \in Writer : view'[w] \in {view[w], Nothing}
<1>1. ASSUME UNCHANGED known, UNCHANGED view \/ \E w \in Writer : Clear(w)
      PROVE Cleared
  BY <1>1 DEF Clear, TypeOK
<1>2. CASE UNCHANGED vars
  BY <1>1, <1>2 DEF vars, call, saving
<1>3. CASE Call \/ RestartAgents \/ RestartRoutes
  BY <1>3, CallWrites, RestartWrites
<1>4. ASSUME NEW r \in Request, Raise(r)
      PROVE Cleared \/ NoteRow(r)
  <2> r \in Writer
    BY DEF Writer
  <2> HIDE DEF Cleared
  <2> QED
    BY <1>1, <1>4 DEF Raise, BeginRaise, InsertRow, EndRaise, SaveState, call, saving
<1>5. ASSUME NEW w \in Writer, LoadStatus(w)
      PROVE Cleared
  BY <1>1, <1>5 DEF LoadStatus, call
<1>6. ASSUME NEW o \in Op, Decide(o)
      PROVE Cleared \/ ReadRows(o)
  <2> o \in Writer
    BY DEF Writer
  <2> HIDE DEF Cleared
  <2> QED
    BY <1>1, <1>6
    DEF Decide, CheckResume, CheckRemove, InsertAnswer, CloseRow, SaveDecision,
        SaveState, RereadRows, ReadLog, Finish, call, saving
<1> QED
  BY <1>2, <1>3, <1>4, <1>5, <1>6 DEF Next

\* Every copy is behind the rows again after a step.
LEMMA CopiesStayBehind ==
  ASSUME CopyInv, [Next]_vars
  PROVE /\ Behind(json)' /\ Behind(known)'
        /\ \A w \in Writer : Behind(view[w])'
<1>1. Forward
  BY RowsMoveOn
<1>2. /\ BehindNext(row) /\ BehindNext(json) /\ BehindNext(known)
      /\ \A w \in Writer : BehindNext(view[w])
  BY <1>1, BehindStays DEF CopyInv
<1>3. BehindNext(json')
  BY <1>2, SnapshotWriters
<1>4. BehindNext(known') /\ \A w \in Writer : BehindNext(view'[w])
  <2>1. CASE /\ known' \in {known, Nothing}
             /\ \A w \in Writer : view'[w] \in {view[w], Nothing}
    <3>1. BehindNext(Nothing)
      BY DEF BehindNext, Nothing, Closed
    <3> QED
      BY <1>2, <2>1, <3>1
  <2>2. CASE StartCall
    BY <2>2, <1>2 DEF StartCall, saving
  <2>3. ASSUME NEW r \in Request, NoteRow(r)
        PROVE BehindNext(known') /\ \A w \in Writer : BehindNext(view'[w])
    <3>1. BehindNext(known')
      <4>1. row[r] # "absent" /\ (Raised(r) = "denied" => row[r] \in Closed)
        BY <2>3 DEF NoteRow, CopyInv, RaiseFollows
      <4>2. row' = row /\ answer' = answer
        BY <2>3 DEF NoteRow
      <4>3. known' = [known EXCEPT ![r] = Raised(r)] /\ Raised(r) \in {"denied", "pending"}
        BY <2>3 DEF NoteRow, Raised
      <4>4. known \in [Request -> {"absent", "pending"} \union Closed]
        BY DEF CopyInv, TypeOK, Copies
      <4> QED
        BY <1>2, <4>1, <4>2, <4>3, <4>4 DEF BehindNext, Closed
    <3>2. ASSUME NEW w \in Writer
          PROVE view'[w] = view[w] \/ view'[w] = known'
      BY <2>3 DEF NoteRow, CopyInv, TypeOK
    <3> QED
      BY <3>1, <3>2, <1>2
  <2>4. ASSUME NEW o \in Op, ReadRows(o)
        PROVE BehindNext(known') /\ \A w \in Writer : BehindNext(view'[w])
    <3> DEFINE denied == [row EXCEPT ![target[o]] = "denied"]
    <3>1. BehindNext(denied)
      <4>1. row[target[o]] \in Closed
        BY <2>4 DEF ReadRows, CopyInv, RouteFollows
      <4>2. row' = row /\ answer' = answer
        BY <2>4 DEF ReadRows
      <4>3. row \in [Request -> {"absent", "pending"} \union Closed]
        BY DEF CopyInv, TypeOK, Copies
      <4> QED
        BY <1>2, <4>1, <4>2, <4>3 DEF BehindNext, Closed
    <3>2. ASSUME NEW w \in Writer
          PROVE view'[w] \in {view[w], row, denied}
      BY <2>4 DEF ReadRows, CopyInv, TypeOK
    <3>3. known' = known
      BY <2>4 DEF ReadRows, call
    <3> HIDE DEF denied
    <3> QED
      BY <3>1, <3>2, <3>3, <1>2
  <2> QED
    BY <2>1, <2>2, <2>3, <2>4, CopyWriters DEF CopyInv
<1> QED
  BY <1>3, <1>4 DEF Behind, BehindNext

-----------------------------------------------------------------------------
(* Raises and routes stay in step with the rows.                             *)

\* A raise finds no row of its request until it writes it.
LEMMA RaisesFollow ==
  ASSUME CopyInv, [Next]_vars, NEW r \in Request
  PROVE RaiseFollows(r)'
<1> r \in Writer /\ r \notin Op
  BY DEF Writer
<1>1. Forward /\ RaiseFollows(r) /\ TypeOK
  BY RowsMoveOn DEF CopyInv
<1>2. ASSUME pc'[r] = pc[r] \/ pc'[r] \notin {"idle", "creating", "created"},
             count'[r] = count[r], row'[r] = row[r] \/ pc[r] \notin {"idle", "creating"}
      PROVE RaiseFollows(r)'
  BY <1>1, <1>2 DEF RaiseFollows, Raised, Forward
<1>3. ASSUME NEW s \in Request, Raise(s)
      PROVE RaiseFollows(r)'
  <2> s \in Writer
    BY DEF Writer
  <2>1. CASE s = r
    BY <1>1, <1>3, <2>1
    DEF Raise, BeginRaise, InsertRow, NoteRow, EndRaise, Advance, RaiseFollows,
        Raised, TypeOK, Copies, Closed
  <2>2. CASE s # r
    <3>1. pc'[r] = pc[r] /\ count'[r] = count[r] /\ row'[r] = row[r]
      BY <1>1, <1>3, <2>2
      DEF Raise, BeginRaise, InsertRow, NoteRow, EndRaise, Advance, TypeOK, Copies
    <3> QED
      BY <3>1, <1>2
  <2> QED
    BY <2>1, <2>2
<1>4. ASSUME NEW o \in Op, Decide(o)
      PROVE RaiseFollows(r)'
  <2>1. pc'[r] = pc[r] /\ count'[r] = count[r]
    BY <1>1, <1>4
    DEF Decide, CheckResume, CheckRemove, InsertAnswer, CloseRow, ReadRows,
        SaveDecision, RereadRows, ReadLog, Finish, Advance, TypeOK
  <2>2. row'[r] = row[r] \/ pc[r] \notin {"idle", "creating"}
    <3>1. CASE CloseRow(o)
      <4>1. row[target[o]] # "absent"
        BY <3>1 DEF CloseRow, CopyInv, RouteFollows, Resting
      <4>2. r = target[o] \/ row'[r] = row[r]
        BY <1>1, <3>1 DEF CloseRow, TypeOK, Copies
      <4> QED
        BY <1>1, <4>1, <4>2 DEF RaiseFollows
    <3>2. CASE ~CloseRow(o)
      BY <1>4, <3>2 DEF Decide, CheckResume, CheckRemove, InsertAnswer, ReadRows,
                        SaveDecision, RereadRows, ReadLog, Finish
    <3> QED
      BY <3>1, <3>2
  <2> QED
    BY <2>1, <2>2, <1>2
<1>5. ASSUME NEW w \in Writer, LoadStatus(w)
      PROVE RaiseFollows(r)'
  BY <1>1, <1>2, <1>5 DEF LoadStatus, Advance, TypeOK
<1>6. CASE Call \/ UNCHANGED vars
  BY <1>2, <1>6, CallWrites DEF vars
<1>7. CASE RestartAgents \/ RestartRoutes
  <2>1. pc'[r] \in {pc[r], "dead"}
    BY <1>1, <1>7 DEF RestartAgents, RestartRoutes, Stop, TypeOK
  <2> QED
    BY <1>2, <1>7, <2>1, RestartWrites
<1> QED
  BY <1>3, <1>4, <1>5, <1>6, <1>7 DEF Next

\* A route works on a request that exists, and reads it closed.
LEMMA RoutesFollow ==
  ASSUME CopyInv, [Next]_vars, NEW o \in Op
  PROVE RouteFollows(o)'
<1> o \in Writer /\ o \notin Request
  BY DEF Writer
<1>1. Forward /\ RouteFollows(o) /\ TypeOK /\ Behind(json)
  BY RowsMoveOn DEF CopyInv
<1>2. ASSUME \/ pc'[o] = pc[o]
             \/ pc[o] \notin Resting /\ pc'[o] \notin {"closing", "reading"}
             \/ pc'[o] \in Resting,
             kind'[o] = kind[o], target'[o] = target[o]
      PROVE RouteFollows(o)'
  <2>1. pc[o] \notin Resting => target[o] \in Request
    BY <1>1 DEF TypeOK
  <2>2. CASE pc'[o] \in Resting
    BY <2>2 DEF RouteFollows, Resting
  <2>3. CASE pc'[o] \notin Resting
    <3>1. pc[o] \notin Resting /\ target[o] \in Request
      BY <1>2, <2>1, <2>3
    <3> QED
      BY <1>1, <1>2, <2>3, <3>1 DEF RouteFollows, Forward, Resting
  <2> QED
    BY <2>2, <2>3
<1>3. ASSUME Decide(o)
      PROVE RouteFollows(o)'
  <2>1. ASSUME NEW r \in Request, json[r] = "pending",
               Accept(o, "resume", r) \/ Accept(o, "remove", r), row' = row,
               \/ pc'[o] = "answering"
               \/ pc'[o] = "closing" /\ Accept(o, "remove", r)
        PROVE RouteFollows(o)'
    <3>1. target'[o] = r /\ (pc'[o] = "closing" => kind'[o] = "remove")
      BY <1>1, <2>1 DEF Accept, TypeOK
    <3>2. row[r] # "absent"
      BY <1>1, <2>1 DEF Behind
    <3> QED
      BY <2>1, <3>1, <3>2 DEF RouteFollows
  <2>2. ASSUME NEW r \in Request, NEW v \in {"go", "fail", "emit"}, CheckResume(o, r, v)
        PROVE RouteFollows(o)'
    <3>1. pc'[o] = "answering"
      BY <1>1, <2>2 DEF CheckResume, Advance, TypeOK
    <3> QED
      BY <2>1, <2>2, <3>1 DEF CheckResume
  <2>3. ASSUME NEW given \in Request \union {None}, CheckRemove(o, given)
        PROVE RouteFollows(o)'
    <3>1. pc'[o] = "closing"
      BY <1>1, <2>3 DEF CheckRemove, Advance, TypeOK
    <3>2. PICK r \in Request : json[r] = "pending" /\ Accept(o, "remove", r)
      BY <1>1, <2>3 DEF CheckRemove, Shown, TypeOK
    <3> QED
      BY <2>1, <2>3, <3>1, <3>2 DEF CheckRemove
  <2>4. CASE InsertAnswer(o)
    <3>1. target[o] \in Request /\ row[target[o]] # "absent"
      BY <1>1, <2>4 DEF InsertAnswer, TypeOK, RouteFollows, Resting
    <3>2. target' = target /\ row' = row /\ pc'[o] = "closing"
      BY <1>1, <2>4 DEF InsertAnswer, Advance, TypeOK, op
    <3>3. answer'[target[o]] = o /\ o # None
      BY <1>1, <2>4, <3>1 DEF InsertAnswer, TypeOK
    <3> QED
      BY <3>1, <3>2, <3>3 DEF RouteFollows
  <2>5. CASE CloseRow(o)
    <3>1. target[o] \in Request
      BY <1>1, <2>5 DEF CloseRow, TypeOK, Resting
    <3>2. target' = target /\ pc'[o] = "reading"
      BY <1>1, <2>5 DEF CloseRow, Advance, TypeOK, op
    <3>3. row'[target[o]] \in Closed
      BY <1>1, <2>5, <3>1 DEF CloseRow, TypeOK, Copies, Closed
    <3> QED
      BY <3>1, <3>2, <3>3 DEF RouteFollows, Closed
  <2>6. CASE \/ ReadRows(o) \/ SaveDecision(o) \/ RereadRows(o) \/ ReadLog(o)
             \/ Finish(o)
    <3>1. kind' = kind /\ target' = target
      BY <2>6 DEF ReadRows, SaveDecision, RereadRows, ReadLog, Finish, op
    <3>2. pc[o] \notin Resting /\ pc'[o] \notin {"closing", "reading"}
      BY <1>1, <2>6 DEF ReadRows, SaveDecision, SaveState, RereadRows, ReadLog,
                        Finish, Advance, TypeOK, Resting
    <3> QED
      BY <1>2, <3>1, <3>2
  <2> QED
    BY <1>3, <2>2, <2>3, <2>4, <2>5, <2>6 DEF Decide
<1>4. ASSUME NEW p \in Op, p # o, Decide(p)
      PROVE RouteFollows(o)'
  <2>1. pc'[o] = pc[o]
    BY <1>1, <1>4
    DEF Decide, CheckResume, CheckRemove, InsertAnswer, CloseRow, ReadRows,
        SaveDecision, RereadRows, ReadLog, Finish, Advance, TypeOK
  <2>2. kind'[o] = kind[o] /\ target'[o] = target[o]
    BY <1>1, <1>4
    DEF Decide, CheckResume, CheckRemove, Accept, InsertAnswer, CloseRow, ReadRows,
        SaveDecision, RereadRows, ReadLog, Finish, TypeOK, op
  <2> QED
    BY <1>2, <2>1, <2>2
<1>5. ASSUME NEW r \in Request, Raise(r)
      PROVE RouteFollows(o)'
  <2>1. pc'[o] = pc[o] /\ kind' = kind /\ target' = target
    BY <1>1, <1>5
    DEF Raise, BeginRaise, InsertRow, NoteRow, EndRaise, Advance, TypeOK, op
  <2> QED
    BY <1>2, <2>1
<1>6. ASSUME NEW w \in Writer, LoadStatus(w)
      PROVE RouteFollows(o)'
  <2>1. kind' = kind /\ target' = target
    BY <1>6 DEF LoadStatus, op
  <2>2. pc'[o] = pc[o] \/ (pc[o] \notin Resting /\ pc'[o] = "saving")
    BY <1>1, <1>6 DEF LoadStatus, Advance, TypeOK, Resting
  <2> QED
    BY <1>2, <2>1, <2>2
<1>7. CASE Call \/ UNCHANGED vars
  BY <1>2, <1>7, CallWrites DEF vars, op
<1>8. CASE RestartAgents \/ RestartRoutes
  <2>1. kind' = kind /\ target' = target
    BY <1>8, RestartWrites
  <2>2. pc'[o] = pc[o] \/ pc'[o] = "dead"
    BY <1>1, <1>8 DEF RestartAgents, RestartRoutes, Stop, TypeOK
  <2> QED
    BY <1>2, <2>1, <2>2 DEF Resting
<1> QED
  BY <1>3, <1>4, <1>5, <1>6, <1>7, <1>8 DEF Next

-----------------------------------------------------------------------------
\* The invariant holds at first and every step keeps it.
LEMMA CopyInvariant == Spec => []CopyInv
<1>1. Init => CopyInv
  <2> SUFFICES ASSUME Init
               PROVE CopyInv
    OBVIOUS
  <2>1. /\ Behind(row) /\ Behind(json) /\ Behind(known)
        /\ \A w \in Writer : Behind(view[w])
    BY DEF Init, Nothing, Behind, Closed
  <2>2. \A w \in Request \union Op : pc[w] = "idle"
    BY DEF Init, Writer
  <2>3. \A r \in Request : RaiseFollows(r)
    BY <2>2 DEF Init, Nothing, RaiseFollows
  <2>4. \A o \in Op : RouteFollows(o)
    BY <2>2 DEF RouteFollows, Resting
  <2> QED
    BY <2>1, <2>3, <2>4, TypeInit DEF CopyInv
<1>2. CopyInv /\ [Next]_vars => CopyInv'
  <2> SUFFICES ASSUME CopyInv, [Next]_vars
               PROVE CopyInv'
    OBVIOUS
  <2>1. TypeOK'
    BY TypeRun, TypeDecide, TypeOthers DEF CopyInv, Next
  <2>2. Behind(row)'
    BY RowsMoveOn
  <2>3. /\ Behind(json)' /\ Behind(known)'
        /\ \A w \in Writer : Behind(view[w])'
    BY CopiesStayBehind
  <2> QED
    BY <2>1, <2>2, <2>3, RaisesFollow, RoutesFollow DEF CopyInv
<1> QED
  BY <1>1, <1>2, PTL DEF Spec

\* However raises, routes and restarts interleave, the snapshot that the
\* routes decide by never shows a request that does not exist, nor one closed
\* that is open, nor one resolved that has no response.
THEOREM SnapshotNeverAhead == Spec => []SnapshotBehind
<1>1. CopyInv => SnapshotBehind
  BY DEF CopyInv, Behind, SnapshotBehind
<1> QED
  BY <1>1, CopyInvariant, PTL

\* A step of the code is a step of the life cycle, or leaves the tables alone.
LEMMA RequestsStep ==
  CopyInv /\ [Next]_vars => [Requests!Next]_<<row, answer>>
<1> SUFFICES ASSUME CopyInv, [Next]_vars
             PROVE  Requests!Next \/ UNCHANGED <<row, answer>>
  OBVIOUS
<1>1. ASSUME NEW r \in Request, InsertRow(r)
      PROVE Requests!Next
  <2>1. row[r] = "absent"
    BY <1>1 DEF CopyInv, RaiseFollows, InsertRow
  <2>2. row' = [row EXCEPT ![r] = Raised(r)] /\ UNCHANGED answer
    BY <1>1 DEF InsertRow
  <2>3. Requests!Raise(r)
    BY <2>1, <2>2 DEF Requests!Raise, Raised
  <2> QED
    BY <2>3 DEF Requests!Next
<1>2. ASSUME NEW o \in Op, InsertAnswer(o)
      PROVE Requests!Next
  <2>1. pc[o] \notin Resting /\ target[o] \in Request
    BY <1>2 DEF InsertAnswer, CopyInv, TypeOK, Resting
  <2>2. Requests!Respond(target[o], o)
    BY <1>2, <2>1 DEF InsertAnswer, Requests!Respond, CopyInv, RouteFollows
  <2> QED
    BY <2>1, <2>2 DEF Requests!Next
<1>3. ASSUME NEW o \in Op, CloseRow(o)
      PROVE Requests!Next
  <2>1. pc[o] = "closing" /\ target[o] \in Request
    BY <1>3 DEF CloseRow, CopyInv, TypeOK, Resting
  <2>2. row[target[o]] # "absent"
    BY <2>1 DEF CopyInv, RouteFollows, Resting
  <2>3. CASE kind[o] = "resume"
    <3>1. Requests!Resolve(target[o])
      BY <1>3, <2>1, <2>3 DEF CloseRow, Requests!Resolve, CopyInv, RouteFollows
    <3> QED
      BY <2>1, <3>1 DEF Requests!Next
  <2>4. CASE kind[o] # "resume"
    <3>1. Requests!Deny(target[o])
      BY <1>3, <2>2, <2>4 DEF CloseRow, Requests!Deny
    <3> QED
      BY <2>1, <3>1 DEF Requests!Next
  <2> QED
    BY <2>3, <2>4
<1> QED
  BY <1>1, <1>2, <1>3, RowWriters

\* The tables implement RequestLifecycle: however raises, routes and restarts
\* interleave, no request disappears or opens again, no response is lost, and
\* a resolved request has one.
THEOREM ImplementsRequestLifecycle == Spec => KeepsRequests
<1>1. Init => Requests!Init
  BY DEF Init, Requests!Init, Nothing
<1> QED
  BY <1>1, RequestsStep, CopyInvariant, PTL DEF Spec, KeepsRequests, Requests!Spec

-----------------------------------------------------------------------------
(* When operators and clients wait for each other, they take turns: a raise  *)
(* works while the engine executes, one route at a time between two calls.   *)

Busy(w) == pc[w] \notin Resting

Turns ==
  /\ \A r \in Request : Busy(r) => phase = "on"
  /\ \A o \in Op : Busy(o) => phase \notin Calling
  /\ \A o, p \in Op : Busy(o) /\ Busy(p) => o = p

Others(w) == \A v \in Writer : v # w => pc'[v] = pc[v]

\* The four kinds of steps.
RunStep == Call /\ AtRest(Writer) /\ pc' = pc

RaiseStep(r) ==
  /\ Raise(r) \/ LoadStatus(r)
  /\ phase = "on" /\ phase' = "on" /\ AtRest(Op) /\ Others(r)

RouteStep(o) ==
  /\ Decide(o) \/ LoadStatus(o)
  /\ phase' = phase /\ phase \notin Calling /\ Others(o)
  /\ \A v \in Writer : v # o => pc[v] \in Resting

StopStep ==
  /\ RestartAgents \/ RestartRoutes
  /\ \A w \in Writer : pc'[w] = pc[w] \/ (Busy(w) /\ pc'[w] = "dead")

\* The run call moves only while nobody writes.
LEMMA CallRests ==
  ASSUME ~Overlapping, Turns, Call
  PROVE  RunStep
<1>1. AtRest(Op)
  <2>1. CASE phase \in Calling
    BY <2>1 DEF Turns, AtRest, Busy
  <2>2. CASE phase \notin Calling
    BY <2>2 DEF Call, RequestCall, RecordResume, StartCall, RejectRun, MarkRunning, PauseCall,
                RecordResult, FailCall, ThrowCall, EndCall, Calling
  <2> QED BY <2>1, <2>2
<1>2. AtRest(Request)
  <2>1. CASE phase # "on"
    BY <2>1 DEF Turns, AtRest, Busy
  <2>2. CASE phase = "on"
    BY <2>2 DEF Call, RequestCall, RecordResume, StartCall, RejectRun, MarkRunning, PauseCall,
                RecordResult, FailCall, ThrowCall, EndCall
  <2> QED BY <2>1, <2>2
<1> QED BY <1>1, <1>2, CallWrites DEF RunStep, AtRest, Writer

\* A step that advances one writer leaves the others where they are.
LEMMA OneMoves ==
  ASSUME TypeOK, NEW w \in Writer, NEW label, Advance(w, label)
  PROVE  Others(w) /\ pc'[w] = label
BY DEF Advance, Others, TypeOK

\* A raise works while the engine executes and no route is at work.
LEMMA RaiseTurn ==
  ASSUME TypeOK, Turns, NEW r \in Request, Raise(r) \/ LoadStatus(r)
  PROVE  RaiseStep(r)
<1> r \in Writer
  BY DEF Writer
<1>1. phase' = phase /\ (phase = "on" \/ Busy(r))
  BY DEF Raise, BeginRaise, InsertRow, NoteRow, EndRaise, SaveState, LoadStatus, Busy, Resting, call
<1>2. \E label \in {"creating", "created", "loading", "saving", "done"} : Advance(r, label)
  BY DEF Raise, BeginRaise, InsertRow, NoteRow, EndRaise, LoadStatus
<1>3. phase = "on" /\ AtRest(Op)
  BY <1>1 DEF Turns, AtRest, Busy, Calling
<1> QED BY <1>1, <1>2, <1>3, OneMoves DEF RaiseStep

\* A route works alone, between two run calls.
LEMMA RouteTurn ==
  ASSUME ~Overlapping, TypeOK, Turns, NEW o \in Op, Decide(o) \/ LoadStatus(o)
  PROVE  RouteStep(o)
<1> o \in Writer
  BY DEF Writer
<1>1. phase' = phase
  BY DEF Decide, CheckResume, CheckRemove, InsertAnswer, CloseRow, ReadRows, SaveDecision,
         RereadRows, ReadLog, Finish, LoadStatus, call
<1>2. \E label \in Deciding \union {"loading", "saving", "done"} : Advance(o, label)
  BY DEF Decide, CheckResume, CheckRemove, InsertAnswer, CloseRow, ReadRows, SaveDecision,
         RereadRows, ReadLog, Finish, LoadStatus, Deciding
<1>3. phase \notin Calling /\ (AtRest(Op) \/ Busy(o))
  <2>1. CASE \/ \E r \in Request, v \in {"go", "fail", "emit"} : CheckResume(o, r, v)
             \/ \E r \in Request \union {None} : CheckRemove(o, r)
    BY <2>1 DEF CheckResume, CheckRemove, MayDecide, Quiet
  <2>2. CASE \/ InsertAnswer(o) \/ CloseRow(o) \/ ReadRows(o) \/ SaveDecision(o)
             \/ RereadRows(o) \/ ReadLog(o) \/ Finish(o) \/ LoadStatus(o)
    <3>1. Busy(o)
      BY <2>2 DEF InsertAnswer, CloseRow, ReadRows, SaveDecision, SaveState, RereadRows,
                  ReadLog, Finish, LoadStatus, Busy, Resting
    <3> QED BY <3>1 DEF Turns
  <2> QED BY <2>1, <2>2 DEF Decide
<1>4. \A v \in Writer : v # o => pc[v] \in Resting
  BY <1>3 DEF Turns, AtRest, Busy, Calling, Writer
<1> QED BY <1>1, <1>2, <1>3, <1>4, OneMoves DEF RouteStep

\* A restart ends what is at work, and nothing else.
LEMMA StopTurn ==
  ASSUME TypeOK, RestartAgents \/ RestartRoutes
  PROVE  StopStep
BY DEF RestartAgents, RestartRoutes, Stop, StopStep, Busy, TypeOK

\* Every step is one of the four.
LEMMA FourKinds ==
  ASSUME ~Overlapping, TypeOK, Turns, Next
  PROVE  \/ RunStep \/ StopStep
         \/ \E r \in Request : RaiseStep(r)
         \/ \E o \in Op : RouteStep(o)
BY CallRests, RaiseTurn, RouteTurn, StopTurn DEF Next, Writer

\* Every step keeps the turns.
LEMMA TurnsNext ==
  ASSUME ~Overlapping, TypeOK, Turns, [Next]_vars
  PROVE  Turns'
<1>1. CASE UNCHANGED vars
  BY <1>1 DEF vars, call, Turns, Busy
<1>2. CASE RunStep
  BY <1>2 DEF RunStep, Turns, AtRest, Busy, Writer
<1>3. ASSUME NEW r \in Request, RaiseStep(r)
      PROVE  Turns'
  BY <1>3 DEF RaiseStep, Turns, Others, AtRest, Busy, Writer
<1>4. ASSUME NEW o \in Op, RouteStep(o)
      PROVE  Turns'
  BY <1>4 DEF RouteStep, Turns, Others, Busy, Writer
<1>5. CASE StopStep
  <2>1. \A w \in Writer : Busy(w)' => Busy(w)
    BY <1>5 DEF StopStep, Busy, Resting
  <2>2. CASE RestartAgents
    <3>1. \A r \in Request : ~Busy(r)'
      BY <2>2 DEF RestartAgents, Stop, Busy, Resting, Writer
    <3>2. AtRest(Op)
      BY <2>2 DEF RestartAgents, Turns, AtRest, Busy
    <3> QED BY <2>1, <3>1, <3>2 DEF Turns, AtRest, Busy, Writer
  <2>3. CASE RestartRoutes
    BY <2>1, <2>3 DEF RestartRoutes, Turns, Writer, call
  <2> QED BY <1>5, <2>2, <2>3 DEF StopStep
<1> QED BY <1>1, <1>2, <1>3, <1>4, <1>5, FourKinds

\* What the steps of one kind leave alone.
LEMMA RaiseLeaves ==
  ASSUME NEW r \in Request, RaiseStep(r)
  PROVE  /\ UNCHANGED <<answer, audit, held, kind, target, log>>
         /\ \A o \in Op : pc'[o] = pc[o] /\ pc[o] \in Resting
         /\ pc[r] \notin {"done", "dead"}
<1>1. UNCHANGED <<answer, audit, held, kind, target, log>>
  BY DEF RaiseStep, Raise, BeginRaise, InsertRow, NoteRow, EndRaise, LoadStatus, run, call, op
<1>2. pc[r] \notin {"done", "dead"}
  BY DEF RaiseStep, Raise, BeginRaise, InsertRow, NoteRow, EndRaise, SaveState, LoadStatus
<1> QED BY <1>1, <1>2 DEF RaiseStep, Others, AtRest, Writer

\* A route leaves the run call, its raises and the other routes alone.
LEMMA RouteLeaves ==
  ASSUME TypeOK, NEW o \in Op, RouteStep(o)
  PROVE  /\ UNCHANGED <<phase, held, asked, accepted, known, knownTop, count>>
         /\ \A r \in Request : pc'[r] = pc[r] /\ pc[r] \in Resting
         /\ \A p \in Op : p # o =>
              /\ pc'[p] = pc[p] /\ pc[p] \in Resting
              /\ kind'[p] = kind[p] /\ target'[p] = target[p]
         /\ \A w \in Writer : w # o => view'[w] = view[w]
<1> o \in Writer /\ o \notin Request
  BY DEF Writer
<1>1. UNCHANGED <<phase, held, asked, accepted, known, knownTop, count>>
  BY DEF RouteStep, Decide, CheckResume, CheckRemove, InsertAnswer, CloseRow, ReadRows,
         SaveDecision, RereadRows, ReadLog, Finish, LoadStatus, call
<1>2. \A p \in Op : p # o => kind'[p] = kind[p] /\ target'[p] = target[p]
  BY DEF RouteStep, Decide, CheckResume, CheckRemove, Accept, InsertAnswer, CloseRow, ReadRows,
         SaveDecision, RereadRows, ReadLog, Finish, LoadStatus, TypeOK, op
<1>3. \A w \in Writer : w # o => view'[w] = view[w]
  BY DEF RouteStep, Decide, CheckResume, CheckRemove, InsertAnswer, CloseRow, ReadRows,
         SaveDecision, SaveState, Clear, RereadRows, ReadLog, Finish, LoadStatus, TypeOK, saving
<1>4. \A w \in Writer : w # o => pc'[w] = pc[w] /\ pc[w] \in Resting
  BY DEF RouteStep, Others
<1> QED BY <1>1, <1>2, <1>3, <1>4 DEF Writer

\* A restart leaves what is stored alone.
LEMMA StopLeaves ==
  ASSUME StopStep
  PROVE  /\ UNCHANGED <<row, answer, json, top, column, status, audit, count, kind, target,
                        view, viewTop, next, log>>
         /\ \/ phase' \notin Calling
            \/ UNCHANGED <<phase, held, asked, accepted, known, knownTop>>
         /\ phase' # "ended" => phase # "ended"
BY DEF StopStep, RestartAgents, RestartRoutes, Leave, Stop, run, call, saving, op, Calling

TurnInv == CopyInv /\ Turns

\* When operators and clients wait, they take turns in every state.
LEMMA TurnInvariant ==
  ASSUME ~Overlapping
  PROVE  Spec => []TurnInv
<1>1. Init => Turns
  <2> SUFFICES ASSUME Init PROVE Turns
    OBVIOUS
  <2>1. \A w \in Request \union Op : pc[w] = "idle"
    BY DEF Init, Writer
  <2> QED BY <2>1 DEF Turns, Busy, Resting
<1>2. CopyInv /\ Turns /\ [Next]_vars => Turns'
  BY TurnsNext DEF CopyInv
<1> QED BY <1>1, <1>2, CopyInvariant, PTL DEF Spec, TurnInv

-----------------------------------------------------------------------------
(* The audit log: whoever is about to write it has read the latest.          *)

Logged ==
  /\ phase = "auditing" => held = audit
  /\ \A o \in Op : pc[o] = "finishing" => log[o] = audit
  /\ AuditKeptUntilEnd

\* Every step keeps the audit log, as long as the run has not ended.
LEMMA LoggedNext ==
  ASSUME ~Overlapping, TurnInv, Logged, [Next]_vars
  PROVE  Logged'
<1> TypeOK /\ Turns
  BY DEF TurnInv, CopyInv
<1>1. CASE UNCHANGED vars
  BY <1>1 DEF Logged, AuditKeptUntilEnd, vars, run, call, op
<1>2. CASE RunStep
  <2>1. \A o \in Op : pc[o] # "finishing"
    BY <1>2 DEF RunStep, AtRest, Resting, Writer
  <2>2. /\ phase' = "ended" \/ audit' = audit
        /\ phase' = "auditing" => held' = audit'
        /\ phase' # "ended" => phase # "ended"
    BY <1>2
       DEF RunStep, Logged, Call, RequestCall, RecordResume, StartCall, RejectRun, MarkRunning,
           PauseCall, RecordResult, FailCall, ThrowCall, EndCall, Leave, run
  <2> QED BY <1>2, <2>1, <2>2 DEF RunStep, Logged, AuditKeptUntilEnd
<1>3. ASSUME NEW r \in Request, RaiseStep(r)
      PROVE  Logged'
  <2>1. phase' = "on" /\ phase = "on"
    BY <1>3 DEF RaiseStep
  <2> QED BY <1>3, <2>1, RaiseLeaves DEF Logged, AuditKeptUntilEnd
<1>4. ASSUME NEW o \in Op, RouteStep(o)
      PROVE  Logged'
  <2> o \in Writer
    BY DEF Writer
  <2>1. phase' = phase /\ phase # "auditing"
    BY <1>4 DEF RouteStep, Calling
  <2>2. \A p \in Op : p # o => pc'[p] = pc[p] /\ pc[p] # "finishing"
    BY <1>4, RouteLeaves DEF Resting
  <2>3. CASE Finish(o)
    <3>1. /\ pc[o] = "finishing" /\ pc'[o] = "done" /\ audit' = log[o] \union {o}
      BY <2>3 DEF Finish, Advance, TypeOK
    <3> QED BY <2>1, <2>2, <3>1 DEF Logged, AuditKeptUntilEnd
  <2>4. CASE ReadLog(o)
    <3>1. pc'[o] = "finishing" /\ audit' = audit /\ log'[o] = audit
      BY <2>4 DEF ReadLog, Advance, TypeOK, run
    <3> QED BY <2>1, <2>2, <3>1 DEF Logged, AuditKeptUntilEnd
  <2>5. CASE ~Finish(o) /\ ~ReadLog(o)
    <3>1. pc'[o] \notin {"finishing", "done"} /\ audit' = audit
      BY <1>4, <2>5
         DEF RouteStep, Decide, CheckResume, CheckRemove, InsertAnswer, CloseRow, ReadRows,
             SaveDecision, SaveState, RereadRows, LoadStatus, Advance, TypeOK, run
    <3> QED BY <2>1, <2>2, <3>1 DEF Logged, AuditKeptUntilEnd
  <2> QED BY <2>3, <2>4, <2>5
<1>5. CASE StopStep
  <2>1. \A o \in Op : pc'[o] \in {"finishing", "done"} => pc'[o] = pc[o]
    BY <1>5 DEF StopStep, Writer
  <2> QED BY <1>5, <2>1, StopLeaves DEF Logged, AuditKeptUntilEnd, Calling
<1> QED BY <1>1, <1>2, <1>3, <1>4, <1>5, FourKinds

\* When operators and clients wait for each other, the run's audit log has, until it ends,
\* an entry for each decision that was reported as taken, whatever tool calls overlap and
\* whenever a server restarts.
THEOREM AuditIsKept ==
  ASSUME ~Overlapping
  PROVE  Spec => []AuditKeptUntilEnd
<1>1. Init => Logged
  BY DEF Init, Logged, AuditKeptUntilEnd, Writer
<1>2. TurnInv /\ Logged /\ [Next]_vars => Logged'
  BY LoggedNext
<1>3. Logged => AuditKeptUntilEnd
  BY DEF Logged
<1> QED BY <1>1, <1>2, <1>3, TurnInvariant, PTL DEF Spec

-----------------------------------------------------------------------------
(* What the run call knows of the requests.                                  *)

InContext == phase \in {"loaded", "on"}

\* The context's snapshot has the rows, but for those its raises have yet to note.
Noted ==
  /\ \A r \in Request : pc[r] = "created" => row[r] = Raised(r)
  /\ InContext =>
       \A r \in Request : known[r] = IF pc[r] = "created" THEN "absent" ELSE row[r]

\* The run call reads the rows when no raise is at work.
LEMMA NotedRun ==
  ASSUME TypeOK, Noted, RunStep
  PROVE  Noted'
<1>1. UNCHANGED <<row, count>> /\ \A r \in Request : pc'[r] = pc[r] /\ pc[r] # "created"
  BY CallWrites DEF RunStep, AtRest, Resting, Writer
<1>2. InContext' => known' = row \/ (InContext /\ known' = known)
  BY DEF RunStep, Call, RequestCall, RecordResume, StartCall, RejectRun, MarkRunning,
         PauseCall, RecordResult, FailCall, ThrowCall, EndCall, Leave, InContext
<1> QED BY <1>1, <1>2 DEF Noted

\* A raise writes its row, then notes it in the context.
LEMMA NotedRaise ==
  ASSUME CopyInv, Noted, NEW r \in Request, RaiseStep(r)
  PROVE  Noted'
<1> r \in Writer /\ TypeOK
  BY DEF Writer, CopyInv
<1>1. /\ InContext /\ InContext'
      /\ \A q \in Request : q # r => pc'[q] = pc[q]
  BY DEF RaiseStep, Others, InContext, Writer
<1>2. row \in Copies /\ known \in Copies /\ count \in [Request -> Nat]
  BY DEF TypeOK
<1>3. CASE BeginRaise(r)
  <2>1. /\ pc[r] = "idle" /\ pc'[r] = "creating" /\ UNCHANGED <<row, known>>
        /\ \A q \in Request : q # r => count'[q] = count[q]
    BY <1>2, <1>3 DEF BeginRaise, Advance, TypeOK, call
  <2> QED BY <1>1, <2>1 DEF Noted, Raised
<1>4. CASE InsertRow(r)
  <2>1. /\ pc[r] = "creating" /\ pc'[r] = "created" /\ UNCHANGED <<known, count>>
        /\ row[r] = "absent" /\ row' = [row EXCEPT ![r] = Raised(r)]
    BY <1>4 DEF InsertRow, Advance, TypeOK, call, CopyInv, RaiseFollows
  <2>2. row'[r] = Raised(r) /\ \A q \in Request : q # r => row'[q] = row[q]
    BY <1>2, <2>1 DEF Copies
  <2> QED BY <1>1, <2>1, <2>2 DEF Noted, Raised
<1>5. CASE NoteRow(r)
  <2>1. /\ pc[r] = "created" /\ pc'[r] = "loading" /\ UNCHANGED <<row, count>>
        /\ known' = [known EXCEPT ![r] = Raised(r)]
    BY <1>5 DEF NoteRow, Advance, TypeOK
  <2>2. known'[r] = row[r] /\ \A q \in Request : q # r => known'[q] = known[q]
    BY <1>2, <2>1 DEF Copies, Noted
  <2> QED BY <1>1, <2>1, <2>2 DEF Noted, Raised
<1>6. CASE EndRaise(r) \/ LoadStatus(r)
  <2>1. /\ pc[r] # "created" /\ pc'[r] # "created" /\ UNCHANGED <<row, known, count>>
    BY <1>6 DEF EndRaise, SaveState, LoadStatus, Advance, TypeOK, call
  <2> QED BY <1>1, <2>1 DEF Noted, Raised
<1> QED BY <1>3, <1>4, <1>5, <1>6 DEF RaiseStep, Raise

\* Every step keeps the context in line with the rows.
LEMMA NotedNext ==
  ASSUME ~Overlapping, TurnInv, Noted, [Next]_vars
  PROVE  Noted'
<1> CopyInv /\ TypeOK /\ Turns
  BY DEF TurnInv, CopyInv
<1>1. CASE UNCHANGED vars
  BY <1>1 DEF Noted, Raised, InContext, vars, call
<1>2. ASSUME NEW o \in Op, RouteStep(o)
      PROVE  Noted'
  <2>1. ~InContext' /\ \A r \in Request : pc'[r] # "created"
    BY <1>2, RouteLeaves DEF RouteStep, InContext, Calling, Resting
  <2> QED BY <2>1 DEF Noted
<1>3. CASE StopStep
  <2>1. \A r \in Request : pc'[r] = "created" => pc[r] = "created"
    BY <1>3 DEF StopStep, Writer
  <2>2. UNCHANGED <<row, count>> /\ (InContext' => InContext /\ known' = known)
    BY <1>3, StopLeaves DEF InContext, Calling
  <2>3. InContext' => \A r \in Request : pc'[r] = pc[r]
    <3>1. CASE RestartAgents
      BY <3>1 DEF RestartAgents, Leave, InContext
    <3>2. CASE RestartRoutes
      BY <3>2 DEF RestartRoutes, Stop, Writer
    <3> QED BY <1>3, <3>1, <3>2 DEF StopStep
  <2> QED BY <2>1, <2>2, <2>3 DEF Noted, Raised
<1> QED BY <1>1, <1>2, <1>3, NotedRun, NotedRaise, FourKinds

-----------------------------------------------------------------------------
(* A decision stands: what a route has closed and saved stays closed in the  *)
(* snapshot too, whoever saves next.                                         *)

Saving(w) == pc[w] \in {"loading", "saving"}

\* Request q is closed, in its row and wherever the snapshot may come from.
Settled(q) ==
  /\ row[q] \in Closed /\ json[q] \in Closed
  /\ \A w \in Writer : Saving(w) => view[w][q] \in Closed

\* A route that has closed its request's row.
Deed == {"reading", "loading", "saving", "rereading", "logging", "finishing", "done"}

\* A route decides a request whose raise is over.
Decides(o) ==
  /\ pc[o] \notin {"idle", "dead"} =>
       target[o] \in Request /\ pc[target[o]] \in {"done", "dead"}
  /\ pc[o] \in Deed => row[target[o]] \in Closed
  /\ Saving(o) => view[o][target[o]] \in Closed
  /\ pc[o] \in Deed \ {"reading", "loading", "saving"} => Settled(target[o])

\* Nobody else has decided the request that a route works on.
Distinct ==
  \A o, p \in Op :
    o # p /\ pc[o] = "done" /\ pc[p] \notin {"idle", "dead"} => target[o] # target[p]

DecideInv == Noted /\ (\A o \in Op : Decides(o)) /\ Distinct

\* A raise that saves has every other raised request as its row has it.
LEMMA SettledRaise ==
  ASSUME CopyInv, Noted, NEW r \in Request, RaiseStep(r), Forward,
         NEW q \in Request, Settled(q), pc[q] \in {"done", "dead"}
  PROVE  Settled(q)'
<1> r \in Writer /\ TypeOK
  BY DEF Writer, CopyInv
<1>1. row'[q] \in Closed
  BY DEF Settled, Forward
<1>2. /\ InContext
      /\ \A w \in Writer : w # r => pc'[w] = pc[w]
  BY DEF RaiseStep, Others, InContext
<1>3. CASE NoteRow(r)
  <2>1. /\ json' = json /\ q # r
        /\ known' = [known EXCEPT ![r] = Raised(r)]
        /\ view' = [view EXCEPT ![r] = known']
    BY <1>3 DEF NoteRow, run
  <2>2. known[q] = row[q]
    BY <1>2 DEF Noted
  <2>3. view'[r][q] \in Closed /\ \A w \in Writer : w # r => view'[w] = view[w]
    BY <2>1, <2>2 DEF TypeOK, Copies, Settled
  <2> QED BY <1>1, <1>2, <2>1, <2>3 DEF Settled, Saving
<1>4. CASE EndRaise(r)
  <2>1. Saving(r) /\ pc'[r] = "done" /\ json' = view[r]
    BY <1>4 DEF EndRaise, SaveState, Advance, TypeOK, Saving
  <2>2. \A w \in Writer : w # r => view'[w] = view[w]
    BY <1>4 DEF EndRaise, SaveState, Clear, TypeOK
  <2> QED BY <1>1, <1>2, <2>1, <2>2 DEF Settled, Saving
<1>5. CASE BeginRaise(r) \/ InsertRow(r) \/ LoadStatus(r)
  <2>1. UNCHANGED <<json, view>> /\ (Saving(r)' => Saving(r))
    BY <1>5 DEF BeginRaise, InsertRow, LoadStatus, Advance, TypeOK, run, saving, Saving
  <2> QED BY <1>1, <1>2, <2>1 DEF Settled, Saving
<1> QED BY <1>3, <1>4, <1>5 DEF RaiseStep, Raise

\* A route saves what it has read from the rows.
LEMMA SettledRoute ==
  ASSUME CopyInv, NEW o \in Op, RouteStep(o), Forward,
         NEW q \in Request, Settled(q)
  PROVE  Settled(q)'
<1> o \in Writer /\ TypeOK
  BY DEF Writer, CopyInv
<1>1. row'[q] \in Closed
  BY DEF Settled, Forward
<1>2. \A w \in Writer : w # o => pc'[w] = pc[w] /\ view'[w] = view[w]
  BY RouteLeaves DEF RouteStep, Others
<1>3. CASE ReadRows(o)
  <2>1. json' = json /\ view'[o][q] \in {row[q], "denied"}
    BY <1>3 DEF ReadRows, TypeOK, Copies, run
  <2> QED BY <1>1, <1>2, <2>1 DEF Settled, Closed, Saving
<1>4. CASE SaveDecision(o)
  <2>1. Saving(o) /\ pc'[o] = "rereading" /\ json' = view[o]
    BY <1>4 DEF SaveDecision, SaveState, Advance, TypeOK, Saving
  <2> QED BY <1>1, <1>2, <2>1 DEF Settled, Saving
<1>5. CASE ~ReadRows(o) /\ ~SaveDecision(o)
  <2>1. json' = json /\ (Saving(o)' => Saving(o) /\ view' = view)
    BY <1>5 DEF RouteStep, Decide, CheckResume, CheckRemove, InsertAnswer, CloseRow, RereadRows,
                ReadLog, Finish, LoadStatus, Advance, TypeOK, run, saving, Saving
  <2> QED BY <1>1, <1>2, <2>1 DEF Settled, Saving
<1> QED BY <1>3, <1>4, <1>5

\* A step that does not touch route o leaves what it has decided.
LEMMA DecidesStays ==
  ASSUME NEW o \in Op, Decides(o), Forward, target'[o] = target[o],
         pc'[o] = pc[o] \/ pc'[o] = "dead",
         Saving(o) => view'[o] = view[o],
         \A q \in Request : pc[q] \in {"done", "dead"} => pc'[q] = pc[q],
         \A q \in Request : Settled(q) /\ pc[q] \in {"done", "dead"} => Settled(q)'
  PROVE  Decides(o)'
<1> SUFFICES ASSUME pc'[o] \notin {"idle", "dead"} PROVE Decides(o)'
  BY DEF Decides, Deed, Saving
<1>1. pc'[o] = pc[o]
  OBVIOUS
<1>2. PICK q \in Request : q = target[o]
  BY <1>1 DEF Decides
<1>3. pc'[q] \in {"done", "dead"}
  BY <1>1, <1>2 DEF Decides
<1>4. /\ pc[o] \in Deed => row'[q] \in Closed
      /\ Saving(o) => view'[o][q] \in Closed
      /\ pc[o] \in Deed \ {"reading", "loading", "saving"} => Settled(q)'
  BY <1>1, <1>2 DEF Decides, Forward
<1> QED BY <1>1, <1>2, <1>3, <1>4 DEF Decides, Saving, Settled, Deed

\* A route takes on a request that the snapshot has open, and goes on with it.
LEMMA Takes ==
  ASSUME CopyInv, NEW o \in Op, RouteStep(o)
  PROVE  /\ target'[o] \in Request
         /\ \/ /\ pc[o] = "idle" /\ pc'[o] \in {"answering", "closing"}
               /\ json[target'[o]] = "pending"
            \/ pc[o] \notin Resting /\ target'[o] = target[o]
<1> TypeOK
  BY DEF CopyInv
<1>1. ASSUME NEW k, NEW r \in Request, Accept(o, k, r)
      PROVE  target'[o] = r /\ pc[o] = "idle"
  BY <1>1 DEF Accept, TypeOK
<1>2. CASE \E r \in Request, v \in {"go", "fail", "emit"} : CheckResume(o, r, v)
  BY <1>1, <1>2 DEF CheckResume, Advance, TypeOK, Writer
<1>3. CASE \E given \in Request \union {None} : CheckRemove(o, given)
  <2>1. PICK r \in Request : Accept(o, "remove", r) /\ json[r] = "pending"
    BY <1>3 DEF CheckRemove, Shown, TypeOK
  <2>2. pc'[o] = "closing"
    BY <1>3 DEF CheckRemove, Advance, TypeOK, Writer
  <2> QED BY <1>1, <2>1, <2>2
<1>4. CASE \/ InsertAnswer(o) \/ CloseRow(o) \/ ReadRows(o) \/ SaveDecision(o)
           \/ RereadRows(o) \/ ReadLog(o) \/ Finish(o) \/ LoadStatus(o)
  <2>1. pc[o] \notin Resting /\ target' = target
    BY <1>4 DEF InsertAnswer, CloseRow, ReadRows, SaveDecision, SaveState, RereadRows, ReadLog,
                Finish, LoadStatus, Resting, op
  <2> QED BY <2>1 DEF TypeOK
<1> QED BY <1>2, <1>3, <1>4 DEF RouteStep, Decide

\* The route at work closes its request before it tells anybody so.
LEMMA DecidesMoves ==
  ASSUME CopyInv, NEW o \in Op, Decides(o), RouteStep(o), Forward,
         \A q \in Request : Settled(q) => Settled(q)'
  PROVE  Decides(o)'
<1> TypeOK /\ o \in Writer /\ o \notin Request
  BY DEF CopyInv, Writer
<1>1. /\ \A w \in Writer : w # o => pc'[w] = pc[w] /\ view'[w] = view[w] /\ pc[w] \in Resting
      /\ \A r \in Request : pc'[r] = pc[r] /\ pc[r] \in Resting
  BY RouteLeaves DEF RouteStep, Others
<1>2. PICK q \in Request :
        /\ q = target'[o]
        /\ \/ /\ pc[o] = "idle" /\ pc'[o] \in {"answering", "closing"}
              /\ json[q] = "pending"
           \/ pc[o] \notin Resting /\ target[o] = q
  BY Takes
<1>3. pc'[q] \in {"done", "dead"}
  <2>1. CASE pc[o] = "idle" /\ json[q] = "pending"
    <3>1. row[q] # "absent"
      BY <2>1 DEF CopyInv, Behind
    <3>2. pc[q] # "idle"
      BY <3>1 DEF CopyInv, RaiseFollows
    <3> QED BY <1>1, <3>2 DEF Resting
  <2>2. CASE pc[o] \notin Resting /\ target[o] = q
    BY <1>1, <2>2 DEF Decides, Resting
  <2> QED BY <1>2, <2>1, <2>2
<1>4. /\ pc'[o] \in Deed => row'[q] \in Closed
      /\ Saving(o)' => view'[o][q] \in Closed
      /\ pc'[o] \in Deed \ {"reading", "loading", "saving"} => Settled(q)'
  <2>1. CASE pc[o] = "idle" \/ InsertAnswer(o)
    <3>1. pc'[o] \in {"answering", "closing"}
      BY <1>2, <2>1 DEF InsertAnswer, Advance, TypeOK, Resting
    <3> QED BY <3>1 DEF Deed, Saving
  <2>2. CASE CloseRow(o)
    <3>1. pc'[o] = "reading" /\ target[o] = q
      BY <1>2, <2>2 DEF CloseRow, Advance, TypeOK
    <3>2. row'[q] \in Closed
      BY <2>2, <3>1 DEF CloseRow, TypeOK, Copies, Closed
    <3> QED BY <3>1, <3>2 DEF Saving
  <2>3. CASE ReadRows(o)
    <3>1. pc[o] = "reading" /\ pc'[o] = "loading" /\ target[o] = q /\ row' = row
      BY <1>2, <2>3 DEF ReadRows, Advance, TypeOK
    <3>2. row[q] \in Closed
      BY <3>1 DEF Decides, Deed
    <3>3. view'[o][q] \in {row[q], "denied"}
      BY <2>3, <3>1 DEF ReadRows, TypeOK, Copies
    <3> QED BY <3>1, <3>2, <3>3 DEF Closed, Saving
  <2>4. CASE LoadStatus(o)
    <3>1. /\ pc[o] = "loading" /\ pc'[o] = "saving" /\ target[o] = q
          /\ row' = row /\ view' = view
      BY <1>2, <2>4 DEF LoadStatus, Advance, TypeOK
    <3> QED BY <3>1 DEF Decides, Deed, Saving
  <2>5. CASE SaveDecision(o)
    <3>1. /\ pc[o] = "saving" /\ pc'[o] = "rereading" /\ target[o] = q
          /\ row' = row /\ json' = view[o]
      BY <1>2, <2>5 DEF SaveDecision, SaveState, Advance, TypeOK
    <3>2. row[q] \in Closed /\ view[o][q] \in Closed
      BY <3>1 DEF Decides, Deed, Saving
    <3>3. \A w \in Writer : ~Saving(w)'
      BY <1>1, <3>1 DEF Saving, Resting
    <3>4. Settled(q)'
      BY <3>1, <3>2, <3>3 DEF Settled
    <3> QED BY <3>1, <3>2, <3>4 DEF Saving
  <2>6. CASE RereadRows(o) \/ ReadLog(o) \/ Finish(o)
    <3>1. /\ pc[o] \in Deed \ {"reading", "loading", "saving"} /\ target[o] = q
          /\ pc'[o] \in Deed \ {"reading", "loading", "saving"} /\ row' = row
      BY <1>2, <2>6 DEF RereadRows, ReadLog, Finish, Advance, TypeOK, Deed
    <3>2. Settled(q) /\ row[q] \in Closed
      BY <3>1 DEF Decides
    <3>3. Settled(q)'
      BY <3>2
    <3> QED BY <3>1, <3>2, <3>3 DEF Saving
  <2> QED
    BY <1>2, <2>1, <2>2, <2>3, <2>4, <2>5, <2>6
       DEF RouteStep, Decide, CheckResume, CheckRemove, Accept
<1> QED BY <1>2, <1>3, <1>4 DEF Decides, Saving, Settled, Deed

\* A route takes on no request that another has decided.
LEMMA DistinctMoves ==
  ASSUME CopyInv, DecideInv, NEW o \in Op, RouteStep(o)
  PROVE  Distinct'
<1> TypeOK
  BY DEF CopyInv
<1>1. \A p \in Op : p # o => /\ pc'[p] = pc[p] /\ pc[p] \in Resting
                             /\ target'[p] = target[p]
  BY RouteLeaves
<1>2. ASSUME NEW p \in Op, p # o, pc[p] = "done"
      PROVE  target'[o] # target[p]
  <2>1. CASE pc[o] \notin Resting /\ target'[o] = target[o]
    BY <1>2, <2>1 DEF DecideInv, Distinct, Resting
  <2>2. CASE json[target'[o]] = "pending"
    <3>1. Settled(target[p])
      BY <1>2 DEF DecideInv, Decides, Deed
    <3> QED BY <2>2, <3>1 DEF Settled, Closed
  <2> QED BY <2>1, <2>2, Takes
<1>3. ASSUME NEW p \in Op, NEW q \in Op, p # q, pc'[p] = "done", pc'[q] \notin {"idle", "dead"}
      PROVE  target'[p] # target'[q]
  <2>1. CASE p = o
    <3>1. pc[q] = "done" /\ target'[q] = target[q]
      BY <1>1, <1>3, <2>1 DEF Resting
    <3> QED BY <1>2, <1>3, <2>1, <3>1
  <2>2. CASE q = o
    BY <1>1, <1>2, <1>3, <2>2
  <2>3. CASE p # o /\ q # o
    BY <1>1, <1>3, <2>3 DEF DecideInv, Distinct
  <2> QED BY <2>1, <2>2, <2>3
<1> QED BY <1>3 DEF Distinct

\* Every step keeps what was decided.
LEMMA DecideNext ==
  ASSUME ~Overlapping, TurnInv, DecideInv, [Next]_vars
  PROVE  DecideInv'
<1> CopyInv /\ TypeOK /\ Turns /\ Noted
  BY DEF TurnInv, CopyInv, DecideInv
<1>1. Noted' /\ Forward
  BY NotedNext, RowsMoveOn
<1>2. ASSUME \A q \in Request : Settled(q) /\ pc[q] \in {"done", "dead"} => Settled(q)',
             \A q \in Request : pc[q] \in {"done", "dead"} => pc'[q] = pc[q],
             \A o \in Op : /\ target'[o] = target[o] /\ pc'[o] \in {pc[o], "dead"}
                           /\ Saving(o) => view'[o] = view[o]
      PROVE  DecideInv'
  <2>1. ASSUME NEW o \in Op PROVE Decides(o)'
    BY <1>1, <1>2, DecidesStays DEF DecideInv
  <2>2. Distinct'
    BY <1>2 DEF DecideInv, Distinct
  <2> QED BY <1>1, <2>1, <2>2 DEF DecideInv
<1>3. CASE UNCHANGED vars
  BY <1>2, <1>3 DEF vars, run, saving, op, Settled, Saving
<1>4. CASE RunStep
  BY <1>2, <1>4, CallWrites DEF RunStep, Settled, Saving
<1>5. ASSUME NEW r \in Request, RaiseStep(r)
      PROVE  DecideInv'
  <2>1. \A q \in Request : Settled(q) /\ pc[q] \in {"done", "dead"} => Settled(q)'
    BY <1>1, <1>5, SettledRaise
  <2>2. \A q \in Request : pc[q] \in {"done", "dead"} => pc'[q] = pc[q]
    BY <1>5, RaiseLeaves DEF RaiseStep, Others, Writer
  <2>3. \A o \in Op : /\ target'[o] = target[o] /\ pc'[o] \in {pc[o], "dead"} /\ ~Saving(o)
    BY <1>5, RaiseLeaves DEF Saving, Resting
  <2> QED BY <1>2, <2>1, <2>2, <2>3
<1>6. ASSUME NEW o \in Op, RouteStep(o)
      PROVE  DecideInv'
  <2>1. \A q \in Request : Settled(q) => Settled(q)'
    BY <1>1, <1>6, SettledRoute
  <2>2. Decides(o)'
    BY <1>1, <1>6, <2>1, DecidesMoves DEF DecideInv
  <2>3. ASSUME NEW p \in Op, p # o PROVE Decides(p)'
    <3>1. /\ target'[p] = target[p] /\ pc'[p] = pc[p] /\ ~Saving(p)
          /\ \A q \in Request : pc'[q] = pc[q]
      BY <1>6, <2>3, RouteLeaves DEF Saving, Resting
    <3>2. Decides(p)
      BY DEF DecideInv
    <3> QED BY <1>1, <2>1, <3>1, <3>2, DecidesStays
  <2> QED BY <1>1, <1>6, <2>2, <2>3, DistinctMoves DEF DecideInv
<1>7. CASE StopStep
  <2>1. \A w \in Writer : pc'[w] = pc[w] \/ (pc'[w] = "dead" /\ pc[w] \notin Resting)
    BY <1>7 DEF StopStep, Busy
  <2>2. UNCHANGED <<json, view, target>>
    BY <1>7, StopLeaves
  <2>3. \A q \in Request : Settled(q) => Settled(q)'
    BY <1>1, <2>1, <2>2 DEF Settled, Saving, Forward
  <2> QED BY <1>2, <2>1, <2>2, <2>3 DEF Resting, Writer
<1> QED BY <1>3, <1>4, <1>5, <1>6, <1>7, FourKinds

\* When operators and clients wait for each other, no two operators are both told that their
\* decision on a request stands, whatever tool calls overlap and whenever a server restarts.
THEOREM RequestsAreDecidedOnce ==
  ASSUME ~Overlapping
  PROVE  Spec => []DecidedOnce
<1>1. Init => DecideInv
  <2> SUFFICES ASSUME Init PROVE DecideInv
    OBVIOUS
  <2>1. \A w \in Request \union Op : pc[w] = "idle"
    BY DEF Init, Writer
  <2>2. ~InContext
    BY DEF Init, InContext
  <2> QED BY <2>1, <2>2 DEF DecideInv, Noted, Decides, Distinct, Saving, Deed
<1>2. TurnInv /\ DecideInv /\ [Next]_vars => DecideInv'
  BY DecideNext
<1>3. DecideInv => DecidedOnce
  BY DEF DecideInv, Distinct, DecidedOnce
<1> QED BY <1>1, <1>2, <1>3, TurnInvariant, PTL DEF Spec

-----------------------------------------------------------------------------
(* Unless a server restarts, no copy shows a request open that is closed,    *)
(* but for the one that the route at work has just closed.                   *)

Fresh ==
  /\ (\A o \in Op : pc[o] \notin {"reading", "loading", "saving"}) =>
       \A q \in Request : json[q] = "pending" => row[q] = "pending"
  /\ \A w \in Writer : Saving(w) =>
       \A q \in Request : view[w][q] = "pending" => row[q] = "pending"
  /\ \A o \in Op : pc[o] \in {"answering", "closing"} => row[target[o]] = "pending"

\* Without restarts no step is one.
LEMMA NoStop ==
  ASSUME MaxCrashes = 0, TypeOK, StopStep
  PROVE  FALSE
BY DEF StopStep, RestartAgents, RestartRoutes, Stop, TypeOK

\* A raise saves what the context knows, in which no closed request is open.
LEMMA FreshRaise ==
  ASSUME CopyInv, Noted, Fresh, NEW r \in Request, RaiseStep(r)
  PROVE  Fresh'
<1> r \in Writer /\ TypeOK
  BY DEF Writer, CopyInv
<1>1. /\ InContext
      /\ \A w \in Writer : w # r => pc'[w] = pc[w]
      /\ \A o \in Op : pc'[o] = pc[o] /\ pc[o] \in Resting
  BY RaiseLeaves DEF RaiseStep, Others, InContext
<1>2. \A q \in Request : row[q] = "pending" => row'[q] = "pending"
  <2>1. CASE InsertRow(r)
    BY <2>1 DEF InsertRow, CopyInv, RaiseFollows, TypeOK, Copies
  <2>2. CASE ~InsertRow(r)
    BY <2>2 DEF RaiseStep, Raise, BeginRaise, NoteRow, EndRaise, LoadStatus
  <2> QED BY <2>1, <2>2
<1>3. \A q \in Request : json[q] = "pending" => row[q] = "pending"
  BY <1>1 DEF Fresh, Resting
<1>4. \A q \in Request : json'[q] = "pending" => row'[q] = "pending"
  <2>1. CASE EndRaise(r)
    BY <1>2, <2>1 DEF EndRaise, SaveState, Fresh, Saving
  <2>2. CASE ~EndRaise(r)
    BY <1>2, <1>3, <2>2 DEF RaiseStep, Raise, BeginRaise, InsertRow, NoteRow, LoadStatus, run
  <2> QED BY <2>1, <2>2
<1>5. \A w \in Writer : w # r => view'[w] = view[w]
  BY DEF RaiseStep, Raise, BeginRaise, InsertRow, NoteRow, EndRaise, SaveState, Clear, LoadStatus,
         TypeOK, saving
<1>6. ASSUME Saving(r)', NEW q \in Request, view'[r][q] = "pending"
      PROVE  row'[q] = "pending"
  <2>1. CASE NoteRow(r)
    <3>1. pc[r] = "created" /\ row' = row /\ view'[r] = [known EXCEPT ![r] = Raised(r)]
      BY <2>1 DEF NoteRow, TypeOK
    <3>2. view'[r][q] = IF q = r THEN Raised(r) ELSE known[q]
      BY <3>1 DEF TypeOK, Copies
    <3> QED BY <1>1, <1>6, <3>1, <3>2 DEF Noted
  <2>2. CASE LoadStatus(r)
    <3>1. Saving(r) /\ view' = view /\ row' = row
      BY <2>2 DEF LoadStatus, Saving
    <3> QED BY <1>6, <3>1 DEF Fresh
  <2>3. CASE BeginRaise(r) \/ InsertRow(r) \/ EndRaise(r)
    BY <1>6, <2>3 DEF BeginRaise, InsertRow, EndRaise, Advance, TypeOK, Saving
  <2> QED BY <2>1, <2>2, <2>3 DEF RaiseStep, Raise
<1> QED BY <1>1, <1>2, <1>4, <1>5, <1>6 DEF Fresh, Saving, Resting

\* A route decides an open request and saves the rows as they are then.
LEMMA FreshRoute ==
  ASSUME CopyInv, Fresh, NEW o \in Op, RouteStep(o)
  PROVE  Fresh'
<1> o \in Writer /\ TypeOK
  BY DEF Writer, CopyInv
<1>1. /\ \A w \in Writer : w # o => pc'[w] = pc[w] /\ pc[w] \in Resting /\ ~Saving(w)'
      /\ \A p \in Op : p # o => pc'[p] = pc[p] /\ pc[p] \in Resting
  BY DEF RouteStep, Others, Saving, Resting, Writer
<1>2. CASE pc[o] = "idle"
  <2>1. row' = row /\ json' = json
    BY <1>2 DEF RouteStep, Decide, CheckResume, CheckRemove, InsertAnswer, CloseRow, ReadRows,
                SaveDecision, SaveState, RereadRows, ReadLog, Finish, LoadStatus, run
  <2>2. pc'[o] \in {"answering", "closing"} /\ json[target'[o]] = "pending" /\ target'[o] \in Request
    BY <1>2, Takes DEF Resting
  <2>3. \A q \in Request : json[q] = "pending" => row[q] = "pending"
    BY <1>1, <1>2 DEF Fresh, Resting
  <2> QED BY <1>1, <2>1, <2>2, <2>3 DEF Fresh, Saving, Resting
<1>3. CASE InsertAnswer(o)
  <2>1. /\ pc[o] = "answering" /\ pc'[o] = "closing" /\ UNCHANGED <<row, json, target>>
    BY <1>3 DEF InsertAnswer, Advance, TypeOK, run, op
  <2>2. \A q \in Request : json[q] = "pending" => row[q] = "pending"
    BY <1>1, <2>1 DEF Fresh, Resting
  <2> QED BY <1>1, <2>1, <2>2 DEF Fresh, Saving, Resting
<1>4. CASE CloseRow(o)
  <2>1. pc'[o] = "reading"
    BY <1>4 DEF CloseRow, Advance, TypeOK
  <2> QED BY <1>1, <2>1 DEF Fresh, Saving, Resting
<1>5. CASE ReadRows(o)
  <2>1. /\ pc'[o] = "loading" /\ row' = row
        /\ view'[o] \in {row, [row EXCEPT ![target[o]] = "denied"]}
    BY <1>5 DEF ReadRows, Advance, TypeOK
  <2>2. \A q \in Request : view'[o][q] = "pending" => row[q] = "pending"
    BY <2>1 DEF TypeOK, Copies
  <2> QED BY <1>1, <2>1, <2>2 DEF Fresh, Saving, Resting
<1>6. CASE LoadStatus(o)
  <2>1. /\ pc[o] = "loading" /\ pc'[o] = "saving" /\ row' = row /\ view' = view
    BY <1>6 DEF LoadStatus, Advance, TypeOK
  <2> QED BY <1>1, <2>1 DEF Fresh, Saving, Resting
<1>7. CASE SaveDecision(o)
  <2>1. /\ pc[o] = "saving" /\ pc'[o] = "rereading" /\ row' = row /\ json' = view[o]
    BY <1>7 DEF SaveDecision, SaveState, Advance, TypeOK
  <2> QED BY <1>1, <2>1 DEF Fresh, Saving, Resting
<1>8. CASE RereadRows(o) \/ ReadLog(o) \/ Finish(o)
  <2>1. /\ pc[o] \notin {"answering", "closing", "reading", "loading", "saving"}
        /\ pc'[o] \notin {"answering", "closing", "reading", "loading", "saving"}
        /\ UNCHANGED <<row, json>>
    BY <1>8 DEF RereadRows, ReadLog, Finish, Advance, TypeOK, run
  <2>2. \A q \in Request : json[q] = "pending" => row[q] = "pending"
    BY <1>1, <2>1 DEF Fresh, Resting
  <2> QED BY <1>1, <2>1, <2>2 DEF Fresh, Saving, Resting
<1> QED
  BY <1>2, <1>3, <1>4, <1>5, <1>6, <1>7, <1>8
     DEF RouteStep, Decide, CheckResume, CheckRemove, Accept

FreshInv == Noted /\ Fresh

\* Every step keeps the copies fresh.
LEMMA FreshNext ==
  ASSUME ~Overlapping, MaxCrashes = 0, TurnInv, FreshInv, [Next]_vars
  PROVE  FreshInv'
<1> CopyInv /\ TypeOK /\ Turns
  BY DEF TurnInv, CopyInv
<1>1. Noted'
  BY NotedNext DEF FreshInv
<1>2. CASE UNCHANGED vars
  BY <1>1, <1>2 DEF FreshInv, Fresh, Saving, vars, run, saving, op
<1>3. CASE RunStep
  BY <1>1, <1>3, CallWrites DEF RunStep, FreshInv, Fresh, Saving
<1> QED BY <1>1, <1>2, <1>3, FreshRaise, FreshRoute, NoStop, FourKinds DEF FreshInv

\* Unless a server restarts, the copies are fresh in every state.
LEMMA FreshInvariant ==
  ASSUME ~Overlapping, MaxCrashes = 0
  PROVE  Spec => [](TurnInv /\ FreshInv)
<1>1. Init => FreshInv
  <2> SUFFICES ASSUME Init PROVE FreshInv
    OBVIOUS
  <2>1. \A w \in Writer : pc[w] = "idle"
    BY DEF Init
  <2>2. ~InContext /\ \A q \in Request : json[q] = "absent"
    BY DEF Init, InContext, Nothing
  <2> QED BY <2>1, <2>2 DEF FreshInv, Noted, Fresh, Saving, Writer
<1>2. TurnInv /\ FreshInv /\ [Next]_vars => FreshInv'
  BY FreshNext
<1> QED BY <1>1, <1>2, TurnInvariant, PTL DEF Spec

-----------------------------------------------------------------------------
(* The limit: when tool calls do not overlap and no server restarts, what    *)
(* the context counts is what the rows say.                                  *)

Solo == \A r, s \in Request : Busy(r) /\ Busy(s) => r = s

Within ==
  /\ InContext /\ (\A r \in Request : pc[r] \notin {"created", "loading", "saving"})
       => accepted = Accepted(row)
  /\ \A r \in Request : pc[r] = "creating" => count[r] = accepted
  /\ Accepted(row) <= MaxRequests

\* A new row adds one to the count if it is open and none if it is denied.
LEMMA AcceptedInsert ==
  ASSUME NEW v \in Copies, NEW r \in Request, v[r] = "absent", NEW new \in {"pending", "denied"}
  PROVE  Accepted([v EXCEPT ![r] = new]) =
           IF new = "pending" THEN Accepted(v) + 1 ELSE Accepted(v)
<1> DEFINE Counts(u) == {q \in Request : u[q] \in {"pending", "resolved"}}
           w == [v EXCEPT ![r] = new]
<1>1. IsFiniteSet(Counts(v))
  <2>1. IsFiniteSet(Request) /\ Counts(v) \subseteq Request
    BY FS_Interval DEF Request
  <2> QED BY <2>1, FS_Subset
<1>2. r \notin Counts(v) /\ Counts(w) = IF new = "pending" THEN Counts(v) \union {r} ELSE Counts(v)
  BY DEF Copies
<1>3. Cardinality(Counts(v) \union {r}) = Cardinality(Counts(v)) + 1
  BY <1>1, <1>2, FS_AddElement
<1>4. Cardinality(Counts(w)) = IF new = "pending" THEN Cardinality(Counts(v)) + 1
                               ELSE Cardinality(Counts(v))
  BY <1>2, <1>3
<1> QED BY <1>4 DEF Accepted

\* Closing an open row adds nothing.
LEMMA AcceptedClose ==
  ASSUME NEW v \in Copies, NEW r \in Request, v[r] = "pending", NEW new \in Closed
  PROVE  Accepted([v EXCEPT ![r] = new]) <= Accepted(v)
<1> DEFINE Counts(u) == {q \in Request : u[q] \in {"pending", "resolved"}}
           w == [v EXCEPT ![r] = new]
<1>1. IsFiniteSet(Counts(v))
  <2>1. IsFiniteSet(Request) /\ Counts(v) \subseteq Request
    BY FS_Interval DEF Request
  <2> QED BY <2>1, FS_Subset
<1>2. Counts(w) \subseteq Counts(v)
  BY DEF Copies
<1>3. Cardinality(Counts(w)) <= Cardinality(Counts(v))
  BY <1>1, <1>2, FS_Subset
<1> QED BY <1>3 DEF Accepted

\* The run call counts the rows when it starts.
LEMMA WithinRun ==
  ASSUME Within, RunStep
  PROVE  Within'
<1>1. UNCHANGED <<row, count>>
  BY CallWrites DEF RunStep
<1>2. \A r \in Request : pc'[r] = pc[r] /\ pc[r] \notin {"creating", "created", "loading", "saving"}
  BY DEF RunStep, AtRest, Resting, Writer
<1>3. InContext => accepted = Accepted(row)
  BY <1>2 DEF Within
<1>4. InContext' => accepted' = Accepted(row)
  BY <1>1, <1>3
     DEF RunStep, Call, RequestCall, RecordResume, StartCall, RejectRun, MarkRunning, PauseCall,
         RecordResult, FailCall, ThrowCall, EndCall, Leave, InContext
<1>5. Accepted(row)' = Accepted(row)
  BY <1>1 DEF Accepted
<1> QED BY <1>1, <1>2, <1>4, <1>5 DEF Within

\* A raise works alone.
LEMMA SoloRaise ==
  ASSUME ~Parallel, TypeOK, Solo, NEW r \in Request, RaiseStep(r)
  PROVE  /\ Solo'
         /\ \A q \in Request : q # r => pc'[q] = pc[q] /\ pc[q] \in Resting
<1>1. \A q \in Request : q # r => pc[q] \in Resting
  <2>1. CASE BeginRaise(r)
    BY <2>1 DEF BeginRaise, AtRest
  <2>2. CASE ~BeginRaise(r)
    <3>1. Busy(r)
      BY <2>2 DEF RaiseStep, Raise, InsertRow, NoteRow, EndRaise, SaveState, LoadStatus, Busy,
                  Resting
    <3> QED BY <3>1 DEF Solo, Busy
  <2> QED BY <2>1, <2>2
<1>2. \A q \in Request : q # r => pc'[q] = pc[q]
  BY DEF RaiseStep, Others, Writer
<1> QED BY <1>1, <1>2 DEF Solo, Busy

\* A raise adds a request only below the limit.
LEMMA WithinRaise ==
  ASSUME ~Parallel, CopyInv, Noted, Solo, Within, NEW r \in Request, RaiseStep(r)
  PROVE  Within'
<1> r \in Writer /\ TypeOK
  BY DEF Writer, CopyInv
<1>1. \A q \in Request : q # r => /\ pc'[q] = pc[q]
                                  /\ pc[q] \notin {"creating", "created", "loading", "saving"}
  BY SoloRaise DEF Resting
<1>2. InContext /\ InContext'
  BY DEF RaiseStep, InContext
<1>3. row \in Copies /\ count \in [Request -> Nat] /\ accepted \in Nat /\ Accepted(row) \in Nat
  BY AcceptedType DEF TypeOK
<1>4. CASE BeginRaise(r)
  <2>1. /\ pc[r] = "idle" /\ pc'[r] = "creating" /\ UNCHANGED <<row, accepted>>
        /\ count' = [count EXCEPT ![r] = accepted]
    BY <1>4 DEF BeginRaise, Advance, TypeOK, call
  <2>2. accepted = Accepted(row)
    BY <1>1, <1>2, <2>1 DEF Within
  <2>3. Accepted(row)' = Accepted(row)
    BY <2>1 DEF Accepted
  <2> QED BY <1>1, <1>3, <2>1, <2>2, <2>3 DEF Within
<1>5. CASE InsertRow(r)
  <2>1. /\ pc[r] = "creating" /\ pc'[r] = "created" /\ row[r] = "absent"
        /\ row' = [row EXCEPT ![r] = Raised(r)]
    BY <1>5 DEF InsertRow, Advance, TypeOK, CopyInv, RaiseFollows
  <2>2. accepted = Accepted(row) /\ count[r] = Accepted(row)
    BY <1>1, <1>2, <2>1 DEF Within
  <2>3. Accepted(row') <= MaxRequests
    <3>1. Raised(r) \in {"pending", "denied"}
      BY DEF Raised
    <3>2. Accepted(row') = IF Raised(r) = "pending" THEN Accepted(row) + 1 ELSE Accepted(row)
      BY <1>3, <2>1, <3>1, AcceptedInsert
    <3>3. Raised(r) = "pending" => Accepted(row) < MaxRequests
      BY <1>3, <2>2 DEF Raised
    <3> QED BY <1>3, <3>2, <3>3 DEF Within
  <2>4. Accepted(row)' <= MaxRequests
    BY <2>3 DEF Accepted
  <2> QED BY <1>1, <2>1, <2>4 DEF Within
<1>6. CASE NoteRow(r)
  <2>1. pc'[r] = "loading" /\ row' = row
    BY <1>6 DEF NoteRow, Advance, TypeOK
  <2>2. Accepted(row)' = Accepted(row)
    BY <2>1 DEF Accepted
  <2> QED BY <1>1, <2>1, <2>2 DEF Within
<1>7. CASE LoadStatus(r)
  <2>1. pc'[r] = "saving" /\ row' = row
    BY <1>7 DEF LoadStatus, Advance, TypeOK
  <2>2. Accepted(row)' = Accepted(row)
    BY <2>1 DEF Accepted
  <2> QED BY <1>1, <2>1, <2>2 DEF Within
<1>8. CASE EndRaise(r)
  <2>1. /\ pc[r] = "saving" /\ pc'[r] = "done" /\ row' = row
        /\ accepted' = Accepted(known)
    BY <1>8 DEF EndRaise, SaveState, Advance, TypeOK
  <2>2. known = row
    <3>1. \A q \in Request : known[q] = row[q]
      BY <1>1, <1>2, <2>1 DEF Noted
    <3> QED BY <3>1 DEF TypeOK, Copies
  <2>3. Accepted(row)' = Accepted(row)
    BY <2>1 DEF Accepted
  <2> QED BY <1>1, <2>1, <2>2, <2>3 DEF Within
<1> QED BY <1>4, <1>5, <1>6, <1>7, <1>8 DEF RaiseStep, Raise

\* A route adds none.
LEMMA WithinRoute ==
  ASSUME TypeOK, Fresh, Within, NEW o \in Op, RouteStep(o)
  PROVE  Within'
<1> o \in Writer
  BY DEF Writer
<1>1. ~InContext' /\ \A r \in Request : pc'[r] # "creating"
  BY RouteLeaves DEF RouteStep, InContext, Calling, Resting
<1>2. Accepted(row') <= MaxRequests
  <2>1. CASE CloseRow(o)
    <3>1. /\ row[target[o]] = "pending" /\ target[o] \in Request /\ row \in Copies
          /\ \E new \in Closed : row' = [row EXCEPT ![target[o]] = new]
      BY <2>1 DEF CloseRow, Fresh, TypeOK, Closed, Resting
    <3>2. Accepted(row') <= Accepted(row) /\ Accepted(row) \in Nat /\ Accepted(row') \in Nat
      BY <3>1, AcceptedClose, AcceptedType
    <3> QED BY <3>2 DEF Within
  <2>2. CASE ~CloseRow(o)
    <3>1. row' = row
      BY <2>2 DEF RouteStep, Decide, CheckResume, CheckRemove, InsertAnswer, ReadRows,
                  SaveDecision, RereadRows, ReadLog, Finish, LoadStatus
    <3> QED BY <3>1 DEF Within
  <2> QED BY <2>1, <2>2
<1>3. Accepted(row)' <= MaxRequests
  BY <1>2 DEF Accepted
<1> QED BY <1>1, <1>3 DEF Within

\* Every step keeps the count, the limit and raises working alone.
LEMMA WithinNext ==
  ASSUME ~Parallel, ~Overlapping, MaxCrashes = 0, TurnInv, FreshInv, Solo, Within, [Next]_vars
  PROVE  Solo' /\ Within'
<1> CopyInv /\ TypeOK /\ Turns /\ Noted /\ Fresh
  BY DEF TurnInv, CopyInv, FreshInv
<1>1. CASE UNCHANGED vars
  BY <1>1 DEF Solo, Busy, Within, InContext, Accepted, vars, call
<1>2. CASE RunStep
  BY <1>2, WithinRun DEF RunStep, Solo, Busy
<1>3. ASSUME NEW o \in Op, RouteStep(o)
      PROVE  Solo' /\ Within'
  BY <1>3, WithinRoute, RouteLeaves DEF Solo, Busy
<1> QED BY <1>1, <1>2, <1>3, SoloRaise, WithinRaise, NoStop, FourKinds

\* When operators and clients wait for each other, tool calls do not overlap and no server
\* restarts, a run has no more than MaxRequests requests that were not denied.
THEOREM LimitIsKept ==
  ASSUME ~Parallel, ~Overlapping, MaxCrashes = 0
  PROVE  Spec => []LimitKept
<1>1. Init => Solo /\ Within
  <2> SUFFICES ASSUME Init PROVE Solo /\ Within
    OBVIOUS
  <2>1. \A r \in Request : pc[r] = "idle" /\ row[r] = "absent"
    BY DEF Init, Nothing, Writer
  <2>2. Accepted(row) = 0
    <3>1. {r \in Request : row[r] \in {"pending", "resolved"}} = {}
      BY <2>1
    <3> QED BY <3>1, FS_EmptySet DEF Accepted
  <2>3. ~InContext
    BY DEF Init, InContext
  <2> QED BY <2>1, <2>2, <2>3 DEF Solo, Busy, Resting, Within
<1>2. TurnInv /\ FreshInv /\ Solo /\ Within /\ [Next]_vars => Solo' /\ Within'
  BY WithinNext
<1>3. Within => LimitKept
  BY DEF Within, LimitKept
<1> QED BY <1>1, <1>2, <1>3, FreshInvariant, PTL DEF Spec

-----------------------------------------------------------------------------
(* The listing: what the run call raised is what its last save names,        *)
(* whichever raise that is, unless a server restarts.                        *)

\* The context names an open request as soon as there is one that it knows of.
Names ==
  /\ phase \in {"auditing", "starting", "loaded"} => \A r \in Request : row[r] # "pending"
  /\ knownTop # None => phase = "on" /\ row[knownTop] = "pending"
  /\ phase = "on" =>
       \A r \in Request : row[r] = "pending" /\ pc[r] # "created" => knownTop # None
  /\ knownTop # None => asked \/ \E r \in Request : Saving(r) /\ Raised(r) = "pending"

\* Until then the limit is as the call found it, for whichever raise is denied.
Starts ==
  InContext /\ knownTop = None =>
    /\ accepted = Accepted(known)
    /\ \A r \in Request : pc[r] \in Raising => count[r] = accepted

\* A raise saves no open request only where none can be raised any more.
Shows(r) ==
  Saving(r) =>
    /\ viewTop[r] = None => /\ knownTop = None /\ accepted >= MaxRequests
                            /\ Raised(r) # "pending"
    /\ viewTop[r] # None => knownTop # None /\ row[viewTop[r]] = "pending"
    /\ pc[r] = "saving" /\ viewTop[r] # None => next[r] = "awaiting_hitl"

\* Once the call has raised a request, the run's row says so.
Asks == asked => knownTop # None /\ status = "awaiting_hitl" /\ Pending(row, column)

\* A route that leaves the run alive is going to name the oldest open request.
Reports ==
  \A o \in Op :
    pc[o] \in {"logging", "finishing"} /\ next[o] \notin Ended =>
      viewTop[o] = Oldest(row) /\ (viewTop[o] # None => next[o] = "awaiting_hitl")

Offers ==
  Names /\ Starts /\ (\A r \in Request : Shows(r)) /\ Asks /\ Reports /\ OpenIsListed

\* A set of numbers has a least one.
LEMMA Least ==
  ASSUME NEW S, S \subseteq Nat, S # {}
  PROVE  \E x \in S : \A y \in S : x <= y
<1>1. PICK x \in S : \A y \in S : <<y, x>> \notin OpToRel(<, Nat)
  BY NatLessThanWellFounded, WFMin
<1>2. ASSUME NEW y \in S PROVE x <= y
  <2>1. <<y, x>> \notin {ss \in Nat \X Nat : ss[1] < ss[2]}
    BY <1>1 DEF OpToRel
  <2> QED BY <2>1
<1> QED BY <1>2

\* A run state with an open request names one.
LEMMA OldestIsPending ==
  ASSUME NEW v, NEW r \in Request, v[r] = "pending"
  PROVE  Pending(v, Oldest(v))
<1> DEFINE S == {q \in Request : v[q] = "pending"}
           first == {q \in Request : Pending(v, q) /\ \A s \in 1..(q - 1) : ~Pending(v, s)}
<1>1. PICK x \in S : \A y \in S : x <= y
  <2>1. S \subseteq Nat /\ S # {}
    BY DEF Request
  <2> HIDE DEF S
  <2> QED BY <2>1, Least
<1>2. x \in first
  BY <1>1 DEF Pending, Request
<1>3. Oldest(v) \in first
  BY <1>2 DEF Oldest
<1> QED BY <1>3

\* After a step of the run call the context names no request.
LEMMA OffersRun ==
  ASSUME ~Overlapping, TypeOK, Offers, RunStep
  PROVE  Offers'
<1>1. UNCHANGED <<row, count, pc>> /\ Call
  BY CallWrites DEF RunStep
<1>2. /\ \A r \in Request : pc[r] \notin Raising /\ ~Saving(r) /\ ~Saving(r)'
      /\ \A r \in Request : pc[r] # "created"
      /\ \A o \in Op : pc[o] \notin {"logging", "finishing"}
  BY <1>1 DEF RunStep, AtRest, Resting, Writer, Raising, Saving
<1>3. phase' \in {"auditing", "starting", "loaded", "on"} => \A r \in Request : row[r] # "pending"
  BY <1>1
     DEF Offers, Names, Call, RequestCall, RecordResume, StartCall, RejectRun, MarkRunning,
         PauseCall, RecordResult, FailCall, ThrowCall, EndCall, Leave, Pending
<1>4. knownTop' = None /\ ~asked'
  <2>1. CASE StartCall
    <3>1. \A r \in Request : row[r] # "pending"
      BY <2>1 DEF StartCall, Offers, Names
    <3>2. Oldest(row) = None
      BY <3>1 DEF Oldest, Pending
    <3> QED BY <2>1, <3>2 DEF StartCall, Offers, Names, Asks
  <2>2. CASE RequestCall \/ RecordResume \/ RejectRun \/ MarkRunning
    BY <2>2 DEF RequestCall, RecordResume, RejectRun, MarkRunning, Offers, Names, Asks
  <2>3. CASE PauseCall \/ RecordResult \/ FailCall \/ ThrowCall
    BY <2>3 DEF PauseCall, RecordResult, FailCall, ThrowCall, EndCall, Leave
  <2> QED BY <1>1, <2>1, <2>2, <2>3 DEF Call
<1>5. Names' /\ Asks' /\ \A r \in Request : Shows(r)'
  BY <1>1, <1>2, <1>3, <1>4 DEF Names, Asks, Shows
<1>6. InContext' => accepted' = Accepted(known')
  <2>1. CASE StartCall
    BY <2>1 DEF StartCall
  <2>2. CASE MarkRunning
    <3>1. knownTop = None /\ InContext
      BY <2>2 DEF MarkRunning, Offers, Names, InContext
    <3>2. UNCHANGED <<accepted, known>>
      BY <2>2 DEF MarkRunning
    <3> QED BY <3>1, <3>2 DEF Offers, Starts
  <2>3. CASE ~StartCall /\ ~MarkRunning
    BY <1>1, <2>3 DEF Call, RequestCall, RecordResume, RejectRun, PauseCall, RecordResult, FailCall,
                      ThrowCall, EndCall, Leave, InContext
  <2> QED BY <2>1, <2>2, <2>3
<1>7. Starts' /\ Reports'
  <2>1. Accepted(known)' = Accepted(known')
    BY DEF Accepted
  <2> QED BY <1>1, <1>2, <1>6, <2>1 DEF Starts, Reports
<1>8. OpenIsListed'
  <2> SUFFICES ASSUME phase' \notin Calling, status' \notin Ended,
                      NEW r \in Request, row[r] = "pending"
               PROVE  status' = "awaiting_hitl" /\ Pending(row, column')
    BY <1>1 DEF OpenIsListed, Quiet, Pending
  <2>1. /\ PauseCall \/ ThrowCall
        /\ column' = column
    BY <1>1
       DEF Call, RequestCall, RecordResume, StartCall, RejectRun, MarkRunning, PauseCall,
           RecordResult, FailCall, ThrowCall, EndCall, Calling, Ended
  <2>2. phase = "on"
    BY <2>1 DEF PauseCall, ThrowCall, Offers, Names
  <2>3. asked
    BY <1>2, <2>2 DEF Offers, Names
  <2>4. status = "awaiting_hitl" /\ Pending(row, column)
    BY <2>3 DEF Offers, Asks
  <2> QED BY <2>1, <2>3, <2>4 DEF PauseCall, ThrowCall, Pending
<1> QED BY <1>5, <1>7, <1>8 DEF Offers

\* While a raise works, the run call is under way: no route reports, nothing is to be listed.
LEMMA OffersRaise ==
  ASSUME CopyInv, Noted, Offers, NEW r \in Request, RaiseStep(r)
  PROVE  Offers'
<1> r \in Writer /\ TypeOK
  BY DEF Writer, CopyInv
<1>1. /\ \A q \in Request : q # r => pc'[q] = pc[q] /\ (Saving(q)' <=> Saving(q))
      /\ \A o \in Op : pc'[o] = pc[o] /\ pc[o] \notin {"logging", "finishing"}
  BY RaiseLeaves DEF RaiseStep, Others, Writer, Saving, Resting
<1>2. phase = "on" /\ phase' = "on" /\ InContext
  BY DEF RaiseStep, InContext
<1>3. Reports' /\ OpenIsListed'
  BY <1>1, <1>2 DEF Reports, OpenIsListed, Quiet, Calling
<1>4. /\ row \in Copies /\ known \in Copies /\ count \in [Request -> Nat] /\ accepted \in Nat
      /\ viewTop \in [Writer -> Request \union {None}] /\ next \in [Writer -> Statuses]
      /\ {knownTop, column} \subseteq Request \union {None} /\ r # None /\ None \notin Request
  BY DEF TypeOK, Writer
<1>5. CASE BeginRaise(r)
  <2>1. /\ pc[r] = "idle" /\ pc'[r] = "creating"
        /\ UNCHANGED <<row, known, knownTop, accepted, asked, status, column, viewTop, next>>
        /\ count' = [count EXCEPT ![r] = accepted]
    BY <1>5 DEF BeginRaise, Advance, TypeOK, run, call, saving
  <2>2. ~Saving(r) /\ ~Saving(r)'
    BY <2>1 DEF Saving
  <2>3. \A q \in Request : q # r => Raised(q)' = Raised(q)
    BY <1>4, <2>1 DEF Raised
  <2>4. Names'
    BY <1>1, <1>2, <2>1, <2>2, <2>3 DEF Offers, Names
  <2>5. Starts'
    <3>1. Accepted(known)' = Accepted(known)
      BY <2>1 DEF Accepted
    <3> QED BY <1>1, <1>2, <1>4, <2>1, <3>1 DEF Offers, Starts
  <2>6. Asks'
    BY <2>1 DEF Offers, Asks, Pending
  <2>7. \A q \in Request : Shows(q)'
    BY <1>1, <2>1, <2>2, <2>3 DEF Offers, Shows
  <2> QED BY <1>3, <2>4, <2>5, <2>6, <2>7 DEF Offers
<1>6. CASE InsertRow(r)
  <2>1. /\ pc[r] = "creating" /\ pc'[r] = "created" /\ row[r] = "absent"
        /\ UNCHANGED <<known, knownTop, accepted, asked, status, column, viewTop, next, count>>
        /\ row' = [row EXCEPT ![r] = Raised(r)]
    BY <1>6 DEF InsertRow, Advance, TypeOK, run, call, saving, CopyInv, RaiseFollows
  <2>2. ~Saving(r) /\ ~Saving(r)'
    BY <2>1 DEF Saving
  <2>3. /\ \A q \in Request : q # r => row'[q] = row[q]
        /\ \A q \in Request : row[q] = "pending" => row'[q] = "pending"
    BY <1>4, <2>1 DEF Copies
  <2>4. \A q \in Request : Raised(q)' = Raised(q)
    BY <2>1 DEF Raised
  <2>5. Names'
    BY <1>1, <1>2, <1>4, <2>1, <2>2, <2>3, <2>4 DEF Offers, Names
  <2>6. Starts'
    <3>1. Accepted(known)' = Accepted(known)
      BY <2>1 DEF Accepted
    <3> QED BY <1>1, <1>2, <2>1, <3>1 DEF Offers, Starts, Raising
  <2>7. Asks'
    BY <2>1, <2>3 DEF Offers, Asks, Pending
  <2>8. ASSUME NEW q \in Request PROVE Shows(q)'
    <3>1. q \in Writer /\ viewTop[q] \in Request \union {None}
      BY <1>4 DEF Writer
    <3> QED BY <1>1, <1>4, <2>1, <2>2, <2>3, <2>4, <3>1 DEF Offers, Shows
  <2> QED BY <1>3, <2>5, <2>6, <2>7, <2>8 DEF Offers
<1>7. CASE NoteRow(r)
  <2>1. /\ pc[r] = "created" /\ pc'[r] = "loading" /\ row[r] = Raised(r) /\ known[r] = "absent"
        /\ UNCHANGED <<row, asked, status, column, next, count>>
        /\ viewTop' = [viewTop EXCEPT ![r] = knownTop']
        /\ known' = [known EXCEPT ![r] = Raised(r)]
    BY <1>2, <1>7 DEF NoteRow, Advance, TypeOK, run, Noted
  <2>2. /\ Saving(r)' /\ ~Saving(r) /\ \A q \in Request : Raised(q)' = Raised(q)
        /\ viewTop'[r] = knownTop' /\ \A q \in Request : q # r => viewTop'[q] = viewTop[q]
    BY <1>4, <2>1 DEF Saving, Raised, Writer
  <2>3. CASE Raised(r) = "pending"
    <3>1. knownTop' = r
      BY <1>7, <2>3 DEF NoteRow
    <3>2. ASSUME NEW q \in Request, Saving(q), viewTop[q] = None
          PROVE  FALSE
      <4>1. knownTop = None /\ accepted >= MaxRequests
        BY <3>2 DEF Offers, Shows
      <4>2. count[r] = accepted
        BY <1>2, <2>1, <4>1 DEF Offers, Starts, Raising
      <4> QED BY <2>3, <4>1, <4>2 DEF Raised
    <3>3. Names'
      BY <1>2, <1>4, <2>1, <2>2, <2>3, <3>1 DEF Offers, Names
    <3>4. Starts' /\ Asks'
      BY <1>4, <2>1, <3>1 DEF Offers, Starts, Asks, Pending
    <3>5. ASSUME NEW q \in Request PROVE Shows(q)'
      <4>1. CASE q = r
        BY <1>4, <2>1, <2>2, <2>3, <3>1, <4>1 DEF Shows
      <4>2. CASE q # r
        BY <1>1, <1>4, <2>1, <2>2, <3>1, <3>2, <4>2 DEF Offers, Shows
      <4> QED BY <4>1, <4>2
    <3> QED BY <1>3, <3>3, <3>4, <3>5 DEF Offers
  <2>4. CASE Raised(r) = "denied"
    <3>1. UNCHANGED <<accepted, knownTop>> /\ count[r] >= MaxRequests
      BY <1>7, <2>4 DEF NoteRow, Raised
    <3>2. Names'
      BY <1>1, <1>2, <2>1, <2>2, <2>4, <3>1 DEF Offers, Names
    <3>3. Starts'
      <4>1. Accepted(known') = Accepted(known)
        BY <1>4, <2>1, <2>4, AcceptedInsert
      <4>2. Accepted(known)' = Accepted(known')
        BY DEF Accepted
      <4> QED BY <1>1, <1>2, <2>1, <3>1, <4>1, <4>2 DEF Offers, Starts, Raising
    <3>4. Asks'
      BY <2>1, <3>1 DEF Offers, Asks, Pending
    <3>5. ASSUME NEW q \in Request PROVE Shows(q)'
      <4>1. CASE q = r
        <5>1. knownTop = None => accepted >= MaxRequests
          BY <1>2, <2>1, <3>1 DEF Offers, Starts, Raising
        <5>2. knownTop # None => row[knownTop] = "pending"
          BY DEF Offers, Names
        <5> QED BY <2>1, <2>2, <2>4, <3>1, <4>1, <5>1, <5>2 DEF Shows
      <4>2. CASE q # r
        BY <1>1, <2>1, <2>2, <3>1, <4>2 DEF Offers, Shows
      <4> QED BY <4>1, <4>2
    <3> QED BY <1>3, <3>2, <3>3, <3>4, <3>5 DEF Offers
  <2> QED BY <2>3, <2>4 DEF Raised
<1>8. CASE LoadStatus(r)
  <2>1. /\ pc[r] = "loading" /\ pc'[r] = "saving"
        /\ UNCHANGED <<row, known, knownTop, accepted, asked, status, column, viewTop, count>>
        /\ viewTop[r] # None => next'[r] = "awaiting_hitl"
        /\ \A q \in Request : q # r => next'[q] = next[q]
    BY <1>4, <1>8 DEF LoadStatus, Advance, TypeOK, run, call, Writer
  <2>2. Saving(r) /\ Saving(r)' /\ \A q \in Request : Raised(q)' = Raised(q)
    BY <2>1 DEF Saving, Raised
  <2>3. Names'
    BY <1>1, <1>2, <2>1, <2>2 DEF Offers, Names
  <2>4. Starts'
    <3>1. Accepted(known)' = Accepted(known)
      BY <2>1 DEF Accepted
    <3> QED BY <1>1, <1>2, <2>1, <3>1 DEF Offers, Starts, Raising
  <2>5. Asks'
    BY <2>1 DEF Offers, Asks, Pending
  <2>6. ASSUME NEW q \in Request PROVE Shows(q)'
    BY <1>1, <2>1, <2>2 DEF Offers, Shows
  <2> QED BY <1>3, <2>3, <2>4, <2>5, <2>6 DEF Offers
<1>9. CASE EndRaise(r)
  <2>1. /\ pc[r] = "saving" /\ pc'[r] = "done" /\ UNCHANGED <<row, known, knownTop, count>>
        /\ asked' = (asked \/ Raised(r) = "pending") /\ accepted' = Accepted(known)
        /\ column' = viewTop[r] /\ status' = next[r]
        /\ \A q \in Request : q # r => viewTop'[q] = viewTop[q] /\ next'[q] = next[q]
    BY <1>4, <1>9 DEF EndRaise, SaveState, Clear, Advance, TypeOK, Writer
  <2>2. Saving(r) /\ ~Saving(r)' /\ \A q \in Request : Raised(q)' = Raised(q)
    BY <2>1 DEF Saving, Raised
  <2>3. Names'
    BY <1>1, <1>2, <2>1, <2>2 DEF Offers, Names
  <2>4. knownTop = None => accepted' = accepted
    BY <1>2, <2>1 DEF Offers, Starts
  <2>5. Starts'
    <3>1. Accepted(known)' = Accepted(known)
      BY <2>1 DEF Accepted
    <3> QED BY <1>1, <1>2, <2>1, <2>4, <3>1 DEF Offers, Starts, Raising
  <2>6. Asks'
    <3> SUFFICES ASSUME asked'
                 PROVE  knownTop # None /\ next[r] = "awaiting_hitl" /\ Pending(row, viewTop[r])
      BY <2>1 DEF Asks, Pending
    <3>1. viewTop[r] # None
      BY <2>1, <2>2 DEF Offers, Shows, Asks
    <3>2. viewTop[r] \in Request
      BY <1>4, <3>1
    <3> QED BY <2>1, <2>2, <3>1, <3>2 DEF Offers, Shows, Pending
  <2>7. ASSUME NEW q \in Request PROVE Shows(q)'
    BY <1>1, <2>1, <2>2, <2>4 DEF Offers, Shows
  <2> QED BY <1>3, <2>3, <2>5, <2>6, <2>7 DEF Offers
<1> QED BY <1>5, <1>6, <1>7, <1>8, <1>9 DEF RaiseStep, Raise

\* A route names the oldest open request, with its last save.
LEMMA OffersRoute ==
  ASSUME TypeOK, Offers, NEW o \in Op, RouteStep(o)
  PROVE  Offers'
<1> o \in Writer
  BY DEF Writer
<1>1. /\ \A q \in Request : pc'[q] = pc[q] /\ ~Saving(q)'
      /\ \A p \in Op : p # o => pc'[p] = pc[p] /\ pc[p] \notin {"logging", "finishing"}
  BY RouteLeaves DEF Resting, Saving
<1>2. phase' = phase /\ phase \notin Calling
  BY DEF RouteStep
<1>3. knownTop = None /\ knownTop' = None /\ ~asked /\ ~asked'
  BY <1>2, RouteLeaves DEF Offers, Names, Asks, Calling
<1>4. Names' /\ Starts' /\ Asks' /\ \A q \in Request : Shows(q)'
  BY <1>1, <1>2, <1>3 DEF Names, Starts, Asks, Shows, Calling, InContext
<1>5. CASE Finish(o)
  <2>1. /\ pc[o] = "finishing" /\ pc'[o] = "done" /\ row' = row
        /\ column' = viewTop[o] /\ status' = next[o]
    BY <1>5 DEF Finish, Advance, TypeOK
  <2>2. Reports'
    BY <1>1, <2>1 DEF Reports
  <2>3. ASSUME status' \notin Ended, NEW r \in Request, row[r] = "pending"
        PROVE  status' = "awaiting_hitl" /\ Pending(row, column')
    <3>1. viewTop[o] = Oldest(row) /\ (viewTop[o] # None => next[o] = "awaiting_hitl")
      BY <2>1, <2>3 DEF Offers, Reports
    <3>2. Pending(row, Oldest(row))
      BY <2>3, OldestIsPending
    <3> QED BY <2>1, <3>1, <3>2 DEF Pending, Writer
  <2>4. OpenIsListed'
    BY <2>1, <2>3 DEF OpenIsListed, Pending
  <2> QED BY <1>4, <2>2, <2>4 DEF Offers
<1>6. CASE ~Finish(o)
  <2>1. pc'[o] \notin Resting
    BY <1>6 DEF RouteStep, Decide, CheckResume, CheckRemove, InsertAnswer, CloseRow, ReadRows, SaveDecision,
                SaveState, RereadRows, ReadLog, LoadStatus, Advance, TypeOK, Resting
  <2>2. OpenIsListed'
    BY <2>1 DEF OpenIsListed, Quiet, AtRest
  <2>3. Reports'
    <3>1. CASE RereadRows(o)
      <4>1. row' = row /\ pc'[o] = "logging" /\ kind[o] \in {"resume", "remove"}
        BY <3>1 DEF RereadRows, Advance, TypeOK
      <4>2. viewTop'[o] = IF kind[o] = "resume" THEN Oldest(row) ELSE None
        BY <3>1 DEF RereadRows, TypeOK
      <4>3. \/ next'[o] \in Ended
            \/ kind[o] = "resume" /\ (viewTop'[o] # None => next'[o] = "awaiting_hitl")
        BY <3>1, <4>1 DEF RereadRows, TypeOK, Ended
      <4>4. Oldest(row)' = Oldest(row)
        BY <4>1 DEF Oldest, Pending
      <4> QED BY <1>1, <4>1, <4>2, <4>3, <4>4 DEF Reports
    <3>2. CASE ReadLog(o)
      <4>1. pc[o] = "logging" /\ UNCHANGED <<row, viewTop, next>>
        BY <3>2 DEF ReadLog, saving
      <4>2. Oldest(row)' = Oldest(row)
        BY <4>1 DEF Oldest, Pending
      <4> QED BY <1>1, <4>1, <4>2 DEF Offers, Reports
    <3>3. CASE ~RereadRows(o) /\ ~ReadLog(o)
      <4>1. pc'[o] \notin {"logging", "finishing"}
        BY <1>6, <3>3
           DEF RouteStep, Decide, CheckResume, CheckRemove, InsertAnswer, CloseRow, ReadRows, SaveDecision,
               SaveState, LoadStatus, Advance, TypeOK
      <4> QED BY <1>1, <4>1 DEF Reports
    <3> QED BY <3>1, <3>2, <3>3
  <2> QED BY <1>4, <2>2, <2>3 DEF Offers
<1> QED BY <1>5, <1>6

\* Every step keeps open requests on offer.
LEMMA OffersNext ==
  ASSUME ~Overlapping, MaxCrashes = 0, TurnInv, FreshInv, Offers, [Next]_vars
  PROVE  Offers'
<1> CopyInv /\ TypeOK /\ Turns /\ Noted
  BY DEF TurnInv, CopyInv, FreshInv
<1>1. CASE UNCHANGED vars
  BY <1>1
     DEF Offers, Names, Starts, Shows, Asks, Reports, OpenIsListed, Saving, Raised, Oldest, Pending,
         InContext, Accepted, Quiet, AtRest, vars, run, call, saving, op
<1> QED BY <1>1, OffersRun, OffersRaise, OffersRoute, NoStop, FourKinds

\* When operators and clients wait for each other and no server restarts, an open request of a
\* live run is offered, whatever tool calls overlap: listAwaitingHitl returns the run, with a
\* request that is open.
THEOREM OpenRequestsAreListed ==
  ASSUME ~Overlapping, MaxCrashes = 0
  PROVE  Spec => []OpenIsListed
<1>1. Init => Offers
  <2> SUFFICES ASSUME Init PROVE Offers
    OBVIOUS
  <2>1. /\ \A w \in Request \union Op : pc[w] = "idle"
        /\ \A r \in Request : row[r] = "absent"
        /\ phase = "away" /\ knownTop = None /\ ~asked
    BY DEF Init, Writer, Nothing
  <2> QED
    BY <2>1 DEF Offers, Names, Starts, Shows, Asks, Reports, OpenIsListed, Saving, Pending, InContext
<1>2. TurnInv /\ FreshInv /\ Offers /\ [Next]_vars => Offers'
  BY OffersNext
<1>3. Offers => OpenIsListed
  BY DEF Offers
<1> QED BY <1>1, <1>2, <1>3, FreshInvariant, PTL DEF Spec
=============================================================================
