----------------------- MODULE DiscoverySources_proofs -----------------------
(* For any sources, servers and limits: a source is fetched by one task at a *)
(* time, a 'running' row has its task or has lost it, and the ingestion      *)
(* implements SourceClaims.                                                  *)
EXTENDS DiscoverySources, TLAPS

\* Changing one task's place, attempt, outcome or count keeps their type.
LEMMA TaskUpdate ==
  ASSUME NEW Value, NEW f \in Tasks(Value), NEW v \in Server, NEW s \in Source,
         NEW x \in Value
  PROVE  [f EXCEPT ![v][s] = x] \in Tasks(Value)
BY DEF Tasks

\* The failure count stays within its bound.
LEMMA CountType ==
  ASSUME NEW won \in BOOLEAN, NEW count \in Counts
  PROVE  NextFailures(won, count) \in Counts
<1> USE FaultAssumption DEF Counts
<1>1. CASE won
  BY <1>1 DEF NextFailures
<1>2. CASE ~won /\ count = MaxFailures
  BY <1>2 DEF NextFailures
<1>3. CASE ~won /\ count # MaxFailures
  <2>1. count + 1 \in Counts
    BY <1>3
  <2> QED BY <1>3, <2>1 DEF NextFailures
<1> QED BY <1>1, <1>2, <1>3

Place == Holding \union {"away", "claiming"}

\* A task that moves stays within the places.
LEMMA GotoType ==
  ASSUME TypeOK, NEW v \in Server, NEW s \in Source, NEW place \in Place,
         Goto(v, s, place)
  PROVE  pc' \in Tasks(Place)
BY TaskUpdate DEF TypeOK, Goto, Place

\* A task that leaves keeps the types of what is known of the tasks.
LEMMA LeaveTypes ==
  ASSUME TypeOK, NEW v \in Server, NEW s \in Source, Leave(v, s)
  PROVE  /\ pc' \in Tasks(Place)
         /\ attempt' \in Tasks(0..MaxAttempts)
         /\ success' \in Tasks(BOOLEAN)
         /\ seen' \in Tasks(Counts)
<1>1. pc' \in Tasks(Place)
  BY GotoType, "away" \in Place DEF Leave, Place
<1>2. attempt' \in Tasks(0..MaxAttempts)
  BY TaskUpdate, WorkerAssumption, 0 \in 0..MaxAttempts DEF TypeOK, Leave
<1>3. success' \in Tasks(BOOLEAN)
  BY TaskUpdate DEF TypeOK, Leave
<1>4. seen' \in Tasks(Counts)
  BY TaskUpdate, FaultAssumption, 0 \in Counts DEF TypeOK, Leave, Counts
<1> QED BY <1>1, <1>2, <1>3, <1>4

\* DiscoverySources is well typed.
THEOREM TypeCorrect == Spec => []TypeOK
<1>1. Init => TypeOK
  BY WorkerAssumption, FaultAssumption DEF Init, TypeOK, Tasks, Each, Counts, Holding
<1>2. TypeOK /\ [Next]_vars => TypeOK'
  <2> SUFFICES ASSUME TypeOK, [Next]_vars PROVE TypeOK'
    OBVIOUS
  <2> USE WorkerAssumption, FaultAssumption
      DEF TypeOK, Tasks, Each, Counts, Holding, Place, row, task
  <2>1. ASSUME NEW v \in Server, StartJob(v) PROVE TypeOK'
    BY <2>1 DEF StartJob, Listed
  <2>2. ASSUME NEW v \in Server, Crash(v) PROVE TypeOK'
    BY <2>2 DEF Crash, Fault
  <2>3. ASSUME NEW v \in Server, NEW s \in Source, Launch(v, s) PROVE TypeOK'
    BY <2>3 DEF Launch
  <2>4. ASSUME NEW v \in Server, NEW s \in Source, Step(v, s) PROVE TypeOK'
    <3>1. CASE Claim(v, s)
      BY <3>1 DEF Claim, Goto
    <3>2. CASE Skip(v, s)
      BY <3>2, LeaveTypes DEF Skip
    <3>3. CASE FetchOk(v, s)
      BY <3>3, GotoType, TaskUpdate, 0 \in 0..MaxAttempts, "storing" \in Place
      DEF FetchOk
    <3>8. CASE StoreOk(v, s)
      BY <3>8, GotoType, TaskUpdate, "completing" \in Place DEF StoreOk
    <3>9. CASE GiveUp(v, s)
      BY <3>9, GotoType, TaskUpdate, 0 \in 0..MaxAttempts, "completing" \in Place
      DEF GiveUp
    <3>10. CASE WakeUp(v, s)
      BY <3>10, GotoType, "fetching" \in Place DEF WakeUp
    <3>4. CASE Retry(v, s)
      <4>1. attempt[v][s] + 1 \in 0..MaxAttempts
        BY <3>4 DEF Retry
      <4>2. attempt' \in Tasks(0..MaxAttempts)
        BY <3>4, <4>1, TaskUpdate DEF Retry
      <4> QED BY <3>4, <4>2 DEF Retry, Goto
    <3>5. CASE ReadCount(v, s)
      <4>1. pc' \in Tasks(Place)
        BY <3>5, GotoType, "committing" \in Place, "updating" \in Place DEF ReadCount
      <4>2. seen' \in Tasks(Counts)
        <5>1. (IF success[v][s] THEN 0 ELSE failures[s]) \in Counts
          OBVIOUS
        <5> QED BY <3>5, <5>1, TaskUpdate DEF ReadCount
      <4> QED BY <3>5, <4>1, <4>2 DEF ReadCount
    <3>6. CASE Complete(v, s) \/ Release(v, s)
      <4>1. Record(v, s) /\ UNCHANGED <<queue, rows, lost, faults>>
        BY <3>6 DEF Complete, Release
      <4>2. Leave(v, s)
        BY <4>1 DEF Record
      <4>3. CASE status[s] = "deleted"
        BY <4>1, <4>2, <4>3, LeaveTypes DEF Record
      <4>4. CASE status[s] # "deleted"
        <5>1. seen[v][s] \in Counts
          OBVIOUS
        <5>2. NextFailures(success[v][s], seen[v][s]) \in Counts
          <6>1. success[v][s] \in BOOLEAN
            OBVIOUS
          <6> QED BY <5>1, <6>1, CountType
        <5>3. failures' \in [Source -> Counts]
          BY <4>1, <4>4, <5>2 DEF Record
        <5>4. /\ status' \in [Source -> {"idle", "running", "success", "failure",
                                         "deleted"}]
              /\ due' \in [Source -> BOOLEAN]
              /\ old' \in [Source -> BOOLEAN]
          BY <4>1, <4>4 DEF Record
        <5> QED BY <4>1, <4>2, <5>3, <5>4, LeaveTypes
      <4> QED BY <4>3, <4>4
    <3>7. CASE CompleteFails(v, s)
      <4>1. pc' \in Tasks(Place)
        BY <3>7, TaskUpdate DEF CompleteFails
      <4>2. seen' \in Tasks(Counts)
        BY <3>7, TaskUpdate, 0 \in Counts DEF CompleteFails
      <4>3. faults' \in 0..MaxFaults
        BY <3>7 DEF CompleteFails, Fault
      <4> QED BY <3>7, <4>1, <4>2, <4>3 DEF CompleteFails
    <3> QED BY <2>4, <3>1, <3>2, <3>3, <3>4, <3>5, <3>6, <3>7, <3>8,
             <3>9, <3>10 DEF Step
  <2>5. ASSUME NEW v \in Server, NEW s \in Source, ClaimFails(v, s) PROVE TypeOK'
    BY <2>5, LeaveTypes DEF ClaimFails, Fault
  <2>6. ASSUME NEW v \in Server, NEW s \in Source, ReleaseFails(v, s) PROVE TypeOK'
    BY <2>6, LeaveTypes DEF ReleaseFails
  <2>7. CASE FindStale
    BY <2>7 DEF FindStale, Unfetched
  <2>8. CASE MarkStale
    <3>1. \A s \in DOMAIN rows : rows[s] \in Counts /\ 1 \in Counts
      OBVIOUS
    <3>2. failures' \in [Source -> Counts]
      BY <2>8, <3>1 DEF MarkStale
    <3> QED BY <2>8, <3>2 DEF MarkStale
  <2>9. ASSUME NEW s \in Source, Delete(s) \/ TimePasses(s) PROVE TypeOK'
    <3>1. CASE Delete(s)
      BY <3>1 DEF Delete
    <3>2. CASE TimePasses(s)
      BY <3>2 DEF TimePasses
    <3> QED BY <2>9, <3>1, <3>2
  <2>10. CASE UNCHANGED vars
    BY <2>10 DEF vars
  <2> QED
    BY <2>1, <2>2, <2>3, <2>4, <2>5, <2>6, <2>7, <2>8, <2>9, <2>10 DEF Next
<1> QED BY <1>1, <1>2, PTL DEF Spec

-----------------------------------------------------------------------------
(* Claims. A claimed row, held or lost, says 'running' (or is deleted), so    *)
(* that the claim's guard keeps every other task away from it.               *)
Claimed(s) == status[s] \in {"running", "deleted"}

HeldAlone ==
  \A s \in Source : \A v \in Server :
    Holds(v, s) => /\ Claimed(s)
                   /\ s \notin lost
                   /\ \A w \in Server : Holds(w, s) => w = v

LostIsClaimed == \A s \in lost : Claimed(s)

\* A source is launched once by a job.
QueueWaits == \A v \in Server : \A s \in queue[v] : pc[v][s] = "away"

ClaimInv == QueueWaits /\ HeldAlone /\ LostIsClaimed /\ RunningIsHeld

\* What most steps leave alone.
Keep ==
  /\ \A s \in Source : status'[s] = status[s]
  /\ \A s \in Source, v \in Server : Holds(v, s)' <=> Holds(v, s)
  /\ lost' = lost

\* Source s is no longer v's, and no other claim changes.
GivesUp(v, s) ==
  /\ Holds(v, s) /\ ~Holds(v, s)'
  /\ \A t \in Source, w \in Server :
       t # s \/ w # v => (Holds(w, t)' <=> Holds(w, t))
  /\ \A t \in Source \ {s} : status'[t] = status[t]

\* A task that moves between places on the same side of the claim keeps it.
LEMMA MoveKeeps ==
  ASSUME TypeOK, NEW v \in Server, NEW s \in Source, NEW place,
         pc' = [pc EXCEPT ![v][s] = place],
         place \in Holding <=> pc[v][s] \in Holding
  PROVE  \A t \in Source, w \in Server : Holds(w, t)' <=> Holds(w, t)
<1> SUFFICES ASSUME NEW t \in Source, NEW w \in Server
             PROVE  Holds(w, t)' <=> Holds(w, t)
  OBVIOUS
<1>1. CASE w = v /\ t = s
  BY <1>1 DEF Holds, TypeOK, Tasks
<1>2. CASE ~(w = v /\ t = s)
  <2>1. pc'[w][t] = pc[w][t]
    BY <1>2 DEF TypeOK, Tasks
  <2> QED BY <2>1 DEF Holds
<1> QED BY <1>1, <1>2

\* A task that leaves while it holds its source gives it up.
LEMMA LeaveGivesUp ==
  ASSUME TypeOK, NEW v \in Server, NEW s \in Source, Leave(v, s), Holds(v, s),
         \A t \in Source \ {s} : status'[t] = status[t]
  PROVE  GivesUp(v, s)
<1>1. pc' = [pc EXCEPT ![v][s] = "away"]
  BY DEF Leave, Goto
<1>2. ~Holds(v, s)'
  BY <1>1 DEF Holds, Holding, TypeOK, Tasks
<1>3. ASSUME NEW t \in Source, NEW w \in Server, t # s \/ w # v
      PROVE  Holds(w, t)' <=> Holds(w, t)
  <2>1. pc'[w][t] = pc[w][t]
    BY <1>1, <1>3 DEF TypeOK, Tasks
  <2> QED BY <2>1 DEF Holds
<1> QED BY <1>2, <1>3 DEF GivesUp

\* A release records an outcome in the row, unless it has been deleted.
LEMMA RecordReleases ==
  ASSUME TypeOK, NEW v \in Server, NEW s \in Source, Complete(v, s) \/ Release(v, s)
  PROVE  /\ GivesUp(v, s)
         /\ lost' = lost
         /\ status'[s] # "running"
<1>1. Holds(v, s) /\ Record(v, s) /\ lost' = lost
  BY DEF Complete, Release, Holds, Holding
<1>2. /\ status'[s] \in {"success", "failure", "deleted"}
      /\ \A t \in Source \ {s} : status'[t] = status[t]
  <2>1. CASE status[s] = "deleted"
    BY <1>1, <2>1 DEF Record, row
  <2>2. CASE status[s] # "deleted"
    BY <1>1, <2>2 DEF Record, TypeOK
  <2> QED BY <2>1, <2>2
<1>3. Leave(v, s)
  BY <1>1 DEF Record
<1> QED BY <1>1, <1>2, <1>3, LeaveGivesUp

\* Every step but a claim, a release, a loss and a deletion leaves the claims
\* as they are.
LEMMA OtherStepsKeep ==
  ASSUME TypeOK, QueueWaits, [Next]_vars
  PROVE  \/ Keep
         \/ \E v \in Server, s \in Source :
              Claim(v, s) \/ Complete(v, s) \/ Release(v, s) \/ ReleaseFails(v, s)
         \/ \E v \in Server : Crash(v)
         \/ \E s \in Source : Delete(s)
<1> USE DEF row, task, Keep
<1>1. ASSUME NEW v \in Server, StartJob(v) PROVE Keep
  BY <1>1 DEF StartJob, Holds
<1>2. ASSUME NEW v \in Server, NEW s \in Source,
             Launch(v, s) \/ Skip(v, s) \/ ClaimFails(v, s)
      PROVE  Keep
  <2>1. pc[v][s] \notin Holding
    <3>1. CASE Launch(v, s)
      <4>1. pc[v][s] = "away"
        BY <3>1 DEF Launch, QueueWaits
      <4> QED BY <4>1 DEF Holding
    <3>2. CASE Skip(v, s) \/ ClaimFails(v, s)
      BY <3>2 DEF Skip, ClaimFails, Holding
    <3> QED BY <1>2, <3>1, <3>2
  <2>2. \E place \in {"claiming", "away"} : pc' = [pc EXCEPT ![v][s] = place]
    BY <1>2 DEF Launch, Skip, ClaimFails, Leave, Goto
  <2>3. status' = status /\ lost' = lost
    BY <1>2 DEF Launch, Skip, ClaimFails
  <2> QED BY <2>1, <2>2, <2>3, MoveKeeps DEF Holding
<1>3. ASSUME NEW v \in Server, NEW s \in Source,
             \/ FetchOk(v, s) \/ StoreOk(v, s) \/ GiveUp(v, s) \/ Retry(v, s)
             \/ WakeUp(v, s) \/ ReadCount(v, s) \/ CompleteFails(v, s)
      PROVE  Keep
  <2>1. pc[v][s] \in Holding
    BY <1>3 DEF FetchOk, StoreOk, GiveUp, Retry, WakeUp, ReadCount, CompleteFails,
                Holding
  <2>2. \E place \in Holding : pc' = [pc EXCEPT ![v][s] = place]
    BY <1>3 DEF FetchOk, StoreOk, GiveUp, Retry, WakeUp, ReadCount, CompleteFails,
                Goto, Holding
  <2>3. status' = status /\ lost' = lost
    BY <1>3 DEF FetchOk, StoreOk, GiveUp, Retry, WakeUp, ReadCount, CompleteFails
  <2> QED BY <2>1, <2>2, <2>3, MoveKeeps
<1>4. CASE FindStale \/ MarkStale
  BY <1>4 DEF FindStale, MarkStale, Holds
<1>5. ASSUME NEW s \in Source, TimePasses(s) PROVE Keep
  BY <1>5 DEF TimePasses, Holds
<1>6. CASE UNCHANGED vars
  BY <1>6 DEF vars, Holds
<1> QED BY <1>1, <1>2, <1>3, <1>4, <1>5, <1>6 DEF Next, Step

\* The claims stay exclusive and accounted for.
THEOREM ClaimsKept == Spec => []ClaimInv
<1>1. Init => ClaimInv
  BY DEF Init, ClaimInv, QueueWaits, HeldAlone, LostIsClaimed, RunningIsHeld, Holds,
         Holding, Each
<1>2. TypeOK /\ ClaimInv /\ [Next]_vars => ClaimInv'
  <2> SUFFICES ASSUME TypeOK, ClaimInv, [Next]_vars PROVE ClaimInv'
    OBVIOUS
  <2>1. QueueWaits'
    <3> USE DEF QueueWaits
    <3>1. QueueWaits
      BY DEF ClaimInv
    <3>2. ASSUME NEW v \in Server, StartJob(v) PROVE QueueWaits'
      <4>1. \A s \in Listed : pc[v][s] = "away"
        BY <3>2 DEF StartJob, Active, Listed
      <4> QED BY <3>1, <3>2, <4>1 DEF StartJob, TypeOK, task
    <3>3. ASSUME NEW v \in Server, NEW s \in Source, Launch(v, s) PROVE QueueWaits'
      BY <3>1, <3>3 DEF Launch, TypeOK, Tasks
    <3>4. ASSUME NEW v \in Server, Crash(v) PROVE QueueWaits'
      BY <3>1, <3>4 DEF Crash, TypeOK, Tasks, Each
    <3>5. ASSUME NEW v \in Server, NEW s \in Source,
                 Step(v, s) \/ ClaimFails(v, s) \/ ReleaseFails(v, s)
          PROVE  QueueWaits'
      <4>1. queue' = queue /\ pc[v][s] # "away"
        BY <3>5 DEF Step, Claim, Skip, ClaimFails, FetchOk, StoreOk, GiveUp, Retry,
           WakeUp, ReadCount, Complete, CompleteFails, Release, ReleaseFails
      <4>2. \E place : pc' = [pc EXCEPT ![v][s] = place]
        BY <3>5 DEF Step, Claim, Skip, ClaimFails, FetchOk, StoreOk, GiveUp, Retry,
           WakeUp, ReadCount, Complete, CompleteFails, Release, ReleaseFails, Record,
           Leave, Goto
      <4> QED BY <3>1, <4>1, <4>2 DEF TypeOK, Tasks
    <3>6. CASE FindStale \/ MarkStale \/ UNCHANGED vars
      BY <3>1, <3>6 DEF FindStale, MarkStale, vars, task
    <3>7. ASSUME NEW s \in Source, Delete(s) \/ TimePasses(s) PROVE QueueWaits'
      BY <3>1, <3>7 DEF Delete, TimePasses, task
    <3> QED BY <3>2, <3>3, <3>4, <3>5, <3>6, <3>7 DEF Next
  <2>2. (HeldAlone /\ LostIsClaimed /\ RunningIsHeld)'
    <3> USE DEF HeldAlone, LostIsClaimed, RunningIsHeld, Claimed
    <3> HeldAlone /\ LostIsClaimed /\ RunningIsHeld /\ lost \in SUBSET Source
      BY DEF ClaimInv, TypeOK
    <3>1. CASE Keep
      <4>1. HeldAlone'
        BY <3>1 DEF Keep
      <4>2. LostIsClaimed'
        BY <3>1 DEF Keep
      <4>3. RunningIsHeld'
        BY <3>1 DEF Keep
      <4> QED BY <4>1, <4>2, <4>3
    <3>2. ASSUME NEW v \in Server, NEW s \in Source, Claim(v, s)
          PROVE  (HeldAlone /\ LostIsClaimed /\ RunningIsHeld)'
      <4>1. /\ ~Claimed(s)
            /\ status' = [status EXCEPT ![s] = "running"]
            /\ pc' = [pc EXCEPT ![v][s] = "fetching"]
            /\ lost' = lost
        BY <3>2 DEF Claim, Claimable, Goto
      <4>2. \A w \in Server : ~Holds(w, s)
        BY <4>1
      <4>3. /\ Holds(v, s)'
            /\ \A t \in Source, w \in Server :
                 t # s \/ w # v => (Holds(w, t)' <=> Holds(w, t))
        BY <4>1 DEF TypeOK, Tasks, Holds, Holding
      <4>4. /\ status'[s] = "running"
            /\ \A t \in Source \ {s} : status'[t] = status[t]
        BY <4>1 DEF TypeOK
      <4>5. s \notin lost
        BY <4>1
      <4>6. HeldAlone'
        BY <4>1, <4>2, <4>3, <4>4, <4>5
      <4>7. LostIsClaimed'
        BY <4>1, <4>4
      <4>8. RunningIsHeld'
        BY <4>1, <4>3, <4>4
      <4> QED BY <4>6, <4>7, <4>8
    <3>3. ASSUME NEW v \in Server, NEW s \in Source, Complete(v, s) \/ Release(v, s)
          PROVE  (HeldAlone /\ LostIsClaimed /\ RunningIsHeld)'
      <4>1. GivesUp(v, s) /\ lost' = lost /\ status'[s] # "running"
        BY <3>3, RecordReleases
      <4> QED BY <4>1 DEF GivesUp
    <3>4. ASSUME NEW v \in Server, NEW s \in Source, ReleaseFails(v, s)
          PROVE  (HeldAlone /\ LostIsClaimed /\ RunningIsHeld)'
      <4>1. Holds(v, s) /\ Leave(v, s) /\ status' = status
        BY <3>4 DEF ReleaseFails, Holds, Holding, row
      <4>2. GivesUp(v, s) /\ lost' = lost \union {s}
        BY <3>4, <4>1, LeaveGivesUp DEF ReleaseFails
      <4> QED BY <4>1, <4>2 DEF GivesUp
    <3>5. ASSUME NEW v \in Server, Crash(v)
          PROVE  (HeldAlone /\ LostIsClaimed /\ RunningIsHeld)'
      <4>1. /\ status' = status
            /\ lost' = lost \union {s \in Source : Holds(v, s)}
        BY <3>5 DEF Crash, Holds, row
      <4>2. \A s \in Source : /\ ~Holds(v, s)'
                              /\ \A w \in Server \ {v} : Holds(w, s)' <=> Holds(w, s)
        BY <3>5 DEF Crash, TypeOK, Tasks, Each, Holds, Holding
      <4> QED BY <4>1, <4>2
    <3>6. ASSUME NEW s \in Source, Delete(s)
          PROVE  (HeldAlone /\ LostIsClaimed /\ RunningIsHeld)'
      <4>1. /\ status' = [status EXCEPT ![s] = "deleted"]
            /\ lost' = lost
            /\ \A t \in Source, w \in Server : Holds(w, t)' <=> Holds(w, t)
        BY <3>6 DEF Delete, task, Holds
      <4> QED BY <4>1 DEF TypeOK
    <3> QED
      BY <3>1, <3>2, <3>3, <3>4, <3>5, <3>6, OtherStepsKeep DEF ClaimInv
  <2> QED BY <2>1, <2>2 DEF ClaimInv
<1> QED BY <1>1, <1>2, TypeCorrect, PTL DEF Spec

\* Two servers never fetch one source at a time.
THEOREM ClaimsAreExclusive == Spec => []ClaimExclusive
<1>1. ClaimInv => ClaimExclusive
  BY DEF ClaimInv, HeldAlone, ClaimExclusive
<1> QED BY <1>1, ClaimsKept, PTL

\* A source that says 'running' is being fetched, or its claim was lost.
THEOREM RunningSourcesAreHeld == Spec => []RunningIsHeld
<1>1. ClaimInv => RunningIsHeld
  BY DEF ClaimInv
<1> QED BY <1>1, ClaimsKept, PTL

-----------------------------------------------------------------------------
(* Refinement.                                                               *)

\* The holder a state maps to.
LEMMA HolderIs ==
  ASSUME HeldAlone
  PROVE  \A s \in Source :
           /\ \A v \in Server : Holder[s] = v <=> Holds(v, s)
           /\ Holder[s] = None <=> s \notin lost /\ \A v \in Server : ~Holds(v, s)
           /\ Holder[s] = Lost <=> s \in lost
           /\ Holder[s] \in Server \union {None, Lost}
BY ClaimAssumption DEF Holder, HeldAlone

\* Holders before and after a step, by source.
LEMMA HoldersChange ==
  ASSUME HeldAlone, HeldAlone', lost \in SUBSET Source, lost' \in SUBSET Source,
         NEW s \in Source,
         \A v \in Server : Holds(v, s)' <=> Holds(v, s),
         s \in lost' <=> s \in lost
  PROVE  Holder'[s] = Holder[s]
<1>1. CASE \E v \in Server : Holds(v, s)
  <2>1. PICK v \in Server : Holds(v, s)
    BY <1>1
  <2>2. Holder[s] = v
    BY <2>1, HolderIs
  <2>3. Holder'[s] = v
    BY <2>1 DEF Holder, HeldAlone
  <2> QED BY <2>2, <2>3
<1>2. CASE \A v \in Server : ~Holds(v, s)
  BY <1>2 DEF Holder
<1> QED BY <1>1, <1>2

\* The ingestion implements SourceClaims: each step claims, releases or loses
\* sources as that specification allows, or changes no claim.
THEOREM ImplementsSourceClaims == Spec => ImplementsClaims
<1>1. Init => Claims!Init
  BY DEF Init, Claims!Init, Holder, Holds, Holding, Each
<1>2. TypeOK /\ TypeOK' /\ ClaimInv /\ ClaimInv' /\ [Next]_vars
        => [Claims!Next]_Holder
  <2> SUFFICES ASSUME TypeOK, TypeOK', ClaimInv, ClaimInv', [Next]_vars
               PROVE  Claims!Next \/ Holder' = Holder
    OBVIOUS
  <2>0. /\ HeldAlone /\ HeldAlone'
        /\ lost \in SUBSET Source /\ lost' \in SUBSET Source
        /\ LostIsClaimed /\ QueueWaits
    BY DEF ClaimInv, TypeOK
  <2>a. /\ Holder = [s \in Source |-> Holder[s]]
        /\ Holder' = [s \in Source |-> Holder'[s]]
    BY DEF Holder
  <2>1. CASE Keep
    <3>1. \A s \in Source : Holder'[s] = Holder[s]
      BY <2>0, <2>1, HoldersChange DEF Keep
    <3> QED BY <2>a, <3>1
  <2>2. ASSUME NEW v \in Server, NEW s \in Source, Claim(v, s)
        PROVE  Claims!Next
    <3>1. /\ ~Claimed(s)
          /\ pc' = [pc EXCEPT ![v][s] = "fetching"]
          /\ lost' = lost
      BY <2>2 DEF Claim, Claimable, Goto, Claimed
    <3>2. Holder[s] = None
      BY <2>0, <3>1 DEF HeldAlone, LostIsClaimed, Holder
    <3>3. /\ Holds(v, s)'
          /\ \A t \in Source, w \in Server :
               t # s => (Holds(w, t)' <=> Holds(w, t))
      BY <3>1 DEF TypeOK, Tasks, Holds, Holding
    <3>4. Holder'[s] = v
      BY <2>0, <3>3 DEF Holder, HeldAlone
    <3>5. \A t \in Source \ {s} : Holder'[t] = Holder[t]
      BY <2>0, <3>1, <3>3, HoldersChange
    <3>6. Holder' = [Holder EXCEPT ![s] = v]
      BY <2>a, <3>4, <3>5
    <3> QED BY <3>2, <3>6 DEF Claims!Next, Claims!Claim
  <2>3. ASSUME NEW v \in Server, NEW s \in Source, Complete(v, s) \/ Release(v, s)
        PROVE  Claims!Next
    <3>1. GivesUp(v, s) /\ lost' = lost
      BY <2>3, RecordReleases
    <3>2. Holder[s] = v
      BY <2>0, <3>1, HolderIs DEF GivesUp
    <3>3. s \notin lost
      BY <2>0, <3>1 DEF HeldAlone, GivesUp
    <3>4. \A w \in Server : ~Holds(w, s)'
      BY <2>0, <3>1 DEF HeldAlone, GivesUp
    <3>5. Holder'[s] = None
      BY <3>1, <3>3, <3>4 DEF Holder
    <3>6. \A t \in Source \ {s} : Holder'[t] = Holder[t]
      BY <2>0, <3>1, HoldersChange DEF GivesUp
    <3>7. Holder' = [Holder EXCEPT ![s] = None]
      BY <2>a, <3>5, <3>6
    <3> QED BY <3>2, <3>7 DEF Claims!Next, Claims!Release
  <2>4. ASSUME NEW v \in Server, NEW s \in Source, ReleaseFails(v, s)
        PROVE  Claims!Next
    <3>1. Holds(v, s) /\ Leave(v, s) /\ status' = status /\ lost' = lost \union {s}
      BY <2>4 DEF ReleaseFails, Holds, Holding, row
    <3>2. GivesUp(v, s)
      BY <3>1, LeaveGivesUp
    <3>3. Holder[s] = v
      BY <2>0, <3>1, HolderIs
    <3>4. \A w \in Server : ~Holds(w, s)'
      BY <2>0, <3>1, <3>2 DEF HeldAlone, GivesUp
    <3>5. Holder'[s] = Lost
      BY <3>1, <3>4 DEF Holder
    <3>6. \A t \in Source \ {s} : Holder'[t] = Holder[t]
      BY <2>0, <3>1, <3>2, HoldersChange DEF GivesUp
    <3>7. Holder' = [t \in Source |-> IF t \in {s} THEN Lost ELSE Holder[t]]
      BY <2>a, <3>5, <3>6
    <3>8. {s} \in SUBSET {t \in Source : Holder[t] = v}
      BY <3>3
    <3> QED BY <3>7, <3>8 DEF Claims!Next, Claims!Lose
  <2>5. ASSUME NEW v \in Server, Crash(v) PROVE Claims!Next
    <3> DEFINE gone == {s \in Source : Holds(v, s)}
    <3>1. lost' = lost \union gone
      BY <2>5 DEF Crash, Holds
    <3>2. \A s \in Source : /\ ~Holds(v, s)'
                            /\ \A w \in Server \ {v} : Holds(w, s)' <=> Holds(w, s)
      BY <2>5 DEF Crash, TypeOK, Tasks, Each, Holds, Holding
    <3>3. gone \in SUBSET {s \in Source : Holder[s] = v}
      BY <2>0, HolderIs
    <3>4. \A s \in gone : Holder'[s] = Lost
      BY <2>0, <3>1, <3>2 DEF HeldAlone, Holder
    <3>5. \A s \in Source \ gone : Holder'[s] = Holder[s]
      BY <2>0, <3>1, <3>2, HoldersChange
    <3>6. Holder' = [s \in Source |-> IF s \in gone THEN Lost ELSE Holder[s]]
      BY <2>a, <3>4, <3>5
    <3> QED BY <3>3, <3>6 DEF Claims!Next, Claims!Lose
  <2>6. ASSUME NEW s \in Source, Delete(s) PROVE Holder' = Holder
    <3>1. /\ lost' = lost
          /\ \A t \in Source, w \in Server : Holds(w, t)' <=> Holds(w, t)
      BY <2>6 DEF Delete, task, Holds
    <3>2. \A t \in Source : Holder'[t] = Holder[t]
      BY <2>0, <3>1, HoldersChange
    <3> QED BY <2>a, <3>2
  <2> QED
    BY <2>0, <2>1, <2>2, <2>3, <2>4, <2>5, <2>6, OtherStepsKeep
<1> QED
  BY <1>1, <1>2, TypeCorrect, ClaimsKept, PTL DEF Spec, ImplementsClaims, Claims!Spec
=============================================================================
