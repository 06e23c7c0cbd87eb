------------------------ MODULE PolicyActions_proofs ------------------------
(* For any plan, policies, actions and limits: the bookkeeping of policies   *)
(* is well typed, no policy jumps back more often than its maxAttempts over  *)
(* the whole run, only completion and the pause for a human forget           *)
(* post-condition retries, no HITL action of a policy is lost between its    *)
(* question and its answer, and a follow-up is repeated only after an        *)
(* interruption.                                                             *)
EXTENDS PolicyActions, TLAPS

Control ==
  /\ approval \in BOOLEAN /\ human \subseteq Node /\ startup \in BOOLEAN
  /\ resumes \in 0..MaxResumes /\ replans \in 0..MaxReplans
  /\ carried \in [Request -> Nat]

Place == phase \in Phases /\ done \in 0..Length

Books ==
  /\ entries \in Seq(Entry)
  /\ attempts \in [Policy -> Nat] /\ retries \in [Node -> Nat]
  /\ saved \in Memory

Walk ==
  /\ kept \in Seq(Entry) /\ next \in Nat \ {0}
  /\ phase # "start" => next = 1 /\ kept = <<>>

Asked == requests \in Seq(Record) /\ Len(requests) <= HitlLimit /\ known \subseteq Request

Past == jumps \in [Policy -> Nat] /\ cut \in Nat

\* The startup policy comes before anything is asked or looked at.
Fresh == startup => phase = "start" /\ entries = <<>> /\ next = 1 /\ kept = <<>>

\* An attempt is counted with every jump.
Bounded == \A p \in Policy : jumps[p] <= attempts[p] /\ jumps[p] <= Allowed[p]

\* What a paused run would resume with.
Stored ==
  phase = "paused" =>
    /\ saved.attempts = attempts
    /\ IF saved.human THEN done < Length ELSE saved.retries = retries

IInv == TypeOK /\ Fresh /\ Bounded /\ Stored

\* What every handled action leaves behind.
Handled == Place /\ Books /\ Walk /\ Asked /\ Past /\ Bounded /\ Stored

\* The invariant in the parts that the actions touch together.
LEMMA Parts ==
  ASSUME IInv PROVE Control /\ Handled /\ Fresh
BY DEF IInv, TypeOK, Control, Handled, Place, Books, Walk, Asked, Past

\* And back, after a step.
LEMMA Whole ==
  ASSUME Control', Handled', Fresh' PROVE IInv'
BY DEF IInv, TypeOK, Control, Handled, Place, Books, Walk, Asked, Past

\* The owner, bounds and follow-ups of an action.
LEMMA ActionTypes ==
  ASSUME NEW a \in Action
  PROVE  /\ Owner[a] \in Policy
         /\ Detail[a].to \in Node /\ Detail[a].max \in Nat
         /\ Detail[a].approve \in Action \union {None}
         /\ Detail[a].reject \in Action \union {None}
         /\ Detail[a].type = "goto" => Detail[a].max <= Allowed[Owner[a]]
         /\ Allowed[Owner[a]] \in Nat
BY ActionAssumption, AllowedAssumption

\* Raising a request: the entry is stored with its id.
LEMMA RaiseHandled ==
  ASSUME Handled, NEW a \in Action \union {None}, NEW tries \in [Node -> Nat],
         NEW from \in Request \union {0}, Raise(a, tries, from), done' = done
  PROVE  Handled'
<1> USE BoundsAssumption DEF Handled
<1>1. phase' = "paused" /\ next' = 1 /\ kept' = <<>> /\ attempts' = attempts
  BY DEF Raise, Leave
<1>2. Place' /\ Walk'
  BY <1>1 DEF Place, Walk, Phases
<1>3. Len(requests) + 1 \in Request
  BY DEF Raise, Asked, Request
<1>4. entries' \in Seq(Entry)
  <2>1. CASE a = None
    BY <2>1 DEF Raise, Books
  <2>2. CASE a # None
    <3>1. [act |-> a, request |-> Len(requests) + 1] \in Entry
      BY <2>2, <1>3 DEF Entry
    <3> QED BY <2>2, <3>1 DEF Raise, Books
  <2> QED BY <2>1, <2>2
<1>5. saved' = [entries |-> entries', attempts |-> attempts, retries |-> tries, human |-> FALSE]
  BY DEF Raise, Save
<1>6. Books' /\ Stored'
  BY <1>1, <1>4, <1>5 DEF Raise, Books, Stored, Memory
<1>7. Asked'
  <2>1. [act |-> a, from |-> from, answer |-> "open"] \in Record
    BY DEF Record, Answers
  <2>2. Len(requests) + 1 <= HitlLimit
    BY DEF Raise, Asked
  <2>3. requests' = Append(requests, [act |-> a, from |-> from, answer |-> "open"]) /\ known' = known
    BY DEF Raise
  <2> QED BY <2>1, <2>2, <2>3 DEF Asked
<1>8. Past' /\ Bounded'
  BY <1>1 DEF Raise, Interrupt, Past, Bounded
<1> QED BY <1>2, <1>6, <1>7, <1>8

\* Leaving execute() with nothing else changed.
LEMMA LeaveHandled ==
  ASSUME Handled, NEW to \in {"failed", "replan", "loop"}, Leave(to),
         UNCHANGED <<memory, done, saved, hitl, jumps, cut>>
  PROVE  Handled'
BY DEF Handled, Leave, Place, Phases, Working, Books, Walk, Asked, Past, Bounded, Stored,
       memory, hitl

\* Where a handled action may go on.
GoesOn(to, from) ==
  /\ to \in {"start", "loop"}
  /\ from # 0 => to = "start"
  /\ from = 0 => next = 1 /\ kept = <<>>

\* An action that stays in execute() goes on with the walk.
LEMMA StayWalks ==
  ASSUME Walk, NEW to, NEW from, GoesOn(to, from), Stay(to, from)
  PROVE  Walk' /\ phase' \in {"start", "loop"}
BY DEF Walk, GoesOn, Stay, walk

\* After a goto the walk goes on.
LEMMA GotoHandled ==
  ASSUME Handled, NEW a \in Action, Detail[a].type = "goto", NEW to, NEW from,
         GoesOn(to, from), Goto(a, to, from)
  PROVE  Handled'
<1> USE DEF Handled
<1>1. Walk' /\ phase' \in {"start", "loop"}
  BY StayWalks DEF Goto
<1>2. done' \in 0..Length
  <2>1. Detail[a].to \in 1..Length
    BY ActionTypes DEF Node
  <2> QED BY <2>1, BoundsAssumption DEF Goto, Place
<1>3. Place'
  BY <1>1, <1>2 DEF Place, Phases, Working
<1>4. attempts' = [attempts EXCEPT ![Owner[a]] = @ + 1] /\ Owner[a] \in Policy
  BY ActionTypes DEF Goto
<1>5. Books'
  BY <1>4 DEF Books, Goto
<1>6. Asked'
  BY DEF Asked, Goto, hitl
<1>7. Stored'
  BY <1>1 DEF Stored
<1>8. jumps' \in [Policy -> Nat] /\ Past'
  BY <1>4 DEF Goto, Past
<1>9. Bounded'
  <2> SUFFICES ASSUME NEW p \in Policy PROVE jumps'[p] <= attempts'[p] /\ jumps'[p] <= Allowed[p]
    BY DEF Bounded
  <2>1. attempts[p] \in Nat /\ jumps[p] \in Nat /\ jumps[p] <= attempts[p] /\ jumps[p] <= Allowed[p]
    BY DEF Books, Past, Bounded
  <2>2. CASE p # Owner[a]
    BY <2>1, <2>2, <1>4 DEF Goto, Books, Past
  <2>3. CASE p = Owner[a] /\ Jumps(a)
    <3>1. attempts[p] < Detail[a].max /\ Detail[a].max <= Allowed[p]
          /\ Detail[a].max \in Nat /\ Allowed[p] \in Nat
      BY <2>3, ActionTypes DEF Jumps
    <3>2. jumps'[p] = jumps[p] + 1 /\ attempts'[p] = attempts[p] + 1
      BY <2>3, <1>4 DEF Goto, Books, Past
    <3> QED BY <2>1, <3>1, <3>2
  <2>4. CASE p = Owner[a] /\ ~Jumps(a)
    <3>1. jumps'[p] = jumps[p] /\ attempts'[p] = attempts[p] + 1
      BY <2>4, <1>4 DEF Goto, Books
    <3> QED BY <2>1, <3>1
  <2> QED BY <2>2, <2>3, <2>4
<1> QED BY <1>1, <1>3, <1>5, <1>6, <1>7, <1>8, <1>9

\* After an action without an effect, too.
LEMMA NothingHandled ==
  ASSUME Handled, NEW to, NEW from, GoesOn(to, from), Nothing(to, from)
  PROVE  Handled'
<1>1. Walk' /\ phase' \in {"start", "loop"}
  BY StayWalks DEF Nothing, Handled
<1> QED
  BY <1>1 DEF Handled, Nothing, Place, Phases, Working, Books, Asked, Past, Bounded, Stored,
              memory, hitl

\* A pause saves what the run has in memory.
LEMMA PauseHandled ==
  ASSUME Handled, NEW from \in Request \union {0}, PolicyPause(from)
  PROVE  Handled'
<1>1. phase' = "paused" /\ next' = 1 /\ kept' = <<>> /\ UNCHANGED <<memory, done, hitl, jumps>>
  BY DEF PolicyPause, Leave
<1>2. saved' = [entries |-> entries, attempts |-> attempts, retries |-> retries, human |-> FALSE]
  BY DEF PolicyPause, Save
<1>3. Books' /\ Stored'
  BY <1>1, <1>2 DEF Handled, Books, Stored, Memory, memory
<1>4. Place' /\ Walk' /\ Asked' /\ Bounded'
  BY <1>1 DEF Handled, Place, Phases, Walk, Asked, Bounded, memory, hitl
<1>5. Past'
  BY <1>1 DEF Handled, Past, PolicyPause, Interrupt
<1> QED BY <1>3, <1>4, <1>5 DEF Handled

\* Whatever an action does, it leaves what actions may touch in order.
LEMMA ActionHandled ==
  ASSUME Handled, NEW a \in Action, NEW to, NEW from \in Request \union {0},
         GoesOn(to, from), HandleRuntimePolicyAction(a, to, from)
  PROVE  Handled'
<1>1. CASE Detail[a].type = "goto" /\ Goto(a, to, from)
  BY <1>1, GotoHandled
<1>2. CASE Nothing(to, from)
  BY <1>2, NothingHandled
<1>3. CASE PolicyPause(from)
  BY <1>3, PauseHandled
<1>4. CASE Fail
  BY <1>4, LeaveHandled DEF Fail
<1>5. CASE UNCHANGED done /\ Raise(a, retries, from)
  BY <1>5, RaiseHandled DEF Handled, Books
<1>6. CASE UNCHANGED done /\ Denied
  BY <1>6, LeaveHandled DEF Denied
<1> QED BY <1>1, <1>2, <1>3, <1>4, <1>5, <1>6 DEF HandleRuntimePolicyAction

\* An entry at hand is typed, and so is the action its answer leads to.
LEMMA AtTypes ==
  ASSUME Handled, Walking
  PROVE  /\ At \in Entry
         /\ At.act \in Action /\ At.request \in Request
         /\ \A answer : FollowUp(At.act, answer) \in Action \union {None}
<1>1. next \in 1..Len(entries) /\ entries \in Seq(Entry)
  BY DEF Handled, Walking, Books, Walk
<1>2. At \in Entry
  BY <1>1 DEF At
<1>3. At.act \in Action /\ At.request \in Request
  BY <1>2 DEF Entry
<1> QED BY <1>2, <1>3, ActionTypes DEF FollowUp

LEMMA InitIInv == Init => IInv
BY BoundsAssumption, AllowedAssumption
   DEF Init, IInv, TypeOK, Fresh, Bounded, Stored, Memory, Zero, Phases, Working, Node,
       Request

\* A starting execute() keeps the invariant.
LEMMA WalkStep ==
  ASSUME IInv, KeepEntry \/ DropEntry \/ CarryOut \/ EnterLoop
  PROVE  IInv'
<1>1. Control /\ Handled /\ Fresh
  BY Parts
<1>2. CASE KeepEntry
  <2>1. At \in Entry
    BY <1>1, <1>2, AtTypes DEF KeepEntry
  <2>2. Walk'
    BY <1>1, <1>2, <2>1 DEF KeepEntry, Walking, Handled, Walk
  <2> QED
    BY <1>1, <1>2, <2>2, Whole
       DEF KeepEntry, Walking, Handled, Control, Place, Books, Asked, Past, Bounded, Stored,
           Fresh, plan, memory, hitl, counts, history
<1>3. CASE DropEntry
  BY <1>1, <1>3, Whole
     DEF DropEntry, Walking, Handled, Walk, Control, Place, Books, Asked, Past, Bounded, Stored,
         Fresh, plan, memory, hitl, counts, history
<1>4. CASE CarryOut
  <2>1. At.request \in Request /\ \A answer : FollowUp(At.act, answer) \in Action \union {None}
    BY <1>1, <1>4, AtTypes DEF CarryOut
  <2>2. At.request # 0 /\ ~startup
    <3>1. Len(entries) >= 1
      BY <1>1, <1>4 DEF CarryOut, Walking, Handled, Walk, Books
    <3> QED BY <1>1, <2>1, <3>1 DEF Fresh, Request
  <2>3. CASE \E a \in Action : HandleRuntimePolicyAction(a, "start", At.request)
    <3>1. GoesOn("start", At.request)
      BY <2>2 DEF GoesOn
    <3>2. Handled'
      BY <1>1, <2>1, <2>3, <3>1, ActionHandled
    <3>3. Control' /\ Fresh'
      BY <1>1, <1>4, <2>1, <2>2, <2>3
         DEF CarryOut, HandleRuntimePolicyAction, Control, Fresh, plan, counts
    <3> QED BY <3>2, <3>3, Whole
  <2>4. CASE Fail /\ UNCHANGED <<plan, counts>>
    <3>1. Handled'
      BY <1>1, <2>4, LeaveHandled DEF Fail
    <3>2. Control' /\ Fresh'
      BY <1>1, <1>4, <2>1, <2>2, <2>4 DEF CarryOut, Control, Fresh, plan, counts
    <3> QED BY <3>1, <3>2, Whole
  <2> QED BY <1>4, <2>1, <2>3, <2>4 DEF CarryOut
<1>5. CASE EnterLoop
  BY <1>1, <1>5, Whole
     DEF EnterLoop, Leave, Handled, Walk, Control, Place, Phases, Working, Books, Asked, Past,
         Bounded, Stored, Fresh, plan, memory, hitl, counts, history
<1> QED BY <1>2, <1>3, <1>4, <1>5

\* Policies at the start and after a node keep the invariant.
LEMMA PolicyStep ==
  ASSUME IInv, NEW p \in Policy, StartPolicy(p) \/ ApplyPolicy(p)
  PROVE  IInv'
<1>1. Control /\ Handled /\ Fresh
  BY Parts
<1>2. First[p] \in Action
  BY ActionAssumption
<1>3. next = 1 /\ kept = <<>> /\ startup' = FALSE /\ UNCHANGED carried
  BY <1>1 DEF StartPolicy, ApplyPolicy, Fresh, Handled, Walk, Control
<1>4. CASE Leave("replan") /\ UNCHANGED <<plan, done, memory, saved, hitl, counts, jumps, cut>>
  <2>1. Handled'
    BY <1>1, <1>4, LeaveHandled
  <2> QED BY <1>1, <1>3, <1>4, <2>1, Whole DEF Control, Fresh, plan, counts
<1>5. CASE HandleRuntimePolicyAction(First[p], "loop", 0)
  <2>1. GoesOn("loop", 0)
    BY <1>3 DEF GoesOn
  <2>2. Handled'
    BY <1>1, <1>2, <1>5, <2>1, ActionHandled
  <2> QED
    BY <1>1, <1>3, <1>5, <2>2, Whole DEF HandleRuntimePolicyAction, Control, Fresh, plan, counts
<1> QED BY <1>4, <1>5 DEF StartPolicy, ApplyPolicy

\* One more try of the current node.
LEMMA TriesType ==
  ASSUME Handled, Running
  PROVE  Current \in Node /\ Tries \in [Node -> Nat]
<1>1. Current \in Node
  BY BoundsAssumption DEF Handled, Running, Current, Place, Node
<1> QED BY <1>1 DEF Handled, Books, Tries

\* Running the nodes keeps the invariant.
LEMMA NodeStep ==
  ASSUME IInv,
         \/ PauseForHuman \/ Succeed \/ NodeError \/ CapabilityAsks \/ Retry \/ GiveUp
         \/ NoPolicy \/ AskApproval \/ Complete
  PROVE  IInv'
<1>1. Control /\ Handled /\ Fresh
  BY Parts
<1>2. ~startup /\ next = 1 /\ kept = <<>>
  BY <1>1 DEF Fresh, Handled, Walk, PauseForHuman, Succeed, NodeError, CapabilityAsks, Retry,
              GiveUp, FailsPostCondition, Running, NoPolicy, AskApproval, Complete
<1>3. CASE PauseForHuman
  <2>1. saved' = [entries |-> entries, attempts |-> attempts, retries |-> Zero(Node), human |-> TRUE]
    BY <1>3 DEF PauseForHuman, Save
  <2>2. done < Length
    BY <1>3 DEF PauseForHuman, Running
  <2>3. saved' \in Memory
    BY <1>1, <2>1 DEF Handled, Books, Memory, Zero
  <2>4. Stored'
    BY <1>3, <2>1, <2>2 DEF PauseForHuman, Stored, memory
  <2> QED
    BY <1>1, <1>2, <1>3, <2>3, <2>4, Whole
       DEF PauseForHuman, Handled, Control, Place, Phases, Walk, Books, Asked, Past, Bounded,
           Fresh, plan, memory, walk, hitl, counts, history
<1>4. CASE Succeed
  <2>1. Current \in Node
    BY <1>1, <1>4, TriesType DEF Succeed
  <2>2. retries' \in [Node -> Nat] /\ done' \in 0..Length
    BY <1>1, <1>4, <2>1, BoundsAssumption DEF Succeed, Handled, Books, Node
  <2> QED
    BY <1>1, <1>2, <1>4, <2>2, Whole
       DEF Succeed, Handled, Control, Place, Phases, Working, Walk, Books, Asked, Past, Bounded,
           Stored, Fresh, plan, walk, hitl, counts, history
<1>5. CASE NodeError \/ NoPolicy \/ Complete
  <2>1. phase' \in {"failed", "loop", "completed"}
        /\ UNCHANGED <<plan, done, startup, memory, walk, saved, hitl, counts, history>>
    BY <1>5 DEF NodeError, NoPolicy, Complete
  <2>2. Control' /\ Fresh'
    BY <1>1, <1>2, <2>1 DEF Control, Fresh, plan, counts, history
  <2>3. Handled'
    BY <1>1, <1>2, <2>1
       DEF Handled, Place, Phases, Working, Walk, Books, Asked, Past, Bounded, Stored, memory,
           walk, hitl, history
  <2> QED BY <2>2, <2>3, Whole
<1>6. CASE CapabilityAsks
  <2>1. Raise(None, retries, 0) /\ retries \in [Node -> Nat] /\ done' = done
    BY <1>1, <1>6 DEF CapabilityAsks, Handled, Books
  <2>2. Handled'
    BY <1>1, <2>1, RaiseHandled
  <2> QED BY <1>1, <1>2, <1>6, <2>2, Whole DEF CapabilityAsks, Control, Fresh, plan, counts
<1>7. CASE Retry
  <2>1. Tries \in [Node -> Nat]
    BY <1>1, <1>7, TriesType DEF Retry, FailsPostCondition
  <2>2. phase' = "loop"
    BY <1>7 DEF Retry, FailsPostCondition, Running
  <2> QED
    BY <1>1, <1>2, <1>7, <2>1, <2>2, Whole
       DEF Retry, Handled, Control, Place, Phases, Working, Walk, Books, Asked, Past, Bounded,
           Stored, Fresh, plan, walk, hitl, counts, history
<1>8. CASE GiveUp
  <2>1. Tries \in [Node -> Nat] /\ done' = done
    BY <1>1, <1>8, TriesType DEF GiveUp, FailsPostCondition
  <2>2. ASSUME NEW p \in Policy, Raise(First[p], Tries, 0) PROVE Handled'
    <3>1. First[p] \in Action \union {None} /\ 0 \in Request \union {0}
      BY ActionAssumption
    <3> QED BY <1>1, <2>1, <2>2, <3>1, RaiseHandled
  <2>3. ASSUME NEW to \in {"replan", "failed"}, Leave(to), retries' = Tries,
               UNCHANGED <<entries, attempts, saved, hitl, jumps, cut>>
        PROVE  Handled'
    BY <1>1, <2>1, <2>3
       DEF Handled, Leave, Place, Phases, Working, Books, Walk, Asked, Past, Bounded, Stored, hitl
  <2>4. Handled'
    BY <1>8, <2>2, <2>3 DEF GiveUp, PostConditionPolicies
  <2> QED BY <1>1, <1>2, <1>8, <2>4, Whole DEF GiveUp, Control, Fresh, plan, counts
<1>9. CASE AskApproval
  <2>1. done' = done /\ retries \in [Node -> Nat]
    BY <1>1, <1>9 DEF AskApproval, Handled, Books
  <2>2. ASSUME Raise(None, retries, 0) PROVE Handled'
    BY <1>1, <2>1, <2>2, RaiseHandled
  <2>3. ASSUME Denied PROVE Handled'
    BY <1>1, <2>1, <2>3, LeaveHandled DEF Denied
  <2>4. Handled'
    BY <1>9, <2>2, <2>3 DEF AskApproval
  <2> QED BY <1>1, <1>2, <1>9, <2>4, Whole DEF AskApproval, Control, Fresh, plan, counts
<1> QED BY <1>3, <1>4, <1>5, <1>6, <1>7, <1>8, <1>9

\* Operator and coordinator keep the invariant.
LEMMA CoordinatorStep ==
  ASSUME IInv, Coordinate
  PROVE  IInv'
<1>1. Control /\ Handled /\ Fresh
  BY Parts
<1>2. CASE \E r \in Request, answer \in Answers : Decide(r, answer)
  <2> PICK r \in Request, answer \in Answers : Decide(r, answer)
    BY <1>2
  <2>1. requests' = [requests EXCEPT ![r].answer = answer] /\ r \in 1..Len(requests)
    BY DEF Decide
  <2>2. requests[r] \in Record
    BY <1>1, <2>1 DEF Handled, Asked
  <2>3. [requests[r] EXCEPT !.answer = answer] \in Record
    BY <2>2 DEF Record
  <2>4. Asked'
    BY <1>1, <2>1, <2>3 DEF Decide, Handled, Asked
  <2> QED
    BY <1>1, <2>4, Whole
       DEF Decide, Handled, Control, Place, Walk, Books, Past, Bounded, Stored, Fresh, plan,
           memory, walk, counts, history
<1>3. CASE Resume
  <2>1. saved \in Memory /\ saved.attempts = attempts
    BY <1>1, <1>3 DEF Resume, Handled, Books, Stored
  <2>2. Books'
    BY <1>3, <2>1 DEF Resume, Books, Memory
  <2>3. done' \in 0..Length
    BY <1>1, <1>3, BoundsAssumption DEF Resume, Handled, Stored, Place, Current
  <2>4. Decided \subseteq Request
    BY <1>1, BoundsAssumption DEF Decided, Request, Handled, Asked
  <2>5. Asked'
    BY <1>1, <1>3, <2>4 DEF Resume, Handled, Asked
  <2>6. Walk' /\ Place' /\ Stored' /\ Fresh'
    BY <1>3, <2>3 DEF Resume, Leave, Walk, Place, Phases, Working, Stored, Fresh
  <2>7. Past' /\ Bounded'
    BY <1>1, <1>3, <2>1 DEF Resume, Handled, Past, Bounded, history
  <2>8. resumes' \in 0..MaxResumes /\ replans' \in 0..MaxReplans
    BY <1>1, <1>3, BoundsAssumption DEF Resume, Control
  <2>9. Control'
    BY <1>1, <1>3, <2>8 DEF Resume, Control, plan, history
  <2> QED BY <2>2, <2>5, <2>6, <2>7, <2>9, Whole DEF Handled
<1>4. CASE Replan
  <2>1. Place' /\ Control'
    BY <1>1, <1>4, BoundsAssumption
       DEF Replan, Handled, Place, Phases, Working, Control, history
  <2>2. next = 1 /\ kept = <<>> /\ ~startup
    BY <1>1, <1>4 DEF Replan, Handled, Walk, Fresh
  <2>3. saved' = [entries |-> entries, attempts |-> attempts, retries |-> retries,
                  human |-> FALSE]
    BY <1>4 DEF Replan, Save
  <2>4. phase' = "start" /\ UNCHANGED <<startup, memory, walk, hitl, history>>
    BY <1>4 DEF Replan
  <2>5. Books' /\ Stored'
    BY <1>1, <2>3, <2>4 DEF Handled, Books, Stored, Memory, memory
  <2> QED
    BY <1>1, <2>1, <2>2, <2>4, <2>5, Whole
       DEF Handled, Walk, Asked, Past, Bounded, Fresh, memory, walk, hitl, history
<1>5. CASE ReplanFails
  BY <1>1, <1>5, Whole
     DEF ReplanFails, Handled, Control, Place, Phases, Walk, Books, Asked, Past, Bounded, Stored,
         Fresh, plan, memory, walk, hitl, counts, history
<1> QED BY <1>2, <1>3, <1>4, <1>5 DEF Coordinate

LEMMA NextIInv == IInv /\ [Next]_vars => IInv'
<1> SUFFICES ASSUME IInv, [Next]_vars PROVE IInv'
  OBVIOUS
<1>1. CASE UNCHANGED vars
  BY <1>1 DEF vars, plan, memory, walk, hitl, counts, history, IInv, TypeOK, Fresh, Bounded, Stored
<1>2. CASE Execute
  BY <1>2, WalkStep, PolicyStep, NodeStep DEF Execute
<1>3. CASE Coordinate
  BY <1>3, CoordinatorStep
<1> QED BY <1>1, <1>2, <1>3 DEF Next

LEMMA Invariant == Spec => []IInv
BY InitIInv, NextIInv, PTL DEF Spec

\* PolicyActions is well typed.
THEOREM TypeCorrect == Spec => []TypeOK
BY Invariant, PTL DEF IInv

\* Over pauses, resumes, replans and repeated follow-ups, a policy jumps back at most
\* maxAttempts times in the whole run.
THEOREM GotosAreBounded == Spec => []GotoBounded
<1>1. IInv => GotoBounded
  BY DEF IInv, Bounded, GotoBounded
<1> QED BY <1>1, Invariant, PTL

Forgets(n) == retries'[n] < retries[n]

\* Handling an action forgets no retries.
LEMMA ActionKeepsRetries ==
  ASSUME NEW a, NEW to, NEW from, HandleRuntimePolicyAction(a, to, from)
  PROVE  retries' = retries
BY DEF HandleRuntimePolicyAction, Goto, Nothing, PolicyPause, Fail, Raise, Denied, memory

\* Only completing a node, or the pause for a human, forgets its retries.
THEOREM RetriesAreKept == Spec => RetriesKept
<1>1. ASSUME IInv, [Next]_vars, NEW n \in Node, Forgets(n)
      PROVE  done' >= n \/ (phase = "paused" /\ saved.human)
  <2>1. Control /\ Handled
    BY <1>1, Parts
  <2>2. retries \in [Node -> Nat] /\ retries' # retries
    BY <1>1, <2>1 DEF Handled, Books, Forgets
  <2>3. CASE \/ KeepEntry \/ DropEntry \/ EnterLoop \/ PauseForHuman \/ NodeError
             \/ CapabilityAsks \/ NoPolicy \/ AskApproval \/ Complete
             \/ \E r \in Request, answer \in Answers : Decide(r, answer)
             \/ Replan \/ ReplanFails \/ UNCHANGED vars
    BY <2>2, <2>3
       DEF KeepEntry, DropEntry, EnterLoop, PauseForHuman, NodeError, CapabilityAsks, NoPolicy,
           AskApproval, Complete, Decide, Replan, ReplanFails, vars, memory, Raise, Denied
  <2>4. CASE CarryOut
    BY <2>2, <2>4, ActionKeepsRetries DEF CarryOut, Fail, memory
  <2>5. CASE \E p \in Policy : StartPolicy(p) \/ ApplyPolicy(p)
    BY <2>2, <2>5, ActionKeepsRetries DEF StartPolicy, ApplyPolicy, memory
  <2>6. CASE Succeed
    <3>1. retries' = [retries EXCEPT ![Current] = 0] /\ done' = Current
      BY <2>6 DEF Succeed
    <3>2. n = Current
      BY <1>1, <2>2, <3>1 DEF Forgets
    <3> QED BY <3>1, <3>2 DEF Node
  <2>7. CASE Retry \/ GiveUp
    <3>1. retries' = Tries /\ Current \in Node
      BY <2>1, <2>7, TriesType DEF Retry, GiveUp, FailsPostCondition, Raise
    <3>2. retries'[n] >= retries[n]
      BY <2>2, <3>1 DEF Tries
    <3> QED BY <1>1, <2>2, <3>1, <3>2 DEF Forgets, Tries
  <2>8. CASE Resume
    BY <2>1, <2>2, <2>8 DEF Resume, Handled, Stored
  <2> QED
    BY <1>1, <2>3, <2>4, <2>5, <2>6, <2>7, <2>8 DEF Next, Execute, Coordinate
<1>2. IInv /\ [Next]_vars =>
        \A n \in Node : Forgets(n) => done' >= n \/ (phase = "paused" /\ saved.human)
  BY <1>1
<1>3. IInv /\ [Next]_vars =>
        [\A n \in Node : retries'[n] < retries[n] =>
           done' >= n \/ (phase = "paused" /\ saved.human)]_vars
  BY <1>2 DEF Forgets
<1> QED BY <1>3, Invariant, PTL DEF Spec, RetriesKept
-----------------------------------------------------------------------------
(* Directives: every HITL action of a policy is listed, kept or dealt with.   *)

InLoop == phase \in {"loop", "effect", "replan", "completed"}

\* The entries are those of different requests.
Matched(es) ==
  \A i \in 1..Len(es) :
    /\ es[i].request \in 1..Len(requests)
    /\ requests[es[i].request].act = es[i].act
    /\ \A j \in 1..Len(es) : es[i].request = es[j].request => i = j

\* run() has loaded nothing but answers.
Loaded == \A r \in known : r \in 1..Len(requests) /\ requests[r].answer # "open"

\* What is kept was met on the walk, undecided.
KeptOpen ==
  /\ next <= Len(entries) + 1
  /\ \A j \in 1..Len(kept) :
       /\ \E i \in 1..Len(entries) : i < next /\ kept[j] = entries[i]
       /\ Answer(kept[j].request) = "open"

Ahead(r) == \E i \in next..Len(entries) : entries[i].request = r

Settled(r) ==
  /\ Answer(r) # "open"
  /\ carried[r] > 0 \/ FollowUp(requests[r].act, Answer(r)) = None

Accounted ==
  phase # "failed" =>
    \A r \in 1..Len(requests) :
      requests[r].act # None => Ahead(r) \/ Listed(r, kept) \/ Settled(r)

\* Follow-ups that were carried out and may be again have been interrupted.
Repeatable ==
  phase # "failed" =>
    /\ \A i \in next..Len(entries) : carried[entries[i].request] <= cut
    /\ \A j \in 1..Len(kept) : carried[kept[j].request] <= cut

Ledger ==
  /\ Matched(entries) /\ Matched(kept) /\ Loaded /\ KeptOpen
  /\ phase = "paused" => saved.entries = entries
  /\ InLoop => \A i \in 1..Len(entries) : Answer(entries[i].request) = "open"
  /\ Accounted

Counted ==
  /\ \A r \in Request : carried[r] <= cut + 1 /\ (r > Len(requests) => carried[r] = 0)
  /\ Repeatable

Directives == IInv /\ Ledger /\ Counted

LEMMA InitDirectives == Init => Directives
BY InitIInv
   DEF Init, Directives, Ledger, Matched, Loaded, KeptOpen, InLoop, Accounted, Counted,
       Repeatable, Zero

\* The types behind the ledger.
LEMMA LedgerTypes ==
  ASSUME IInv
  PROVE  /\ entries \in Seq(Entry) /\ kept \in Seq(Entry) /\ next \in Nat \ {0}
         /\ requests \in Seq(Record) /\ Len(requests) \in Nat /\ Len(requests) <= HitlLimit
         /\ known \subseteq Request /\ carried \in [Request -> Nat] /\ cut \in Nat
         /\ \A i \in 1..Len(entries) : entries[i].request \in Request
         /\ 1..Len(requests) \subseteq Request
         /\ phase # "start" => next = 1 /\ kept = <<>>
<1>1. \A i \in 1..Len(entries) : entries[i] \in Entry
  BY DEF IInv, TypeOK
<1>2. 1..Len(requests) \subseteq Request
  BY BoundsAssumption DEF IInv, TypeOK, Request
<1> QED BY <1>1, <1>2 DEF IInv, TypeOK, Entry

\* Steps that neither ask, walk nor answer.
Quiet ==
  /\ UNCHANGED <<entries, next, kept, requests, known, carried, cut>>
  /\ phase' # phase => phase # "failed"
  /\ phase' = "paused" => saved'.entries = entries
  /\ InLoop' => InLoop \/ entries = <<>>

\* A step without a directive keeps the account of them.
LEMMA QuietStep ==
  ASSUME Directives, Quiet
  PROVE  (Ledger /\ Counted)'
BY DEF Directives, Quiet, Ledger, Matched, Loaded, KeptOpen, Accounted, Ahead, Listed, Settled,
       Answer, Counted, Repeatable

\* A step on behalf of the follow-up of request "from", or of none.
Carrying(from) ==
  \/ from = 0 /\ carried' = carried /\ next = 1 /\ kept = <<>> /\ phase # "failed"
  \/ Walking /\ from = At.request /\ carried' = [carried EXCEPT ![from] = @ + 1]

\* When it pauses the run, everything listed may be met again.
LEMMA PauseCounts ==
  ASSUME Directives, NEW from \in Request \union {0}, Carrying(from), Interrupt(from)
  PROVE  /\ carried' \in [Request -> Nat] /\ cut' \in Nat
         /\ \A r \in Request : carried'[r] >= carried[r] /\ carried'[r] <= cut' + 1
         /\ \A r \in Request : r > Len(requests) => carried'[r] = 0
         /\ \A i \in 1..Len(entries) : carried'[entries[i].request] <= cut'
<1> USE DEF Directives
<1>1. /\ entries \in Seq(Entry) /\ carried \in [Request -> Nat] /\ cut \in Nat /\ next \in Nat \ {0}
      /\ \A i \in 1..Len(entries) : entries[i].request \in Request
      /\ Len(requests) \in Nat
  BY LedgerTypes
<1>2. CASE from = 0 /\ carried' = carried /\ next = 1 /\ phase # "failed"
  BY <1>1, <1>2 DEF Counted, Repeatable, Interrupt
<1>3. CASE Walking /\ from = At.request /\ carried' = [carried EXCEPT ![from] = @ + 1]
  <2>1. /\ next \in 1..Len(entries) /\ from = entries[next].request /\ from \in Request
        /\ phase # "failed"
    BY <1>1, <1>3 DEF Walking, At
  <2>2. carried[from] <= cut /\ from <= Len(requests)
    BY <1>1, <2>1 DEF Counted, Repeatable, Ledger, Matched
  <2>3. cut' = cut + 1
    BY <2>1 DEF Interrupt, Request
  <2>4. \A r \in Request : carried'[r] = IF r = from THEN carried[r] + 1 ELSE carried[r]
    BY <1>1, <1>3
  <2>5. \A r \in Request : carried[r] <= cut + 1
    BY DEF Counted
  <2>6. \A r \in Request : carried'[r] <= cut' /\ carried'[r] >= carried[r]
    BY <1>1, <2>2, <2>3, <2>4, <2>5
  <2>7. \A r \in Request : r > Len(requests) => carried'[r] = 0
    BY <1>1, <2>2, <2>4 DEF Counted, Request
  <2>8. carried' \in [Request -> Nat]
    BY <1>1, <1>3, <2>1
  <2> QED BY <1>1, <2>3, <2>6, <2>7, <2>8
<1> QED BY <1>2, <1>3 DEF Carrying

\* A pause forgets how far the walk was: what it had kept is still listed.
LEMMA PauseAccounts ==
  ASSUME Directives, NEW from \in Request \union {0}, Carrying(from), Interrupt(from),
         NEW r \in 1..Len(requests), requests[r].act # None
  PROVE  Listed(r, entries) \/ (Answer(r) # "open" /\
           (carried'[r] > 0 \/ FollowUp(requests[r].act, Answer(r)) = None))
<1>1. phase # "failed"
  BY DEF Carrying, Walking
<1>2. /\ next \in Nat \ {0} /\ r \in Request /\ carried \in [Request -> Nat]
      /\ carried'[r] \in Nat /\ carried'[r] >= carried[r]
  BY LedgerTypes, PauseCounts DEF Directives
<1>3. CASE Ahead(r)
  BY <1>2, <1>3 DEF Ahead, Listed
<1>4. CASE Listed(r, kept)
  BY <1>4 DEF Directives, Ledger, KeptOpen, Listed
<1>5. CASE Settled(r)
  BY <1>2, <1>5 DEF Settled
<1> QED BY <1>1, <1>3, <1>4, <1>5 DEF Directives, Ledger, Accounted

\* A pause keeps the account: the entries are saved as they are.
LEMMA PolicyPauseStep ==
  ASSUME Directives, NEW from \in Request \union {0}, Carrying(from), PolicyPause(from)
  PROVE  (Ledger /\ Counted)'
<1>1. /\ entries' = entries /\ requests' = requests /\ known' = known
      /\ phase' = "paused" /\ next' = 1 /\ kept' = <<>> /\ saved'.entries = entries
      /\ Interrupt(from)
  BY DEF PolicyPause, Leave, Save, memory, hitl
<1>2. Len(entries) \in Nat
  BY LedgerTypes DEF Directives
<1>3. (Matched(entries) /\ Matched(kept) /\ Loaded /\ KeptOpen)'
  BY <1>1, <1>2 DEF Directives, Ledger, Matched, Loaded, KeptOpen
<1>4. Accounted'
  <2> SUFFICES ASSUME NEW r \in 1..Len(requests), requests[r].act # None
               PROVE  Ahead(r)' \/ Settled(r)'
    BY <1>1 DEF Accounted
  <2>1. CASE Listed(r, entries)
    BY <1>1, <2>1 DEF Ahead, Listed
  <2>2. CASE Answer(r) # "open" /\ (carried'[r] > 0 \/ FollowUp(requests[r].act, Answer(r)) = None)
    BY <1>1, <2>2 DEF Settled, Answer
  <2> QED BY <1>1, <2>1, <2>2, PauseAccounts
<1>5. Counted'
  BY <1>1, <1>2, PauseCounts DEF Counted, Repeatable
<1> QED BY <1>1, <1>3, <1>4, <1>5 DEF Ledger, InLoop

\* The new request is listed with its own number, which nothing else has.
LEMMA RaiseStep ==
  ASSUME Directives, NEW a \in Action \union {None}, NEW tries,
         NEW from \in Request \union {0}, Carrying(from), Raise(a, tries, from)
  PROVE  (Ledger /\ Counted)'
<1> DEFINE new == Len(requests) + 1
           asked == [act |-> a, from |-> from, answer |-> "open"]
           item == [act |-> a, request |-> new]
<1>1. /\ requests' = Append(requests, asked) /\ known' = known
      /\ entries' = IF a = None THEN entries ELSE Append(entries, item)
      /\ phase' = "paused" /\ next' = 1 /\ kept' = <<>> /\ saved'.entries = entries'
      /\ Interrupt(from) /\ Len(requests) < HitlLimit
  BY DEF Raise, Leave, Save
<1>2. /\ entries \in Seq(Entry) /\ requests \in Seq(Record) /\ Len(entries) \in Nat
      /\ Len(requests) \in Nat /\ new \in Request
      /\ \A i \in 1..Len(entries) : entries[i].request \in Request
  BY <1>1, LedgerTypes, BoundsAssumption DEF Directives, Request
<1>3. /\ Len(requests') = new /\ requests'[new] = asked
      /\ \A r \in 1..Len(requests) : requests'[r] = requests[r]
  BY <1>1, <1>2
<1>4. \A r : Answer(r)' = IF r = new THEN "open" ELSE Answer(r)
  BY <1>1, <1>2, <1>3 DEF Answer, Directives, Ledger, Loaded
<1>5. \A i \in 1..Len(entries) : i \in 1..Len(entries') /\ entries'[i] = entries[i]
  BY <1>1, <1>2
<1>6. /\ Len(entries') \in Nat
      /\ \A i \in 1..Len(entries') : i \notin 1..Len(entries) =>
           a # None /\ i = Len(entries) + 1 /\ entries'[i] = item
      /\ a # None => Len(entries) + 1 \in 1..Len(entries') /\ entries'[Len(entries) + 1] = item
  BY <1>1, <1>2
<1>7. \A i \in 1..Len(entries) :
        entries[i].request \in 1..Len(requests) /\ requests[entries[i].request].act = entries[i].act
  BY DEF Directives, Ledger, Matched
<1>8. Matched(entries)'
  <2> SUFFICES ASSUME NEW i \in 1..Len(entries')
               PROVE  /\ entries'[i].request \in 1..Len(requests')
                      /\ requests'[entries'[i].request].act = entries'[i].act
                      /\ \A j \in 1..Len(entries') : entries'[i].request = entries'[j].request => i = j
    BY DEF Matched
  <2>1. CASE i \in 1..Len(entries)
    <3>1. /\ entries'[i].request \in 1..Len(requests')
          /\ requests'[entries'[i].request].act = entries'[i].act
      BY <1>2, <1>3, <1>5, <1>7, <2>1
    <3>2. \A j \in 1..Len(entries) : entries'[i].request = entries'[j].request => i = j
      BY <1>5, <2>1 DEF Directives, Ledger, Matched
    <3>3. \A j \in 1..Len(entries') : j \notin 1..Len(entries) => entries'[i].request # entries'[j].request
      BY <1>2, <1>5, <1>6, <1>7, <2>1
    <3> QED BY <3>1, <3>2, <3>3
  <2>2. CASE i \notin 1..Len(entries)
    <3>1. i = Len(entries) + 1 /\ entries'[i] = item
      BY <1>6, <2>2
    <3>2. entries'[i].request \in 1..Len(requests') /\ requests'[entries'[i].request].act = entries'[i].act
      BY <1>2, <1>3, <3>1
    <3>3. \A j \in 1..Len(entries) : entries'[j].request # new
      BY <1>2, <1>5, <1>7
    <3>4. \A j \in 1..Len(entries') : j \notin 1..Len(entries) => j = i
      BY <1>6, <3>1
    <3> QED BY <3>1, <3>2, <3>3, <3>4
  <2> QED BY <2>1, <2>2
<1>9. (Matched(kept) /\ Loaded /\ KeptOpen)'
  <2>1. \A r \in known : r \in 1..Len(requests) /\ requests[r].answer # "open"
    BY DEF Directives, Ledger, Loaded
  <2>2. Loaded'
    BY <1>1, <1>2, <1>3, <2>1 DEF Loaded
  <2> QED BY <1>1, <1>6, <2>2 DEF Matched, KeptOpen
<1>10. Accounted'
  <2> SUFFICES ASSUME NEW r \in 1..Len(requests'), requests'[r].act # None
               PROVE  Ahead(r)' \/ Settled(r)'
    BY <1>1 DEF Accounted
  <2>1. CASE r = new
    <3>1. a # None
      BY <1>3, <2>1
    <3> QED BY <1>1, <1>6, <2>1, <3>1 DEF Ahead
  <2>2. CASE r # new
    <3>1. r \in 1..Len(requests) /\ requests'[r] = requests[r] /\ Answer(r)' = Answer(r)
      BY <1>2, <1>3, <1>4, <2>2
    <3>2. CASE Listed(r, entries)
      BY <1>1, <1>5, <3>2 DEF Ahead, Listed
    <3>3. CASE Answer(r) # "open" /\ (carried'[r] > 0 \/ FollowUp(requests[r].act, Answer(r)) = None)
      BY <3>1, <3>3 DEF Settled
    <3> QED BY <1>1, <3>1, <3>2, <3>3, PauseAccounts
  <2> QED BY <2>1, <2>2
<1>11. Counted'
  <2>1. /\ carried' \in [Request -> Nat] /\ cut' \in Nat
        /\ \A r \in Request : carried'[r] <= cut' + 1
        /\ \A r \in Request : r > Len(requests) => carried'[r] = 0
        /\ \A i \in 1..Len(entries) : carried'[entries[i].request] <= cut'
    BY <1>1, PauseCounts
  <2>2. \A i \in 1..Len(entries') : carried'[entries'[i].request] <= cut'
    <3> TAKE i \in 1..Len(entries')
    <3>1. CASE i \in 1..Len(entries)
      BY <1>5, <2>1, <3>1
    <3>2. CASE i \notin 1..Len(entries)
      <4>1. entries'[i].request = new
        BY <1>6, <3>2
      <4>2. carried'[new] = 0
        BY <1>2, <2>1
      <4> QED BY <2>1, <4>1, <4>2
    <3> QED BY <3>1, <3>2
  <2>3. \A r \in Request : r > Len(requests') => carried'[r] = 0
    BY <1>2, <1>3, <2>1 DEF Request
  <2> QED BY <1>1, <2>1, <2>2, <2>3 DEF Counted, Repeatable
<1> QED BY <1>1, <1>8, <1>9, <1>10, <1>11 DEF Ledger, InLoop

\* The entry at hand on the walk.
LEMMA EntryAtHand ==
  ASSUME Directives, Walking
  PROVE  /\ next \in 1..Len(entries) /\ At = entries[next] /\ At.request \in Request
         /\ At.request \in 1..Len(requests) /\ requests[At.request].act = At.act
         /\ carried[At.request] <= cut
         /\ \A i \in 1..Len(entries) : entries[i].request = At.request => i = next
         /\ \A j \in 1..Len(kept) : kept[j].request # At.request
<1>1. /\ next \in 1..Len(entries) /\ At = entries[next] /\ phase # "failed"
      /\ \A i \in 1..Len(entries) : entries[i].request \in Request
  BY LedgerTypes DEF Directives, Walking, At
<1>2. \A i \in 1..Len(entries) :
        /\ entries[i].request \in 1..Len(requests)
        /\ requests[entries[i].request].act = entries[i].act
        /\ \A j \in 1..Len(entries) : entries[i].request = entries[j].request => i = j
  BY DEF Directives, Ledger, Matched
<1>3. carried[At.request] <= cut
  BY <1>1 DEF Directives, Counted, Repeatable
<1>4. \A j \in 1..Len(kept) : \E i \in 1..Len(entries) : i < next /\ kept[j] = entries[i]
  BY DEF Directives, Ledger, KeptOpen
<1>5. \A j \in 1..Len(kept) : kept[j].request # At.request
  BY <1>1, <1>2, <1>4
<1> QED BY <1>1, <1>2, <1>3, <1>5

\* A decided entry is passed, its follow-up carried out or none.
LEMMA PassEntry ==
  ASSUME Directives, Walking, Answer(At.request) # "open",
         UNCHANGED <<entries, requests, known, kept, cut>>, next' = next + 1, phase' = "start",
         \/ carried' = [carried EXCEPT ![At.request] = @ + 1]
         \/ carried' = carried /\ FollowUp(At.act, Answer(At.request)) = None
  PROVE  (Ledger /\ Counted)'
<1>1. /\ next \in 1..Len(entries) /\ At = entries[next] /\ At.request \in Request
      /\ requests[At.request].act = At.act
      /\ carried[At.request] <= cut
      /\ \A i \in 1..Len(entries) : entries[i].request = At.request => i = next
      /\ \A j \in 1..Len(kept) : kept[j].request # At.request
  BY EntryAtHand
<1>2. /\ next \in Nat /\ Len(entries) \in Nat /\ carried \in [Request -> Nat] /\ cut \in Nat
      /\ 1..Len(requests) \subseteq Request
      /\ kept \in Seq(Entry) /\ \A i \in 1..Len(entries) : entries[i].request \in Request
  BY LedgerTypes DEF Directives
<1>3. /\ \A r \in Request : carried'[r] \in Nat /\ carried'[r] >= carried[r] /\ carried'[r] <= cut + 1
      /\ \A r \in Request : r # At.request => carried'[r] = carried[r]
      /\ carried'[At.request] > 0 \/ FollowUp(At.act, Answer(At.request)) = None
  BY <1>1, <1>2 DEF Directives, Counted
<1>4. \A r : Answer(r)' = Answer(r)
  BY DEF Answer
<1>5. (Matched(entries) /\ Matched(kept) /\ Loaded)'
  BY DEF Directives, Ledger, Matched, Loaded
<1>6. KeptOpen'
  <2>1. \A j \in 1..Len(kept) :
          /\ \E i \in 1..Len(entries) : i < next /\ kept[j] = entries[i]
          /\ Answer(kept[j].request) = "open"
    BY DEF Directives, Ledger, KeptOpen
  <2>2. \A j \in 1..Len(kept) : \E i \in 1..Len(entries) : i < next + 1 /\ kept[j] = entries[i]
    BY <1>2, <2>1
  <2>3. next + 1 <= Len(entries) + 1
    BY <1>1, <1>2
  <2> QED BY <1>4, <2>1, <2>2, <2>3 DEF KeptOpen
<1>7. Accounted'
  <2> SUFFICES ASSUME NEW r \in 1..Len(requests), requests[r].act # None
               PROVE  Ahead(r)' \/ Listed(r, kept)' \/ Settled(r)'
    BY DEF Accounted
  <2>0. r \in Request /\ carried[r] \in Nat /\ carried'[r] \in Nat /\ carried'[r] >= carried[r]
    BY <1>2, <1>3
  <2>1. Ahead(r) \/ Listed(r, kept) \/ Settled(r)
    BY DEF Directives, Ledger, Accounted, Walking
  <2>2. CASE r = At.request
    BY <1>1, <1>3, <1>4, <2>2 DEF Settled
  <2>3. CASE r # At.request /\ Ahead(r)
    BY <1>1, <1>2, <2>3 DEF Ahead
  <2>4. CASE Listed(r, kept)
    BY <2>4 DEF Listed
  <2>5. CASE Settled(r)
    BY <2>0, <1>4, <2>5 DEF Settled
  <2> QED BY <2>1, <2>2, <2>3, <2>4, <2>5
<1>8. Counted'
  <2>1. \A i \in next'..Len(entries) : carried'[entries[i].request] <= cut
    BY <1>1, <1>2, <1>3 DEF Directives, Counted, Repeatable, Walking
  <2>2. \A j \in 1..Len(kept) : carried'[kept[j].request] <= cut
    <3> TAKE j \in 1..Len(kept)
    <3>1. kept[j] \in Entry
      BY <1>2
    <3>2. kept[j].request \in Request
      BY <3>1 DEF Entry
    <3>3. carried[kept[j].request] <= cut
      BY DEF Directives, Counted, Repeatable, Walking
    <3> QED BY <1>1, <1>3, <3>2, <3>3
  <2>3. \A r \in Request : r > Len(requests) => carried'[r] = 0
    BY <1>3, EntryAtHand DEF Directives, Counted, Request
  <2> QED BY <1>3, <2>1, <2>2, <2>3 DEF Counted, Repeatable
<1> QED BY <1>5, <1>6, <1>7, <1>8 DEF Ledger, InLoop

\* An undecided entry is kept.
LEMMA KeepStep ==
  ASSUME Directives, KeepEntry
  PROVE  (Ledger /\ Counted)'
<1> USE DEF Directives
<1>0. Walking
  BY DEF KeepEntry
<1>1. /\ next \in 1..Len(entries) /\ At = entries[next] /\ At.request \in 1..Len(requests)
      /\ requests[At.request].act = At.act /\ carried[At.request] <= cut
      /\ \A j \in 1..Len(kept) : kept[j].request # At.request
  BY <1>0, EntryAtHand
<1>2. /\ UNCHANGED <<entries, requests, known, carried, cut, phase>> /\ next' = next + 1
      /\ kept' = Append(kept, At) /\ phase = "start" /\ Answer(At.request) = "open"
  BY DEF KeepEntry, Walking, memory, hitl, history
<1>3. /\ next \in Nat /\ Len(entries) \in Nat /\ kept \in Seq(Entry) /\ Len(kept) \in Nat
      /\ entries \in Seq(Entry) /\ At \in Entry
  BY <1>1, LedgerTypes
<1>4. /\ \A j \in 1..Len(kept) : j \in 1..Len(kept') /\ kept'[j] = kept[j]
      /\ \A j \in 1..Len(kept') : j \notin 1..Len(kept) => j = Len(kept) + 1
      /\ Len(kept) + 1 \in 1..Len(kept') /\ kept'[Len(kept) + 1] = At
  BY <1>2, <1>3
<1>5. \A r : Answer(r)' = Answer(r)
  BY <1>2 DEF Answer
<1>6. Matched(kept)'
  <2>1. \A i \in 1..Len(kept) :
          /\ kept[i].request \in 1..Len(requests)
          /\ requests[kept[i].request].act = kept[i].act
          /\ \A j \in 1..Len(kept) : kept[i].request = kept[j].request => i = j
    BY DEF Ledger, Matched
  <2>2. \A i \in 1..Len(kept') :
          /\ kept'[i].request \in 1..Len(requests)
          /\ requests[kept'[i].request].act = kept'[i].act
    BY <1>1, <1>4, <2>1
  <2>3. \A i, j \in 1..Len(kept') : kept'[i].request = kept'[j].request => i = j
    BY <1>1, <1>4, <2>1
  <2> QED BY <1>2, <2>2, <2>3 DEF Matched
<1>7. KeptOpen'
  <2>1. \A j \in 1..Len(kept) :
          /\ \E i \in 1..Len(entries) : i < next /\ kept[j] = entries[i]
          /\ Answer(kept[j].request) = "open"
    BY DEF Ledger, KeptOpen
  <2>2. ASSUME NEW j \in 1..Len(kept')
        PROVE  /\ \E i \in 1..Len(entries) : i < next + 1 /\ kept'[j] = entries[i]
               /\ Answer(kept'[j].request) = "open"
    <3>1. CASE j \in 1..Len(kept)
      BY <1>3, <1>4, <2>1, <3>1
    <3>2. CASE j = Len(kept) + 1
      BY <1>1, <1>2, <1>3, <1>4, <3>2
    <3> QED BY <1>4, <3>1, <3>2
  <2>3. next + 1 <= Len(entries) + 1
    BY <1>1, <1>3
  <2> QED BY <1>2, <1>5, <2>2, <2>3 DEF KeptOpen
<1>8. (Matched(entries) /\ Loaded)'
  BY <1>2 DEF Ledger, Matched, Loaded
<1>9. Accounted'
  <2> SUFFICES ASSUME NEW r \in 1..Len(requests), requests[r].act # None
               PROVE  Ahead(r)' \/ Listed(r, kept)' \/ Settled(r)'
    BY <1>2 DEF Accounted
  <2>1. Ahead(r) \/ Listed(r, kept) \/ Settled(r)
    BY <1>2 DEF Ledger, Accounted
  <2>2. CASE Ahead(r)
    <3>1. PICK i \in next..Len(entries) : entries[i].request = r
      BY <2>2 DEF Ahead
    <3>2. CASE i = next
      BY <1>1, <1>4, <3>1, <3>2 DEF Listed
    <3>3. CASE i # next
      BY <1>2, <1>3, <3>1, <3>3 DEF Ahead
    <3> QED BY <3>2, <3>3
  <2>3. CASE Listed(r, kept)
    BY <1>4, <2>3 DEF Listed
  <2>4. CASE Settled(r)
    BY <1>2, <1>5, <2>4 DEF Settled
  <2> QED BY <2>1, <2>2, <2>3, <2>4
<1>10. Counted'
  <2>1. /\ \A i \in next..Len(entries) : carried[entries[i].request] <= cut
        /\ \A j \in 1..Len(kept) : carried[kept[j].request] <= cut
    BY <1>2 DEF Counted, Repeatable
  <2>2. \A j \in 1..Len(kept') : carried[kept'[j].request] <= cut
    BY <1>1, <1>4, <2>1
  <2>3. \A i \in (next + 1)..Len(entries) : carried[entries[i].request] <= cut
    BY <1>3, <2>1
  <2> QED BY <1>2, <2>2, <2>3 DEF Counted, Repeatable
<1> QED BY <1>2, <1>6, <1>7, <1>8, <1>9, <1>10 DEF Ledger, InLoop

\* The run ends in an error, on behalf of a follow-up or not.
LEMMA EndStep ==
  ASSUME Directives, NEW from \in Request \union {0}, Carrying(from), Leave("failed"),
         UNCHANGED <<entries, requests, known, cut>>
  PROVE  (Ledger /\ Counted)'
<1>1. Len(entries) \in Nat /\ carried \in [Request -> Nat] /\ cut \in Nat /\ Len(requests) \in Nat
  BY LedgerTypes DEF Directives
<1>2. (Matched(entries) /\ Matched(kept) /\ Loaded /\ KeptOpen)'
  BY <1>1 DEF Leave, Directives, Ledger, Matched, Loaded, KeptOpen
<1>3. \A r \in Request : carried'[r] <= cut + 1 /\ (r > Len(requests) => carried'[r] = 0)
  <2>1. CASE carried' = carried
    BY <2>1 DEF Directives, Counted
  <2>2. CASE Walking /\ carried' = [carried EXCEPT ![At.request] = @ + 1]
    BY <1>1, <2>2, EntryAtHand DEF Directives, Counted, Request
  <2> QED BY <2>1, <2>2 DEF Carrying
<1> QED
  BY <1>2, <1>3 DEF Leave, Ledger, Counted, Repeatable, InLoop, Accounted

\* An action adds its directive to the account.
LEMMA ActionStep ==
  ASSUME Directives, NEW a \in Action, NEW from \in Request \union {0}, Carrying(from),
         from # 0 => Answer(At.request) # "open",
         NEW to \in {"start", "loop"}, (from = 0) = (to = "loop"),
         from = 0 => entries = <<>> \/ phase = "effect",
         HandleRuntimePolicyAction(a, to, from)
  PROVE  (Ledger /\ Counted)'
<1>1. CASE Raise(a, retries, from)
  BY <1>1, RaiseStep
<1>2. CASE PolicyPause(from)
  BY <1>2, PolicyPauseStep
<1>3. CASE Fail \/ Denied
  BY <1>3, EndStep DEF Fail, Denied, memory, hitl
<1>4. CASE Goto(a, to, from) \/ Nothing(to, from)
  <2>1. UNCHANGED <<entries, requests, known, cut>> /\ Stay(to, from)
    BY <1>4 DEF Goto, Nothing, memory, hitl
  <2>2. CASE from = 0
    <3>1. Quiet
      BY <2>1, <2>2
         DEF Carrying, Walking, At, Stay, walk, Quiet, InLoop, Directives, IInv, TypeOK, Entry,
             Request
    <3> QED BY <3>1, QuietStep
  <2>3. CASE from # 0
    BY <2>1, <2>3, PassEntry DEF Carrying, Stay
  <2> QED BY <2>2, <2>3
<1> QED BY <1>1, <1>2, <1>3, <1>4 DEF HandleRuntimePolicyAction

\* The walk ends: what was kept is all that is listed.
LEMMA EnterLoopStep ==
  ASSUME Directives, EnterLoop
  PROVE  (Ledger /\ Counted)'
<1> USE DEF Directives
<1>1. /\ entries' = kept /\ UNCHANGED <<requests, known, carried, cut>>
      /\ phase = "start" /\ phase' = "loop" /\ next' = 1 /\ kept' = <<>>
      /\ next > Len(entries)
  BY DEF EnterLoop, Leave, hitl, history
<1>2. Len(kept) \in Nat /\ Len(entries) \in Nat /\ next \in Nat
  BY LedgerTypes
<1>3. (Matched(entries) /\ Matched(kept) /\ Loaded /\ KeptOpen)'
  BY <1>1, <1>2 DEF Ledger, Matched, Loaded, KeptOpen
<1>4. \A r : Answer(r)' = Answer(r)
  BY <1>1 DEF Answer
<1>5. Accounted'
  <2>1. \A r : ~Ahead(r)
    BY <1>1, <1>2 DEF Ahead
  <2>2. \A r : Listed(r, kept) => Ahead(r)'
    BY <1>1 DEF Listed, Ahead
  <2>3. \A r : Settled(r) => Settled(r)'
    BY <1>1, <1>4 DEF Settled
  <2> QED BY <1>1, <2>1, <2>2, <2>3 DEF Ledger, Accounted
<1>6. \A i \in 1..Len(kept) : Answer(kept[i].request) = "open"
  BY DEF Ledger, KeptOpen
<1>7. Counted'
  BY <1>1, <1>2 DEF Counted, Repeatable
<1> QED BY <1>1, <1>3, <1>4, <1>5, <1>6, <1>7 DEF Ledger

\* An operator answers what is open: run() has not loaded that.
LEMMA DecideStep ==
  ASSUME Directives, NEW r \in Request, NEW answer \in Answers, Decide(r, answer)
  PROVE  (Ledger /\ Counted)'
<1> USE DEF Directives
<1>1. /\ requests' = [requests EXCEPT ![r].answer = answer] /\ r \in 1..Len(requests)
      /\ requests[r].answer = "open" /\ answer # "open" /\ phase = "paused" /\ phase' = phase
      /\ UNCHANGED <<entries, next, kept, known, carried, cut, saved>>
  BY DEF Decide, memory, walk, history
<1>2. requests \in Seq(Record) /\ Len(requests) \in Nat
  BY LedgerTypes
<1>3. /\ Len(requests') = Len(requests)
      /\ \A s \in 1..Len(requests) : /\ requests'[s].act = requests[s].act
                                     /\ s # r => requests'[s] = requests[s]
  BY <1>1, <1>2 DEF Record
<1>4. r \notin known
  BY <1>1 DEF Ledger, Loaded
<1>5. \A s \in known : s \in 1..Len(requests) /\ requests'[s] = requests[s]
  BY <1>3, <1>4 DEF Ledger, Loaded
<1>6. \A s : Answer(s)' = Answer(s)
  <2>1. known' = known
    BY <1>1
  <2> QED BY <1>5, <2>1 DEF Answer
<1>7. (Matched(entries) /\ Matched(kept))'
  <2>1. \A s \in 1..Len(requests) : requests'[s].act = requests[s].act
    BY <1>3
  <2> QED BY <1>1, <1>3, <2>1 DEF Ledger, Matched
<1>8. Loaded'
  BY <1>1, <1>3, <1>5 DEF Ledger, Loaded
<1>9. KeptOpen'
  BY <1>1, <1>6 DEF Ledger, KeptOpen
<1>10. Accounted'
  <2> SUFFICES ASSUME NEW s \in 1..Len(requests), requests[s].act # None
               PROVE  Ahead(s)' \/ Listed(s, kept)' \/ Settled(s)'
    BY <1>3 DEF Accounted
  <2>1. Ahead(s) \/ Listed(s, kept) \/ Settled(s)
    BY <1>1 DEF Ledger, Accounted
  <2>2. requests'[s].act = requests[s].act
    BY <1>3
  <2> QED BY <1>1, <1>6, <2>1, <2>2 DEF Ahead, Listed, Settled
<1>11. Counted'
  BY <1>1, <1>3 DEF Counted, Repeatable
<1> QED BY <1>1, <1>7, <1>8, <1>9, <1>10, <1>11 DEF Ledger, InLoop

\* A resume gets back every entry of the pause, and learns of more answers.
LEMMA ResumeStep ==
  ASSUME Directives, Resume
  PROVE  (Ledger /\ Counted)'
<1> USE DEF Directives
<1>1. /\ entries' = entries /\ UNCHANGED <<requests, carried, cut>> /\ known' = Decided
      /\ phase = "paused" /\ phase' \in {"start", "failed"} /\ next' = 1 /\ kept' = <<>>
      /\ next = 1 /\ kept = <<>>
  BY LedgerTypes DEF Resume, Leave, Ledger, history
<1>2. Len(entries) \in Nat
  BY LedgerTypes
<1>3. (Matched(entries) /\ Matched(kept) /\ Loaded /\ KeptOpen)'
  BY <1>1, <1>2 DEF Ledger, Matched, Loaded, KeptOpen, Decided
<1>4. \A r \in known : r \in Decided /\ Answer(r)' = Answer(r)
  BY <1>1 DEF Ledger, Loaded, Decided, Answer
<1>5. Accounted'
  <2> SUFFICES ASSUME NEW r \in 1..Len(requests), requests[r].act # None
               PROVE  Ahead(r)' \/ Settled(r)'
    BY <1>1 DEF Accounted
  <2>1. Ahead(r) \/ Settled(r)
    BY <1>1 DEF Ledger, Accounted, Listed
  <2>2. CASE Ahead(r)
    BY <1>1, <2>2 DEF Ahead
  <2>3. CASE Settled(r)
    <3>1. r \in known
      BY <2>3 DEF Settled, Answer
    <3> QED BY <1>1, <1>4, <2>3, <3>1 DEF Settled
  <2> QED BY <2>1, <2>2, <2>3
<1>6. Counted'
  BY <1>1, <1>2 DEF Counted, Repeatable
<1> QED BY <1>1, <1>3, <1>5, <1>6 DEF Ledger, InLoop

\* The walk over the follow-ups.
LEMMA WalkCounts ==
  ASSUME Directives, KeepEntry \/ DropEntry \/ CarryOut \/ EnterLoop
  PROVE  (Ledger /\ Counted)'
<1>1. CASE KeepEntry
  BY <1>1, KeepStep
<1>2. CASE EnterLoop
  BY <1>2, EnterLoopStep
<1>3. CASE DropEntry
  <2>1. Walking /\ Answer(At.request) = "approve" /\ Detail[At.act].approve = None
    BY <1>3 DEF DropEntry
  <2>2. Answer(At.request) # "open" /\ FollowUp(At.act, Answer(At.request)) = None
    BY <2>1 DEF FollowUp
  <2>3. /\ UNCHANGED <<entries, requests, known, kept, cut, carried>> /\ next' = next + 1
        /\ phase' = "start"
    BY <1>3 DEF DropEntry, Walking, memory, hitl, history
  <2> QED BY <2>1, <2>2, <2>3, PassEntry
<1>4. CASE CarryOut
  <2>1. /\ Walking /\ Answer(At.request) # "open"
        /\ carried' = [carried EXCEPT ![At.request] = @ + 1]
    BY <1>4 DEF CarryOut
  <2>2. At.request \in Request /\ \A answer : FollowUp(At.act, answer) \in Action \union {None}
    BY <2>1, Parts, AtTypes DEF Directives
  <2>3. Carrying(At.request) /\ At.request # 0
    BY <2>1, <2>2 DEF Carrying, Request
  <2>4. CASE \E a \in Action : HandleRuntimePolicyAction(a, "start", At.request)
    BY <2>1, <2>2, <2>3, <2>4, ActionStep
  <2>5. CASE Fail
    BY <2>2, <2>3, <2>5, EndStep DEF Fail, memory, hitl
  <2> QED BY <1>4, <2>2, <2>4, <2>5 DEF CarryOut
<1> QED BY <1>1, <1>2, <1>3, <1>4

\* Policies at the start and after a node.
LEMMA PolicyCounts ==
  ASSUME Directives, NEW p \in Policy, StartPolicy(p) \/ ApplyPolicy(p)
  PROVE  (Ledger /\ Counted)'
<1>1. First[p] \in Action
  BY ActionAssumption
<1>2. /\ next = 1 /\ kept = <<>> /\ carried' = carried /\ phase \in {"start", "effect"}
      /\ entries = <<>> \/ phase = "effect"
  BY LedgerTypes DEF Directives, IInv, Fresh, StartPolicy, ApplyPolicy
<1>3. CASE Leave("replan") /\ UNCHANGED <<plan, done, memory, saved, hitl, counts, jumps, cut>>
  <2>1. Quiet
    BY <1>2, <1>3 DEF Leave, Quiet, InLoop, memory, hitl
  <2> QED BY <2>1, QuietStep
<1>4. CASE HandleRuntimePolicyAction(First[p], "loop", 0)
  <2>1. Carrying(0)
    BY <1>2 DEF Carrying
  <2> QED BY <1>1, <1>2, <1>4, <2>1, ActionStep
<1> QED BY <1>3, <1>4 DEF StartPolicy, ApplyPolicy

\* Nodes, and the end of the plan.
LEMMA NodeCounts ==
  ASSUME Directives,
         \/ PauseForHuman \/ Succeed \/ NodeError \/ CapabilityAsks
         \/ Retry \/ GiveUp \/ NoPolicy \/ AskApproval \/ Complete
  PROVE  (Ledger /\ Counted)'
<1>1. phase \in {"loop", "effect"} /\ InLoop
  BY DEF PauseForHuman, Succeed, NodeError, CapabilityAsks, Retry, GiveUp, NoPolicy, AskApproval,
         Complete, Running, FailsPostCondition, InLoop
<1>2. next = 1 /\ kept = <<>>
  BY <1>1, LedgerTypes DEF Directives
<1>3. CASE \E a \in Action \union {None}, tries \in {retries, Tries} :
             Raise(a, tries, 0) /\ carried' = carried
  <2>1. Carrying(0)
    BY <1>1, <1>2, <1>3 DEF Carrying
  <2> QED BY <1>3, <2>1, RaiseStep
<1>4. CASE Quiet
  BY <1>4, QuietStep
<1>5. CASE PauseForHuman \/ Succeed \/ NodeError \/ Retry \/ NoPolicy \/ Complete
  <2>1. UNCHANGED <<entries, next, kept, requests, known, carried, cut>>
    BY <1>5 DEF PauseForHuman, Succeed, NodeError, Retry, NoPolicy, Complete, memory, walk, hitl,
                history
  <2>2. phase' = "paused" => saved'.entries = entries
    BY <1>1, <1>5 DEF PauseForHuman, Succeed, NodeError, Retry, NoPolicy, Complete, Save
  <2> QED BY <1>1, <2>1, <2>2, QuietStep DEF Quiet
<1>6. CASE CapabilityAsks \/ AskApproval
  <2>1. CASE Raise(None, retries, 0)
    BY <1>3, <1>6, <2>1 DEF CapabilityAsks, AskApproval
  <2>2. CASE Denied
    <3>1. carried' = carried
      BY <1>6 DEF CapabilityAsks, AskApproval
    <3> QED BY <1>1, <1>2, <1>4, <2>2, <3>1 DEF Denied, Leave, Quiet, InLoop, memory, hitl
  <2> QED BY <1>6, <2>1, <2>2 DEF CapabilityAsks, AskApproval
<1>7. CASE GiveUp
  <2>1. CASE \E p \in Policy : Raise(First[p], Tries, 0)
    BY <1>3, <1>7, <2>1, ActionAssumption DEF GiveUp
  <2>2. CASE (\E to \in {"replan", "failed"} : Leave(to)) /\ UNCHANGED <<entries, hitl, cut>>
    <3>1. carried' = carried
      BY <1>7 DEF GiveUp
    <3> QED BY <1>1, <1>2, <1>4, <2>2, <3>1 DEF Leave, Quiet, InLoop, hitl
  <2> QED BY <1>7, <2>1, <2>2 DEF GiveUp, PostConditionPolicies
<1> QED BY <1>5, <1>6, <1>7

\* The operator and the coordinator.
LEMMA CoordinatorCounts ==
  ASSUME Directives, Coordinate
  PROVE  (Ledger /\ Counted)'
<1>1. CASE \E r \in Request, answer \in Answers : Decide(r, answer)
  BY <1>1, DecideStep
<1>2. CASE Resume
  BY <1>2, ResumeStep
<1>3. CASE Replan \/ ReplanFails
  <2>1. /\ UNCHANGED <<entries, next, kept, requests, known, carried, cut>>
        /\ phase = "replan" /\ phase' \in {"start", "failed"}
    BY <1>3 DEF Replan, ReplanFails, memory, walk, hitl, history
  <2> QED BY <2>1, QuietStep DEF Quiet, InLoop
<1> QED BY <1>1, <1>2, <1>3 DEF Coordinate

LEMMA NextDirectives == Directives /\ [Next]_vars => Directives'
<1> SUFFICES ASSUME Directives, [Next]_vars PROVE (Ledger /\ Counted)'
  BY NextIInv DEF Directives
<1>1. CASE UNCHANGED vars
  BY <1>1, QuietStep DEF vars, memory, walk, hitl, history, Quiet, InLoop, Directives, Ledger
<1>2. CASE Execute
  BY <1>2, WalkCounts, PolicyCounts, NodeCounts DEF Execute
<1>3. CASE Coordinate
  BY <1>3, CoordinatorCounts
<1> QED BY <1>1, <1>2, <1>3 DEF Next

LEMMA DirectivesInvariant == Spec => []Directives
BY InitDirectives, NextDirectives, PTL DEF Spec

\* Whatever pauses, resumes and replans come between a question and its answer, while
\* nodes run no HITL action of a policy is lost: its entry waits, or its follow-up was
\* carried out or is none.
THEOREM NoDirectiveIsForgotten == Spec => []NoDirectiveForgotten
<1>1. ASSUME Directives, phase \in {"loop", "effect", "replan", "completed"},
             NEW r \in 1..Len(requests), requests[r].act # None
      PROVE  IF Answer(r) = "open" THEN Listed(r, entries)
             ELSE carried[r] > 0 \/ FollowUp(requests[r].act, Answer(r)) = None
  <2>1. next = 1 /\ kept = <<>> /\ InLoop /\ phase # "failed"
    BY <1>1, LedgerTypes DEF Directives, InLoop
  <2>2. Ahead(r) \/ Settled(r)
    BY <1>1, <2>1 DEF Directives, Ledger, Accounted, Listed
  <2>3. Ahead(r) => Listed(r, entries) /\ Answer(r) = "open"
    BY <1>1, <2>1 DEF Directives, Ledger, Ahead, Listed
  <2> QED BY <2>2, <2>3 DEF Settled
<1>2. Directives => NoDirectiveForgotten
  BY <1>1 DEF NoDirectiveForgotten
<1> QED BY <1>2, DirectivesInvariant, PTL

\* A follow-up is carried out once, and once more at most for every follow-up that
\* paused the run before the shortened list was stored.
THEOREM RepeatsAreOnlyInterruptions == Spec => []RepeatsAreInterruptions
<1>1. Directives => RepeatsAreInterruptions
  <2> SUFFICES ASSUME Directives, NEW r \in Request PROVE carried[r] <= 1 + cut
    BY DEF RepeatsAreInterruptions
  <2>1. carried[r] \in Nat /\ cut \in Nat
    BY LedgerTypes DEF Directives
  <2> QED BY <2>1 DEF Directives, Counted
<1> QED BY <1>1, DirectivesInvariant, PTL
=============================================================================
