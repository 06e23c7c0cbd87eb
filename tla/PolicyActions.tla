--------------------------- MODULE PolicyActions ---------------------------
(* Runtime policies of one run: what FlexExecutionEngine does with the       *)
(* actions of policies and failed post-conditions (handleRuntimePolicyAction,*)
(* handleGotoAction, triggerHitlPause, triggerPolicyPause), the bookkeeping  *)
(* that survives pauses (policyActions, policyAttempts,                      *)
(* postConditionAttempts) and the follow-ups of HITL decisions               *)
(* (processPendingPolicyActions) when the coordinator resumes.               *)
(*                                                                           *)
(* The plan is a chain of nodes; graphs are the business of PlanExecution,   *)
(* and who may answer or resume a run that of HitlRequests and FlexRun.      *)
EXTENDS Naturals, FiniteSets, Sequences

CONSTANTS
  Length,       \* nodes of the plan
  Policy,       \* runtime policies, by id
  Action,       \* their actions and the actions nested in these
  None,         \* no action
  Trigger,      \* [Policy -> [on, node, if]]: when a policy acts
  First,        \* [Policy -> Action]: policy.action
  Detail,       \* [Action -> [type, to, max, approve, reject]]
  Owner,        \* [Action -> Policy]: the policy an action is part of
  Allowed,      \* [Policy -> Nat]: the largest maxAttempts among its gotos
  MaxRetries,   \* maxRetries of the post-condition policy
  HitlLimit,    \* HITL requests a run may raise
  MaxResumes,   \* exploration bound: resumes of the run
  MaxReplans    \* exploration bound: replans of the run

Node == 1..Length
Types == {"goto", "hitl", "pause", "fail", "emit", "replan"}
Request == 1..HitlLimit

ASSUME TriggerAssumption ==
  Trigger \in [Policy -> [on : {"complete", "start", "postCondition"},
                          node : Node, if : BOOLEAN]]
ASSUME ActionAssumption ==
  /\ None \notin Action
  /\ First \in [Policy -> Action]
  /\ Owner \in [Action -> Policy]
  /\ Detail \in [Action -> [type : Types, to : Node, max : Nat,
                            approve : Action \union {None}, reject : Action \union {None}]]
  /\ \A p \in Policy : Owner[First[p]] = p
  /\ \A a \in Action :
       /\ Detail[a].approve # None => Owner[Detail[a].approve] = Owner[a]
       /\ Detail[a].reject # None => Owner[Detail[a].reject] = Owner[a]
ASSUME AllowedAssumption ==
  /\ Allowed \in [Policy -> Nat]
  /\ \A a \in Action : Detail[a].type = "goto" => Detail[a].max <= Allowed[Owner[a]]
ASSUME BoundsAssumption ==
  /\ Length \in Nat \ {0} /\ MaxRetries \in Nat /\ HitlLimit \in Nat
  /\ MaxResumes \in Nat /\ MaxReplans \in Nat

VARIABLES
  approval,   \* requiresHitlApproval of the run's envelope
  human,      \* the human nodes of the plan the engine holds
  phase,      \* where execute() is, or how it ended
  done,       \* the completed nodes are 1..done
  startup,    \* pendingStartupEffect is set
  entries,    \* policyActions: HITL actions whose follow-up is to come
  next,       \* position in policyActions of the follow-up to look at
  kept,       \* remaining, the entries this call found undecided
  attempts,   \* policyAttempts
  retries,    \* postConditionAttempts
  saved,      \* pendingState of the last snapshot
  requests,   \* the HITL requests of the run, with what raised them
  known,      \* the requests whose answer run() loaded
  resumes, replans,
  jumps,      \* history: the gotos each policy made
  carried,    \* history: how often each request's follow-up was carried out
  cut         \* history: follow-ups that paused the run again

plan == <<approval, human>>
memory == <<entries, attempts, retries>>
walk == <<next, kept>>
hitl == <<requests, known>>
counts == <<resumes, replans>>
history == <<jumps, carried, cut>>
vars == <<plan, phase, done, startup, memory, walk, saved, hitl, counts, history>>

Working == {"start", "loop", "effect"}
Phases == Working \union {"paused", "replan", "completed", "failed"}
Zero(S) == [x \in S |-> 0]

\* A pending action, and a request with the entry or the follow-up behind it.
Entry == [act : Action, request : Request]
Answers == {"open", "approve", "reject", "refuse"}
Record == [act : Action \union {None}, from : Request \union {0}, answer : Answers]
Memory == [entries : Seq(Entry), attempts : [Policy -> Nat], retries : [Node -> Nat],
           human : BOOLEAN]

TypeOK ==
  /\ approval \in BOOLEAN /\ human \subseteq Node
  /\ phase \in Phases /\ done \in 0..Length /\ startup \in BOOLEAN
  /\ entries \in Seq(Entry) /\ kept \in Seq(Entry) /\ next \in Nat \ {0}
  /\ attempts \in [Policy -> Nat] /\ retries \in [Node -> Nat]
  /\ saved \in Memory
  /\ requests \in Seq(Record) /\ Len(requests) <= HitlLimit /\ known \subseteq Request
  /\ resumes \in 0..MaxResumes /\ replans \in 0..MaxReplans
  /\ jumps \in [Policy -> Nat] /\ carried \in [Request -> Nat] /\ cut \in Nat
  \* Only the walk over the follow-ups of a starting execute() has a position.
  /\ phase # "start" => next = 1 /\ kept = <<>>

Init ==
  /\ approval \in BOOLEAN /\ human \in SUBSET Node
  /\ phase = "start" /\ done = 0
  /\ startup = (\E p \in Policy : Trigger[p].on = "start")
  /\ entries = <<>> /\ next = 1 /\ kept = <<>>
  /\ attempts = Zero(Policy) /\ retries = Zero(Node)
  /\ saved = [entries |-> <<>>, attempts |-> Zero(Policy), retries |-> Zero(Node),
              human |-> FALSE]
  /\ requests = <<>> /\ known = {}
  /\ resumes = 0 /\ replans = 0
  /\ jumps = Zero(Policy) /\ carried = Zero(Request) /\ cut = 0

-----------------------------------------------------------------------------
(* What an action does. "from" is the request whose follow-up it is, 0 when  *)
(* a policy or a failed post-condition triggers it; "then" is the phase in   *)
(* which execute() goes on if the action leaves it running.                  *)

Leave(to) == phase' = to /\ next' = 1 /\ kept' = <<>>

Stay(to, from) ==
  /\ phase' = to
  /\ IF from = 0 THEN UNCHANGED walk ELSE next' = next + 1 /\ UNCHANGED kept

\* Mutant: the snapshot of a pause leaves out how often policies were tried.
Save_NoAttempts(es, tries, forHuman) ==
  saved' = [entries |-> es, attempts |-> Zero(Policy),
            retries |-> IF forHuman THEN Zero(Node) ELSE tries, human |-> forHuman]

\* Mutant: no pause stores the post-condition retries.
Save_NoRetries(es, tries, forHuman) ==
  saved' = [entries |-> es, attempts |-> attempts, retries |-> Zero(Node),
            human |-> forHuman]

\* savePlanSnapshot of a pause or a replan. pauseForHuman passes no postConditionAttempts.
Save(es, tries, forHuman) ==
  saved' = [entries |-> es, attempts |-> attempts,
            retries |-> IF forHuman THEN Zero(Node) ELSE tries, human |-> forHuman]

Interrupt(from) == cut' = IF from = 0 THEN cut ELSE cut + 1

\* Mutant: the limit is not looked at.
Raise_Unlimited(a, tries, from) ==
  /\ requests' = Append(requests, [act |-> a, from |-> from, answer |-> "open"])
  /\ entries' = IF a = None THEN entries
                ELSE Append(entries, [act |-> a, request |-> Len(requests) + 1])
  /\ Save(entries', tries, FALSE)
  /\ Leave("paused") /\ Interrupt(from)
  /\ retries' = tries
  /\ UNCHANGED <<attempts, known, jumps>>

\* The request is raised and the entry completed with its id before all of
\* policyActions, consumed entries included, is stored.
Raise(a, tries, from) ==
  /\ Len(requests) < HitlLimit
  /\ requests' = Append(requests, [act |-> a, from |-> from, answer |-> "open"])
  /\ entries' = IF a = None THEN entries
                ELSE Append(entries, [act |-> a, request |-> Len(requests) + 1])
  /\ Save(entries', tries, FALSE)
  /\ Leave("paused") /\ Interrupt(from)
  /\ retries' = tries
  /\ UNCHANGED <<attempts, known, jumps>>

\* raiseRequest denies a request beyond the limit, which is an error.
Denied ==
  /\ Len(requests) = HitlLimit
  /\ Leave("failed")
  /\ UNCHANGED <<memory, saved, hitl, jumps, cut>>

\* attempts, the one at hand included, is not above maxAttempts.
Jumps(a) == attempts[Owner[a]] < Detail[a].max

\* Skipped attempts count too.
Goto(a, then, from) ==
  /\ attempts' = [attempts EXCEPT ![Owner[a]] = @ + 1]
  /\ IF Jumps(a)
     THEN /\ done' = IF Detail[a].to <= done THEN Detail[a].to - 1 ELSE done
          /\ jumps' = [jumps EXCEPT ![Owner[a]] = @ + 1]
     ELSE UNCHANGED <<done, jumps>>
  /\ Stay(then, from)
  /\ UNCHANGED <<entries, retries, saved, hitl, cut>>

\* emit, and a replan that is not a policy's own action: an unhandled type.
Nothing(then, from) ==
  /\ Stay(then, from)
  /\ UNCHANGED <<memory, done, saved, hitl, jumps, cut>>

PolicyPause(from) ==
  /\ UNCHANGED <<memory, done, hitl, jumps>>
  /\ Save(entries, retries, FALSE)
  /\ Leave("paused") /\ Interrupt(from)

Fail == Leave("failed") /\ UNCHANGED <<memory, done, saved, hitl, jumps, cut>>

HandleRuntimePolicyAction(a, then, from) ==
  /\ \/ Detail[a].type = "goto" /\ Goto(a, then, from)
     \/ Detail[a].type \in {"emit", "replan"} /\ Nothing(then, from)
     \/ Detail[a].type = "pause" /\ PolicyPause(from)
     \/ Detail[a].type = "fail" /\ Fail
     \/ Detail[a].type = "hitl" /\ UNCHANGED done
        /\ (Raise(a, retries, from) \/ Denied)
  /\ UNCHANGED <<plan, counts>>

-----------------------------------------------------------------------------
(* The start of execute(): follow-ups of decided HITL actions, in order.     *)

Walking == phase = "start" /\ next <= Len(entries)
At == entries[next]
Answer(r) == IF r \in known THEN requests[r].answer ELSE "open"

\* The action a decision leads to; a rejection without one fails the run.
FollowUp(a, answer) ==
  IF answer = "approve" THEN Detail[a].approve ELSE Detail[a].reject

KeepEntry ==
  /\ Walking
  /\ Answer(At.request) = "open"
  /\ kept' = Append(kept, At) /\ next' = next + 1
  /\ UNCHANGED <<plan, phase, done, startup, memory, saved, hitl, counts, history>>

\* Approved, and no approveAction: the run just goes on.
DropEntry ==
  /\ Walking
  /\ Answer(At.request) = "approve" /\ Detail[At.act].approve = None
  /\ next' = next + 1
  /\ UNCHANGED <<plan, phase, done, startup, memory, kept, saved, hitl, counts, history>>

CarryOut ==
  /\ Walking
  /\ Answer(At.request) # "open"
  /\ LET a == FollowUp(At.act, Answer(At.request)) IN
       \/ a # None /\ HandleRuntimePolicyAction(a, "start", At.request)
       \/ a = None /\ Answer(At.request) # "approve" /\ Fail /\ UNCHANGED <<plan, counts>>
  /\ carried' = [carried EXCEPT ![At.request] = @ + 1]
  /\ UNCHANGED startup

\* Mutant: the entries are not replaced by the ones that remain.
EnterLoop_KeepsAll ==
  /\ phase = "start" /\ next > Len(entries) /\ ~startup
  /\ Leave("loop")
  /\ UNCHANGED <<plan, done, startup, memory, saved, hitl, counts, history>>

\* policyActions.splice with what remains; there is no startup policy.
EnterLoop ==
  /\ phase = "start" /\ next > Len(entries) /\ ~startup
  /\ entries' = kept
  /\ Leave("loop")
  /\ UNCHANGED <<plan, done, startup, attempts, retries, saved, hitl, counts, history>>

\* evaluateRunStartEffect: only the first execute() of a new run has one.
StartPolicy(p) ==
  /\ phase = "start" /\ startup
  /\ Trigger[p].on = "start"
  /\ startup' = FALSE
  /\ IF Detail[First[p]].type = "replan"
     THEN Leave("replan") /\ UNCHANGED <<plan, done, memory, saved, hitl, counts, jumps, cut>>
     ELSE HandleRuntimePolicyAction(First[p], "loop", 0)
  /\ UNCHANGED carried

-----------------------------------------------------------------------------
(* The loop.                                                                 *)

Running == phase = "loop" /\ done < Length
Current == done + 1

PauseForHuman ==
  /\ Running /\ Current \in human
  /\ UNCHANGED <<plan, done, startup, memory, walk, hitl, counts, history>>
  /\ Save(entries, retries, TRUE)
  /\ phase' = "paused"

\* The capability's output satisfies its post-conditions, if it has any.
Succeed ==
  /\ Running /\ Current \notin human
  /\ done' = Current
  /\ retries' = [retries EXCEPT ![Current] = 0]
  /\ phase' = "effect"
  /\ UNCHANGED <<plan, startup, entries, attempts, walk, saved, hitl, counts, history>>

\* The capability throws.
NodeError ==
  /\ Running /\ Current \notin human
  /\ phase' = "failed"
  /\ UNCHANGED <<plan, done, startup, memory, walk, saved, hitl, counts, history>>

\* The capability asks a question of its own.
CapabilityAsks ==
  /\ Running /\ Current \notin human
  /\ Raise(None, retries, 0)
  /\ UNCHANGED <<plan, done, startup, counts, carried>>

\* resolvePostConditionPolicy does not look at policy.enabled.
PostConditionPolicies(n) ==
  {p \in Policy : Trigger[p].on = "postCondition" /\ Trigger[p].node = n}

FailsPostCondition == Running /\ Current \notin human
Tries == [retries EXCEPT ![Current] = @ + 1]
Exhausted == retries[Current] >= MaxRetries

Retry ==
  /\ FailsPostCondition /\ ~Exhausted
  /\ retries' = Tries
  /\ UNCHANGED <<plan, phase, done, startup, entries, attempts, walk, saved, hitl, counts,
                 history>>

\* A hitl policy asks, a replan policy leaves for a new plan, any other fails the
\* run, and without a policy post_condition_default does.
GiveUp ==
  /\ FailsPostCondition /\ Exhausted
  /\ \/ \E p \in PostConditionPolicies(Current) :
          Detail[First[p]].type = "hitl" /\ Raise(First[p], Tries, 0)
     \/ /\ retries' = Tries
        /\ \E to \in {"replan", "failed"} :
             /\ IF to = "replan"
                THEN \E p \in PostConditionPolicies(Current) : Detail[First[p]].type = "replan"
                ELSE \/ PostConditionPolicies(Current) = {}
                     \/ \E p \in PostConditionPolicies(Current) :
                          \/ Detail[First[p]].type = "hitl" /\ Len(requests) = HitlLimit
                          \/ Detail[First[p]].type \notin {"hitl", "replan"}
             /\ Leave(to)
        /\ UNCHANGED <<entries, attempts, saved, hitl, jumps, cut>>
  /\ UNCHANGED <<plan, done, startup, counts, carried>>

\* evaluateRuntimeEffect: the enabled policies of the node that completed.
Candidates == {p \in Policy : Trigger[p].on = "complete" /\ Trigger[p].node = done}

ApplyPolicy(p) ==
  /\ phase = "effect"
  /\ p \in Candidates
  /\ IF Detail[First[p]].type = "replan"
     THEN Leave("replan") /\ UNCHANGED <<plan, done, memory, saved, hitl, counts, jumps, cut>>
     ELSE HandleRuntimePolicyAction(First[p], "loop", 0)
  /\ UNCHANGED <<startup, carried>>

\* No policy has a condition that holds.
NoPolicy ==
  /\ phase = "effect"
  /\ \A p \in Candidates : Trigger[p].if
  /\ phase' = "loop"
  /\ UNCHANGED <<plan, done, startup, memory, walk, saved, hitl, counts, history>>

\* requiresHitlApproval asks whenever execute() gets to its end.
AskApproval ==
  /\ phase = "loop" /\ done = Length /\ approval
  /\ Raise(None, retries, 0) \/ Denied
  /\ UNCHANGED <<plan, done, startup, counts, carried>>

Complete ==
  /\ phase = "loop" /\ done = Length /\ ~approval
  /\ phase' = "completed"
  /\ UNCHANGED <<plan, done, startup, memory, walk, saved, hitl, counts, history>>

-----------------------------------------------------------------------------
(* The operator and the coordinator.                                         *)

\* "reject" stands for a rejection whose response asks to go on.
Decide(r, answer) ==
  /\ phase = "paused"
  /\ r \in 1..Len(requests) /\ requests[r].answer = "open"
  /\ answer # "open"
  /\ requests' = [requests EXCEPT ![r].answer = answer]
  /\ UNCHANGED <<plan, phase, done, startup, memory, walk, saved, known, counts, history>>

Decided == {r \in 1..Len(requests) : requests[r].answer # "open"}

\* run() with a resume: the snapshot gives back what the pause stored. Its human
\* node is completed by the submission. A rejection that does not ask to go on
\* ends the run before the engine sees it (checkResolvedHitlOutcome).
Resume ==
  /\ phase = "paused" /\ resumes < MaxResumes
  /\ resumes' = resumes + 1
  /\ known' = Decided
  /\ entries' = saved.entries /\ attempts' = saved.attempts /\ retries' = saved.retries
  /\ done' = IF saved.human THEN Current ELSE done
  /\ startup' = FALSE
  /\ Leave(IF \E r \in Decided : requests[r].answer = "refuse" THEN "failed" ELSE "start")
  /\ UNCHANGED <<plan, saved, requests, replans, history>>

\* Mutant: the state a replan hands over has no policyActions.
Replan_NoEntries ==
  /\ phase = "replan" /\ replans < MaxReplans
  /\ replans' = replans + 1
  /\ human' \in SUBSET Node /\ done' \in 0..done
  /\ entries' = <<>>
  /\ Save(entries', retries, FALSE)
  /\ phase' = "start"
  /\ UNCHANGED <<approval, startup, attempts, retries, walk, hitl, resumes, history>>

\* A new plan, stored with the state that the error carries, which also goes into
\* the next execute(). It may have other nodes before those it keeps.
Replan ==
  /\ phase = "replan" /\ replans < MaxReplans
  /\ replans' = replans + 1
  /\ human' \in SUBSET Node /\ done' \in 0..done
  /\ Save(entries, retries, FALSE)
  /\ phase' = "start"
  /\ UNCHANGED <<approval, startup, memory, walk, hitl, resumes, history>>

\* The planner rejects its drafts.
ReplanFails ==
  /\ phase = "replan"
  /\ phase' = "failed"
  /\ UNCHANGED <<plan, done, startup, memory, walk, saved, hitl, counts, history>>

-----------------------------------------------------------------------------
Execute ==
  \/ KeepEntry \/ DropEntry \/ CarryOut \/ EnterLoop
  \/ \E p \in Policy : StartPolicy(p) \/ ApplyPolicy(p)
  \/ PauseForHuman \/ Succeed \/ NodeError \/ CapabilityAsks
  \/ Retry \/ GiveUp \/ NoPolicy
  \/ AskApproval \/ Complete

Coordinate ==
  \/ \E r \in Request, answer \in Answers : Decide(r, answer)
  \/ Resume \/ Replan \/ ReplanFails

Next == Execute \/ Coordinate

Spec == Init /\ [][Next]_vars

-----------------------------------------------------------------------------
(* Properties.                                                               *)

\* A policy jumps back at most maxAttempts times in the whole run, over pauses,
\* resumes and replans, and when a consumed follow-up is carried out again.
GotoBounded == \A p \in Policy : jumps[p] <= Allowed[p]

Listed(r, es) == \E i \in 1..Len(es) : es[i].request = r

\* While nodes run, every HITL action of a policy is accounted for, whatever pauses
\* and replans came between question and answer: the answers run() loaded have had
\* their effect, and the open ones are still waited for.
NoDirectiveForgotten ==
  phase \in {"loop", "effect", "replan", "completed"} =>
    \A r \in 1..Len(requests) :
      requests[r].act # None =>
        IF Answer(r) = "open" THEN Listed(r, entries)
        ELSE carried[r] > 0 \/ FollowUp(requests[r].act, Answer(r)) = None

\* A follow-up is carried out again only because a follow-up paused the run before
\* the shortened policyActions was stored.
RepeatsAreInterruptions == \A r \in Request : carried[r] <= 1 + cut

\* The retries spent on a node are forgotten when it completes or by the pause for a
\* human, and by no other pause, resume or replan.
RetriesKept ==
  [][\A n \in Node : retries'[n] < retries[n] =>
       done' >= n \/ (phase = "paused" /\ saved.human)]_vars

-----------------------------------------------------------------------------
(* Documented, and not what the code does.                                   *)

\* "persists a postConditionAttempts map inside every pending-state blob".
RetriesSurvivePauses ==
  [][phase = "paused" /\ phase' = "start" =>
       \A n \in Node : n > done' => retries'[n] = retries[n]]_vars
=============================================================================
