--------------------------- MODULE PlanExecution ---------------------------
(* FlexExecutionEngine.execute driving its PlanScheduler over one run: the   *)
(* main loop, routing nodes, goto resets, the pauses that write a snapshot,  *)
(* the resume that rebuilds plan and scheduler from it, and replanning.      *)
(*                                                                           *)
(* One execute() call runs in one asynchronous function, so the steps below  *)
(* are the stretches between its decisions; run status and concurrent        *)
(* requests are the business of FlexRun.                                     *)
EXTENDS PlanScheduler

CONSTANTS
  Node,        \* node ids a planner may use
  None,        \* no node
  Plans,       \* the plans the planner may emit
  MaxGotos,    \* maxAttempts of the runtime policy's goto action
  MaxResumes,  \* exploration bound: resumes of one run
  MaxReplans   \* exploration bound: replans of one run

PlanType ==
  [nodes : SUBSET Node, rank : [Node -> Nat], edges : SUBSET (Node \X Node),
   kind : [Node -> NodeKinds], fallback : SUBSET Node, named : SUBSET Node]

\* Positions in plan.nodes are distinct.
IsPlan(p) ==
  /\ p \in PlanType
  /\ \A m, n \in p.nodes : p.rank[m] = p.rank[n] => m = n

ASSUME NoneAssumption == None \notin Node
ASSUME PlansAssumption == \A p \in Plans : IsPlan(p)
ASSUME BoundsAssumption ==
  /\ MaxGotos \in Nat
  /\ MaxResumes \in Nat
  /\ MaxReplans \in Nat

VARIABLES
  planned,   \* the plan as the planner last emitted it
  plan,      \* the plan the engine holds
  phase,     \* where execute() is, or how it ended
  done,      \* completedNodeIds
  locks,     \* conditionalLocks
  ready,     \* readyQueue
  selected,  \* routingResult.selectedTarget in nodeOutputs, None if there is none
  current,   \* the node execute() last took from the scheduler
  gotos,     \* policyAttempts of the goto policy
  resumes,   \* resumes so far
  replans    \* replans so far

scheduler == <<done, locks, ready>>
vars == <<planned, plan, phase, scheduler, selected, current, gotos, resumes, replans>>

Working == {"start", "loop", "node", "effect"}
Outcomes == {"paused", "replan", "completed", "failed", "deadlocked"}
Phases == Working \union Outcomes

TypeOK ==
  /\ IsPlan(planned)
  /\ IsPlan(plan)
  /\ phase \in Phases
  /\ done \subseteq plan.nodes
  /\ locks \subseteq plan.nodes \X plan.nodes
  /\ ready \subseteq plan.nodes
  /\ selected \in [Node -> Node \union {None}]
  /\ current \in plan.nodes \union {None}
  /\ gotos \in 0..MaxGotos
  /\ resumes \in 0..MaxResumes
  /\ replans \in 0..MaxReplans

-----------------------------------------------------------------------------
(* What a plan is after savePlanSnapshot and rehydratePlan. A stored node    *)
(* has neither its kind nor its routing configuration: the kind is guessed   *)
(* from the planner stage, and a missing capability id becomes 'unknown'.    *)

RehydratedKind(p, n) ==
  CASE p.kind[n] \in RoutingKinds -> IF n \in p.named THEN "routeless" ELSE "broken"
    [] p.kind[n] = "virtual"      -> "broken"
    [] OTHER                      -> p.kind[n]

Rehydrate(p) == [p EXCEPT !.kind = [n \in Node |-> RehydratedKind(p, n)]]

\* The start of an execute() call on plan p with the given initial state.
Load(p, completed, sel) ==
  /\ plan' = p
  /\ done' = PruneCompleted(p, completed)
  /\ locks' = FreshLocks(p, PruneCompleted(p, completed), sel)
  /\ ready' = RefreshAll(p, PruneCompleted(p, completed),
                         FreshLocks(p, PruneCompleted(p, completed), sel))
  /\ selected' = sel
  /\ current' = None
  /\ phase' = "start"

NoSelection == [n \in Node |-> None]

Init ==
  /\ planned \in Plans
  /\ plan = planned
  /\ phase = "start"
  /\ done = {}
  /\ locks = FreshLocks(plan, {}, NoSelection)
  /\ ready = RefreshAll(plan, {}, FreshLocks(plan, {}, NoSelection))
  /\ selected = NoSelection
  /\ current = None
  /\ gotos = 0 /\ resumes = 0 /\ replans = 0

-----------------------------------------------------------------------------
(* The main loop.                                                            *)

\* The startup policy has no effect and the loop is entered.
Begin ==
  /\ phase = "start"
  /\ phase' = "loop"
  /\ ready' = RefreshAll(plan, done, locks)
  /\ UNCHANGED <<planned, plan, done, locks, selected, current, gotos, resumes, replans>>

Dispatch ==
  /\ phase = "loop"
  /\ HasRemainingWork(plan, done)
  /\ \E n \in ready :
       /\ IsNext(plan, done, ready, n)
       /\ current' = n
       /\ ready' = AfterNext(plan, ready, n)
  /\ phase' = "node"
  /\ UNCHANGED <<planned, plan, done, locks, selected, gotos, resumes, replans>>

\* Work remains and next() returned null.
Deadlock ==
  /\ phase = "loop"
  /\ HasRemainingWork(plan, done)
  /\ Live(done, ready) = {}
  /\ phase' = "deadlocked"
  /\ UNCHANGED <<planned, plan, scheduler, selected, current, gotos, resumes, replans>>

RunVirtual ==
  /\ phase = "node"
  /\ plan.kind[current] = "virtual"
  /\ done' = done \union {current}
  /\ ready' = MarkCompletedReady(plan, done, locks, ready, current)
  /\ phase' = "loop"
  /\ UNCHANGED <<planned, plan, locks, selected, current, gotos, resumes, replans>>

\* A capability returned an output its post-conditions accept.
RunCapability ==
  /\ phase = "node"
  /\ plan.kind[current] = "capability"
  /\ done' = done \union {current}
  /\ ready' = MarkCompletedReady(plan, done, locks, ready, current)
  /\ selected' = [selected EXCEPT ![current] = None]
  /\ phase' = "effect"
  /\ UNCHANGED <<planned, plan, locks, current, gotos, resumes, replans>>

\* A route matched, or none did and elseTo names t.
RouteTo(t) ==
  /\ phase = "node"
  /\ plan.kind[current] = "routing"
  /\ t \in Outgoing(plan, current)
  /\ done' = done \union {current}
  /\ selected' = [selected EXCEPT ![current] = t]
  /\ locks' = ReleaseLocks(plan, locks, current, t)
  /\ ready' = ReleaseReady(plan, done', locks,
                MarkCompletedReady(plan, done, locks, ready, current), current, t)
  /\ phase' = "loop"
  /\ UNCHANGED <<planned, plan, current, gotos, resumes, replans>>

\* No route matched and there is no elseTo: the node counts as completed, its
\* stored result selects nothing, and a replan is requested.
RouteNowhere ==
  /\ phase = "node"
  /\ plan.kind[current] = "routing"
  /\ current \notin plan.fallback
  /\ done' = done \union {current}
  /\ selected' = [selected EXCEPT ![current] = None]
  /\ ready' = MarkCompletedReady(plan, done, locks, ready, current)
  /\ phase' = "replan"
  /\ UNCHANGED <<planned, plan, locks, current, gotos, resumes, replans>>

\* The capability throws or is not registered, a routing node has no routes, or
\* the policy step after a capability throws an error of its own.
FailNode ==
  /\ phase \in {"node", "effect"}
  /\ plan.kind[current] \in {"capability", "routeless", "broken"}
  /\ done' = done \ {current}
  /\ \/ phase = "node" /\ selected' = selected  \* before the node's try block
     \/ plan.kind[current] = "capability" /\ selected' = [selected EXCEPT ![current] = None]
  /\ phase' = "failed"
  /\ UNCHANGED <<planned, plan, locks, ready, current, gotos, resumes, replans>>

-----------------------------------------------------------------------------
(* Runtime policies: at startup, and after a capability completed.           *)

\* A startup policy acts on the node next in the queue; a follow-up of an earlier
\* HITL decision acts on the node it was stored with.
PolicyPoint ==
  \/ phase = "effect"
  \/ phase = "start" /\ (ready # {} \/ resumes > 0)

NoEffect ==
  /\ phase = "effect"
  /\ phase' = "loop"
  /\ UNCHANGED <<planned, plan, scheduler, selected, current, gotos, resumes, replans>>

\* Mutant: the attempts of the goto policy are not counted.
Goto_Uncounted(n) ==
  /\ PolicyPoint
  /\ n \in plan.nodes
  /\ gotos < MaxGotos
  /\ LET A == Affected(plan, n) IN
       /\ done' = done \ A
       /\ locks' = ResetLocks(plan, locks, A)
       /\ ready' = RefreshAll(plan, done', locks')
       /\ selected' = [m \in Node |-> IF m \in A THEN None ELSE selected[m]]
  /\ \/ phase' = "loop"
     \/ phase = "start" /\ resumes > 0 /\ phase' = "start"
  /\ current' = None
  /\ UNCHANGED <<planned, plan, gotos, resumes, replans>>

\* goto n: everything reachable from n is to be run again, its outputs dropped.
\* After a follow-up of a HITL decision more follow-ups and the startup policy come.
Goto(n) ==
  /\ PolicyPoint
  /\ n \in plan.nodes
  /\ gotos < MaxGotos
  /\ gotos' = gotos + 1
  /\ LET A == Affected(plan, n) IN
       /\ done' = done \ A
       /\ locks' = ResetLocks(plan, locks, A)
       /\ ready' = RefreshAll(plan, done', locks')
       /\ selected' = [m \in Node |-> IF m \in A THEN None ELSE selected[m]]
  /\ \/ phase' = "loop"
     \/ phase = "start" /\ resumes > 0 /\ phase' = "start"
  /\ current' = None
  /\ UNCHANGED <<planned, plan, resumes, replans>>

FailByPolicy ==
  /\ PolicyPoint
  /\ phase' = "failed"
  /\ UNCHANGED <<planned, plan, scheduler, selected, current, gotos, resumes, replans>>

\* A startup or completion policy, or exhausted post-condition retries.
RequestReplan ==
  /\ \/ phase \in {"start", "effect"}
     \/ phase = "node" /\ plan.kind[current] = "capability"
  /\ phase' = "replan"
  /\ UNCHANGED <<planned, plan, scheduler, selected, current, gotos, resumes, replans>>

-----------------------------------------------------------------------------
(* The end of the loop.                                                      *)

Complete ==
  /\ phase = "loop"
  /\ ~HasRemainingWork(plan, done)
  /\ phase' = "completed"
  /\ UNCHANGED <<planned, plan, scheduler, selected, current, gotos, resumes, replans>>

\* The final output does not satisfy the goal conditions.
MissGoal ==
  /\ phase = "loop"
  /\ ~HasRemainingWork(plan, done)
  /\ phase' = "replan"
  /\ UNCHANGED <<planned, plan, scheduler, selected, current, gotos, resumes, replans>>

\* The final output violates its contract, or HITL approval is refused.
RejectOutput ==
  /\ phase = "loop"
  /\ ~HasRemainingWork(plan, done)
  /\ phase' = "failed"
  /\ UNCHANGED <<planned, plan, scheduler, selected, current, gotos, resumes, replans>>

-----------------------------------------------------------------------------
(* Pauses, each of which saves completedNodeIds and nodeOutputs; what was    *)
(* saved is what done and selected hold until the resume.                    *)

Pause ==
  /\ phase' = "paused"
  /\ UNCHANGED <<planned, plan, scheduler, selected, current, gotos, resumes, replans>>

PauseForHuman == phase = "node" /\ plan.kind[current] = "human" /\ Pause

\* A HITL request raised by the capability, or by failed post-conditions.
PauseInCapability == phase = "node" /\ plan.kind[current] = "capability" /\ Pause

PauseByPolicy == PolicyPoint /\ Pause

PauseForApproval == phase = "loop" /\ ~HasRemainingWork(plan, done) /\ Pause

WaitsForHuman ==
  /\ phase = "paused"
  /\ current # None
  /\ current \notin done
  /\ plan.kind[current] = "human"

\* The coordinator runs execute() again on what the snapshot gives back.
Resume ==
  /\ phase = "paused"
  /\ ~WaitsForHuman
  /\ resumes < MaxResumes
  /\ resumes' = resumes + 1
  /\ Load(Rehydrate(plan), done, selected)
  /\ UNCHANGED <<planned, gotos, replans>>

\* The submission becomes the output of the human node.
Submit ==
  /\ WaitsForHuman
  /\ resumes < MaxResumes
  /\ resumes' = resumes + 1
  /\ Load(Rehydrate(plan), done \union {current}, [selected EXCEPT ![current] = None])
  /\ UNCHANGED <<planned, gotos, replans>>

Decline ==
  /\ WaitsForHuman
  /\ phase' = "failed"
  /\ UNCHANGED <<planned, plan, scheduler, selected, current, gotos, resumes, replans>>

-----------------------------------------------------------------------------
(* The coordinator obtained a new plan. Node ids name capability and         *)
(* position, so they recur: completed ids and outputs the new plan also has  *)
(* are kept.                                                                 *)
Replan(p) ==
  /\ phase = "replan"
  /\ replans < MaxReplans
  /\ replans' = replans + 1
  /\ planned' = p
  /\ Load(p, done, [n \in Node |-> IF n \in p.nodes THEN selected[n] ELSE None])
  /\ UNCHANGED <<gotos, resumes>>

\* The planner rejects its drafts, or the goal-condition replan limit is reached.
ReplanFails ==
  /\ phase = "replan"
  /\ phase' = "failed"
  /\ UNCHANGED <<planned, plan, scheduler, selected, current, gotos, resumes, replans>>

-----------------------------------------------------------------------------
\* One step of a running execute() call.
Execute ==
  \/ Begin \/ Dispatch \/ Deadlock
  \/ RunVirtual \/ RunCapability \/ RouteNowhere \/ FailNode
  \/ \E t \in Node : RouteTo(t)
  \/ NoEffect \/ FailByPolicy \/ RequestReplan
  \/ \E n \in Node : Goto(n)
  \/ Complete \/ MissGoal \/ RejectOutput
  \/ PauseForHuman \/ PauseInCapability \/ PauseByPolicy \/ PauseForApproval

Coordinate ==
  \/ Resume \/ Submit \/ Decline \/ ReplanFails
  \/ \E p \in Plans : Replan(p)

Next == Execute \/ Coordinate

Spec == Init /\ [][Next]_vars

\* The engine's function keeps running until it returns or throws.
FairSpec == Spec /\ WF_vars(Execute)

-----------------------------------------------------------------------------
(* Properties.                                                               *)

\* The ready queue, which the scheduler maintains incrementally, is exactly the
\* set of nodes that could run: no completion, release, reset, resume or replan
\* queues a node early or forgets one (enqueueIfReady is only called for the
\* nodes each method believes it may have enabled).
FrontierExact ==
  /\ phase \in {"start", "loop", "effect"} => ready = RunnableSet(plan, done, locks)
  /\ phase = "node" =>
       /\ Runnable(plan, done, locks, current)
       /\ ready = RunnableSet(plan, done, locks) \ {current}

\* The locks held in memory are the ones a scheduler rebuilt from completed ids
\* and stored routing results would hold, through routing, goto, pause, resume
\* and replan (markConditionalRelease and requeueNodes against
\* applyRoutingSelections).
LocksMatchSelections == locks = FreshLocks(plan, done, selected)

\* A node runs only if every routing node leading to it has completed and
\* selected it, on the plan the engine holds.
UnselectedNeverRuns ==
  phase = "node" =>
    \A r \in plan.nodes :
      <<r, current>> \in ConditionalEdges(plan) => r \in done /\ selected[r] = current

\* Until the first replan, what is completed is closed under dependencies, also
\* after goto reset part of the graph: no node keeps an output computed from a
\* predecessor that is to be run again (resetFromNode).
DoneIsClosed ==
  replans = 0 => \A n \in done : Incoming(plan, n) \subseteq done

\* Every edge leads forward in plan order, so that the graph is acyclic.
Forward(p) == \A e \in GraphEdges(p) : p.rank[e[1]] < p.rank[e[2]]

\* "Plan graph deadlocked" is only ever raised for a plan with a backward edge or
\* because a routing node holds back an incomplete node.
DeadlockExplained ==
  phase = "deadlocked" =>
    ~Forward(plan) \/ (\E e \in locks : e[2] \notin done)

\* A resume loses no work: whatever could run when the run paused is queued again
\* by the rebuilt scheduler, except the human node just submitted.
ResumeKeepsFrontier ==
  [][phase = "paused" /\ phase' = "start" =>
       RunnableSet(plan, done, locks) \ done' \subseteq ready']_vars

\* Every execute() call returns or throws, whatever goto policies do.
ExecuteSettles == phase \in Working ~> phase \in Outcomes

-----------------------------------------------------------------------------
(* Documented, and not what the code does.                                   *)

\* "selects the first matching edge's to node ID, and schedules that downstream
\* node": taking a route does not stop a run whose graph is acyclic.
ForwardPlansNeverDeadlock == phase = "deadlocked" => ~Forward(plan)
=============================================================================
