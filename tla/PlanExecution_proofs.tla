------------------------ MODULE PlanExecution_proofs ------------------------
(* Safety of the execution loop for every set of plans and every bound.      *)
EXTENDS PlanExecution, PlanScheduler_proofs, WellFoundedInduction

-----------------------------------------------------------------------------
(* Plans.                                                                    *)

LEMMA PlanFacts ==
  ASSUME NEW p, IsPlan(p)
  PROVE  /\ p.nodes \subseteq Node
         /\ \A n \in p.nodes : p.rank[n] \in Nat
         /\ \A k, m \in p.nodes : p.rank[k] = p.rank[m] => k = m
         /\ \A n \in p.nodes : p.kind[n] \in NodeKinds
         /\ ConditionalEdges(p) \subseteq p.nodes \X p.nodes
BY GraphEdgesType DEF IsPlan, PlanType, ConditionalEdges

(* A snapshot changes what a plan's nodes are, never the plan's graph.       *)
LEMMA RehydrateFacts ==
  ASSUME NEW p, IsPlan(p)
  PROVE  /\ IsPlan(Rehydrate(p))
         /\ Rehydrate(p).nodes = p.nodes
         /\ GraphEdges(Rehydrate(p)) = GraphEdges(p)
         /\ \A n : Incoming(Rehydrate(p), n) = Incoming(p, n)
<1> DEFINE q == Rehydrate(p)
<1>1. p \in PlanType
  BY DEF IsPlan
<1>2. \A n \in Node : RehydratedKind(p, n) \in NodeKinds
  BY <1>1 DEF RehydratedKind, PlanType, NodeKinds, RoutingKinds
<1>3. /\ q \in PlanType
      /\ q.nodes = p.nodes
      /\ q.rank = p.rank
      /\ q.edges = p.edges
  BY <1>1, <1>2 DEF Rehydrate, PlanType
<1> HIDE DEF q
<1>4. IsPlan(q)
  BY <1>3 DEF IsPlan
<1>5. GraphEdges(q) = GraphEdges(p)
  BY <1>3 DEF GraphEdges, SequentialEdges
<1>6. \A n : Incoming(q, n) = Incoming(p, n)
  BY <1>3, <1>5 DEF Incoming
<1> QED BY <1>3, <1>4, <1>5, <1>6 DEF q

-----------------------------------------------------------------------------
(* The inductive invariant: types, the exactness of queue and locks, and     *)
(* what the node last taken from the scheduler may be in each phase.         *)

CurrentFits ==
  /\ phase = "start" => current = None
  /\ phase = "node" => current \in plan.nodes
  /\ phase = "effect" => /\ current \in done
                         /\ plan.kind[current] = "capability"

Inv == TypeOK /\ LocksMatchSelections /\ FrontierExact /\ CurrentFits

\* A loaded plan has its locks and its frontier.
LEMMA LoadEstablishes ==
  ASSUME NEW p, NEW completed, NEW sel,
         IsPlan(p), sel \in [Node -> Node \union {None}],
         Load(p, completed, sel)
  PROVE  /\ IsPlan(plan')
         /\ phase' = "start" /\ current' = None
         /\ done' \subseteq plan'.nodes
         /\ locks' \subseteq plan'.nodes \X plan'.nodes
         /\ ready' \subseteq plan'.nodes
         /\ selected' \in [Node -> Node \union {None}]
         /\ LocksMatchSelections'
         /\ FrontierExact'
         /\ CurrentFits'
<1>1. /\ plan' = p
      /\ done' = PruneCompleted(p, completed)
      /\ locks' = FreshLocks(p, done', sel)
      /\ ready' = RunnableSet(p, done', locks')
      /\ selected' = sel
      /\ current' = None
      /\ phase' = "start"
  BY DEF Load, RefreshAll
<1>2. done' \subseteq p.nodes
  BY <1>1 DEF PruneCompleted
<1>3. locks' \subseteq p.nodes \X p.nodes
  BY <1>1, PlanFacts DEF FreshLocks
<1>4. ready' \subseteq p.nodes
  BY <1>1 DEF RunnableSet
<1>5. LocksMatchSelections'
  BY <1>1 DEF LocksMatchSelections
<1>6. FrontierExact'
  BY <1>1 DEF FrontierExact
<1>7. CurrentFits'
  BY <1>1 DEF CurrentFits
<1> QED BY <1>1, <1>2, <1>3, <1>4, <1>5, <1>6, <1>7

LEMMA NoSelectionType == NoSelection \in [Node -> Node \union {None}]
BY DEF NoSelection

LEMMA InitInv == Init => Inv
<1> SUFFICES ASSUME Init PROVE Inv
  OBVIOUS
<1>1. IsPlan(planned) /\ plan = planned
  BY PlansAssumption DEF Init
<1>2. /\ locks = FreshLocks(plan, done, selected)
      /\ ready = RunnableSet(plan, done, locks)
      /\ done = {}
  BY DEF Init, RefreshAll
<1>3. locks \subseteq plan.nodes \X plan.nodes /\ ready \subseteq plan.nodes
  BY <1>1, <1>2, PlanFacts DEF FreshLocks, RunnableSet
<1>4. TypeOK
  BY <1>1, <1>2, <1>3, NoSelectionType, BoundsAssumption
     DEF Init, TypeOK, Phases, Working, Outcomes
<1>5. LocksMatchSelections
  BY <1>2 DEF LocksMatchSelections
<1>6. FrontierExact
  BY <1>2 DEF Init, FrontierExact
<1>7. CurrentFits
  BY DEF Init, CurrentFits
<1> QED BY <1>4, <1>5, <1>6, <1>7 DEF Inv

(* A step that leaves plan, scheduler and selections alone and ends the call *)
(* keeps the invariant, whatever the outcome.                                *)
LEMMA OutcomeStep ==
  ASSUME Inv, phase' \in Outcomes, resumes' = resumes,
         UNCHANGED <<planned, plan, scheduler, selected, current, gotos, replans>>
  PROVE  Inv'
<1>1. TypeOK'
  BY DEF Inv, TypeOK, Phases, Outcomes, scheduler
<1>2. LocksMatchSelections'
  BY DEF Inv, LocksMatchSelections, scheduler
<1>3. FrontierExact' /\ CurrentFits'
  BY DEF FrontierExact, CurrentFits, Outcomes
<1> QED BY <1>1, <1>2, <1>3 DEF Inv

LEMMA BeginInv == Inv /\ Begin => Inv'
<1> SUFFICES ASSUME Inv, Begin PROVE Inv'
  OBVIOUS
<1>1. ready' = RunnableSet(plan, done, locks)
  BY DEF Begin, RefreshAll
<1>2. TypeOK'
  BY <1>1 DEF Begin, Inv, TypeOK, Phases, Working, RunnableSet
<1>3. LocksMatchSelections' /\ FrontierExact' /\ CurrentFits'
  BY <1>1 DEF Begin, Inv, LocksMatchSelections, FrontierExact, CurrentFits
<1> QED BY <1>2, <1>3 DEF Inv

LEMMA DispatchInv == Inv /\ Dispatch => Inv'
<1> SUFFICES ASSUME Inv, Dispatch PROVE Inv'
  OBVIOUS
<1>1. PICK n \in ready : /\ IsNext(plan, done, ready, n)
                         /\ current' = n
                         /\ ready' = AfterNext(plan, ready, n)
  BY DEF Dispatch
<1>2. IsPlan(plan) /\ ready = RunnableSet(plan, done, locks)
  BY DEF Dispatch, Inv, TypeOK, FrontierExact
<1>3. /\ Runnable(plan, done, locks, n)
      /\ ready' = RunnableSet(plan, done, locks) \ {n}
  BY <1>1, <1>2, PlanFacts, NextExact
<1>4. n \in plan.nodes /\ ready' \subseteq plan.nodes
  BY <1>3 DEF Runnable, RunnableSet
<1>5. TypeOK'
  BY <1>1, <1>4 DEF Dispatch, Inv, TypeOK, Phases, Working
<1>6. LocksMatchSelections'
  BY DEF Dispatch, Inv, LocksMatchSelections
<1>7. FrontierExact' /\ CurrentFits'
  BY <1>1, <1>3, <1>4 DEF Dispatch, FrontierExact, CurrentFits
<1> QED BY <1>5, <1>6, <1>7 DEF Inv

(* In phase "node" the dispatched node is runnable, incomplete, and its      *)
(* completion leaves the queue exact.                                        *)
LEMMA InFlight ==
  ASSUME Inv, phase = "node"
  PROVE  /\ IsPlan(plan)
         /\ current \in plan.nodes \ done
         /\ Runnable(plan, done, locks, current)
         /\ MarkCompletedReady(plan, done, locks, ready, current)
              = RunnableSet(plan, done \union {current}, locks)
<1>1. /\ Runnable(plan, done, locks, current)
      /\ ready = RunnableSet(plan, done, locks) \ {current}
  BY DEF Inv, FrontierExact
<1>2. current \in plan.nodes \ done
  BY <1>1 DEF Runnable
<1> QED BY <1>1, <1>2, MarkCompletedExact DEF Inv, TypeOK

(* The locks depend on what is completed and selected at routing nodes only. *)
LEMMA LocksOfRouters ==
  ASSUME NEW p, NEW done1, NEW done2, NEW sel1, NEW sel2,
         \A r \in p.nodes : p.kind[r] \in RoutingKinds =>
            (r \in done1 <=> r \in done2) /\ sel1[r] = sel2[r]
  PROVE  FreshLocks(p, done1, sel1) = FreshLocks(p, done2, sel2)
<1>1. \A e \in ConditionalEdges(p) : e[1] \in p.nodes /\ p.kind[e[1]] \in RoutingKinds
  BY GraphEdgesType DEF ConditionalEdges
<1> QED BY <1>1 DEF FreshLocks

LEMMA RunVirtualInv == Inv /\ RunVirtual => Inv'
<1> SUFFICES ASSUME Inv, RunVirtual PROVE Inv'
  OBVIOUS
<1>1. /\ IsPlan(plan)
      /\ current \in plan.nodes
      /\ ready' = RunnableSet(plan, done', locks)
  BY InFlight DEF RunVirtual
<1>2. TypeOK'
  BY <1>1 DEF RunVirtual, Inv, TypeOK, Phases, Working, RunnableSet
<1>3. FreshLocks(plan, done', selected) = FreshLocks(plan, done, selected)
  <2>1. plan.kind[current] \notin RoutingKinds
    BY DEF RunVirtual, RoutingKinds
  <2>2. \A r \in plan.nodes : plan.kind[r] \in RoutingKinds => (r \in done' <=> r \in done)
    BY <2>1 DEF RunVirtual
  <2> QED BY <2>2, LocksOfRouters
<1>4. LocksMatchSelections'
  BY <1>3 DEF RunVirtual, Inv, LocksMatchSelections
<1>5. FrontierExact' /\ CurrentFits'
  BY <1>1 DEF RunVirtual, FrontierExact, CurrentFits
<1> QED BY <1>2, <1>4, <1>5 DEF Inv

LEMMA RunCapabilityInv == Inv /\ RunCapability => Inv'
<1> SUFFICES ASSUME Inv, RunCapability PROVE Inv'
  OBVIOUS
<1>1. /\ IsPlan(plan)
      /\ current \in plan.nodes
      /\ ready' = RunnableSet(plan, done', locks)
  BY InFlight DEF RunCapability
<1>2. current \in Node /\ selected' \in [Node -> Node \union {None}]
  BY <1>1, PlanFacts DEF RunCapability, Inv, TypeOK
<1>3. TypeOK'
  BY <1>1, <1>2 DEF RunCapability, Inv, TypeOK, Phases, Working, RunnableSet
<1>4. FreshLocks(plan, done', selected') = FreshLocks(plan, done, selected)
  <2>1. plan.kind[current] \notin RoutingKinds
    BY DEF RunCapability, RoutingKinds
  <2>2. \A r \in plan.nodes : plan.kind[r] \in RoutingKinds =>
          (r \in done' <=> r \in done) /\ selected'[r] = selected[r]
    BY <1>2, <2>1 DEF RunCapability, Inv, TypeOK
  <2> QED BY <2>2, LocksOfRouters
<1>5. LocksMatchSelections'
  BY <1>4 DEF RunCapability, Inv, LocksMatchSelections
<1>6. FrontierExact' /\ CurrentFits'
  BY <1>1 DEF RunCapability, FrontierExact, CurrentFits
<1> QED BY <1>3, <1>5, <1>6 DEF Inv

LEMMA RouteToInv == ASSUME NEW t PROVE Inv /\ RouteTo(t) => Inv'
<1> SUFFICES ASSUME Inv, RouteTo(t) PROVE Inv'
  OBVIOUS
<1>1. /\ IsPlan(plan)
      /\ current \in plan.nodes \ done
      /\ MarkCompletedReady(plan, done, locks, ready, current)
           = RunnableSet(plan, done', locks)
  BY InFlight DEF RouteTo
<1>2. <<current, t>> \in ConditionalEdges(plan)
  BY <1>1 DEF RouteTo, Outgoing, ConditionalEdges, RoutingKinds
<1>3. t \in plan.nodes /\ locks' = locks \ {<<current, t>>}
  BY <1>1, <1>2, PlanFacts DEF RouteTo, ReleaseLocks
<1>4. ready' = RunnableSet(plan, done', locks')
  BY <1>1, <1>2, ReleaseExact DEF RouteTo
<1>5. /\ selected' \in [Node -> Node \union {None}]
      /\ \A r \in plan.nodes : selected'[r] = IF r = current THEN t ELSE selected[r]
  BY <1>1, <1>3, PlanFacts DEF RouteTo, Inv, TypeOK
<1>6. TypeOK'
  BY <1>1, <1>3, <1>4, <1>5 DEF RouteTo, Inv, TypeOK, Phases, Working, RunnableSet
<1>7. locks' = FreshLocks(plan, done', selected')
  <2>1. locks = FreshLocks(plan, done, selected)
    BY DEF Inv, LocksMatchSelections
  <2>2. \A e \in ConditionalEdges(plan) : e = <<e[1], e[2]>> /\ e[1] \in plan.nodes
    BY <1>1, PlanFacts
  <2>3. done' = done \union {current}
    BY DEF RouteTo
  <2> QED BY <1>1, <1>3, <1>5, <2>1, <2>2, <2>3 DEF FreshLocks
<1>8. LocksMatchSelections'
  BY <1>7 DEF RouteTo, LocksMatchSelections
<1>9. FrontierExact' /\ CurrentFits'
  BY <1>4 DEF RouteTo, FrontierExact, CurrentFits
<1> QED BY <1>6, <1>8, <1>9 DEF Inv

LEMMA RouteNowhereInv == Inv /\ RouteNowhere => Inv'
<1> SUFFICES ASSUME Inv, RouteNowhere PROVE Inv'
  OBVIOUS
<1>1. /\ IsPlan(plan)
      /\ current \in plan.nodes \ done
      /\ ready' = RunnableSet(plan, done', locks)
  BY InFlight DEF RouteNowhere
<1>2. /\ selected' \in [Node -> Node \union {None}]
      /\ \A r \in plan.nodes : selected'[r] = IF r = current THEN None ELSE selected[r]
  BY <1>1, PlanFacts DEF RouteNowhere, Inv, TypeOK
<1>3. TypeOK'
  BY <1>1, <1>2 DEF RouteNowhere, Inv, TypeOK, Phases, Outcomes, RunnableSet
<1>4. FreshLocks(plan, done', selected') = FreshLocks(plan, done, selected)
  <2>1. \A e \in ConditionalEdges(plan) : e[1] \in plan.nodes /\ e[2] \in Node
    BY <1>1, PlanFacts
  <2>2. done' = done \union {current}
    BY DEF RouteNowhere
  <2> QED BY <1>1, <1>2, <2>1, <2>2, NoneAssumption DEF FreshLocks
<1>5. LocksMatchSelections'
  BY <1>4 DEF RouteNowhere, Inv, LocksMatchSelections
<1>6. FrontierExact' /\ CurrentFits'
  BY DEF RouteNowhere, FrontierExact, CurrentFits
<1> QED BY <1>3, <1>5, <1>6 DEF Inv

LEMMA FailNodeInv == Inv /\ FailNode => Inv'
<1> SUFFICES ASSUME Inv, FailNode PROVE Inv'
  OBVIOUS
<1>1. selected' \in [Node -> Node \union {None}]
  BY DEF FailNode, Inv, TypeOK
<1>2. TypeOK'
  BY <1>1 DEF FailNode, Inv, TypeOK, Phases, Outcomes
<1>3. \A r \in plan.nodes : plan.kind[r] \in RoutingKinds => (r \in done' <=> r \in done)
  <2>1. CASE phase = "node"
    BY <2>1, InFlight DEF FailNode
  <2>2. CASE phase = "effect"
    BY <2>2 DEF FailNode, Inv, CurrentFits, RoutingKinds
  <2> QED BY <2>1, <2>2 DEF FailNode
<1>4. \A r \in plan.nodes : plan.kind[r] \in RoutingKinds => selected'[r] = selected[r]
  <2>1. plan.nodes \subseteq Node
    BY PlanFacts DEF Inv, TypeOK
  <2> QED BY <2>1 DEF FailNode, Inv, TypeOK, RoutingKinds
<1>5. FreshLocks(plan, done', selected') = FreshLocks(plan, done, selected)
  BY <1>3, <1>4, LocksOfRouters
<1>6. LocksMatchSelections'
  BY <1>5 DEF FailNode, Inv, LocksMatchSelections
<1>7. FrontierExact' /\ CurrentFits'
  BY DEF FailNode, FrontierExact, CurrentFits
<1> QED BY <1>2, <1>6, <1>7 DEF Inv

LEMMA NoEffectInv == Inv /\ NoEffect => Inv'
<1> SUFFICES ASSUME Inv, NoEffect PROVE Inv'
  OBVIOUS
<1>1. TypeOK'
  BY DEF NoEffect, Inv, TypeOK, Phases, Working, scheduler
<1>2. LocksMatchSelections' /\ FrontierExact' /\ CurrentFits'
  BY DEF NoEffect, Inv, LocksMatchSelections, FrontierExact, CurrentFits, scheduler
<1> QED BY <1>1, <1>2 DEF Inv

LEMMA GotoInv == ASSUME NEW n PROVE Inv /\ Goto(n) => Inv'
<1> SUFFICES ASSUME Inv, Goto(n) PROVE Inv'
  OBVIOUS
<1> DEFINE A == Affected(plan, n)
<1>1. IsPlan(plan)
  BY DEF Inv, TypeOK
<1>2. /\ done' = done \ A
      /\ locks' = locks \union {e \in ConditionalEdges(plan) : e[1] \in A}
      /\ ready' = RunnableSet(plan, done', locks')
      /\ selected' = [m \in Node |-> IF m \in A THEN None ELSE selected[m]]
      /\ phase' \in {"loop", "start"}
      /\ UNCHANGED <<planned, plan, resumes, replans>>
      /\ current' = None
      /\ gotos' = gotos + 1 /\ gotos < MaxGotos
  BY DEF Goto, ResetLocks, RefreshAll
<1> HIDE DEF A
<1>3. gotos' \in 0..MaxGotos
  BY <1>2, BoundsAssumption DEF Inv, TypeOK
<1>4. locks' \subseteq plan.nodes \X plan.nodes /\ ready' \subseteq plan.nodes
  BY <1>1, <1>2, PlanFacts DEF Inv, TypeOK, RunnableSet
<1>5. selected' \in [Node -> Node \union {None}]
  BY <1>2 DEF Inv, TypeOK
<1>6. TypeOK'
  BY <1>2, <1>3, <1>4, <1>5 DEF Inv, TypeOK, Phases, Working
<1>7. locks' = FreshLocks(plan, done', selected')
  <2>1. locks = FreshLocks(plan, done, selected)
    BY DEF Inv, LocksMatchSelections
  <2>2. \A e \in ConditionalEdges(plan) : e[1] \in Node
    BY <1>1, PlanFacts
  <2> QED BY <1>2, <2>1, <2>2 DEF FreshLocks
<1>8. LocksMatchSelections'
  BY <1>2, <1>7 DEF LocksMatchSelections
<1>9. FrontierExact' /\ CurrentFits'
  BY <1>2 DEF FrontierExact, CurrentFits
<1> QED BY <1>6, <1>8, <1>9 DEF Inv

-----------------------------------------------------------------------------
(* Steps of the coordinator.                                                 *)

LEMMA ResumeInv == Inv /\ Resume => Inv'
<1> SUFFICES ASSUME Inv, Resume PROVE Inv'
  OBVIOUS
<1>1. IsPlan(Rehydrate(plan)) /\ selected \in [Node -> Node \union {None}]
  BY RehydrateFacts DEF Inv, TypeOK
<1>2. resumes' \in 0..MaxResumes
  BY BoundsAssumption DEF Resume, Inv, TypeOK
<1>3. Load(Rehydrate(plan), done, selected)
  BY DEF Resume
<1>4. TypeOK'
  BY <1>1, <1>2, <1>3, LoadEstablishes
     DEF Resume, Inv, TypeOK, Phases, Working
<1>5. LocksMatchSelections' /\ FrontierExact' /\ CurrentFits'
  BY <1>1, <1>3, LoadEstablishes
<1> QED BY <1>4, <1>5 DEF Inv

LEMMA SubmitInv == Inv /\ Submit => Inv'
<1> SUFFICES ASSUME Inv, Submit PROVE Inv'
  OBVIOUS
<1> DEFINE sel == [selected EXCEPT ![current] = None]
<1>1. IsPlan(Rehydrate(plan)) /\ sel \in [Node -> Node \union {None}]
  BY RehydrateFacts DEF Inv, TypeOK
<1>2. resumes' \in 0..MaxResumes
  BY BoundsAssumption DEF Submit, Inv, TypeOK
<1>3. Load(Rehydrate(plan), done \union {current}, sel)
  BY DEF Submit
<1> HIDE DEF sel
<1>4. TypeOK'
  BY <1>1, <1>2, <1>3, LoadEstablishes
     DEF Submit, Inv, TypeOK, Phases, Working
<1>5. LocksMatchSelections' /\ FrontierExact' /\ CurrentFits'
  BY <1>1, <1>3, LoadEstablishes
<1> QED BY <1>4, <1>5 DEF Inv

LEMMA ReplanInv == ASSUME NEW p \in Plans PROVE Inv /\ Replan(p) => Inv'
<1> SUFFICES ASSUME Inv, Replan(p) PROVE Inv'
  OBVIOUS
<1> DEFINE sel == [n \in Node |-> IF n \in p.nodes THEN selected[n] ELSE None]
<1>1. IsPlan(p) /\ sel \in [Node -> Node \union {None}]
  BY PlansAssumption DEF Inv, TypeOK
<1>2. replans' \in 0..MaxReplans
  BY BoundsAssumption DEF Replan, Inv, TypeOK
<1>3. Load(p, done, sel)
  BY DEF Replan
<1> HIDE DEF sel
<1>4. TypeOK'
  BY <1>1, <1>2, <1>3, LoadEstablishes
     DEF Replan, Inv, TypeOK, Phases, Working
<1>5. LocksMatchSelections' /\ FrontierExact' /\ CurrentFits'
  BY <1>1, <1>3, LoadEstablishes
<1> QED BY <1>4, <1>5 DEF Inv

-----------------------------------------------------------------------------
LEMMA StutterInv == Inv /\ UNCHANGED vars => Inv'
<1> SUFFICES ASSUME Inv, UNCHANGED vars PROVE Inv'
  OBVIOUS
<1>1. TypeOK'
  BY DEF Inv, TypeOK, vars, scheduler
<1>2. LocksMatchSelections' /\ FrontierExact' /\ CurrentFits'
  BY DEF Inv, LocksMatchSelections, FrontierExact, CurrentFits, vars, scheduler
<1> QED BY <1>1, <1>2 DEF Inv

LEMMA NextInv == Inv /\ [Next]_vars => Inv'
<1> SUFFICES ASSUME Inv, [Next]_vars PROVE Inv'
  OBVIOUS
<1>1. CASE Begin \/ Dispatch \/ RunVirtual \/ RunCapability \/ RouteNowhere \/ FailNode
  BY <1>1, BeginInv, DispatchInv, RunVirtualInv, RunCapabilityInv, RouteNowhereInv,
     FailNodeInv
<1>2. CASE \E t \in Node : RouteTo(t)
  BY <1>2, RouteToInv
<1>3. CASE NoEffect \/ \E n \in Node : Goto(n)
  BY <1>3, NoEffectInv, GotoInv
<1>4. CASE Deadlock \/ FailByPolicy \/ RequestReplan \/ Complete \/ MissGoal \/ RejectOutput
  BY <1>4, OutcomeStep
     DEF Deadlock, FailByPolicy, RequestReplan, Complete, MissGoal,
         RejectOutput, Outcomes
<1>5. CASE PauseForHuman \/ PauseInCapability \/ PauseByPolicy \/ PauseForApproval
  BY <1>5, OutcomeStep
     DEF PauseForHuman, PauseInCapability, PauseByPolicy, PauseForApproval, Pause, Outcomes
<1>6. CASE Decline \/ ReplanFails
  BY <1>6, OutcomeStep DEF Decline, ReplanFails, Outcomes
<1>7. CASE Resume \/ Submit \/ \E p \in Plans : Replan(p)
  BY <1>7, ResumeInv, SubmitInv, ReplanInv
<1>8. CASE UNCHANGED vars
  BY <1>8, StutterInv
<1> QED BY <1>1, <1>2, <1>3, <1>4, <1>5, <1>6, <1>7, <1>8
           DEF Next, Execute, Coordinate

LEMMA InvAlways == Spec => []Inv
<1>1. Inv /\ [Next]_vars => Inv'
  BY NextInv
<1> QED BY <1>1, InitInv, PTL DEF Spec

-----------------------------------------------------------------------------
(* Types: every variable keeps its range through completions, routing, goto, *)
(* snapshots and replans; in particular nothing the scheduler or the engine  *)
(* holds ever names a node the current plan does not have.                   *)
THEOREM TypeCorrect == Spec => []TypeOK
<1>1. Inv => TypeOK
  BY DEF Inv
<1> QED BY <1>1, InvAlways, PTL

(* The incrementally maintained ready queue is exactly the set of nodes that *)
(* could run, in every reachable state of every run of every set of plans.   *)
THEOREM FrontierIsExact == Spec => []FrontierExact
<1>1. Inv => FrontierExact
  BY DEF Inv
<1> QED BY <1>1, InvAlways, PTL

(* The locks in memory are those a scheduler rebuilt from completed ids and  *)
(* stored routing results would hold.                                        *)
THEOREM LocksAreRebuildable == Spec => []LocksMatchSelections
<1>1. Inv => LocksMatchSelections
  BY DEF Inv
<1> QED BY <1>1, InvAlways, PTL

(* No node behind a routing node of the plan in hand runs without being      *)
(* selected by it.                                                           *)
THEOREM OnlySelectedRuns == Spec => []UnselectedNeverRuns
<1>1. Inv => UnselectedNeverRuns
  <2> SUFFICES ASSUME Inv, phase = "node", NEW r \in plan.nodes,
                      <<r, current>> \in ConditionalEdges(plan)
               PROVE  r \in done /\ selected[r] = current
    BY DEF UnselectedNeverRuns
  <2>1. <<r, current>> \notin locks
    BY InFlight DEF Runnable
  <2>2. locks = FreshLocks(plan, done, selected)
    BY DEF Inv, LocksMatchSelections
  <2> QED BY <2>1, <2>2 DEF FreshLocks
<1> QED BY <1>1, InvAlways, PTL

-----------------------------------------------------------------------------
(* Dependency closure. DoneIsClosed alone is not inductive: a failure takes  *)
(* the current node back, and a submission adds it, so the invariant must    *)
(* say when that is harmless.                                                *)

Closed(p, d) == \A n \in d : Incoming(p, n) \subseteq d

ClosedInv ==
  replans = 0 =>
    /\ Closed(plan, done)
    /\ phase = "effect" => Outgoing(plan, current) \cap done = {}
    /\ phase = "loop" /\ current # None => current \in done
    /\ phase = "paused" /\ current # None /\ current \notin done =>
         Incoming(plan, current) \subseteq done

(* Completing the dispatched node keeps the completed set closed, and        *)
(* nothing completed depends on it yet.                                      *)
LEMMA CompletionCloses ==
  ASSUME Inv, phase = "node", Closed(plan, done)
  PROVE  /\ Closed(plan, done \union {current})
         /\ Outgoing(plan, current) \cap (done \union {current}) = {}
<1>1. current \in plan.nodes \ done /\ Incoming(plan, current) \subseteq done
  BY InFlight DEF Runnable
<1>2. \A m \in Outgoing(plan, current) : current \in Incoming(plan, m)
  BY <1>1 DEF Incoming, Outgoing
<1>3. Closed(plan, done \union {current})
  BY <1>1 DEF Closed
<1>4. Outgoing(plan, current) \cap (done \union {current}) = {}
  BY <1>1, <1>2 DEF Closed
<1> QED BY <1>3, <1>4

\* A goto resets what depends on its target too.
LEMMA GotoCloses ==
  ASSUME NEW n, Closed(plan, done), done \subseteq plan.nodes
  PROVE  Closed(plan, done \ Affected(plan, n))
<1> DEFINE A == Affected(plan, n)
<1>1. \A m \in A : m \in plan.nodes /\ Outgoing(plan, m) \subseteq A
  BY AffectedClosed
<1> HIDE DEF A
<1>2. ASSUME NEW k \in done \ A, NEW m \in Incoming(plan, k)
      PROVE  m \in done \ A
  <2>1. m \in done /\ k \in plan.nodes
    BY <1>2 DEF Closed
  <2>2. k \in Outgoing(plan, m)
    BY <1>2, <2>1 DEF Incoming, Outgoing
  <2> QED BY <1>1, <1>2, <2>1, <2>2
<1>3. Closed(plan, done \ A)
  BY <1>2 DEF Closed
<1> QED BY <1>3 DEF A

LEMMA ClosedInit == Init => ClosedInv
BY DEF Init, ClosedInv, Closed

\* The engine's steps complete a node after all it depends on.
LEMMA ClosedExecute == Inv /\ ClosedInv /\ Execute => ClosedInv'
<1> SUFFICES ASSUME Inv, ClosedInv, Execute, replans = 0
             PROVE  ClosedInv'
  BY DEF ClosedInv, Execute, Begin, Dispatch, Deadlock, RunVirtual, RunCapability,
         RouteTo, RouteNowhere, FailNode, NoEffect, Goto, FailByPolicy, RequestReplan,
         Complete, MissGoal, RejectOutput, PauseForHuman, PauseInCapability, PauseByPolicy,
         PauseForApproval, Pause
<1>1. Closed(plan, done) /\ done \subseteq plan.nodes
  BY DEF ClosedInv, Inv, TypeOK
<1>2. CASE Begin
  BY <1>1, <1>2 DEF Begin, ClosedInv, Closed, Inv, CurrentFits
<1>3. CASE Dispatch
  BY <1>1, <1>3 DEF Dispatch, ClosedInv, Closed
<1>4. CASE RunVirtual \/ (\E t \in Node : RouteTo(t)) \/ RouteNowhere
  <2>1. /\ phase = "node" /\ done' = done \union {current}
        /\ phase' \in {"loop", "replan"} /\ UNCHANGED <<plan, current>>
    BY <1>4 DEF RunVirtual, RouteTo, RouteNowhere
  <2>2. Closed(plan, done')
    BY <1>1, <2>1, CompletionCloses
  <2> QED BY <2>1, <2>2 DEF ClosedInv, Closed
<1>5. CASE RunCapability
  <2>1. /\ phase = "node" /\ done' = done \union {current}
        /\ phase' = "effect" /\ UNCHANGED <<plan, current>>
    BY <1>5 DEF RunCapability
  <2>2. Closed(plan, done') /\ Outgoing(plan, current) \cap done' = {}
    BY <1>1, <2>1, CompletionCloses
  <2> QED BY <2>1, <2>2 DEF ClosedInv, Closed, Outgoing
<1>6. CASE FailNode
  <2>1. done' = done \ {current} /\ phase' = "failed" /\ UNCHANGED plan
    BY <1>6 DEF FailNode
  <2>2. CASE phase = "node"
    BY <1>1, <2>1, <2>2, InFlight DEF ClosedInv, Closed
  <2>3. CASE phase = "effect"
    <3>1. current \in plan.nodes /\ \A n \in done : current \notin Incoming(plan, n)
      BY <1>1, <2>3 DEF ClosedInv, Inv, CurrentFits, Incoming, Outgoing
    <3> QED BY <1>1, <2>1, <3>1 DEF ClosedInv, Closed, Incoming
  <2> QED BY <1>6, <2>2, <2>3 DEF FailNode
<1>7. CASE \E n \in Node : Goto(n)
  <2>1. PICK n \in Node : /\ done' = done \ Affected(plan, n)
                          /\ phase' \in {"loop", "start"}
                          /\ current' = None /\ UNCHANGED plan
    BY <1>7 DEF Goto
  <2>2. Closed(plan, done')
    BY <1>1, <2>1, GotoCloses
  <2> QED BY <2>1, <2>2 DEF ClosedInv, Closed
<1>8. CASE NoEffect
  BY <1>1, <1>8 DEF NoEffect, ClosedInv, Closed, scheduler, Inv, CurrentFits
<1>9. CASE Deadlock \/ FailByPolicy \/ RequestReplan \/ Complete \/ MissGoal \/ RejectOutput
  BY <1>1, <1>9 DEF Deadlock, FailByPolicy, RequestReplan, Complete, MissGoal,
                    RejectOutput, ClosedInv, Closed, scheduler
<1>10. CASE PauseForHuman \/ PauseInCapability \/ PauseByPolicy \/ PauseForApproval
  <2>1. /\ phase \in {"node", "effect", "start", "loop"} /\ phase' = "paused"
        /\ UNCHANGED <<plan, done, current>>
    BY <1>10 DEF PauseForHuman, PauseInCapability, PauseByPolicy, PauseForApproval,
                 PolicyPoint, Pause, scheduler
  <2>2. phase = "node" => Incoming(plan, current) \subseteq done
    BY InFlight DEF Runnable
  <2>3. phase \in {"effect", "start", "loop"} => current = None \/ current \in done
    BY DEF ClosedInv, Inv, CurrentFits
  <2> QED BY <1>1, <2>1, <2>2, <2>3 DEF ClosedInv, Closed, Incoming
<1> QED BY <1>2, <1>3, <1>4, <1>5, <1>6, <1>7, <1>8, <1>9, <1>10 DEF Execute

\* The coordinator's steps, a replan excepted, keep what was completed closed.
LEMMA ClosedCoordinate == Inv /\ ClosedInv /\ Coordinate => ClosedInv'
<1> SUFFICES ASSUME Inv, ClosedInv, Coordinate PROVE ClosedInv'
  OBVIOUS
<1>1. /\ Rehydrate(plan).nodes = plan.nodes
      /\ \A n : Incoming(Rehydrate(plan), n) = Incoming(plan, n)
      /\ done \subseteq plan.nodes
  BY RehydrateFacts DEF Inv, TypeOK
<1>2. CASE Resume
  <2>1. /\ plan' = Rehydrate(plan) /\ done' = done
        /\ current' = None /\ phase' = "start" /\ replans' = replans
    BY <1>1, <1>2 DEF Resume, Load, PruneCompleted
  <2> QED BY <1>1, <2>1 DEF ClosedInv, Closed
<1>3. CASE Submit
  <2>1. /\ plan' = Rehydrate(plan) /\ done' = done \union {current}
        /\ current' = None /\ phase' = "start" /\ replans' = replans
    BY <1>1, <1>3 DEF Submit, WaitsForHuman, Load, PruneCompleted, Inv, TypeOK
  <2>2. replans = 0 => Incoming(plan, current) \subseteq done
    BY <1>3 DEF Submit, WaitsForHuman, ClosedInv
  <2> QED BY <1>1, <2>1, <2>2 DEF ClosedInv, Closed
<1>4. CASE Decline \/ ReplanFails
  BY <1>4 DEF Decline, ReplanFails, ClosedInv, Closed, scheduler
<1>5. CASE \E p \in Plans : Replan(p)
  BY <1>5, BoundsAssumption DEF Replan, ClosedInv, Inv, TypeOK
<1> QED BY <1>2, <1>3, <1>4, <1>5 DEF Coordinate

LEMMA ClosedStutter == ClosedInv /\ UNCHANGED vars => ClosedInv'
BY DEF ClosedInv, Closed, vars, scheduler

(* Until the first replan nothing completed depends on a node that is still  *)
(* to run, through goto resets, failures, pauses and submissions.            *)
THEOREM CompletedIsClosed == Spec => []DoneIsClosed
<1>1. Inv /\ ClosedInv /\ [Next]_vars => ClosedInv'
  BY ClosedExecute, ClosedCoordinate, ClosedStutter DEF Next
<1>2. ClosedInv => DoneIsClosed
  BY DEF ClosedInv, DoneIsClosed, Closed
<1> QED BY <1>1, <1>2, ClosedInit, InvAlways, PTL DEF Spec

-----------------------------------------------------------------------------
(* A snapshot may lose locks but never adds one.                             *)
LEMMA RehydrateLosesLocks ==
  ASSUME NEW p, NEW done1, NEW done2, NEW sel1, NEW sel2,
         IsPlan(p), done1 \subseteq done2,
         \A n \in done1 : sel2[n] = sel1[n]
  PROVE  FreshLocks(Rehydrate(p), done2, sel2) \subseteq FreshLocks(p, done1, sel1)
<1>1. /\ GraphEdges(Rehydrate(p)) = GraphEdges(p)
      /\ GraphEdges(p) \subseteq Node \X Node
      /\ p \in PlanType
  BY RehydrateFacts, GraphEdgesType, PlanFacts DEF IsPlan
<1>2. \A n \in Node : Rehydrate(p).kind[n] = RehydratedKind(p, n)
  BY <1>1 DEF Rehydrate, PlanType
<1>3. \A n \in Node : RehydratedKind(p, n) \in RoutingKinds => p.kind[n] \in RoutingKinds
  BY DEF RehydratedKind, RoutingKinds
<1>4. ConditionalEdges(Rehydrate(p)) \subseteq ConditionalEdges(p)
  BY <1>1, <1>2, <1>3 DEF ConditionalEdges
<1> QED BY <1>4 DEF FreshLocks

(* A resume loses no work, whatever the snapshot forgets about the plan.     *)
THEOREM ResumeLosesNoWork == Spec => ResumeKeepsFrontier
<1>1. ASSUME Inv, [Next]_vars, phase = "paused", phase' = "start"
      PROVE  RunnableSet(plan, done, locks) \ done' \subseteq ready'
  <2>1. Resume \/ Submit
    BY <1>1 DEF Next, Execute, Coordinate, Begin, Dispatch, Deadlock, RunVirtual,
         RunCapability, RouteTo, RouteNowhere, FailNode, NoEffect, Goto, PolicyPoint,
         FailByPolicy, RequestReplan, Complete, MissGoal, RejectOutput, PauseForHuman,
         PauseInCapability, PauseByPolicy, PauseForApproval, Pause, Decline, Replan,
         ReplanFails, vars
  <2> DEFINE q == Rehydrate(plan)
  <2>2. /\ q.nodes = plan.nodes
        /\ \A n : Incoming(q, n) = Incoming(plan, n)
        /\ IsPlan(plan) /\ done \subseteq plan.nodes
        /\ plan.nodes \subseteq Node
        /\ selected \in [Node -> Node \union {None}]
        /\ locks = FreshLocks(plan, done, selected)
    BY <1>1, RehydrateFacts, PlanFacts DEF Inv, TypeOK, LocksMatchSelections
  <2> HIDE DEF q
  <2>3. /\ done \subseteq done'
        /\ \A n \in done : selected'[n] = selected[n]
        /\ ready' = RunnableSet(q, done', FreshLocks(q, done', selected'))
    <3>1. CASE Resume
      BY <2>2, <3>1 DEF Resume, Load, PruneCompleted, RefreshAll, q
    <3>2. CASE Submit
      <4>1. /\ done' = (done \union {current}) \cap q.nodes
            /\ selected' = [selected EXCEPT ![current] = None]
            /\ ready' = RunnableSet(q, done', FreshLocks(q, done', selected'))
            /\ current \notin done
        BY <3>2 DEF Submit, WaitsForHuman, Load, PruneCompleted, RefreshAll, q
      <4> QED BY <2>2, <4>1
    <3> QED BY <2>1, <3>1, <3>2
  <2>4. FreshLocks(q, done', selected') \subseteq locks
    BY <2>2, <2>3, RehydrateLosesLocks DEF q
  <2>5. ASSUME NEW n \in RunnableSet(plan, done, locks), n \notin done'
        PROVE  n \in ready'
    BY <2>2, <2>3, <2>4, <2>5 DEF RunnableSet, Runnable
  <2> QED BY <2>5
<1>2. Inv /\ [Next]_vars =>
        [phase = "paused" /\ phase' = "start" =>
           RunnableSet(plan, done, locks) \ done' \subseteq ready']_vars
  BY <1>1
<1> QED BY <1>2, InvAlways, PTL DEF Spec, ResumeKeepsFrontier

-----------------------------------------------------------------------------
(* Deadlock. A forward plan whose incomplete nodes are not held back by any  *)
(* lock has a runnable node: the incomplete one of least rank.               *)
LEMMA ForwardPlansProgress ==
  ASSUME NEW p, NEW completed, NEW held,
         IsPlan(p), Forward(p), HasRemainingWork(p, completed),
         \A e \in held : e[2] \in completed
  PROVE  RunnableSet(p, completed, held) # {}
<1> DEFINE R == {p.rank[n] : n \in p.nodes \ completed}
<1>1. R \subseteq Nat /\ R # {}
  BY PlanFacts DEF HasRemainingWork
<1>2. PICK k \in R : \A j \in R : k <= j
  <2>1. \E k \in R : \A j \in R : <<j, k>> \notin OpToRel(<, Nat)
    BY <1>1, WFMin, NatLessThanWellFounded
  <2>2. \A j, k \in R : <<j, k>> \notin OpToRel(<, Nat) => k <= j
    BY <1>1 DEF OpToRel
  <2> QED BY <2>1, <2>2
<1>3. PICK n \in p.nodes \ completed : p.rank[n] = k
  BY <1>2
<1>4. \A m \in p.nodes \ completed : p.rank[n] <= p.rank[m]
  BY <1>2, <1>3
<1>5. ASSUME NEW m \in Incoming(p, n) PROVE m \in completed
  <2>1. m \in p.nodes /\ p.rank[m] < p.rank[n]
    BY DEF Incoming, Forward
  <2> QED BY <1>3, <1>4, <2>1, PlanFacts
<1>6. Runnable(p, completed, held, n)
  BY <1>3, <1>5 DEF Runnable
<1> QED BY <1>3, <1>6 DEF RunnableSet

DeadlockInv ==
  phase = "deadlocked" =>
    HasRemainingWork(plan, done) /\ RunnableSet(plan, done, locks) = {}

\* The engine gives up only where nothing can be run.
LEMMA DeadlockStep == Inv /\ DeadlockInv /\ [Next]_vars => DeadlockInv'
<1> SUFFICES ASSUME Inv, DeadlockInv, [Next]_vars PROVE DeadlockInv'
  OBVIOUS
<1>1. CASE Deadlock
  <2>1. ready = RunnableSet(plan, done, locks) /\ Live(done, ready) = {}
    BY <1>1 DEF Deadlock, Inv, FrontierExact
  <2>2. RunnableSet(plan, done, locks) = {}
    BY <2>1 DEF Live, RunnableSet, Runnable
  <2> QED BY <1>1, <2>2
          DEF Deadlock, DeadlockInv, HasRemainingWork, RunnableSet, Runnable, Incoming,
              GraphEdges, SequentialEdges, scheduler
<1>2. CASE UNCHANGED vars
  BY <1>2 DEF vars, scheduler, DeadlockInv, HasRemainingWork, RunnableSet, Runnable,
              Incoming, GraphEdges, SequentialEdges
<1>3. CASE Next /\ ~Deadlock
  <2>1. phase' # "deadlocked"
    BY <1>3 DEF Next, Execute, Coordinate, Begin, Dispatch, RunVirtual,
         RunCapability, RouteTo, RouteNowhere, FailNode, NoEffect, Goto,
         FailByPolicy, RequestReplan, Complete, MissGoal, RejectOutput, PauseForHuman,
         PauseInCapability, PauseByPolicy, PauseForApproval, Pause, Decline, Replan,
         ReplanFails, Resume, Submit, Load
  <2> QED BY <2>1 DEF DeadlockInv
<1> QED BY <1>1, <1>2, <1>3

(* A run only ever stops with "Plan graph deadlocked" because its plan has a *)
(* backward edge or because a routing node holds back an incomplete node.    *)
THEOREM DeadlockIsExplained == Spec => []DeadlockExplained
<1>1. Init => DeadlockInv
  BY DEF Init, DeadlockInv
<1>2. Inv /\ DeadlockInv => DeadlockExplained
  BY ForwardPlansProgress DEF Inv, TypeOK, DeadlockInv, DeadlockExplained
<1> QED BY <1>1, <1>2, DeadlockStep, InvAlways, PTL DEF Spec
=============================================================================
