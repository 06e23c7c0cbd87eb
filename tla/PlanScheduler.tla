--------------------------- MODULE PlanScheduler ---------------------------
(* The scheduler of one plan graph: the class PlanScheduler of               *)
(* packages/flex-agents-server/src/services/flex-execution-engine.ts.        *)
(*                                                                           *)
(* A plan p is a record                                                      *)
(*   nodes     the node ids of the plan                                      *)
(*   rank      the position of each node in plan.nodes                       *)
(*   edges     plan.edges, as pairs <<from, to>>                             *)
(*   kind      what the engine does with each node, see NodeKinds            *)
(*   fallback  the routing nodes that declare elseTo                         *)
(*   named     the routing nodes whose planner stage is literally "routing"  *)
(*                                                                           *)
(* The operators are the methods of the class: each maps the scheduler's     *)
(* three pieces of mutable state to their new values,                        *)
(*   done      completedNodeIds, which the engine and the scheduler share    *)
(*   locks     conditionalLocks, as the set of pairs <<routing, target>>     *)
(*             still held                                                    *)
(*   ready     readyQueue and readySet: the queue is re-sorted by rank after *)
(*             every push and ranks are distinct, so it is the set in the    *)
(*             order of ranks, and its head is the member of least rank.     *)
EXTENDS Integers, FiniteSets

\* "routeless" and "broken" are what "routing" and "virtual" nodes become once a
\* plan has been through its snapshot (see PlanExecution!Rehydrate).
NodeKinds == {"capability", "human", "virtual", "routing", "routeless", "broken"}

\* Routing behaviour follows node.kind, so a routeless node still holds locks.
RoutingKinds == {"routing", "routeless"}

\* Edges chaining the nodes in plan order, used when the plan lists none.
SequentialEdges(p) ==
  {e \in p.nodes \X p.nodes : p.rank[e[2]] = p.rank[e[1]] + 1}

\* The edges of the graph; edges naming an unknown node are skipped.
GraphEdges(p) ==
  IF p.edges = {} THEN SequentialEdges(p) ELSE p.edges \cap (p.nodes \X p.nodes)

Incoming(p, n) == {m \in p.nodes : <<m, n>> \in GraphEdges(p)}
Outgoing(p, n) == {m \in p.nodes : <<n, m>> \in GraphEdges(p)}

\* The edges that leave a routing node: each starts out as a held lock.
ConditionalEdges(p) == {e \in GraphEdges(p) : p.kind[e[1]] \in RoutingKinds}

\* The guard of enqueueIfReady, apart from membership of the queue.
Runnable(p, done, locks, n) ==
  /\ n \in p.nodes
  /\ n \notin done
  /\ Incoming(p, n) \subseteq done
  /\ \A r \in p.nodes : <<r, n>> \notin locks

RunnableSet(p, done, locks) == {n \in p.nodes : Runnable(p, done, locks, n)}

-----------------------------------------------------------------------------
(* Construction.                                                             *)

\* Mutant: ids of nodes the plan does not have stay.
PruneCompleted_Keeps(p, done) == done

PruneCompleted(p, done) == done \cap p.nodes

\* Mutant: stored selections are not applied.
FreshLocks_AllHeld(p, done, selected) == ConditionalEdges(p)

\* The locks left after buildGraph and applyRoutingSelections: only a completed
\* routing node releases the target its stored result selected.
FreshLocks(p, done, selected) ==
  {e \in ConditionalEdges(p) : ~(e[1] \in done /\ selected[e[1]] = e[2])}

RefreshAll(p, done, locks) == RunnableSet(p, done, locks)

-----------------------------------------------------------------------------
(* Dispatch and completion.                                                  *)

HasRemainingWork(p, done) == \E n \in p.nodes : n \notin done

\* Entries next() may return; completed ones are dropped from the head.
Live(done, ready) == ready \ done

\* n is the entry next() returns.
IsNext(p, done, ready, n) ==
  /\ n \in Live(done, ready)
  /\ \A m \in Live(done, ready) : p.rank[n] <= p.rank[m]

AfterNext(p, ready, n) == {m \in ready : p.rank[m] > p.rank[n]}

\* Mutant: successors are queued whatever else they wait for.
MarkCompletedReady_Unguarded(p, done, locks, ready, n) ==
  ready \union (Outgoing(p, n) \ done)

\* Mutant: successors are never queued.
MarkCompletedReady_Forgets(p, done, locks, ready, n) == ready

\* markCompleted: successors that hold no lock of n itself are queued if ready.
MarkCompletedReady(p, done, locks, ready, n) ==
  ready \union
  {m \in Outgoing(p, n) :
     <<n, m>> \notin locks /\ Runnable(p, done \union {n}, locks, m)}

\* Mutant: every target of r is released.
ReleaseLocks_All(p, locks, r, t) == {e \in locks : e[1] # r}

\* markConditionalRelease with the one selected target t of routing node r.
ReleaseLocks(p, locks, r, t) == locks \ ({<<r, t>>} \cap ConditionalEdges(p))

ReleaseReady(p, done, locks, ready, r, t) ==
  ready \union
  {m \in {t} : /\ <<r, t>> \in ConditionalEdges(p)
               /\ Runnable(p, done, ReleaseLocks(p, locks, r, t), m)}

-----------------------------------------------------------------------------
(* resetFromNode and requeueNodes; the engine calls refreshAll after each.   *)

ClosedDownstream(p, S) == \A n \in S : Outgoing(p, n) \subseteq S

\* Mutant: only the target of the goto is reset.
Affected_OnlyTarget(p, n) == {n}

\* n and everything reachable from it: the least set holding n that is closed
\* under Outgoing.
Affected(p, n) ==
  {m \in p.nodes :
     \A S \in SUBSET p.nodes : n \in S /\ ClosedDownstream(p, S) => m \in S}

\* Mutant: a routing node that is reset does not take its locks back.
ResetLocks_Forgets(p, locks, A) == locks

ResetLocks(p, locks, A) == locks \union {e \in ConditionalEdges(p) : e[1] \in A}
=============================================================================
