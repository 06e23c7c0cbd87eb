------------------------ MODULE PlanScheduler_proofs ------------------------
(* What the scheduler's methods return, for every plan and every state.      *)
EXTENDS PlanScheduler, TLAPS

(* Every edge of the graph joins two nodes of the plan.                      *)
LEMMA GraphEdgesType ==
  ASSUME NEW p
  PROVE  GraphEdges(p) \subseteq p.nodes \X p.nodes
BY DEF GraphEdges, SequentialEdges

(* markCompleted keeps the queue exact: completing the dispatched node n     *)
(* leaves queued precisely the nodes that can run next.                      *)
LEMMA MarkCompletedExact ==
  ASSUME NEW p, NEW done, NEW locks, NEW n, Runnable(p, done, locks, n)
  PROVE  MarkCompletedReady(p, done, locks, RunnableSet(p, done, locks) \ {n}, n)
           = RunnableSet(p, done \union {n}, locks)
<1>1. ASSUME NEW m \in p.nodes, Runnable(p, done, locks, m), m # n
      PROVE  Runnable(p, done \union {n}, locks, m)
  BY <1>1 DEF Runnable
<1>2. ASSUME NEW m \in p.nodes, Runnable(p, done \union {n}, locks, m),
             m \notin Outgoing(p, n)
      PROVE  Runnable(p, done, locks, m) /\ m # n
  <2>1. n \in p.nodes
    BY DEF Runnable
  <2>2. n \notin Incoming(p, m)
    BY <1>2, <2>1 DEF Incoming, Outgoing
  <2> QED BY <1>2, <2>2 DEF Runnable
<1>3. ASSUME NEW m \in p.nodes, Runnable(p, done \union {n}, locks, m)
      PROVE  <<n, m>> \notin locks
  BY <1>3 DEF Runnable
<1>4. Outgoing(p, n) \subseteq p.nodes
  BY DEF Outgoing
<1> QED BY <1>1, <1>2, <1>3, <1>4 DEF MarkCompletedReady, RunnableSet

(* markConditionalRelease keeps the queue exact.                             *)
LEMMA ReleaseExact ==
  ASSUME NEW p, NEW done, NEW locks, NEW r, NEW t,
         <<r, t>> \in ConditionalEdges(p)
  PROVE  ReleaseReady(p, done, locks, RunnableSet(p, done, locks), r, t)
           = RunnableSet(p, done, ReleaseLocks(p, locks, r, t))
<1>0. t \in p.nodes
  BY GraphEdgesType DEF ConditionalEdges
<1> DEFINE freed == ReleaseLocks(p, locks, r, t)
<1>1. freed = locks \ {<<r, t>>}
  BY DEF ReleaseLocks
<1>2. ASSUME NEW m \in p.nodes, Runnable(p, done, locks, m)
      PROVE  Runnable(p, done, freed, m)
  BY <1>1, <1>2 DEF Runnable
<1>3. ASSUME NEW m \in p.nodes, Runnable(p, done, freed, m), m # t
      PROVE  Runnable(p, done, locks, m)
  BY <1>1, <1>3 DEF Runnable
<1> HIDE DEF freed
<1>4. ReleaseReady(p, done, locks, RunnableSet(p, done, locks), r, t)
        = RunnableSet(p, done, locks) \union {m \in {t} : Runnable(p, done, freed, m)}
  BY DEF ReleaseReady, freed
<1>5. RunnableSet(p, done, locks) \union {m \in {t} : Runnable(p, done, freed, m)}
        = RunnableSet(p, done, freed)
  BY <1>0, <1>2, <1>3 DEF RunnableSet
<1> QED BY <1>4, <1>5 DEF freed

(* next() takes one node out of an exact queue and drops no other.           *)
LEMMA NextExact ==
  ASSUME NEW p, NEW done, NEW locks, NEW n,
         \A m \in p.nodes : p.rank[m] \in Nat,
         \A k, m \in p.nodes : p.rank[k] = p.rank[m] => k = m,
         IsNext(p, done, RunnableSet(p, done, locks), n)
  PROVE  /\ Runnable(p, done, locks, n)
         /\ AfterNext(p, RunnableSet(p, done, locks), n)
              = RunnableSet(p, done, locks) \ {n}
<1> DEFINE R == RunnableSet(p, done, locks)
<1>1. R \subseteq p.nodes /\ Live(done, R) = R
  BY DEF RunnableSet, Runnable, Live
<1>2. n \in R /\ \A m \in R : p.rank[n] <= p.rank[m]
  BY <1>1 DEF IsNext
<1>3. \A m \in R : p.rank[m] \in Nat
  BY <1>1
<1>4. \A m \in R : p.rank[m] > p.rank[n] <=> m # n
  BY <1>1, <1>2, <1>3
<1> QED BY <1>2, <1>4 DEF AfterNext, RunnableSet

(* What a goto resets is closed under Outgoing: no successor of a reset node *)
(* keeps its completion.                                                     *)
LEMMA AffectedClosed ==
  ASSUME NEW p, NEW n
  PROVE  /\ Affected(p, n) \subseteq p.nodes
         /\ \A m \in Affected(p, n) : Outgoing(p, m) \subseteq Affected(p, n)
<1>1. ASSUME NEW m \in Affected(p, n), NEW k \in Outgoing(p, m)
      PROVE  k \in Affected(p, n)
  <2>1. k \in p.nodes
    BY DEF Outgoing
  <2>2. ASSUME NEW S \in SUBSET p.nodes, n \in S, ClosedDownstream(p, S)
        PROVE  k \in S
    BY <1>1, <2>2 DEF Affected, ClosedDownstream
  <2> QED BY <2>1, <2>2 DEF Affected
<1> QED BY <1>1 DEF Affected
=============================================================================
