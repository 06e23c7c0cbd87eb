-------------------------- MODULE MCPlanExecution --------------------------
(* Four nodes and the shapes of plan that matter: a chain without edges, a   *)
(* diamond, a route that guards one node, a branch as the planner emits it   *)
(* and a branch whose else leads back.                                       *)
EXTENDS PlanExecution, TLC

CONSTANTS a, b, c, d

MCNode == {a, b, c, d}

Position == a :> 0 @@ b :> 1 @@ c :> 2 @@ d :> 3

PlanOf(nodes, edges, kinds, fallback, named) ==
  [nodes |-> nodes, rank |-> Position, edges |-> edges,
   kind |-> [n \in MCNode |-> IF n \in DOMAIN kinds THEN kinds[n] ELSE "capability"],
   fallback |-> fallback, named |-> named]

\* a, then the human b, then the normalisation node c.
Chain == PlanOf({a, b, c}, {}, b :> "human" @@ c :> "virtual", {}, {})

Diamond == PlanOf(MCNode, {<<a, b>>, <<a, c>>, <<b, d>>, <<c, d>>}, a :> "capability", {}, {})

\* The routing node b lets c run or asks for a replan; stage "routing".
Guard == PlanOf({a, b, c}, {<<a, b>>, <<b, c>>}, b :> "routing", {}, {b})

\* The routing node b selects c or else d; c and d are also in sequence.
Branch == PlanOf(MCNode, {<<a, b>>, <<b, c>>, <<b, d>>, <<c, d>>}, b :> "routing", {b}, {})

\* The routing node a selects c or d, which do not depend on each other.
Fork == PlanOf({a, c, d}, {<<a, c>>, <<a, d>>}, a :> "routing", {a}, {a})

\* The else of the routing node c leads back to a.
Loop == PlanOf(MCNode, {<<a, b>>, <<b, c>>, <<c, d>>, <<c, a>>}, c :> "routing", {c}, {})

AllPlans == {Chain, Diamond, Guard, Branch, Fork, Loop}
BranchPlans == {Branch, Fork}
=============================================================================
