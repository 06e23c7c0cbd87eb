-------------------------- MODULE MCCrcsSelection --------------------------
(* Up to three capabilities between a facet on hand and a facet owed, with   *)
(* two facets in between: joins, alternatives, cycles, dead ends and         *)
(* capabilities without inputs. Place 4 is of no active capability.          *)
EXTENDS CrcsSelection

FourFacets == {"a", "b", "c", "d"}

Entry ==
  {[inputs |-> in, outputs |-> out] :
     in \in {{}, {"a"}, {"b"}, {"a", "c"}, {"b", "c"}},
     out \in {{"b"}, {"c"}, {"d"}}}

SmallCatalogs == UNION {[D -> Entry] : D \in {{}, {1, 2}, {1, 2, 3}}}

Call(goals, required) ==
  [start |-> {"a"}, owed |-> {"d"} \ goals, goals |-> goals,
   failed |-> {}, required |-> required]

\* A first planning call with and without pins, and a replan after the goal
\* condition on "d" failed, when "c" has been produced.
SmallRequests ==
  {Call({}, {}), Call({}, {2}), Call({}, {4}),
   [Call({"d"}, {}) EXCEPT !.failed = {"d"}, !.start = {"a", "c"}]}
=============================================================================
