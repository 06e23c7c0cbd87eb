-------------------------- MODULE MCDiscoveryItems --------------------------
(* Two items in two feeds, so that fetches meet on an item, and two requests  *)
(* that meet on one: a list of up to two places, which may name it twice, and *)
(* the promotion of one item.                                                 *)
EXTENDS DiscoveryItems, TLC

CONSTANTS i1, i2, f1, f2, c1, c2, scored, suppressed

TwoItems == {i1, i2}
SingleCall == {c2}
TwoFeeds == {f1, f2}
TwoCalls == {c1, c2}
TwoOutcomes == {scored, suppressed}

Symmetry == Permutations(Item) \union Permutations(Feed) \union Permutations(Outcome)
=============================================================================
