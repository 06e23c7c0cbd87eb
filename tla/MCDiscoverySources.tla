------------------------- MODULE MCDiscoverySources -------------------------
(* Two servers and two sources, so that jobs overlap on a source and a       *)
(* server has a source queued behind another.                                *)
EXTENDS DiscoverySources

CONSTANTS s1, s2, v1, v2

TwoSources == {s1, s2}
OneSource == {s1}
TwoServers == {v1, v2}
=============================================================================
