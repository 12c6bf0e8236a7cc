------------------------- MODULE MCRoadmapLifecycle -------------------------
(***************************************************************************)
(* Small instances of RoadmapLifecycle; calls of one kind are              *)
(* interchangeable.                                                        *)
(***************************************************************************)
EXTENDS RoadmapLifecycle, TLC

CONSTANTS g1, g2, g3, n1, d1, x1, q1, c1, c2

AnyCall == Permutations(Generates) \cup Permutations(Confirms)
=============================================================================
