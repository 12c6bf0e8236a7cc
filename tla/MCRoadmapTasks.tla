--------------------------- MODULE MCRoadmapTasks ---------------------------
(***************************************************************************)
(* Small instances of RoadmapTasks: how many tasks the phases got.         *)
(***************************************************************************)
EXTENDS RoadmapTasks, TLC

TwoOne == <<2, 1>>
OneOneNone == <<1, 1, 0>>
LastIsEmpty == <<2, 5, 0>>

AnyCall == Permutations(Calls)
=============================================================================
