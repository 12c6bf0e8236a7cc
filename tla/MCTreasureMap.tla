--------------------------- MODULE MCTreasureMap ---------------------------
(***************************************************************************)
(* Small instances of TreasureMap: short maps, few days, one or two tabs.  *)
(***************************************************************************)
EXTENDS TreasureMap, TLC

CONSTANTS t1, t2

\* two tabs of the same page are interchangeable
TabSymmetry == Permutations(Tabs)
=============================================================================
