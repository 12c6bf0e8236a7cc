---------------------------- MODULE MCLiveWindow ----------------------------
(***************************************************************************)
(* Small instances of LiveWindow; calls of one kind are interchangeable.   *)
(***************************************************************************)
EXTENDS LiveWindow, TLC

CONSTANTS e1, e2, k1, k2, w1, w2

AnyCall == Permutations(Exchanges) \cup Permutations(Readers)
           \cup Permutations(WrapUps)
=============================================================================
