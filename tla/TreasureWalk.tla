---------------------------- MODULE TreasureWalk ----------------------------
(***************************************************************************)
(* What the treasure map promises: maps are laid out one after the other,  *)
(* the next one only when no other is unfinished, and the token reaches a  *)
(* node only after the rewards of all nodes up to it have been settled     *)
(* (claimed, or lost with the insert of their claim).  Nothing keeps the   *)
(* token from stepping back: two movements may write in either order.      *)
(***************************************************************************)
EXTENDS Integers

CONSTANTS NodeCount,  \* nodes of a map
          MaxMaps     \* maps that can be laid out

VARIABLES token,      \* the token's node on each map, 0 before the first
          laid,       \* maps 1..laid have been laid out
          settled     \* <<map, node>> whose reward was settled

walkVars == <<token, laid, settled>>

Unfinished == {m \in 1..laid : token[m] < NodeCount}

WalkInit == /\ token = [m \in 1..MaxMaps |-> 0]
            /\ laid = 0
            /\ settled = {}

LayOut == /\ laid < MaxMaps
          /\ Unfinished = {}
          /\ laid' = laid + 1
          /\ UNCHANGED <<token, settled>>

Settle(m, n) == /\ m \in 1..laid
                /\ settled' = settled \cup {<<m, n>>}
                /\ UNCHANGED <<token, laid>>

Walk(m, n) == /\ m \in 1..laid
              /\ \A k \in 1..n : <<m, k>> \in settled
              /\ n < NodeCount => Unfinished \subseteq {m}
              /\ token' = [token EXCEPT ![m] = n]
              /\ UNCHANGED <<laid, settled>>

WalkNext ==
    \/ LayOut
    \/ \E m \in 1..MaxMaps : \/ \E n \in 1..NodeCount : Settle(m, n)
                             \/ \E n \in 0..NodeCount : Walk(m, n)

WalkSpec == WalkInit /\ [][WalkNext]_walkVars
=============================================================================
