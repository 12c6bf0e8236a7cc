----------------------------- MODULE OneRoadmap -----------------------------
(***************************************************************************)
(* What the two ways to make, replace and delete roadmaps promise between  *)
(* them: a user follows one roadmap at a time, takes a new one up only     *)
(* when the last has been left, and never returns to one that was left.    *)
(* No roadmap can be asked for while a delay runs.  A delay that begins    *)
(* after one was asked for does not keep that one out.  Only leaving a     *)
(* roadmap can start a delay.                                              *)
(***************************************************************************)

CONSTANT Plans      \* roadmaps there can ever be

VARIABLES current,  \* the roadmap that is followed: none or one
          begun,    \* roadmaps that were ever taken up
          asked,    \* roadmaps asked for and neither taken up nor refused
          delayed   \* no new roadmap may be asked for yet

shelfVars == <<current, begun, asked, delayed>>

ShelfInit == current = {} /\ begun = {} /\ asked = {} /\ delayed = FALSE

Ask(r) == /\ ~delayed
          /\ r \notin begun
          /\ asked' = asked \cup {r}
          /\ UNCHANGED <<current, begun, delayed>>

TakeUp(r) == /\ current = {}
             /\ r \in asked
             /\ r \notin begun
             /\ current' = {r}
             /\ begun' = begun \cup {r}
             /\ asked' = asked \ {r}
             /\ UNCHANGED delayed

Refuse(r) == /\ r \in asked
             /\ asked' = asked \ {r}
             /\ UNCHANGED <<current, begun, delayed>>

Leave == /\ current # {}
         /\ current' = {}
         /\ delayed' \in BOOLEAN
         /\ UNCHANGED <<begun, asked>>

DelayPasses == /\ delayed
               /\ delayed' = FALSE
               /\ UNCHANGED <<current, begun, asked>>

ShelfNext == \/ \E r \in Plans : Ask(r) \/ TakeUp(r) \/ Refuse(r)
             \/ Leave \/ DelayPasses

ShelfSpec == ShelfInit /\ [][ShelfNext]_shelfVars
=============================================================================
