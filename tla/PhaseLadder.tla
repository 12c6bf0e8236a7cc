----------------------------- MODULE PhaseLadder -----------------------------
(***************************************************************************)
(* What a roadmap promises about its phases: they open one behind the      *)
(* other and are never locked again; a phase is called completed only if   *)
(* it is open and its tasks were all complete at one moment.  It may lose  *)
(* that name again, to an early unlock or to a page that did not know.     *)
(***************************************************************************)
EXTENDS Integers

CONSTANT PhaseCount

VARIABLES state,     \* "locked", "open" or "completed", by phase
          finished   \* phases whose tasks were all complete at one moment

ladderVars == <<state, finished>>

Rungs == 1..PhaseCount

LadderInit == /\ state = [p \in Rungs |-> IF p = 1 THEN "open" ELSE "locked"]
              /\ finished \subseteq Rungs

Become(p, s) == state' = [state EXCEPT ![p] = s] /\ UNCHANGED finished

Work == /\ finished \subseteq finished'
        /\ finished' \subseteq Rungs
        /\ UNCHANGED state

Open(p) == /\ state[p] = "locked"
           /\ p > 1 /\ state[p - 1] # "locked"
           /\ Become(p, "open")

Complete(p) == /\ state[p] = "open"
               /\ p \in finished
               /\ Become(p, "completed")

Reopen(p) == /\ state[p] = "completed"
             /\ Become(p, "open")

LadderNext == Work \/ \E p \in Rungs : Open(p) \/ Complete(p) \/ Reopen(p)

LadderSpec == LadderInit /\ [][LadderNext]_ladderVars
=============================================================================
