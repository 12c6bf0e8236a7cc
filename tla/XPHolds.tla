------------------------------ MODULE XPHolds ------------------------------
(***************************************************************************)
(* What the XP economy promises a call whose preflight was allowed: the XP *)
(* set aside for it stays backed by the balance until the call itself lets *)
(* it go, whatever else happens to the balance in between.                 *)
(***************************************************************************)
EXTENDS Integers, FiniteSets

CONSTANTS Calls,    \* the calls that may hold XP
          MaxHold   \* no call holds more than this

VARIABLES balance,  \* XP the user owns
          held      \* held[c]: XP set aside for call c

holdVars == <<balance, held>>

(* The held XP, one element per unit, so that its cardinality is the sum. *)
Units(h) == {u \in Calls \X (1..MaxHold) : u[2] <= h[u[1]]}

Promised(h) == Cardinality(Units(h))

HInit == /\ balance \in Nat
         /\ held = [c \in Calls |-> 0]

Hold(c) ==
    /\ held[c] = 0
    /\ held'[c] > 0
    /\ held' = [held EXCEPT ![c] = held'[c]]
    /\ Promised(held') <= balance
    /\ UNCHANGED balance

LetGo(c) ==
    /\ held[c] > 0
    /\ held' = [held EXCEPT ![c] = 0]
    /\ UNCHANGED balance

(* XP is earned, bought, charged, forfeited or lost, but never what is     *)
(* promised to a call.                                                     *)
Rebalance ==
    /\ balance' \in Nat
    /\ Promised(held) <= balance'
    /\ UNCHANGED held

HNext == Rebalance \/ \E c \in Calls : Hold(c) \/ LetGo(c)

HSpec == HInit /\ [][HNext]_holdVars
=============================================================================
