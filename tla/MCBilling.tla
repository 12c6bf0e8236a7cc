----------------------------- MODULE MCBilling -----------------------------
(***************************************************************************)
(* Small instances of Billing: which calls there are and what they cost.   *)
(***************************************************************************)
EXTENDS Billing, TLC

CONSTANTS c1, c2, e1, e2

\* a two-XP and a one-XP feature, as mentor_message beside image_upload
MCEstimate == (c1 :> 2) @@ (c2 :> 1)
NoEstimate == [c \in {} |-> 0]
OneEstimate == (c1 :> 2)
EvenEstimate == (c1 :> 2) @@ (c2 :> 2)
=============================================================================
