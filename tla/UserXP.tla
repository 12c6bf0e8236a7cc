------------------------------- MODULE UserXP -------------------------------
(***************************************************************************)
(* One row of the table public.user_xp and the SQL statements that change  *)
(* it.  A row is a record with the columns the billing code reads: three   *)
(* pools of XP (earned, purchased, rollover), the part of their total that *)
(* is promised to running calls (reserved_xp) and the grind counters of    *)
(* the billing cycle.  Every operator is a function of the row: a state    *)
(* machine applies it to the current row in one step, which is what a      *)
(* statement under SELECT ... FOR UPDATE does.                             *)
(***************************************************************************)
EXTENDS Integers

Least(a, b) == IF a <= b THEN a ELSE b
Greatest(a, b) == IF a >= b THEN a ELSE b

Pools == [rollover : Nat, purchased : Nat, earned : Nat]

Row == [rollover : Nat, purchased : Nat, earned : Nat, reserved_xp : Nat,
        monthly_earn_cap : Nat, monthly_earned : Nat, grind_locked : BOOLEAN]

PoolsOf(x) == [rollover |-> x.rollover, purchased |-> x.purchased,
               earned |-> x.earned]

Total(p) == p.rollover + p.purchased + p.earned

Available(x) == Total(x) - x.reserved_xp

\* seeded fault: a table that lets reservations outgrow the balance
ChecksWithoutBacking(x) ==
    /\ x.earned >= 0
    /\ x.purchased >= 0
    /\ x.rollover >= 0
    /\ x.reserved_xp >= 0

(* The five CHECK constraints of the table. *)
ChecksHold(x) ==
    /\ x.earned >= 0
    /\ x.purchased >= 0
    /\ x.rollover >= 0
    /\ x.reserved_xp >= 0
    /\ x.reserved_xp <= Total(x)

-----------------------------------------------------------------------------
(* reserve_xp and release_xp_reservation: the guards that RAISE, then the  *)
(* new row.  The log row they also insert is never read back.              *)

CanReserve(x, a) == a > 0 /\ Available(x) >= a
ReserveXp(x, a) == [x EXCEPT !.reserved_xp = @ + a]

CanRelease(x, a) == a > 0 /\ x.reserved_xp >= a
ReleaseXp(x, a) == [x EXCEPT !.reserved_xp = @ - a]

(* The order in which a charge empties the pools: rollover, purchased,     *)
(* earned.  Uncovered is what the pools could not pay.                     *)
FromRollover(p, a) == Least(p.rollover, a)
FromPurchased(p, a) == Least(p.purchased, a - FromRollover(p, a))
FromEarned(p, a) ==
    Least(p.earned, a - FromRollover(p, a) - FromPurchased(p, a))

Uncovered(p, a) ==
    a - FromRollover(p, a) - FromPurchased(p, a) - FromEarned(p, a)

Spend(p, a) == [rollover |-> p.rollover - FromRollover(p, a),
                purchased |-> p.purchased - FromPurchased(p, a),
                earned |-> p.earned - FromEarned(p, a)]

\* seeded fault: a charge that also clears every reservation
WithPoolsUnlocked(x, p) == [x EXCEPT !.rollover = p.rollover,
                                     !.purchased = p.purchased,
                                     !.earned = p.earned,
                                     !.reserved_xp = 0]

(* The update at the end of deductFromPools: three absolute values, every  *)
(* other column left as it is in the table at that moment.                 *)
WithPools(x, p) == [x EXCEPT !.rollover = p.rollover,
                             !.purchased = p.purchased,
                             !.earned = p.earned]

(* credit_xp adds to the pool named by its argument. *)
CreditXp(x, pool, a) ==
    [x EXCEPT !.rollover = @ + (IF pool = "rollover" THEN a ELSE 0),
              !.purchased = @ + (IF pool = "purchased" THEN a ELSE 0),
              !.earned = @ + (IF pool = "earned" THEN a ELSE 0)]

-----------------------------------------------------------------------------
(* The grind counters. *)

\* seeded fault: the cap is offered whole to every award
WholeCap(x) == x.monthly_earn_cap

GrindRemaining(x) == Greatest(0, x.monthly_earn_cap - x.monthly_earned)

AwardOf(x, a) == Least(a, GrindRemaining(x))

\* seeded fault: the lock falls only once the cap is exceeded
AwardLateLock(x, a) ==
    LET won == AwardOf(x, a)
    IN  IF won > 0
        THEN [x EXCEPT
                !.earned = @ + won,
                !.monthly_earned = @ + won,
                !.grind_locked = x.monthly_earned + won > x.monthly_earn_cap]
        ELSE x

AwardGrindXp(x, a) ==
    LET won == AwardOf(x, a)
    IN  IF won > 0
        THEN [x EXCEPT
                !.earned = @ + won,
                !.monthly_earned = @ + won,
                !.grind_locked = x.monthly_earned + won >= x.monthly_earn_cap]
        ELSE x

(* The update of checkAndResetCycleIfNeeded. *)
ResetGrind(x, cap) == [x EXCEPT !.monthly_earn_cap = cap,
                                !.monthly_earned = 0,
                                !.grind_locked = FALSE]

(* The update of process_monthly_xp_rollover for a user whose earned pool  *)
(* was read as seen: the tier keeps quarters/4 of what was read.           *)
Transfer(seen, quarters) == (seen * quarters) \div 4

RollOver(x, seen, quarters) ==
    [x EXCEPT !.rollover = @ + Transfer(seen, quarters), !.earned = 0]
=============================================================================
