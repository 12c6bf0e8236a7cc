---------------------------- MODULE UserXPProofs ----------------------------
(***************************************************************************)
(* What the statements on a user_xp row do, for every row and amount.      *)
(***************************************************************************)
EXTENDS UserXP, TLAPS

(* A charge the pools cover takes exactly its amount from their total and  *)
(* drives no pool negative, in whatever way it is split over the pools.    *)
THEOREM SpendIsExact ==
    ASSUME NEW p \in Pools, NEW a \in Nat, ~(Uncovered(p, a) > 0)
    PROVE  /\ Spend(p, a) \in Pools
           /\ Total(Spend(p, a)) = Total(p) - a
<1>1. p.rollover \in Nat /\ p.purchased \in Nat /\ p.earned \in Nat
  BY DEF Pools
<1>2. FromRollover(p, a) \in 0..p.rollover /\ FromRollover(p, a) <= a
  BY <1>1 DEF FromRollover, Least
<1>3. /\ FromPurchased(p, a) \in 0..p.purchased
      /\ FromPurchased(p, a) <= a - FromRollover(p, a)
  BY <1>1, <1>2 DEF FromPurchased, Least
<1>4. /\ FromEarned(p, a) \in 0..p.earned
      /\ FromEarned(p, a) <= a - FromRollover(p, a) - FromPurchased(p, a)
  BY <1>1, <1>2, <1>3 DEF FromEarned, Least
<1>5. a - FromRollover(p, a) - FromPurchased(p, a) - FromEarned(p, a) = 0
  BY <1>1, <1>2, <1>3, <1>4 DEF Uncovered
<1>6. QED
  BY <1>1, <1>2, <1>3, <1>4, <1>5 DEF Spend, Total, Pools

(* deductFromPools gives up exactly when the whole balance is too small:   *)
(* the order of the pools never makes an affordable charge fail.           *)
THEOREM CoveredMeansAffordable ==
    ASSUME NEW p \in Pools, NEW a \in Nat
    PROVE  Uncovered(p, a) > 0 <=> a > Total(p)
<1>1. p.rollover \in Nat /\ p.purchased \in Nat /\ p.earned \in Nat
  BY DEF Pools
<1>2. QED
  BY <1>1 DEF Uncovered, FromRollover, FromPurchased, FromEarned, Least,
              Total

(* The guards of reserve_xp and release_xp_reservation are enough for the  *)
(* table's CHECK constraints: the statements they protect are never        *)
(* refused by the table.                                                   *)
THEOREM GuardsKeepChecks ==
    ASSUME NEW x \in Row, NEW a \in Nat, ChecksHold(x)
    PROVE  /\ CanReserve(x, a) => ChecksHold(ReserveXp(x, a))
           /\ CanRelease(x, a) => ChecksHold(ReleaseXp(x, a))
BY DEF Row, ChecksHold, CanReserve, ReserveXp, CanRelease, ReleaseXp,
       Available, Total

(* award_grind_xp pays what was asked up to what the cap leaves.           *)
LEMMA AwardType ==
    ASSUME NEW x \in Row, NEW a \in Nat
    PROVE  /\ AwardOf(x, a) \in Nat
           /\ AwardOf(x, a) <= a
           /\ x.monthly_earned <= x.monthly_earn_cap =>
                x.monthly_earned + AwardOf(x, a) <= x.monthly_earn_cap
BY DEF Row, AwardOf, GrindRemaining, Least, Greatest

(* The rollover keeps a natural part of what it read.                      *)
LEMMA TransferType ==
    ASSUME NEW n \in Nat, NEW q \in 0..4
    PROVE  Transfer(n, q) \in Nat
<1>1. n * q \in Nat
  OBVIOUS
<1>2. QED
  BY <1>1 DEF Transfer

-----------------------------------------------------------------------------
(* What each statement that does not reserve leaves of a row: its type, the *)
(* promised XP, the CHECKs, and by how much the balance moves.             *)
LEMMA AwardKeeps ==
    ASSUME NEW x \in Row, NEW a \in Nat, ChecksHold(x)
    PROVE  /\ AwardGrindXp(x, a) \in Row
           /\ AwardGrindXp(x, a).reserved_xp = x.reserved_xp
           /\ ChecksHold(AwardGrindXp(x, a))
           /\ Total(AwardGrindXp(x, a)) = Total(x) + AwardOf(x, a)
<1> DEFINE won == AwardOf(x, a)
           locked == x.monthly_earned + won >= x.monthly_earn_cap
<1>1. won \in Nat
  BY AwardType
<1>2. locked \in BOOLEAN
  OBVIOUS
<1>3. AwardGrindXp(x, a) =
        IF won > 0
        THEN [x EXCEPT !.earned = x.earned + won,
                       !.monthly_earned = x.monthly_earned + won,
                       !.grind_locked = locked]
        ELSE x
  BY DEF AwardGrindXp
<1> HIDE DEF won, locked
<1>4. CASE won > 0
  <2>1. AwardGrindXp(x, a) =
          [rollover |-> x.rollover, purchased |-> x.purchased,
           earned |-> x.earned + won, reserved_xp |-> x.reserved_xp,
           monthly_earn_cap |-> x.monthly_earn_cap,
           monthly_earned |-> x.monthly_earned + won,
           grind_locked |-> locked]
    BY <1>3, <1>4 DEF Row
  <2>2. QED
    BY <1>1, <1>2, <2>1 DEF Row, ChecksHold, Total, won
<1>5. CASE ~(won > 0)
  BY <1>1, <1>3, <1>5 DEF Row, Total, won
<1>6. QED
  BY <1>4, <1>5

LEMMA ResetKeeps ==
    ASSUME NEW x \in Row, NEW cap \in Nat, ChecksHold(x)
    PROVE  /\ ResetGrind(x, cap) \in Row
           /\ ResetGrind(x, cap).reserved_xp = x.reserved_xp
           /\ ChecksHold(ResetGrind(x, cap))
           /\ Total(ResetGrind(x, cap)) = Total(x)
BY DEF ResetGrind, Row, ChecksHold, Total

LEMMA PoolsKeep ==
    ASSUME NEW x \in Row, NEW p \in Pools
    PROVE  /\ WithPools(x, p) \in Row
           /\ WithPools(x, p).reserved_xp = x.reserved_xp
           /\ Total(WithPools(x, p)) = Total(p)
<1> DEFINE r == p.rollover
           b == p.purchased
           e == p.earned
<1>1. r \in Nat /\ b \in Nat /\ e \in Nat /\ Total(p) = r + b + e
  BY DEF Pools, Total
<1>2. WithPools(x, p) =
        [x EXCEPT !.rollover = r, !.purchased = b, !.earned = e]
  BY DEF WithPools
<1> HIDE DEF r, b, e
<1>3. WithPools(x, p) =
        [rollover |-> r, purchased |-> b, earned |-> e,
         reserved_xp |-> x.reserved_xp,
         monthly_earn_cap |-> x.monthly_earn_cap,
         monthly_earned |-> x.monthly_earned, grind_locked |-> x.grind_locked]
  BY <1>1, <1>2 DEF Row
<1>4. QED
  BY <1>1, <1>3 DEF Row, Total

LEMMA CreditKeeps ==
    ASSUME NEW x \in Row, NEW a \in Nat, ChecksHold(x),
           NEW pool \in {"earned", "purchased", "rollover"}
    PROVE  /\ CreditXp(x, pool, a) \in Row
           /\ CreditXp(x, pool, a).reserved_xp = x.reserved_xp
           /\ ChecksHold(CreditXp(x, pool, a))
           /\ Total(CreditXp(x, pool, a)) = Total(x) + a
<1> DEFINE r == IF pool = "rollover" THEN a ELSE 0
           p == IF pool = "purchased" THEN a ELSE 0
           e == IF pool = "earned" THEN a ELSE 0
<1>1. r \in Nat /\ p \in Nat /\ e \in Nat /\ r + p + e = a
  OBVIOUS
<1>2. CreditXp(x, pool, a) =
        [x EXCEPT !.rollover = x.rollover + r,
                  !.purchased = x.purchased + p,
                  !.earned = x.earned + e]
  BY DEF CreditXp
<1> HIDE DEF r, p, e
<1>3. CreditXp(x, pool, a) =
        [rollover |-> x.rollover + r, purchased |-> x.purchased + p,
         earned |-> x.earned + e, reserved_xp |-> x.reserved_xp,
         monthly_earn_cap |-> x.monthly_earn_cap,
         monthly_earned |-> x.monthly_earned, grind_locked |-> x.grind_locked]
  BY <1>1, <1>2 DEF Row
<1>4. QED
  BY <1>1, <1>3 DEF Row, ChecksHold, Total

LEMMA RollOverKeeps ==
    ASSUME NEW x \in Row, NEW n \in Nat, NEW q \in 0..4
    PROVE  /\ RollOver(x, n, q) \in Row
           /\ RollOver(x, n, q).reserved_xp = x.reserved_xp
           /\ Total(RollOver(x, n, q)) = Total(x) - x.earned + Transfer(n, q)
<1>1. Transfer(n, q) \in Nat
  BY TransferType
<1>2. RollOver(x, n, q) =
        [x EXCEPT !.rollover = x.rollover + Transfer(n, q), !.earned = 0]
  BY DEF RollOver
<1>3. RollOver(x, n, q) =
        [rollover |-> x.rollover + Transfer(n, q), purchased |-> x.purchased,
         earned |-> 0, reserved_xp |-> x.reserved_xp,
         monthly_earn_cap |-> x.monthly_earn_cap,
         monthly_earned |-> x.monthly_earned, grind_locked |-> x.grind_locked]
  BY <1>1, <1>2 DEF Row
<1>4. QED
  BY <1>1, <1>3 DEF Row, Total

(* An absolute write of pools computed from an older row either gives      *)
(* natural pools or is refused by the CHECKs.                              *)
LEMMA StaleSpend ==
    ASSUME NEW x \in Row, NEW p \in Pools, NEW a \in Nat,
           ChecksHold(WithPools(x, Spend(p, a)))
    PROVE  Spend(p, a) \in Pools
<1>1. p.rollover \in Nat /\ p.purchased \in Nat /\ p.earned \in Nat
  BY DEF Pools
<1>2. FromRollover(p, a) \in Int /\ FromPurchased(p, a) \in Int
      /\ FromEarned(p, a) \in Int
  BY <1>1 DEF FromRollover, FromPurchased, FromEarned, Least
<1> DEFINE r == p.rollover - FromRollover(p, a)
           b == p.purchased - FromPurchased(p, a)
           e == p.earned - FromEarned(p, a)
<1>3. r \in Int /\ b \in Int /\ e \in Int
  BY <1>1, <1>2
<1>4. Spend(p, a) = [rollover |-> r, purchased |-> b, earned |-> e]
  BY DEF Spend
<1>5. WithPools(x, Spend(p, a)) =
        [x EXCEPT !.rollover = r, !.purchased = b, !.earned = e]
  BY <1>4 DEF WithPools
<1> HIDE DEF r, b, e
<1>6. r >= 0 /\ b >= 0 /\ e >= 0
  BY <1>3, <1>5 DEF ChecksHold, Row
<1>7. QED
  BY <1>3, <1>4, <1>6 DEF Pools
=============================================================================
