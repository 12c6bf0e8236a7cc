---------------------------- MODULE XPHoldsProofs ----------------------------
(***************************************************************************)
(* Facts about the sum of the held XP, and what the abstract specification *)
(* guarantees.                                                             *)
(***************************************************************************)
EXTENDS XPHolds, FiniteSetTheorems, TLAPS

(* An interval that starts at 1 has as many elements as its upper end.     *)
LEMMA IntervalSize ==
    ASSUME NEW n \in Nat
    PROVE  IsFiniteSet(1..n) /\ Cardinality(1..n) = n
<1>1. 1 \in Int /\ n \in Int
  OBVIOUS
<1>2. /\ IsFiniteSet(1..n)
      /\ Cardinality(1..n) = IF 1 > n THEN 0 ELSE n - 1 + 1
  BY <1>1, FS_Interval, Zenon
<1>3. QED
  BY <1>2

(* The units of a finite number of calls can be counted.                   *)
LEMMA UnitsFinite ==
    ASSUME IsFiniteSet(Calls), MaxHold \in Nat, NEW h
    PROVE  /\ IsFiniteSet(Units(h))
           /\ Promised(h) \in Nat
<1>1. IsFiniteSet(Calls \X (1..MaxHold))
  BY IntervalSize, FS_Product, Zenon
<1>2. Units(h) \in SUBSET (Calls \X (1..MaxHold))
  BY DEF Units
<1>3. IsFiniteSet(Units(h))
  BY <1>1, <1>2, FS_Subset
<1>4. QED
  BY <1>3, FS_CardinalityType DEF Promised

(* Nothing held means nothing promised.                                    *)
LEMMA NothingPromised ==
    ASSUME MaxHold \in Nat
    PROVE  Promised([c \in Calls |-> 0]) = 0
<1>1. Units([c \in Calls |-> 0]) = {}
  BY DEF Units
<1>2. QED
  BY <1>1, FS_EmptySet DEF Promised

(* When a call that holds nothing takes a units, the sum grows by a.       *)
LEMMA HoldAdds ==
    ASSUME IsFiniteSet(Calls), MaxHold \in Nat,
           NEW h \in [Calls -> 0..MaxHold], NEW c \in Calls,
           NEW a \in 0..MaxHold, h[c] = 0
    PROVE  Promised([h EXCEPT ![c] = a]) = Promised(h) + a
<1> DEFINE g == [h EXCEPT ![c] = a]
           new == {c} \X (1..a)
<1>1. Units(g) = Units(h) \cup new
  <2>1. ASSUME NEW u \in Units(g) PROVE u \in Units(h) \cup new
    <3>1. u \in Calls \X (1..MaxHold) /\ u[2] <= g[u[1]]
      BY DEF Units
    <3>2. CASE u[1] = c
      BY <3>1, <3>2
    <3>3. CASE u[1] # c
      BY <3>1, <3>3 DEF Units
    <3>4. QED
      BY <3>2, <3>3
  <2>2. ASSUME NEW u \in Units(h) PROVE u \in Units(g)
    <3>1. u \in Calls \X (1..MaxHold) /\ u[2] <= h[u[1]]
      BY DEF Units
    <3>2. u[1] # c
      BY <3>1
    <3>3. QED
      BY <3>1, <3>2 DEF Units
  <2>3. ASSUME NEW u \in new PROVE u \in Units(g)
    BY DEF Units
  <2>4. QED
    BY <2>1, <2>2, <2>3
<1>2. Units(h) \cap new = {}
  BY DEF Units
<1>3. IsFiniteSet(new) /\ Cardinality(new) = a
  <2>1. IsFiniteSet(1..a) /\ Cardinality(1..a) = a
    BY IntervalSize
  <2>2. IsFiniteSet({c}) /\ Cardinality({c}) = 1
    BY FS_Singleton, Zenon
  <2>3. /\ IsFiniteSet({c} \X (1..a))
        /\ Cardinality({c} \X (1..a)) = Cardinality({c}) * Cardinality(1..a)
    BY <2>1, <2>2, FS_Product, Zenon
  <2>4. QED
    BY <2>1, <2>2, <2>3
<1>4. IsFiniteSet(Units(h)) /\ Cardinality(Units(h)) \in Nat
  BY UnitsFinite DEF Promised
<1>5. Cardinality(Units(h) \cap new) = 0
  BY <1>2, FS_EmptySet
<1>6. Cardinality(Units(g)) = Cardinality(Units(h)) + a
  <2> HIDE DEF g, new
  <2>1. Cardinality(Units(h) \cup new)
          = Cardinality(Units(h)) + Cardinality(new)
            - Cardinality(Units(h) \cap new)
    BY <1>3, <1>4, FS_Union, Zenon
  <2>2. QED
    BY <1>1, <1>3, <1>4, <1>5, <2>1
<1>7. QED
  BY <1>6 DEF Promised

(* When a call lets go, the sum shrinks by what it held.                   *)
LEMMA LetGoSubtracts ==
    ASSUME IsFiniteSet(Calls), MaxHold \in Nat,
           NEW h \in [Calls -> 0..MaxHold], NEW c \in Calls
    PROVE  /\ Promised([h EXCEPT ![c] = 0]) = Promised(h) - h[c]
           /\ h[c] <= Promised(h)
<1> DEFINE g == [h EXCEPT ![c] = 0]
<1>1. g \in [Calls -> 0..MaxHold] /\ g[c] = 0 /\ h[c] \in 0..MaxHold
  OBVIOUS
<1>2. [g EXCEPT ![c] = h[c]] = h
  OBVIOUS
<1>3. Promised([g EXCEPT ![c] = h[c]]) = Promised(g) + h[c]
  <2> HIDE DEF g
  <2> QED BY <1>1, HoldAdds
<1>4. Promised(g) \in Nat
  BY UnitsFinite
<1>5. Promised(h) = Promised(g) + h[c]
  BY <1>2, <1>3
<1>6. QED
  BY <1>1, <1>4, <1>5

(* The guarantee of the abstract specification: in every behaviour it      *)
(* allows, the XP promised to the calls is owned.                          *)
HoldsBacked == Promised(held) <= balance

THEOREM HoldsAreBacked ==
    ASSUME IsFiniteSet(Calls), MaxHold \in Nat
    PROVE  HSpec => []HoldsBacked
<1> DEFINE IInv == balance \in Nat /\ HoldsBacked
<1>1. HInit => IInv
  BY NothingPromised DEF HInit, HoldsBacked
<1>2. IInv /\ [HNext]_holdVars => IInv'
  <2> SUFFICES ASSUME IInv, [HNext]_holdVars
               PROVE  IInv'
    OBVIOUS
  <2> USE DEF HoldsBacked
  <2>1. CASE Rebalance
    BY <2>1 DEF Rebalance
  <2>2. ASSUME NEW c \in Calls, Hold(c) PROVE IInv'
    BY <2>2 DEF Hold
  <2>3. ASSUME NEW c \in Calls, LetGo(c) PROVE IInv'
    <3>1. Units(held') \in SUBSET Units(held)
      BY <2>3 DEF LetGo, Units
    <3>2. Promised(held') <= Promised(held)
      BY <3>1, UnitsFinite, FS_Subset DEF Promised
    <3>3. Promised(held) \in Nat /\ Promised(held') \in Nat
      BY UnitsFinite
    <3>4. balance' = balance
      BY <2>3 DEF LetGo
    <3>5. QED
      BY <3>2, <3>3, <3>4
  <2>4. CASE UNCHANGED holdVars
    BY <2>4 DEF holdVars
  <2>5. QED
    BY <2>1, <2>2, <2>3, <2>4 DEF HNext
<1>3. QED
  BY <1>1, <1>2, PTL DEF HSpec
=============================================================================
