---------------------------- MODULE BillingProofs ----------------------------
(***************************************************************************)
(* Proofs about Billing for any number of calls, any prices, any tier and  *)
(* any bounds.                                                             *)
(*                                                                         *)
(* The inductive invariant IInv joins the types, the table's CHECKs, what  *)
(* a holder may hold and the ledger itself.  HolderOK is what makes the    *)
(* ledger inductive: without it a call could reserve on top of XP it       *)
(* already holds and the sum would not follow.                             *)
(***************************************************************************)
EXTENDS Billing, UserXPProofs, TLAPS

HP == INSTANCE XPHoldsProofs WITH Calls <- Charges, MaxHold <- MaxEstimate,
                                  balance <- Total(xp)

IInv == TypeOK /\ ChecksHold(xp) /\ HolderOK /\ ReservationLedger

(* The sums of XPHolds, as this module's instance of it names them.        *)
LEMMA Promises ==
    ASSUME NEW h
    PROVE  H!Promised(h) \in Nat
<1>1. HP!Promised(h) \in Nat
  BY HP!UnitsFinite, FiniteCharges, EstimateType
     DEF HP!IsFiniteSet, IsFiniteSet
<1>2. QED
  BY <1>1 DEF H!Promised, HP!Promised, H!Units, HP!Units, H!Cardinality, HP!Cardinality

LEMMA PromiseOfNothing == H!Promised([c \in Charges |-> 0]) = 0
<1>1. HP!Promised([c \in Charges |-> 0]) = 0
  BY HP!NothingPromised, EstimateType
<1>2. QED
  BY <1>1 DEF H!Promised, HP!Promised, H!Units, HP!Units, H!Cardinality, HP!Cardinality

LEMMA PromiseMade ==
    ASSUME NEW h \in [Charges -> 0..MaxEstimate], NEW c \in Charges,
           NEW a \in 0..MaxEstimate, h[c] = 0
    PROVE  H!Promised([h EXCEPT ![c] = a]) = H!Promised(h) + a
<1>1. HP!Promised([h EXCEPT ![c] = a]) = HP!Promised(h) + a
  BY HP!HoldAdds, FiniteCharges, EstimateType
     DEF HP!IsFiniteSet, IsFiniteSet
<1>2. QED
  BY <1>1 DEF H!Promised, HP!Promised, H!Units, HP!Units, H!Cardinality, HP!Cardinality

LEMMA PromiseKept ==
    ASSUME NEW h \in [Charges -> 0..MaxEstimate], NEW c \in Charges
    PROVE  /\ H!Promised([h EXCEPT ![c] = 0]) = H!Promised(h) - h[c]
           /\ h[c] <= H!Promised(h)
<1>1. /\ HP!Promised([h EXCEPT ![c] = 0]) = HP!Promised(h) - h[c]
      /\ h[c] <= HP!Promised(h)
  BY HP!LetGoSubtracts, FiniteCharges, EstimateType
     DEF HP!IsFiniteSet, IsFiniteSet
<1>2. QED
  BY <1>1 DEF H!Promised, HP!Promised, H!Units, HP!Units, H!Cardinality, HP!Cardinality

-----------------------------------------------------------------------------
(* A step of a call that moves its label and nothing the invariant reads.  *)
LEMMA LabelSteps ==
    ASSUME IInv, NEW r \in Calls, NEW l \in LabelSet,
           pc' = [pc EXCEPT ![r] = l],
           r \in Charges /\ held[r] > 0 => l \in Settled \cup {"finalize",
                                             "deduct", "write", "cancel"},
           cost' \in [Charges -> Nat], seen' \in [Charges -> Pools],
           UNCHANGED astray \/ \E c \in Charges : astray' = astray \cup {c},
           UNCHANGED <<xp, held, cycleOver, jobVars, cycles, history>>
    PROVE  IInv'
<1>1. TypeOK'
  BY DEF IInv, TypeOK, jobVars, history
<1>2. ChecksHold(xp)'
  BY DEF IInv
<1>3. HolderOK'
  BY DEF IInv, HolderOK, TypeOK, Settled
<1>4. ReservationLedger'
  BY DEF IInv, ReservationLedger
<1>5. QED
  BY <1>1, <1>2, <1>3, <1>4 DEF IInv

(* A step that writes the row but neither its reserved_xp nor held.        *)
LEMMA RowSteps ==
    ASSUME IInv, TypeOK', ChecksHold(xp'),
           xp'.reserved_xp = xp.reserved_xp,
           \/ UNCHANGED pc
           \/ \E r \in Calls, l \in LabelSet :
                 /\ pc' = [pc EXCEPT ![r] = l]
                 /\ r \in Charges /\ held[r] > 0 => l \in Settled,
           UNCHANGED held
    PROVE  IInv'
<1>1. ChecksHold(xp)'
  BY DEF ChecksHold, Total
<1>2. HolderOK'
  <2>1. CASE UNCHANGED pc
    BY <2>1 DEF IInv, HolderOK
  <2>2. ASSUME NEW r \in Calls, NEW l \in LabelSet,
               pc' = [pc EXCEPT ![r] = l],
               r \in Charges /\ held[r] > 0 => l \in Settled
        PROVE  HolderOK'
    <3>1. ASSUME NEW c \in Charges, held[c] > 0
          PROVE  /\ held[c] = Estimate[c]
                 /\ pc'[c] \notin {"idle", "reset", "read", "reserve"}
      <4>1. /\ held[c] = Estimate[c]
            /\ pc[c] \notin {"idle", "reset", "read", "reserve"}
        BY <3>1 DEF IInv, HolderOK
      <4>2. CASE c = r
        BY <2>2, <3>1, <4>1, <4>2 DEF IInv, TypeOK, Settled
      <4>3. CASE c # r
        BY <2>2, <4>1, <4>3 DEF IInv, TypeOK, Calls
      <4>4. QED
        BY <4>2, <4>3
    <3>2. QED
      BY <3>1 DEF HolderOK
  <2>3. QED
    BY <2>1, <2>2
<1>3. ReservationLedger'
  BY DEF IInv, ReservationLedger
<1>4. QED
  BY <1>1, <1>2, <1>3 DEF IInv

(* release_xp_reservation, as finalize and cancel call it: it gives back   *)
(* what it was sent, or nothing changes but the record of a failure.       *)
Taken(c, sent) ==
    /\ CanRelease(xp, sent)
    /\ xp' = ReleaseXp(xp, sent)
    /\ held' = [held EXCEPT ![c] = 0]
    /\ UNCHANGED astray

NotTaken(c) ==
    /\ UNCHANGED <<xp, held>>
    /\ UNCHANGED astray \/ astray' = astray \cup {c}

LEMMA ReleaseCases ==
    ASSUME NEW c \in Charges, NEW sent, Released(c, sent)
    PROVE  Taken(c, sent) \/ NotTaken(c)
BY DEF Released, Taken, NotTaken

LEMMA ReleaseSteps ==
    ASSUME IInv, NEW c \in Charges, NEW sent \in {0, held[c]},
           NEW l \in {"deduct", "cancelled"},
           pc' = [pc EXCEPT ![c] = l], Released(c, sent),
           UNCHANGED <<cycleOver, cost, seen, jobVars, cycles, history>>
    PROVE  IInv'
<1> c \in Calls
  BY DEF Calls
<1>1. CASE Taken(c, sent)
  <2>1. sent = held[c] /\ held[c] > 0 /\ held[c] \in 0..MaxEstimate
    BY <1>1, EstimateType DEF Taken, CanRelease, IInv, TypeOK
  <2>2. /\ xp' = [xp EXCEPT !.reserved_xp = xp.reserved_xp - held[c]]
        /\ held' = [held EXCEPT ![c] = 0]
    BY <1>1, <2>1 DEF Taken, ReleaseXp
  <2>3. xp.reserved_xp \in Nat /\ xp.reserved_xp >= held[c]
    BY <1>1, <2>1 DEF Taken, CanRelease, IInv, TypeOK, Row
  <2>4. TypeOK'
    <3>1. xp' \in Row
      BY <2>1, <2>2, <2>3 DEF IInv, TypeOK, Row
    <3>2. held' \in [Charges -> 0..MaxEstimate]
      BY <2>2, EstimateType DEF IInv, TypeOK
    <3>3. pc' \in [Calls -> LabelSet]
      BY DEF IInv, TypeOK, LabelSet, Settled, Running
    <3>4. QED
      BY <1>1, <3>1, <3>2, <3>3 DEF Taken, IInv, TypeOK, jobVars, history
  <2>5. ChecksHold(xp')
    BY <2>1, <2>2, <2>3 DEF IInv, TypeOK, Row, ChecksHold, Total
  <2>6. HolderOK'
    BY <2>2 DEF IInv, TypeOK, HolderOK
  <2>7. ReservationLedger'
    <3>1. H!Promised(held') = H!Promised(held) - held[c]
      BY <2>2, PromiseKept DEF IInv, TypeOK
    <3>2. QED
      BY <2>2, <3>1 DEF IInv, TypeOK, Row, ReservationLedger
  <2>8. ChecksHold(xp)'
    BY <2>5 DEF ChecksHold, Total
  <2>9. QED
    BY <2>4, <2>6, <2>7, <2>8 DEF IInv
<1>2. CASE NotTaken(c)
  <2>1. /\ UNCHANGED <<xp, held>>
        /\ UNCHANGED astray \/ astray' = astray \cup {c}
    BY <1>2 DEF NotTaken
  <2>2. l \in LabelSet
    BY DEF LabelSet, Settled, Running
  <2>3. QED
    BY <2>1, <2>2, LabelSteps DEF IInv, TypeOK, Settled
<1>3. QED
  BY <1>1, <1>2, ReleaseCases
-----------------------------------------------------------------------------
(* One lemma per action that does more than move a label.                  *)
LEMMA ReserveStep ==
    ASSUME IInv, NEW c \in Charges, Reserve(c)
    PROVE  IInv'
<1> c \in Calls
  BY DEF Calls
<1>h. held[c] = 0
  BY DEF IInv, TypeOK, HolderOK, Reserve
<1>e. Estimate[c] \in 0..MaxEstimate /\ MaxEstimate \in Nat
  BY EstimateType
<1>1. CASE CanReserve(xp, Estimate[c])
  <2>1. /\ xp' = [xp EXCEPT !.reserved_xp = xp.reserved_xp + Estimate[c]]
        /\ held' = [held EXCEPT ![c] = Estimate[c]]
        /\ pc' = [pc EXCEPT ![c] = "working"]
        /\ UNCHANGED <<cycleOver, cost, seen, jobVars, cycles, astray, history>>
    BY <1>1 DEF Reserve, ReserveXp, Goto
  <2>2. TypeOK'
    <3>1. xp' \in Row
      BY <2>1, <1>e DEF IInv, TypeOK, Row
    <3>2. held' \in [Charges -> 0..MaxEstimate]
      BY <2>1, <1>e DEF IInv, TypeOK
    <3>3. pc' \in [Calls -> LabelSet]
      BY <2>1 DEF IInv, TypeOK, LabelSet, Settled, Running
    <3>4. QED
      BY <2>1, <3>1, <3>2, <3>3 DEF IInv, TypeOK, jobVars, history
  <2>3. ChecksHold(xp)'
    <3>1. ChecksHold(ReserveXp(xp, Estimate[c]))
      BY <1>1, <1>e, GuardsKeepChecks DEF IInv, TypeOK
    <3>2. QED
      BY <2>1, <3>1 DEF ReserveXp, ChecksHold, Total
  <2>4. HolderOK'
    <3>1. ASSUME NEW d \in Charges, held'[d] > 0
          PROVE  /\ held'[d] = Estimate[d]
                 /\ pc'[d] \notin {"idle", "reset", "read", "reserve"}
      <4>1. CASE d = c
        BY <2>1, <4>1 DEF IInv, TypeOK
      <4>2. CASE d # c
        BY <2>1, <3>1, <4>2 DEF IInv, TypeOK, HolderOK, Calls
      <4>3. QED
        BY <4>1, <4>2
    <3>2. QED
      BY <3>1 DEF HolderOK
  <2>5. ReservationLedger'
    <3>1. H!Promised(held') = H!Promised(held) + Estimate[c]
      BY <2>1, <1>h, <1>e, PromiseMade DEF IInv, TypeOK
    <3>2. QED
      BY <2>1, <3>1, <1>e DEF IInv, TypeOK, Row, ReservationLedger
  <2>6. QED
    BY <2>2, <2>3, <2>4, <2>5 DEF IInv
<1>2. CASE ~CanReserve(xp, Estimate[c])
  <2>1. /\ pc' = [pc EXCEPT ![c] = "refused"]
        /\ UNCHANGED <<xp, held, cycleOver, cost, seen, jobVars, cycles,
                       astray, history>>
    BY <1>2 DEF Reserve, Goto
  <2>2. "refused" \in LabelSet /\ "refused" \in Settled
    BY DEF LabelSet, Settled
  <2>3. cost' \in [Charges -> Nat] /\ seen' \in [Charges -> Pools]
    BY <2>1 DEF IInv, TypeOK
  <2>4. QED
    BY <2>1, <2>2, <2>3, LabelSteps
<1>3. QED
  BY <1>1, <1>2

LEMMA WritePoolsStep ==
    ASSUME IInv, NEW c \in Charges, WritePools(c)
    PROVE  IInv'
<1> c \in Calls
  BY DEF Calls
<1> DEFINE new == WithPools(xp, Spend(seen[c], cost[c]))
<1>s. seen' \in [Charges -> Pools]
  BY DEF WritePools, IInv, TypeOK, Pools, NoPools
<1>1. CASE ChecksHold(new)
  <2>1. /\ xp' = new
        /\ pc' = [pc EXCEPT ![c] = "charged"]
        /\ due' = due - cost[c]
        /\ clobbered' \in {clobbered, clobbered \cup {c}}
        /\ UNCHANGED <<held, cycleOver, cost, jobVars, cycles, astray,
                       cycleAwards, resets>>
    BY <1>1 DEF WritePools, Goto
  <2>2. xp' \in Row /\ xp'.reserved_xp = xp.reserved_xp
    <3>1. xp \in Row /\ seen[c] \in Pools /\ cost[c] \in Nat
      BY DEF IInv, TypeOK
    <3>2. Spend(seen[c], cost[c]) \in Pools
      BY <1>1, <3>1, StaleSpend
    <3>3. QED
      BY <2>1, <3>1, <3>2, PoolsKeep
  <2>3. TypeOK'
    <3>1. pc' \in [Calls -> LabelSet]
      BY <2>1 DEF IInv, TypeOK, LabelSet, Settled, Running
    <3>2. due' \in Int
      BY <2>1 DEF IInv, TypeOK
    <3>3. QED
      BY <1>s, <2>1, <2>2, <3>1, <3>2 DEF IInv, TypeOK, jobVars
  <2>4. "charged" \in LabelSet /\ "charged" \in Settled
    BY DEF LabelSet, Settled
  <2>5. QED
    BY <1>1, <2>1, <2>2, <2>3, <2>4, RowSteps
<1>2. CASE ~ChecksHold(new)
  <2>1. /\ pc' = [pc EXCEPT ![c] = "unpaid"]
        /\ UNCHANGED <<xp, held, cycleOver, cost, jobVars, cycles, astray,
                       history>>
    BY <1>2 DEF WritePools, Goto, history
  <2>2. "unpaid" \in LabelSet /\ "unpaid" \in Settled
    BY DEF LabelSet, Settled
  <2>3. cost' \in [Charges -> Nat]
    BY <2>1 DEF IInv, TypeOK
  <2>4. QED
    BY <1>s, <2>1, <2>2, <2>3, LabelSteps
<1>3. QED
  BY <1>1, <1>2

LEMMA ResetCycleStep ==
    ASSUME IInv, NEW r \in Calls, ResetCycle(r)
    PROVE  IInv'
<1>l. AfterReset(r) \in LabelSet
  BY DEF AfterReset, LabelSet, Running
<1>1. /\ xp' = ResetGrind(xp, GrindCap)
      /\ pc' = [pc EXCEPT ![r] = AfterReset(r)]
      /\ cycleOver' = FALSE
      /\ cycleAwards' \in {0, cycleAwards} /\ resets' \in {1, resets + 1}
      /\ UNCHANGED <<held, cost, seen, jobVars, cycles, astray, due,
                     clobbered>>
  BY DEF ResetCycle, Goto
<1>2. xp' \in Row /\ xp'.reserved_xp = xp.reserved_xp /\ ChecksHold(xp')
  BY <1>1, LimitTypes, ResetKeeps DEF IInv, TypeOK
<1>3. TypeOK'
  <2>1. pc' \in [Calls -> LabelSet]
    BY <1>1, <1>l DEF IInv, TypeOK
  <2>2. cycleOver' \in BOOLEAN
    BY <1>1
  <2>3. cycleAwards' \in Nat /\ resets' \in Nat
    <3>1. cycleAwards \in Nat /\ resets \in Nat
      BY DEF IInv, TypeOK
    <3>2. QED
      BY <1>1, <3>1
  <2>4. QED
    BY <1>1, <1>2, <2>1, <2>2, <2>3 DEF IInv, TypeOK, jobVars
<1>4. r \in Charges /\ held[r] > 0 => FALSE
  BY DEF IInv, TypeOK, HolderOK, ResetCycle
<1>5. QED
  BY <1>1, <1>2, <1>3, <1>4, <1>l, RowSteps

LEMMA AwardStep ==
    ASSUME IInv, NEW e \in Earns, NEW a \in Rewards, Award(e, a)
    PROVE  IInv'
<1> e \in Calls /\ a \in Nat /\ e \notin Charges
  BY AmountTypes, DisjointCalls DEF Calls
<1>a. AwardOf(xp, a) \in Nat
  BY AwardType DEF IInv, TypeOK
<1>1. /\ xp' = AwardGrindXp(xp, a)
      /\ pc' = [pc EXCEPT ![e] = "paid"]
      /\ due' = due + AwardOf(xp, a)
      /\ cycleAwards' = cycleAwards + AwardOf(xp, a)
      /\ UNCHANGED <<cycleOver, held, cost, seen, jobVars, cycles, astray,
                     clobbered, resets>>
  BY DEF Award, Goto
<1>2. xp' \in Row /\ xp'.reserved_xp = xp.reserved_xp /\ ChecksHold(xp')
  BY <1>1, AwardKeeps DEF IInv, TypeOK
<1>3. "paid" \in LabelSet /\ "paid" \in Settled
  BY DEF LabelSet, Settled
<1>4. TypeOK'
  <2>1. pc' \in [Calls -> LabelSet]
    BY <1>1, <1>3 DEF IInv, TypeOK
  <2>2. QED
    BY <1>1, <1>2, <1>a, <2>1 DEF IInv, TypeOK, jobVars
<1>5. QED
  BY <1>1, <1>2, <1>3, <1>4, RowSteps

LEMMA CreditStep ==
    ASSUME IInv, NEW pool \in {"earned", "purchased", "rollover"},
           NEW a \in TopUps, Credit(pool, a)
    PROVE  IInv'
<1> a \in Nat
  BY AmountTypes
<1>1. /\ xp' = CreditXp(xp, pool, a)
      /\ due' = due + a
      /\ UNCHANGED <<cycleOver, pc, held, cost, seen, jobVars, cycles, astray,
                     clobbered, cycleAwards, resets>>
  BY DEF Credit
<1>2. xp' \in Row /\ xp'.reserved_xp = xp.reserved_xp /\ ChecksHold(xp')
  BY <1>1, CreditKeeps DEF IInv, TypeOK
<1>3. TypeOK'
  BY <1>1, <1>2 DEF IInv, TypeOK, jobVars
<1>4. QED
  BY <1>1, <1>2, <1>3, RowSteps

LEMMA JobWritesStep ==
    ASSUME IInv, JobWrites
    PROVE  IInv'
<1> DEFINE new == RollOver(xp, jobSeen, Quarters)
<1>q. jobSeen \in Nat /\ Transfer(jobSeen, Quarters) \in Nat
  BY TransferType, LimitTypes DEF IInv, TypeOK, JobWrites
<1>j. jobSeen' \in Nat \cup {NotRunning}
  BY DEF JobWrites
<1>1. /\ xp' \in {new, xp} /\ ChecksHold(xp')
      /\ due' \in {due, due - (jobSeen - Transfer(jobSeen, Quarters))}
      /\ clobbered' \in {clobbered, clobbered \cup {"rollover"}}
      /\ UNCHANGED <<cycleOver, pc, held, cost, seen, cycles, rollovers, astray,
                     cycleAwards, resets>>
  BY DEF JobWrites, IInv
<1>2. xp' \in Row /\ xp'.reserved_xp = xp.reserved_xp
  <2>1. xp \in Row /\ Quarters \in 0..4
    BY LimitTypes DEF IInv, TypeOK
  <2>2. new \in Row /\ new.reserved_xp = xp.reserved_xp
    BY <1>q, <2>1, RollOverKeeps
  <2>3. QED
    BY <1>1, <2>1, <2>2
<1>3. due' \in Int
  BY <1>1, <1>q DEF IInv, TypeOK
<1>4. TypeOK'
  BY <1>1, <1>2, <1>3, <1>j DEF IInv, TypeOK
<1>5. QED
  BY <1>1, <1>2, <1>4, RowSteps

-----------------------------------------------------------------------------
LEMMA FirstState == Init => IInv
<1> SUFFICES ASSUME Init PROVE IInv
  OBVIOUS
<1>1. TypeOK
  <2>1. xp \in Row
    BY LimitTypes DEF Init, Row
  <2>2. pc \in [Calls -> LabelSet]
    BY DEF Init, LabelSet
  <2>3. /\ held \in [Charges -> 0..MaxEstimate]
        /\ cost \in [Charges -> Nat]
        /\ seen \in [Charges -> Pools]
    BY EstimateType DEF Init, Pools, NoPools
  <2>4. QED
    BY <2>1, <2>2, <2>3, LimitTypes DEF Init, TypeOK
<1>2. ChecksHold(xp)
  BY LimitTypes DEF Init, ChecksHold, Total
<1>3. HolderOK
  BY DEF Init, HolderOK
<1>4. ReservationLedger
  BY PromiseOfNothing DEF Init, ReservationLedger
<1>5. QED
  BY <1>1, <1>2, <1>3, <1>4 DEF IInv

LEMMA EveryStep == IInv /\ [Next]_vars => IInv'
<1> SUFFICES ASSUME IInv, [Next]_vars PROVE IInv'
  OBVIOUS
<1> USE DEF history, jobVars
<1>1. ASSUME NEW r \in Calls, CheckCycle(r) PROVE IInv'
  <2>1. CASE cycleOver
    BY <1>1, <2>1, LabelSteps
       DEF CheckCycle, Goto, LabelSet, Running, IInv, TypeOK, HolderOK
  <2>2. CASE ~cycleOver
    <3>1. AfterReset(r) \in LabelSet
      BY DEF AfterReset, LabelSet, Running
    <3>2. QED
      BY <1>1, <2>2, <3>1, LabelSteps
         DEF CheckCycle, Goto, IInv, TypeOK, HolderOK
  <2>3. QED
    BY <2>1, <2>2
<1>2. ASSUME NEW r \in Calls, ResetCycle(r) PROVE IInv'
  BY <1>2, ResetCycleStep
<1>3. ASSUME NEW c \in Charges, ReadBalance(c) PROVE IInv'
  <2>1. PICK l \in {"refused", "reserve"} : pc' = [pc EXCEPT ![c] = l]
    BY <1>3 DEF ReadBalance, Goto
  <2>2. l \in LabelSet /\ c \in Calls
    BY DEF LabelSet, Settled, Running, Calls
  <2>3. QED
    BY <1>3, <2>1, <2>2, LabelSteps
       DEF ReadBalance, IInv, TypeOK, HolderOK
<1>4. ASSUME NEW c \in Charges, Reserve(c) PROVE IInv'
  BY <1>4, ReserveStep
<1>5. ASSUME NEW c \in Charges, NEW n \in Costs, ModelAnswers(c, n)
      PROVE  IInv'
  <2>1. "finalize" \in LabelSet /\ c \in Calls /\ n \in Nat
    BY AmountTypes DEF LabelSet, Running, Calls
  <2>2. cost' \in [Charges -> Nat] /\ seen' \in [Charges -> Pools]
    BY <1>5, <2>1 DEF ModelAnswers, IInv, TypeOK
  <2>3. QED
    BY <1>5, <2>1, <2>2, LabelSteps DEF ModelAnswers, Goto
<1>6. ASSUME NEW c \in Charges, ModelFails(c) PROVE IInv'
  <2>1. "cancel" \in LabelSet /\ c \in Calls
    BY DEF LabelSet, Running, Calls
  <2>2. cost' \in [Charges -> Nat] /\ seen' \in [Charges -> Pools]
    BY <1>6 DEF ModelFails, IInv, TypeOK
  <2>3. QED
    BY <1>6, <2>1, <2>2, LabelSteps DEF ModelFails, Goto
<1>7. ASSUME NEW c \in Charges, FinalizeRelease(c) PROVE IInv'
  <2>1. PICK sent \in {0, held[c]} : Released(c, sent)
    BY <1>7 DEF FinalizeRelease
  <2>2. QED
    BY <1>7, <2>1, ReleaseSteps DEF FinalizeRelease, Goto
<1>8. ASSUME NEW c \in Charges, Cancel(c) PROVE IInv'
  BY <1>8, ReleaseSteps DEF Cancel, Goto
<1>9. ASSUME NEW c \in Charges, ReadPools(c) PROVE IInv'
  <2>1. PICK l \in {"unpaid", "write"} : pc' = [pc EXCEPT ![c] = l]
    BY <1>9 DEF ReadPools, Goto
  <2>2. l \in LabelSet /\ l \in Settled \cup {"write"} /\ c \in Calls
    BY DEF LabelSet, Settled, Running, Calls
  <2>3. PoolsOf(xp) \in Pools
    BY DEF PoolsOf, Pools, IInv, TypeOK, Row
  <2>4. cost' \in [Charges -> Nat] /\ seen' \in [Charges -> Pools]
    BY <1>9, <2>3 DEF ReadPools, IInv, TypeOK
  <2>5. QED
    BY <1>9, <2>1, <2>2, <2>4, LabelSteps DEF ReadPools
<1>10. ASSUME NEW c \in Charges, WritePools(c) PROVE IInv'
  BY <1>10, WritePoolsStep
<1>11. ASSUME NEW r \in Calls, Dies(r) PROVE IInv'
  <2>1. "dead" \in LabelSet /\ "dead" \in Settled
    BY DEF LabelSet, Settled
  <2>2. cost' \in [Charges -> Nat] /\ seen' \in [Charges -> Pools]
    BY <1>11 DEF Dies, IInv, TypeOK
  <2>3. QED
    BY <1>11, <2>1, <2>2, LabelSteps DEF Dies, Goto
<1>12. ASSUME NEW e \in Earns, NEW a \in Rewards, Award(e, a) PROVE IInv'
  BY <1>12, AwardStep
<1>12b. ASSUME NEW e \in Earns, RefuseEarn(e) PROVE IInv'
  <2>1. "refused" \in LabelSet /\ e \in Calls /\ e \notin Charges
    BY DisjointCalls DEF LabelSet, Settled, Calls
  <2>2. cost' \in [Charges -> Nat] /\ seen' \in [Charges -> Pools]
    BY <1>12b DEF RefuseEarn, IInv, TypeOK
  <2>3. QED
    BY <1>12b, <2>1, <2>2, LabelSteps DEF RefuseEarn, Goto
<1>13. ASSUME NEW pool \in {"earned", "purchased", "rollover"},
              NEW a \in TopUps, Credit(pool, a)
       PROVE  IInv'
  BY <1>13, CreditStep
<1>14. CASE JobReads
  <2>1. TypeOK'
    BY <1>14 DEF JobReads, IInv, TypeOK, Row
  <2>2. QED
    BY <1>14, <2>1, RowSteps DEF JobReads, IInv
<1>15. CASE JobWrites
  BY <1>15, JobWritesStep
<1>16. CASE CycleEnds
  <2>1. TypeOK'
    BY <1>16 DEF CycleEnds, IInv, TypeOK
  <2>2. QED
    BY <1>16, <2>1, RowSteps DEF CycleEnds, IInv
<1>17. CASE UNCHANGED vars
  <2>1. TypeOK'
    BY <1>17 DEF vars, IInv, TypeOK
  <2>2. QED
    BY <1>17, <2>1, RowSteps DEF vars, IInv
<1>18. QED
  BY <1>1, <1>2, <1>3, <1>4, <1>5, <1>6, <1>7, <1>8, <1>9, <1>10, <1>11,
     <1>12, <1>12b, <1>13, <1>14, <1>15, <1>16, <1>17
     DEF Next, Progress, Earning, Outside, Calls

LEMMA Invariance == Spec => []IInv
BY FirstState, EveryStep, PTL DEF Spec

(* Every variable of billing keeps its type; in particular no statement    *)
(* ever leaves a negative pool in the row.                                 *)
THEOREM TypeCorrect == Spec => []TypeOK
<1>1. IInv => TypeOK
  BY DEF IInv
<1>2. QED
  BY <1>1, Invariance, PTL

(* The row's reserved_xp is the sum of what the calls hold, whatever the   *)
(* number of concurrent calls, credits, awards and rollovers.              *)
THEOREM LedgerExact == Spec => []ReservationLedger
<1>1. IInv => ReservationLedger
  BY DEF IInv
<1>2. QED
  BY <1>1, Invariance, PTL

-----------------------------------------------------------------------------
(* Who owns a reservation.  Only a release takes a call out of the labels  *)
(* that give it back, and the ledger covers what it asks for; a call stays *)
(* astray once its release has failed.                                     *)
Owned(c) ==
    held[c] > 0 =>
        \/ pc[c] \in {"working", "finalize", "cancel", "dead"}
        \/ c \in astray
        \/ /\ c \notin ReturnsAmount
           /\ pc[c] \in {"deduct", "write", "charged", "unpaid"}

LEMMA ReleaseIsTaken ==
    ASSUME IInv, NEW c \in Charges, held[c] > 0
    PROVE  CanRelease(xp, held[c])
<1>1. held \in [Charges -> 0..MaxEstimate] /\ MaxEstimate \in Nat
  BY EstimateType DEF IInv, TypeOK
<1>2. xp.reserved_xp = H!Promised(held) /\ held[c] <= H!Promised(held)
  BY <1>1, PromiseKept DEF IInv, ReservationLedger
<1>3. QED
  BY <1>2 DEF CanRelease

LEMMA OwnerStep ==
    ASSUME IInv, ReservationHasOwner, [Next]_vars
    PROVE  ReservationHasOwner'
<1>t. /\ pc \in [Calls -> LabelSet] /\ held \in [Charges -> 0..MaxEstimate]
      /\ \A c \in Charges : c \in Calls /\ Owned(c)
  BY DEF IInv, TypeOK, Calls, ReservationHasOwner, Owned
<1>a. astray \subseteq astray'
  <2>1. ASSUME NEW c \in Charges, NEW sent, Released(c, sent)
        PROVE  astray \subseteq astray'
    BY <2>1 DEF Released
  <2>2. QED
    BY <2>1 DEF Next, Progress, Earning, Outside, vars, CheckCycle, ResetCycle,
         ReadBalance, Reserve, ModelAnswers, ModelFails, FinalizeRelease, Cancel,
         ReadPools, WritePools, Dies, Award, RefuseEarn, Credit, JobReads,
         JobWrites, CycleEnds
<1>1. CASE UNCHANGED <<pc, held>>
  BY <1>1, <1>a DEF ReservationHasOwner
<1>2. ASSUME NEW c \in Charges, Owned(c)',
             \A d \in Charges \ {c} : pc'[d] = pc[d] /\ held'[d] = held[d]
      PROVE  ReservationHasOwner'
  <2>1. ASSUME NEW d \in Charges PROVE Owned(d)'
    <3>1. CASE d = c
      BY <1>2, <3>1
    <3>2. CASE d # c
      BY <1>t, <1>a, <1>2, <3>2 DEF Owned
    <3>3. QED
      BY <3>1, <3>2
  <2>2. QED
    BY <2>1 DEF ReservationHasOwner, Owned
<1>3. ASSUME NEW r \in Calls, r \notin Charges, UNCHANGED held,
             \E l \in LabelSet : pc' = [pc EXCEPT ![r] = l]
      PROVE  ReservationHasOwner'
  BY <1>t, <1>a, <1>3 DEF ReservationHasOwner
<1>4. ASSUME NEW c \in Charges, CheckCycle(c) \/ ResetCycle(c) \/ ReadBalance(c)
      PROVE  ReservationHasOwner'
  BY <1>t, <1>a, <1>2, <1>4 DEF CheckCycle, ResetCycle, ReadBalance, Goto, Owned
<1>5. ASSUME NEW c \in Charges, Reserve(c) PROVE ReservationHasOwner'
  BY <1>t, <1>a, <1>2, <1>5 DEF Reserve, Goto, Owned
<1>6. ASSUME NEW c \in Charges, ModelFails(c) \/ \E n \in Costs : ModelAnswers(c, n)
      PROVE  ReservationHasOwner'
  BY <1>t, <1>a, <1>2, <1>6 DEF ModelFails, ModelAnswers, Goto, Owned
<1>7. ASSUME NEW c \in Charges, FinalizeRelease(c) \/ Cancel(c)
      PROVE  ReservationHasOwner'
  <2>1. PICK sent \in {0, held[c]} :
           /\ Released(c, sent)
           /\ Cancel(c) \/ c \in ReturnsAmount => sent = held[c]
    BY <1>7 DEF FinalizeRelease, Cancel
  <2>2. \A d \in Charges \ {c} : pc'[d] = pc[d] /\ held'[d] = held[d]
    BY <1>t, <1>7, <2>1 DEF FinalizeRelease, Cancel, Released, Goto
  <2>3. Owned(c)'
    <3>1. CASE held[c] = 0
      BY <1>t, <2>1, <3>1 DEF Released, Owned
    <3>2. CASE c \in astray'
      BY <3>2 DEF Owned
    <3>3. CASE held[c] # 0 /\ c \notin astray'
      <4>1. CanRelease(xp, held[c])
        BY <1>t, <3>3, EstimateType, ReleaseIsTaken
      <4>2. CASE Cancel(c) \/ c \in ReturnsAmount
        BY <1>t, <2>1, <3>3, <4>1, <4>2 DEF Released, Owned
      <4>3. CASE FinalizeRelease(c) /\ c \notin ReturnsAmount
        BY <1>t, <4>3 DEF FinalizeRelease, Goto, Owned
      <4>4. QED
        BY <1>7, <4>2, <4>3
    <3>4. QED
      BY <3>1, <3>2, <3>3
  <2>4. QED
    BY <1>2, <2>2, <2>3
<1>8. ASSUME NEW c \in Charges, ReadPools(c) \/ WritePools(c)
      PROVE  ReservationHasOwner'
  BY <1>t, <1>a, <1>2, <1>8 DEF ReadPools, WritePools, Goto, Owned
<1>9. ASSUME NEW r \in Calls, Dies(r) PROVE ReservationHasOwner'
  <2>1. CASE r \in Charges
    BY <1>t, <1>a, <1>2, <1>9, <2>1 DEF Dies, Goto, Owned
  <2>2. CASE r \notin Charges
    <3>1. UNCHANGED held /\ "dead" \in LabelSet
          /\ pc' = [pc EXCEPT ![r] = "dead"]
      BY <1>9 DEF Dies, Goto, LabelSet, Settled
    <3>2. QED
      BY <1>3, <1>9, <2>2, <3>1
  <2>3. QED
    BY <2>1, <2>2
<1>10. ASSUME NEW e \in Earns, Earning(e) PROVE ReservationHasOwner'
  <2>1. e \in Calls /\ e \notin Charges
    BY DisjointCalls DEF Calls
  <2>2. UNCHANGED held /\ \E l \in LabelSet : pc' = [pc EXCEPT ![e] = l]
    BY <1>10, <2>1 DEF Earning, CheckCycle, ResetCycle, RefuseEarn, Award, Goto,
         AfterReset, LabelSet, Settled, Running
  <2>3. QED
    BY <1>3, <2>1, <2>2
<1>11. CASE Outside
  BY <1>1, <1>11 DEF Outside, Credit, JobReads, JobWrites, CycleEnds
<1>12. QED
  BY <1>1, <1>4, <1>5, <1>6, <1>7, <1>8, <1>9, <1>10, <1>11
     DEF Next, Progress, vars

(* Whatever a call holds, it is still on its way to give back, or it has   *)
(* died or its release failed, for any number of calls, prices and         *)
(* failures: any other finished call that sent back what it reserved holds *)
(* nothing, because the counter never refuses a release.                   *)
THEOREM ReservationsAreOwned == Spec => []ReservationHasOwner
<1>1. Init => ReservationHasOwner
  BY DEF Init, ReservationHasOwner
<1>2. IInv /\ ReservationHasOwner /\ [Next]_vars => ReservationHasOwner'
  BY OwnerStep
<1>3. QED
  BY <1>1, <1>2, Invariance, PTL DEF Spec

-----------------------------------------------------------------------------
(* Refinement: every step of Billing is a step of XPHolds or a stutter.    *)
LEMMA FirstHolds == Init => H!HInit
<1>1. Init => Total(xp) \in Nat
  BY LimitTypes DEF Init, Total
<1>2. QED
  BY <1>1 DEF Init, H!HInit

LEMMA NoHoldChange ==
    ASSUME IInv', UNCHANGED held
    PROVE  H!HNext
<1>1. Total(xp') \in Nat /\ Total(xp)' = Total(xp')
  BY DEF IInv, TypeOK, Row, Total
<1>2. H!Promised(held) = xp'.reserved_xp
  BY DEF IInv, ReservationLedger
<1>3. xp'.reserved_xp <= Total(xp)'
  BY DEF IInv, ChecksHold
<1>4. QED
  BY <1>1, <1>2, <1>3 DEF H!HNext, H!Rebalance

LEMMA ReserveHolds ==
    ASSUME IInv, IInv', NEW c \in Charges, Reserve(c)
    PROVE  H!HNext
<1>1. CASE CanReserve(xp, Estimate[c])
  <2>1. held' = [held EXCEPT ![c] = Estimate[c]] /\ xp' = ReserveXp(xp, Estimate[c])
    BY <1>1 DEF Reserve
  <2>2. Estimate[c] > 0 /\ held[c] = 0 /\ held'[c] = Estimate[c]
    BY <1>1, <2>1, EstimateType
       DEF CanReserve, Reserve, IInv, TypeOK, HolderOK
  <2>3. Total(xp)' = Total(xp)
    BY <2>1 DEF ReserveXp, IInv, TypeOK, Row, Total
  <2>4. H!Promised(held') <= Total(xp)
    BY <2>3 DEF IInv, ReservationLedger, ChecksHold
  <2>5. H!Hold(c)
    BY <2>1, <2>2, <2>3, <2>4 DEF H!Hold
  <2>6. QED
    BY <2>5 DEF H!HNext
<1>2. CASE ~CanReserve(xp, Estimate[c])
  BY <1>2, NoHoldChange DEF Reserve
<1>3. QED
  BY <1>1, <1>2

LEMMA ReleaseHolds ==
    ASSUME IInv, IInv', NEW c \in Charges, NEW sent \in {0, held[c]},
           Released(c, sent)
    PROVE  H!HNext
<1>1. CASE Taken(c, sent)
  <2>1. /\ held' = [held EXCEPT ![c] = 0] /\ held[c] > 0
        /\ xp' = [xp EXCEPT !.reserved_xp = xp.reserved_xp - sent]
    BY <1>1, EstimateType DEF Taken, CanRelease, ReleaseXp, IInv, TypeOK
  <2>2. Total(xp)' = Total(xp)
    BY <2>1 DEF IInv, TypeOK, Row, Total
  <2>3. QED
    BY <2>1, <2>2 DEF H!HNext, H!LetGo
<1>2. CASE NotTaken(c)
  BY <1>2, NoHoldChange DEF NotTaken
<1>3. QED
  BY <1>1, <1>2, ReleaseCases

LEMMA StepHolds == IInv /\ IInv' /\ [Next]_vars => H!HNext
<1> SUFFICES ASSUME IInv, IInv', [Next]_vars PROVE H!HNext
  OBVIOUS
<1>1. ASSUME NEW c \in Charges, Reserve(c) PROVE H!HNext
  BY <1>1, ReserveHolds
<1>2. ASSUME NEW c \in Charges, FinalizeRelease(c) PROVE H!HNext
  <2>1. PICK sent \in {0, held[c]} : Released(c, sent)
    BY <1>2 DEF FinalizeRelease
  <2>2. QED
    BY <2>1, ReleaseHolds
<1>3. ASSUME NEW c \in Charges, Cancel(c) PROVE H!HNext
  BY <1>3, ReleaseHolds DEF Cancel
<1>4. CASE UNCHANGED held
  BY <1>4, NoHoldChange
<1>5. QED
  BY <1>1, <1>2, <1>3, <1>4
     DEF Next, Progress, Earning, Outside, vars, CheckCycle, ResetCycle,
         ReadBalance, ModelAnswers, ModelFails, ReadPools, WritePools, Dies,
         Award, RefuseEarn, Credit, JobReads, JobWrites, CycleEnds

(* Billing implements XPHolds: XP set aside for a call stays backed by the *)
(* balance until that call lets it go.                                     *)
THEOREM BillingKeepsPromise == Spec => KeepsPromise
<1>1. IInv /\ IInv' /\ [Next]_vars => [H!HNext]_(H!holdVars)
  BY StepHolds
<1>2. QED
  BY <1>1, FirstHolds, Invariance, PTL DEF Spec, KeepsPromise, H!HSpec

-----------------------------------------------------------------------------
(* The steps that touch money or the grind counters are these; every other *)
(* step leaves the pools, the counters and the history as they are.        *)
SameMoney ==
    /\ Total(xp') = Total(xp)
    /\ UNCHANGED <<xp.monthly_earn_cap, xp.monthly_earned, xp.grind_locked>>
    /\ UNCHANGED history

LEMMA MoneySteps ==
    ASSUME IInv, [Next]_vars
    PROVE  \/ \E r \in Calls : ResetCycle(r)
           \/ \E c \in Charges : WritePools(c)
           \/ \E e \in Earns, a \in Rewards : Award(e, a)
           \/ \E pool \in {"earned", "purchased", "rollover"}, a \in TopUps :
                 Credit(pool, a)
           \/ JobWrites
           \/ SameMoney
<1>1. ASSUME NEW n \in Int,
             xp' = [xp EXCEPT !.reserved_xp = n], UNCHANGED history
      PROVE  SameMoney
  BY <1>1 DEF SameMoney, IInv, TypeOK, Row, Total
<1>2. ASSUME UNCHANGED <<xp, history>> PROVE SameMoney
  BY <1>2 DEF SameMoney
<1>3. ASSUME NEW c \in Charges, Reserve(c) PROVE SameMoney
  <2>1. CASE CanReserve(xp, Estimate[c])
    <3>1. xp.reserved_xp + Estimate[c] \in Int
      BY EstimateType DEF IInv, TypeOK, Row
    <3>2. QED
      BY <1>1, <1>3, <2>1, <3>1 DEF Reserve, ReserveXp
  <2>2. CASE ~CanReserve(xp, Estimate[c])
    BY <1>2, <1>3, <2>2 DEF Reserve
  <2>3. QED
    BY <2>1, <2>2
<1>4. ASSUME NEW c \in Charges, NEW sent \in {0, held[c]},
             Released(c, sent), UNCHANGED history
      PROVE  SameMoney
  <2>1. CASE Taken(c, sent)
    <3>1. xp.reserved_xp - sent \in Int
      BY EstimateType DEF IInv, TypeOK, Row
    <3>2. QED
      BY <1>1, <1>4, <2>1, <3>1 DEF Taken, ReleaseXp
  <2>2. CASE NotTaken(c)
    BY <1>2, <2>2, <1>4 DEF NotTaken
  <2>3. QED
    BY <1>4, <2>1, <2>2, ReleaseCases
<1>5. ASSUME NEW c \in Charges, FinalizeRelease(c) PROVE SameMoney
  <2>1. PICK sent \in {0, held[c]} : Released(c, sent)
    BY <1>5 DEF FinalizeRelease
  <2>2. QED
    BY <1>4, <1>5, <2>1 DEF FinalizeRelease
<1>6. ASSUME NEW c \in Charges, Cancel(c) PROVE SameMoney
  BY <1>4, <1>6 DEF Cancel
<1>7. QED
  BY <1>2, <1>3, <1>5, <1>6
     DEF Next, Progress, Earning, Outside, Calls, vars, history, CheckCycle,
         ReadBalance, ModelAnswers, ModelFails, ReadPools, Dies, RefuseEarn,
         JobReads, CycleEnds

-----------------------------------------------------------------------------
(* The grind counters.  CapInv relates what a cycle has paid out to the    *)
(* counter in the row: every reset but the first lets at most one more cap *)
(* through.                                                                *)
PaidOut ==
    \/ resets = 0 /\ xp.monthly_earn_cap = 0 /\ cycleAwards = 0
    \/ /\ resets > 0
       /\ xp.monthly_earn_cap = GrindCap
       /\ cycleAwards <= GrindCap * (resets - 1) + xp.monthly_earned

CapInv == GrindLockExact /\ PaidOut

LEMMA CapStep == IInv /\ CapInv /\ [Next]_vars => CapInv'
<1> SUFFICES ASSUME IInv, CapInv, [Next]_vars PROVE CapInv'
  OBVIOUS
<1>t. /\ xp \in Row /\ resets \in Nat /\ cycleAwards \in Nat
      /\ GrindCap \in Nat \ {0} /\ xp.monthly_earned \in Nat
      /\ xp.monthly_earn_cap \in Nat
  BY LimitTypes DEF IInv, TypeOK, Row
<1>1. ASSUME UNCHANGED <<xp.monthly_earn_cap, xp.monthly_earned,
                         xp.grind_locked, cycleAwards, resets>>
      PROVE  CapInv'
  BY <1>1 DEF CapInv, GrindLockExact, PaidOut
<1>2. CASE \E r \in Calls : ResetCycle(r)
  <2>1. /\ xp' = ResetGrind(xp, GrindCap)
        /\ \/ cycleAwards' = 0 /\ resets' = 1
           \/ cycleAwards' = cycleAwards /\ resets' = resets + 1
    BY <1>2 DEF ResetCycle
  <2>2. /\ xp'.monthly_earn_cap = GrindCap /\ xp'.monthly_earned = 0
        /\ xp'.grind_locked = FALSE
    BY <1>t, <2>1 DEF ResetGrind, Row
  <2>3. GrindLockExact'
    BY <1>t, <2>2 DEF GrindLockExact
  <2>4. PaidOut'
    <3>1. CASE cycleAwards' = 0 /\ resets' = 1
      BY <1>t, <2>2, <3>1 DEF PaidOut
    <3>2. CASE /\ cycleAwards' = cycleAwards /\ resets' = resets + 1
               /\ resets = 0
      BY <1>t, <2>2, <3>2 DEF PaidOut, CapInv
    <3>3. CASE /\ cycleAwards' = cycleAwards /\ resets' = resets + 1
               /\ resets # 0
      <4>1. /\ cycleAwards <= GrindCap * (resets - 1) + xp.monthly_earned
            /\ xp.monthly_earned <= GrindCap
        BY <1>t, <3>3 DEF CapInv, PaidOut, GrindLockExact
      <4>2. GrindCap * (resets' - 1) = GrindCap * (resets - 1) + GrindCap
        BY <1>t, <3>3
      <4>3. GrindCap * (resets - 1) \in Int
        BY <1>t
      <4>4. cycleAwards' <= GrindCap * (resets' - 1) + 0
        BY <1>t, <3>3, <4>1, <4>2, <4>3
      <4>5. QED
        BY <1>t, <2>2, <3>3, <4>4 DEF PaidOut
    <3>4. QED
      BY <2>1, <3>1, <3>2, <3>3
  <2>5. QED
    BY <2>3, <2>4 DEF CapInv
<1>3. ASSUME NEW e \in Earns, NEW a \in Rewards, Award(e, a)
      PROVE  CapInv'
  <2> DEFINE won == AwardOf(xp, a)
  <2>1. a \in Nat /\ won \in Nat
        /\ xp.monthly_earned + won <= xp.monthly_earn_cap
    BY <1>t, AmountTypes, AwardType DEF CapInv, GrindLockExact
  <2>2. /\ cycleAwards' = cycleAwards + won /\ UNCHANGED resets
        /\ xp' = AwardGrindXp(xp, a)
    BY <1>3 DEF Award
  <2>3. CASE won > 0
    <3>1. /\ xp'.monthly_earn_cap = xp.monthly_earn_cap
          /\ xp'.monthly_earned = xp.monthly_earned + won
          /\ xp'.grind_locked = (xp.monthly_earned + won >= xp.monthly_earn_cap)
      BY <1>t, <2>2, <2>3 DEF AwardGrindXp, Row
    <3> HIDE DEF won
    <3>2. GrindLockExact'
      <4>1. xp'.grind_locked <=> xp'.monthly_earned >= xp'.monthly_earn_cap
        BY <3>1
      <4>2. /\ xp'.monthly_earned \in Nat /\ xp'.monthly_earn_cap \in Nat
            /\ xp'.monthly_earned <= xp'.monthly_earn_cap
            /\ xp'.monthly_earned > 0
        BY <1>t, <2>1, <2>3, <3>1
      <4>3. /\ xp'.monthly_earn_cap > 0
            /\ xp'.monthly_earned >= xp'.monthly_earn_cap
                 <=> xp'.monthly_earned = xp'.monthly_earn_cap
        BY <4>2
      <4>4. QED
        BY <4>1, <4>2, <4>3 DEF GrindLockExact
    <3>3. PaidOut'
      <4>1. resets # 0
        BY <1>t, <2>1, <2>3 DEF CapInv, PaidOut
      <4>2. cycleAwards <= GrindCap * (resets - 1) + xp.monthly_earned
        BY <4>1 DEF CapInv, PaidOut
      <4>3. GrindCap * (resets - 1) \in Int
        BY <1>t
      <4>4. cycleAwards' <= GrindCap * (resets - 1) + xp'.monthly_earned
        BY <1>t, <2>1, <2>2, <3>1, <4>2, <4>3
      <4>5. QED
        BY <1>t, <2>2, <3>1, <4>1, <4>4 DEF CapInv, PaidOut
    <3>4. QED
      BY <3>2, <3>3 DEF CapInv
  <2>4. CASE ~(won > 0)
    <3>1. xp' = xp
      BY <2>2, <2>4 DEF AwardGrindXp
    <3>2. cycleAwards' = cycleAwards
      BY <1>t, <2>1, <2>2, <2>4
    <3>3. QED
      BY <1>1, <2>2, <3>1, <3>2
  <2>5. QED
    BY <2>3, <2>4
<1>4. ASSUME NEW c \in Charges, WritePools(c) PROVE CapInv'
  BY <1>1, <1>4, <1>t DEF WritePools, WithPools, Row
<1>5. ASSUME NEW pool \in {"earned", "purchased", "rollover"},
             NEW a \in TopUps, Credit(pool, a)
      PROVE  CapInv'
  BY <1>1, <1>5, <1>t DEF Credit, CreditXp, Row
<1>6. CASE JobWrites
  BY <1>1, <1>6, <1>t DEF JobWrites, RollOver, Row
<1>7. CASE SameMoney
  BY <1>1, <1>7 DEF SameMoney, history
<1>8. QED
  BY <1>2, <1>3, <1>4, <1>5, <1>6, <1>7, MoneySteps

LEMMA CapInvariance == Spec => []CapInv
<1>1. Init => CapInv
  BY LimitTypes DEF Init, CapInv, GrindLockExact, PaidOut
<1>2. QED
  BY <1>1, CapStep, Invariance, PTL DEF Spec

(* The flag check_grind_eligibility reads and the counter award_grind_xp   *)
(* reads never disagree.                                                   *)
THEOREM LockMatchesCounter == Spec => []GrindLockExact
<1>1. CapInv => GrindLockExact
  BY DEF CapInv
<1>2. QED
  BY <1>1, CapInvariance, PTL

(* A cycle pays out at most one cap for every reset that raced into it.    *)
THEOREM AwardsBounded == Spec => []CycleAwardsBounded
<1>1. IInv /\ CapInv => CycleAwardsBounded
  <2> SUFFICES ASSUME IInv, CapInv PROVE CycleAwardsBounded
    OBVIOUS
  <2>t. /\ resets \in Nat /\ cycleAwards \in Nat
        /\ GrindCap \in Nat \ {0} /\ xp.monthly_earned \in Nat
    BY LimitTypes DEF IInv, TypeOK, Row
  <2>1. CASE resets = 0
    BY <2>t, <2>1 DEF CapInv, PaidOut, CycleAwardsBounded
  <2>2. CASE resets # 0
    <3>1. /\ cycleAwards <= GrindCap * (resets - 1) + xp.monthly_earned
          /\ xp.monthly_earned <= GrindCap
      BY <2>t, <2>2 DEF CapInv, PaidOut, GrindLockExact
    <3>2. GrindCap * resets = GrindCap * (resets - 1) + GrindCap
      BY <2>t
    <3>3. GrindCap * (resets - 1) \in Int
      BY <2>t
    <3>4. QED
      BY <2>t, <3>1, <3>2, <3>3 DEF CycleAwardsBounded
  <2>3. QED
    BY <2>1, <2>2
<1>2. QED
  BY <1>1, Invariance, CapInvariance, PTL

-----------------------------------------------------------------------------
(* The balance.  Covered is what a charge knows when it writes: the pools  *)
(* it read could pay.                                                      *)
Covered ==
    \A c \in Charges :
        pc[c] = "write" => ~(Uncovered(seen[c], cost[c]) > 0)

LEMMA CoveredStep == IInv /\ Covered /\ [Next]_vars => Covered'
<1> SUFFICES ASSUME IInv, Covered, [Next]_vars,
                    NEW c \in Charges, pc'[c] = "write"
             PROVE  ~(Uncovered(seen'[c], cost'[c]) > 0)
  BY DEF Covered
<1>p. pc \in [Calls -> LabelSet] /\ c \in Calls
      /\ seen \in [Charges -> Pools] /\ cost \in [Charges -> Nat]
  BY DEF IInv, TypeOK, Calls
<1>1. ASSUME pc[c] = "write", seen'[c] = seen[c], cost'[c] = cost[c]
      PROVE  ~(Uncovered(seen'[c], cost'[c]) > 0)
  BY <1>1 DEF Covered
<1>2. ASSUME NEW r \in Calls, NEW l, l # "write",
             pc' = [pc EXCEPT ![r] = l]
      PROVE  r # c /\ pc[c] = "write"
  BY <1>2, <1>p
<1>3. ASSUME NEW d \in Charges, ReadPools(d)
      PROVE  ~(Uncovered(seen'[c], cost'[c]) > 0)
  <2>1. CASE d = c
    <3>1. ~(Uncovered(xp, cost[c]) > 0) /\ seen'[c] = PoolsOf(xp)
          /\ cost'[c] = cost[c]
      BY <1>3, <1>p, <2>1 DEF ReadPools, Goto
    <3>2. Uncovered(PoolsOf(xp), cost[c]) = Uncovered(xp, cost[c])
      BY DEF Uncovered, FromEarned, FromPurchased, FromRollover, PoolsOf
    <3>3. QED
      BY <3>1, <3>2
  <2>2. CASE d # c
    BY <1>1, <1>3, <1>p, <2>2 DEF ReadPools, Goto
  <2>3. QED
    BY <2>1, <2>2
<1>4. ASSUME NEW d \in Charges, NEW n \in Costs, ModelAnswers(d, n)
      PROVE  ~(Uncovered(seen'[c], cost'[c]) > 0)
  <2>1. d # c /\ pc[c] = "write"
    BY <1>4, <1>p DEF ModelAnswers, Goto
  <2>2. QED
    BY <1>1, <1>4, <1>p, <2>1 DEF ModelAnswers
<1>5. ASSUME NEW d \in Charges, WritePools(d)
      PROVE  ~(Uncovered(seen'[c], cost'[c]) > 0)
  <2>1. d # c /\ pc[c] = "write"
    BY <1>5, <1>p DEF WritePools, Goto
  <2>2. QED
    BY <1>1, <1>5, <1>p, <2>1 DEF WritePools
<1>6. ASSUME UNCHANGED <<seen, cost>>, pc[c] = "write"
      PROVE  ~(Uncovered(seen'[c], cost'[c]) > 0)
  BY <1>1, <1>6
<1>7. ASSUME NEW r \in Calls, \/ CheckCycle(r) \/ ResetCycle(r) \/ Dies(r)
      PROVE  ~(Uncovered(seen'[c], cost'[c]) > 0)
  BY <1>6, <1>7, <1>p
     DEF CheckCycle, ResetCycle, Dies, Goto, AfterReset
<1>8. ASSUME NEW d \in Charges,
             \/ ReadBalance(d) \/ Reserve(d) \/ ModelFails(d)
             \/ FinalizeRelease(d) \/ Cancel(d)
      PROVE  ~(Uncovered(seen'[c], cost'[c]) > 0)
  BY <1>6, <1>8, <1>p
     DEF ReadBalance, Reserve, ModelFails, FinalizeRelease, Cancel, Goto
<1>9. ASSUME NEW e \in Earns, NEW a \in Rewards, Award(e, a)
      PROVE  ~(Uncovered(seen'[c], cost'[c]) > 0)
  BY <1>6, <1>9, <1>p DEF Award, Goto
<1>9b. ASSUME NEW e \in Earns, RefuseEarn(e)
       PROVE  ~(Uncovered(seen'[c], cost'[c]) > 0)
  BY <1>6, <1>9b, <1>p DEF RefuseEarn, Goto
<1>10. CASE UNCHANGED <<pc, seen, cost>>
  BY <1>1, <1>10
<1>11. QED
  BY <1>3, <1>4, <1>5, <1>7, <1>8, <1>9, <1>9b, <1>10
     DEF Next, Progress, Earning, Outside, Calls, vars, Credit, JobReads,
         JobWrites, CycleEnds

MoneyInv == Covered /\ UndisturbedBalance

LEMMA MoneyStep == IInv /\ MoneyInv /\ [Next]_vars => MoneyInv'
<1> SUFFICES ASSUME IInv, MoneyInv, [Next]_vars PROVE UndisturbedBalance'
  BY CoveredStep DEF MoneyInv
<1>t. xp \in Row /\ Total(xp) \in Int /\ due \in Int /\ ChecksHold(xp)
  BY DEF IInv, TypeOK, Row, Total
<1>c. UndisturbedBalance' <=> (clobbered' = {} => Total(xp') = due')
  BY DEF UndisturbedBalance, Total
<1>b. clobbered = {} => Total(xp) = due
  BY DEF MoneyInv, UndisturbedBalance
<1>1. ASSUME Total(xp') = Total(xp), UNCHANGED <<due, clobbered>>
      PROVE  UndisturbedBalance'
  BY <1>1, <1>b, <1>c
<1>2. ASSUME NEW r \in Calls, ResetCycle(r) PROVE UndisturbedBalance'
  BY <1>1, <1>2, <1>t, ResetKeeps, LimitTypes DEF ResetCycle
<1>3. ASSUME NEW c \in Charges, WritePools(c) PROVE UndisturbedBalance'
  <2> DEFINE spent == Spend(seen[c], cost[c])
  <2>1. CASE ChecksHold(WithPools(xp, spent))
    <3>1. /\ xp' = WithPools(xp, spent) /\ due' = due - cost[c]
          /\ clobbered' = IF PoolsOf(xp) = seen[c] THEN clobbered
                          ELSE clobbered \cup {c}
      BY <1>3, <2>1 DEF WritePools
    <3>2. CASE PoolsOf(xp) = seen[c]
      <4>1. ~(Uncovered(seen[c], cost[c]) > 0)
            /\ seen[c] \in Pools /\ cost[c] \in Nat
        BY <1>3 DEF WritePools, MoneyInv, Covered, IInv, TypeOK
      <4>2. spent \in Pools /\ Total(spent) = Total(seen[c]) - cost[c]
        BY <4>1, SpendIsExact
      <4>3. Total(xp') = Total(spent)
        BY <1>t, <3>1, <4>2, PoolsKeep
      <4>4. Total(seen[c]) = Total(xp)
        BY <3>2 DEF PoolsOf, Total
      <4>5. Total(xp') = Total(xp) - cost[c]
        BY <4>2, <4>3, <4>4
      <4>6. QED
        BY <1>b, <1>c, <3>1, <3>2, <4>5
    <3>3. CASE PoolsOf(xp) # seen[c]
      <4>1. clobbered' # {}
        BY <3>1, <3>3
      <4>2. QED
        BY <1>c, <4>1
    <3>4. QED
      BY <3>2, <3>3
  <2>2. CASE ~ChecksHold(WithPools(xp, spent))
    BY <1>1, <1>3, <2>2 DEF WritePools
  <2>3. QED
    BY <2>1, <2>2
<1>4. ASSUME NEW e \in Earns, NEW a \in Rewards, Award(e, a)
      PROVE  UndisturbedBalance'
  <2>1. a \in Nat /\ AwardOf(xp, a) \in Nat
    BY <1>t, AmountTypes, AwardType
  <2>2. Total(xp') = Total(xp) + AwardOf(xp, a)
    BY <1>4, <1>t, <2>1, AwardKeeps DEF Award
  <2>3. due' = due + AwardOf(xp, a) /\ clobbered' = clobbered
    BY <1>4 DEF Award
  <2>4. QED
    BY <1>b, <1>c, <2>2, <2>3
<1>5. ASSUME NEW pool \in {"earned", "purchased", "rollover"},
             NEW a \in TopUps, Credit(pool, a)
      PROVE  UndisturbedBalance'
  <2>1. a \in Nat
    BY AmountTypes
  <2>2. Total(xp') = Total(xp) + a
    BY <1>5, <1>t, <2>1, CreditKeeps DEF Credit
  <2>3. due' = due + a /\ clobbered' = clobbered
    BY <1>5 DEF Credit
  <2>4. QED
    BY <1>b, <1>c, <2>2, <2>3
<1>6. CASE JobWrites
  <2> DEFINE kept == Transfer(jobSeen, Quarters)
             new == RollOver(xp, jobSeen, Quarters)
  <2>1. jobSeen \in Nat /\ Quarters \in 0..4 /\ kept \in Nat
    BY <1>6, LimitTypes, TransferType DEF JobWrites, IInv, TypeOK
  <2>2. Total(new) = Total(xp) - xp.earned + kept
    BY <1>t, <2>1, RollOverKeeps
  <2>3. CASE ChecksHold(new)
    <3>1. /\ xp' = new /\ due' = due - (jobSeen - kept)
          /\ clobbered' = IF xp.earned = jobSeen THEN clobbered
                          ELSE clobbered \cup {"rollover"}
      BY <1>6, <2>3 DEF JobWrites
    <3> HIDE DEF kept, new
    <3>2. CASE xp.earned = jobSeen
      <4>1. Total(xp') = Total(xp) - (jobSeen - kept)
        BY <1>t, <2>1, <2>2, <3>1, <3>2
      <4>2. QED
        BY <1>b, <1>c, <3>1, <3>2, <4>1
    <3>3. CASE xp.earned # jobSeen
      <4>1. clobbered' # {}
        BY <3>1, <3>3
      <4>2. QED
        BY <1>c, <4>1
    <3>4. QED
      BY <3>2, <3>3
  <2>4. CASE ~ChecksHold(new)
    BY <1>1, <1>6, <2>4 DEF JobWrites
  <2>5. QED
    BY <2>3, <2>4
<1>7. CASE SameMoney
  BY <1>1, <1>7 DEF SameMoney, history
<1>8. QED
  BY <1>2, <1>3, <1>4, <1>5, <1>6, <1>7, MoneySteps

(* As long as no writer has written over a row that changed after it read  *)
(* it, the user owns exactly what was granted minus what was charged.      *)
THEOREM BalanceExact == Spec => []UndisturbedBalance
<1>1. Init => MoneyInv
  BY LimitTypes DEF Init, MoneyInv, Covered, UndisturbedBalance, Total, Calls
<1>2. MoneyInv => UndisturbedBalance
  BY DEF MoneyInv
<1>3. QED
  BY <1>1, <1>2, MoneyStep, Invariance, PTL DEF Spec
=============================================================================
