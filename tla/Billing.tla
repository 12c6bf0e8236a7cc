------------------------------ MODULE Billing ------------------------------
(***************************************************************************)
(* The Edge Function billing-manager for one user: the calls that reserve  *)
(* XP, run a model and settle (preflight, finalize, cancel), the calls     *)
(* that earn grind XP, the cycle reset both begin with, the credit_xp RPC  *)
(* and the monthly rollover job.  They share the user's user_xp row and    *)
(* run concurrently; one action is one round trip to the database, so      *)
(* everything between two awaits of the code is one step.                  *)
(***************************************************************************)
EXTENDS UserXP, FiniteSets

CONSTANTS
    Charges,          \* calls of model-router / roadmap-generator that cost XP
    Earns,            \* "earn" calls
    Estimate,         \* Estimate[c]: ESTIMATED_XP_COST of the call's feature
    MaxEstimate,      \* the largest of them
    ReturnsAmount,    \* the charges whose finalize sends reservedAmount back
    Costs,            \* what finalize may compute from the token count
    Rewards,          \* what an earn call may ask for
    TopUps,           \* what credit_xp may be called with
    GrindCap,         \* getGrindCap of the user's tier
    Quarters,         \* get_rollover_percentage of the tier, in quarters
    SignupXp,         \* what handle_new_user puts in the earned pool
    MaxXp,            \* bound: credit_xp is not called above this total
    MaxCycles,        \* bound: billing cycles that end
    MaxRollovers,     \* bound: runs of the rollover job
    MaxFaults         \* bound: releases that fail on the way or in the database

VARIABLES
    xp,         \* the user_xp row
    cycleOver,  \* cycle_ends_at is null or in the past
    pc,         \* where each call is
    held,       \* reservedAmount of a charge that has not been released
    cost,       \* actualXp of a charge being finalized
    seen,       \* the pools that deductFromPools has read
    jobSeen,    \* the earned pool the rollover job has read, or NotRunning
    cycles, rollovers,    \* bounded counters
    due,        \* history: what was granted minus what was charged or forfeited
    clobbered,  \* history: writers that wrote over a row they had not read
    astray,     \* history: charges whose release failed
    cycleAwards, resets   \* history: awards and resets of the current cycle

vars == <<xp, cycleOver, pc, held, cost, seen, jobSeen, cycles, rollovers,
          due, clobbered, astray, cycleAwards, resets>>

history == <<due, clobbered, cycleAwards, resets>>
jobVars == <<jobSeen, rollovers>>

Calls == Charges \cup Earns
NotRunning == -1
NoPools == [rollover |-> 0, purchased |-> 0, earned |-> 0]

Settled == {"refused", "charged", "unpaid", "cancelled", "paid", "dead"}
Running == {"reset", "read", "reserve", "working", "finalize", "deduct",
            "write", "cancel", "award"}

\* where a call goes once its cycle check is done
AfterReset(r) == IF r \in Charges THEN "read" ELSE "award"

Goto(r, l) == pc' = [pc EXCEPT ![r] = l]

ASSUME DisjointCalls == Charges \cap Earns = {}
ASSUME FiniteCharges == IsFiniteSet(Charges)
ASSUME EstimateType == /\ MaxEstimate \in Nat
                       /\ Estimate \in [Charges -> 0..MaxEstimate]
ASSUME ReturnsAmountType == ReturnsAmount \subseteq Charges
ASSUME AmountTypes == /\ Costs \subseteq Nat
                      /\ Rewards \subseteq Nat \ {0}
                      /\ TopUps \subseteq Nat \ {0}
ASSUME LimitTypes == /\ GrindCap \in Nat \ {0}
                     /\ Quarters \in 0..4
                     /\ SignupXp \in Nat
                     /\ MaxXp \in Nat
                     /\ MaxCycles \in Nat
                     /\ MaxRollovers \in Nat
                     /\ MaxFaults \in Nat

Init ==
    /\ xp = [rollover |-> 0, purchased |-> 0, earned |-> SignupXp,
             reserved_xp |-> 0, monthly_earn_cap |-> 0,
             monthly_earned |-> 0, grind_locked |-> FALSE]
    /\ cycleOver = TRUE
    /\ pc = [r \in Calls |-> "idle"]
    /\ held = [c \in Charges |-> 0]
    /\ cost = [c \in Charges |-> 0]
    /\ seen = [c \in Charges |-> NoPools]
    /\ jobSeen = NotRunning
    /\ cycles = 0
    /\ rollovers = 0
    /\ due = SignupXp
    /\ clobbered = {}
    /\ astray = {}
    /\ cycleAwards = 0
    /\ resets = 0

-----------------------------------------------------------------------------
(* Both kinds of call: checkAndResetCycleIfNeeded, a read and a blind write *)

CheckCycle(r) ==
    /\ pc[r] = "idle"
    /\ Goto(r, IF cycleOver THEN "reset" ELSE AfterReset(r))
    /\ UNCHANGED <<xp, cycleOver, held, cost, seen, jobVars, cycles,
                   astray, history>>

ResetCycle(r) ==
    /\ pc[r] = "reset"
    /\ xp' = ResetGrind(xp, GrindCap)
    /\ cycleOver' = FALSE
    /\ Goto(r, AfterReset(r))
    /\ cycleAwards' = IF cycleOver THEN 0 ELSE cycleAwards
    /\ resets' = IF cycleOver THEN 1 ELSE resets + 1
    /\ UNCHANGED <<held, cost, seen, jobVars, cycles, astray,
                   due, clobbered>>

-----------------------------------------------------------------------------
(* preflight *)

ReadBalance(c) ==
    /\ pc[c] = "read"
    /\ Goto(c, IF Available(xp) < Estimate[c] THEN "refused" ELSE "reserve")
    /\ UNCHANGED <<xp, cycleOver, held, cost, seen, jobVars, cycles,
                   astray, history>>

Reserve(c) ==
    /\ pc[c] = "reserve"
    /\ IF CanReserve(xp, Estimate[c])
       THEN /\ xp' = ReserveXp(xp, Estimate[c])
            /\ held' = [held EXCEPT ![c] = Estimate[c]]
            /\ Goto(c, "working")
       ELSE /\ Goto(c, "refused")
            /\ UNCHANGED <<xp, held>>
    /\ UNCHANGED <<cycleOver, cost, seen, jobVars, cycles, astray, history>>

(* The model call between preflight and settlement, in model-router or in  *)
(* roadmap-generator: it answers and its tokens fix the cost, or it throws *)
(* and the caller cancels.                                                 *)
ModelAnswers(c, n) ==
    /\ pc[c] = "working"
    /\ cost' = [cost EXCEPT ![c] = n]
    /\ Goto(c, "finalize")
    /\ UNCHANGED <<xp, cycleOver, held, seen, jobVars, cycles,
                   astray, history>>

ModelFails(c) ==
    /\ pc[c] = "working"
    /\ Goto(c, "cancel")
    /\ UNCHANGED <<xp, cycleOver, held, cost, seen, jobVars, cycles,
                   astray, history>>

-----------------------------------------------------------------------------
(* finalize and cancel *)

(* release_xp_reservation with the amount the caller sent.  Whatever error *)
(* it returns is ignored, be it the refusal of an amount the counter does  *)
(* not cover or a request or statement that failed: the call goes on.      *)
Released(c, sent) ==
    \/ /\ CanRelease(xp, sent)
       /\ xp' = ReleaseXp(xp, sent)
       /\ held' = [held EXCEPT ![c] = 0]
       /\ UNCHANGED astray
    \/ /\ ~CanRelease(xp, sent)
       /\ UNCHANGED <<xp, held, astray>>
    \/ /\ Cardinality(astray) < MaxFaults
       /\ astray' = astray \cup {c}
       /\ UNCHANGED <<xp, held>>

\* seeded fault: gives back what the call will cost instead of what it holds
FinalizeReleasesCost(c) ==
    /\ pc[c] = "finalize"
    /\ xp' = ReleaseXp(xp, cost[c])
    /\ held' = [held EXCEPT ![c] = 0]
    /\ Goto(c, "deduct")
    /\ UNCHANGED <<cycleOver, cost, seen, jobVars, cycles, astray, history>>

FinalizeRelease(c) ==
    /\ pc[c] = "finalize"
    /\ Released(c, IF c \in ReturnsAmount THEN held[c] ELSE 0)
    /\ Goto(c, "deduct")
    /\ UNCHANGED <<cycleOver, cost, seen, jobVars, cycles, history>>

\* seeded fault: a cancel that only writes its log row
CancelOnlyLogs(c) ==
    /\ pc[c] = "cancel"
    /\ Goto(c, "cancelled")
    /\ UNCHANGED <<xp, held, cycleOver, cost, seen, jobVars, cycles,
                   astray, history>>

Cancel(c) ==
    /\ pc[c] = "cancel"
    /\ Released(c, held[c])
    /\ Goto(c, "cancelled")
    /\ UNCHANGED <<cycleOver, cost, seen, jobVars, cycles, history>>

\* seeded fault: charges a call the pools cannot pay
ReadPoolsUnchecked(c) ==
    /\ pc[c] = "deduct"
    /\ Goto(c, "write")
    /\ seen' = [seen EXCEPT ![c] = PoolsOf(xp)]
    /\ UNCHANGED <<xp, cycleOver, held, cost, jobVars, cycles,
                   astray, history>>

\* deductFromPools reads the row ...
ReadPools(c) ==
    /\ pc[c] = "deduct"
    /\ IF Uncovered(xp, cost[c]) > 0
       THEN Goto(c, "unpaid") /\ UNCHANGED seen
       ELSE Goto(c, "write") /\ seen' = [seen EXCEPT ![c] = PoolsOf(xp)]
    /\ UNCHANGED <<xp, cycleOver, held, cost, jobVars, cycles,
                   astray, history>>

\* ... and writes back the three pools it computed from what it read
WritePools(c) ==
    /\ pc[c] = "write"
    /\ LET new == WithPools(xp, Spend(seen[c], cost[c]))
       IN  IF ChecksHold(new)
           THEN /\ xp' = new
                /\ Goto(c, "charged")
                /\ due' = due - cost[c]
                /\ clobbered' = IF PoolsOf(xp) = seen[c] THEN clobbered
                                ELSE clobbered \cup {c}
           ELSE /\ Goto(c, "unpaid")
                /\ UNCHANGED <<xp, due, clobbered>>
    /\ seen' = [seen EXCEPT ![c] = NoPools]
    /\ UNCHANGED <<cycleOver, held, cost, jobVars, cycles, astray,
                   cycleAwards, resets>>

(* A call stops half way: the client leaves the stream before its end, the *)
(* request to billing-manager or the answer of reserve_xp is lost, the     *)
(* function is killed, or the generator returns on a failed insert without *)
(* a cancel.                                                               *)
Dies(r) ==
    /\ pc[r] \in Running
    /\ Goto(r, "dead")
    /\ UNCHANGED <<xp, cycleOver, held, cost, seen, jobVars, cycles,
                   astray, history>>

-----------------------------------------------------------------------------
(* earn *)

Award(e, a) ==
    /\ pc[e] = "award"
    /\ xp' = AwardGrindXp(xp, a)
    /\ Goto(e, "paid")
    /\ due' = due + AwardOf(xp, a)
    /\ cycleAwards' = cycleAwards + AwardOf(xp, a)
    /\ UNCHANGED <<cycleOver, held, cost, seen, jobVars, cycles, astray,
                   clobbered, resets>>

\* the task is complete already, or the request names no difficulty
RefuseEarn(e) ==
    /\ pc[e] = "award"
    /\ Goto(e, "refused")
    /\ UNCHANGED <<xp, cycleOver, held, cost, seen, jobVars, cycles,
                   astray, history>>

-----------------------------------------------------------------------------
(* The other writers of the row, and the clock *)

Credit(pool, a) ==
    /\ Total(xp) + a <= MaxXp
    /\ xp' = CreditXp(xp, pool, a)
    /\ due' = due + a
    /\ UNCHANGED <<cycleOver, pc, held, cost, seen, jobVars, cycles, astray,
                   clobbered, cycleAwards, resets>>

JobReads ==
    /\ jobSeen = NotRunning
    /\ rollovers < MaxRollovers
    /\ xp.earned > 0
    /\ jobSeen' = xp.earned
    /\ rollovers' = rollovers + 1
    /\ UNCHANGED <<xp, cycleOver, pc, held, cost, seen, cycles,
                   astray, history>>

JobWrites ==
    /\ jobSeen # NotRunning
    /\ LET new == RollOver(xp, jobSeen, Quarters)
       IN  IF ChecksHold(new)
           THEN /\ xp' = new
                /\ due' = due - (jobSeen - Transfer(jobSeen, Quarters))
                /\ clobbered' = IF xp.earned = jobSeen THEN clobbered
                                ELSE clobbered \cup {"rollover"}
           ELSE UNCHANGED <<xp, due, clobbered>>
    /\ jobSeen' = NotRunning
    /\ UNCHANGED <<cycleOver, pc, held, cost, seen, cycles, rollovers, astray,
                   cycleAwards, resets>>

CycleEnds ==
    /\ ~cycleOver
    /\ cycles < MaxCycles
    /\ cycleOver' = TRUE
    /\ cycles' = cycles + 1
    /\ UNCHANGED <<xp, pc, held, cost, seen, jobVars, astray, history>>

-----------------------------------------------------------------------------
Progress(c) ==
    \/ CheckCycle(c) \/ ResetCycle(c) \/ ReadBalance(c) \/ Reserve(c)
    \/ (\E n \in Costs : ModelAnswers(c, n)) \/ ModelFails(c)
    \/ FinalizeRelease(c) \/ Cancel(c) \/ ReadPools(c) \/ WritePools(c)

Earning(e) ==
    \/ CheckCycle(e) \/ ResetCycle(e) \/ RefuseEarn(e)
    \/ \E a \in Rewards : Award(e, a)

Outside ==
    \/ \E pool \in {"earned", "purchased", "rollover"}, a \in TopUps :
          Credit(pool, a)
    \/ JobReads \/ JobWrites \/ CycleEnds

Next ==
    \/ \E c \in Charges : Progress(c)
    \/ \E e \in Earns : Earning(e)
    \/ \E r \in Calls : Dies(r)
    \/ Outside

Spec == Init /\ [][Next]_vars

(* The runtime goes on with a call it has started, unless the call dies.   *)
FairSpec == Spec /\ \A c \in Charges :
                       WF_vars(pc[c] # "idle" /\ Progress(c))

-----------------------------------------------------------------------------
LabelSet == {"idle"} \cup Settled \cup Running

TypeOK ==
    /\ xp \in Row
    /\ cycleOver \in BOOLEAN
    /\ pc \in [Calls -> LabelSet]
    /\ held \in [Charges -> 0..MaxEstimate]
    /\ cost \in [Charges -> Nat]
    /\ seen \in [Charges -> Pools]
    /\ jobSeen \in Nat \cup {NotRunning}
    /\ cycles \in Nat /\ rollovers \in Nat
    /\ due \in Int
    /\ clobbered \subseteq Charges \cup {"rollover"}
    /\ astray \subseteq Charges
    /\ cycleAwards \in Nat /\ resets \in Nat

(* A call holds XP only from its reservation on, and what it holds is the  *)
(* estimate it was admitted with.                                          *)
\* (conjunct of the inductive invariant)
HolderOK ==
    \A c \in Charges :
        held[c] > 0 => /\ held[c] = Estimate[c]
                       /\ pc[c] \notin {"idle", "reset", "read", "reserve"}

H == INSTANCE XPHolds WITH Calls <- Charges, MaxHold <- MaxEstimate,
                           balance <- Total(xp)

(* reserved_xp is exactly the sum of what the calls still hold: a release  *)
(* gives back a call's own reservation and no charge, award, credit or     *)
(* rollover that overlaps it changes the counter.  In particular the       *)
(* counter never refuses to release what a call holds, and the XP of a     *)
(* call that died or whose release failed stays counted.                   *)
ReservationLedger == xp.reserved_xp = H!Promised(held)

(* The lock flag that check_grind_eligibility trusts agrees with the       *)
(* counter award_grind_xp trusts, whatever resets fall between them.       *)
GrindLockExact ==
    /\ xp.monthly_earned <= xp.monthly_earn_cap
    /\ xp.grind_locked <=> /\ xp.monthly_earn_cap > 0
                           /\ xp.monthly_earned = xp.monthly_earn_cap

(* The cap bounds what a cycle pays out up to the number of times calls    *)
(* that raced into the cycle reset it.                                     *)
CycleAwardsBounded == cycleAwards <= GrindCap * resets

(* If no writer wrote over pools that had changed since it read them, the  *)
(* balance is what was granted minus what finished calls were charged and  *)
(* the rollover forfeited: a failed, refused, cancelled or dead call costs *)
(* nothing and a charged one costs exactly its tokens.                     *)
UndisturbedBalance == clobbered = {} => Total(xp) = due

(* What XPHolds promises a call that was let in. *)
KeepsPromise == H!HSpec

(* A reservation always has a call that will give it back, or had one that *)
(* died or whose release failed: any other call that has been charged,     *)
(* refused, cancelled or left unpaid holds nothing, unless it withheld the *)
(* amount; so no release can have been refused, whatever other calls did   *)
(* to the counter.                                                         *)
ReservationHasOwner ==
    \A c \in Charges : held[c] > 0 =>
        \/ pc[c] \in {"working", "finalize", "cancel", "dead"}
        \/ c \in astray
        \/ /\ c \notin ReturnsAmount
           /\ pc[c] \in {"deduct", "write", "charged", "unpaid"}

(* A call that neither dies, nor withholds the amount, nor has its release *)
(* fail ends up holding nothing, whether its model answers or fails.  The  *)
(* code retries no release: after a failure the XP is held for good.       *)
ReservationReturned ==
    \A c \in ReturnsAmount :
        (held[c] > 0) ~> (held[c] = 0 \/ pc[c] = "dead" \/ c \in astray)

-----------------------------------------------------------------------------
(* What comments of the repository claim and the code does not do. *)

(* billing-manager: finalize trues the reservation up, so a finalized call *)
(* holds nothing, whoever sent it.                                         *)
FinalizedHoldsNothing ==
    \A c \in Charges : pc[c] \in {"charged", "unpaid"} => held[c] = 0
=============================================================================
