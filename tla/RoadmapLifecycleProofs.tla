----------------------- MODULE RoadmapLifecycleProofs -----------------------
(***************************************************************************)
(* Proofs about RoadmapLifecycle for any calls, limits and bounds.         *)
(*                                                                         *)
(* The inductive invariant IInv has four parts besides the types.          *)
(* DelayInv: the states of the table that index and trigger let arise.     *)
(* FlagInv: what the free tier's flag says of the generates that are over. *)
(* CountInv: the calls that run, and what the count has let pass; the      *)
(* bound on the roadmaps is inductive only with the bound on the calls.    *)
(* ModInv: how far the updates of a request have come, and who counts it.  *)
(***************************************************************************)
EXTENDS RoadmapLifecycle, FiniteSetTheorems, TLAPS

(* Types.                                                                  *)
LEMMA TypeInit == Init => TypeOK
<1>1. SUFFICES ASSUME Init PROVE TypeOK
  OBVIOUS
<1>2. /\ on \in [Requests -> Generates] /\ of \in [Confirms -> Requests]
      /\ free \in BOOLEAN /\ freeUsed \in BOOLEAN /\ dropped \in BOOLEAN
      /\ lost \in BOOLEAN /\ cleared \in BOOLEAN /\ cycle \in Nat
      /\ deaths \in Nat /\ faults \in Nat /\ locked \subseteq Roadmaps
      /\ slipped \subseteq Roadmaps
  BY <1>1 DEF Init
<1>3. /\ status \in [Roadmaps -> {"none", "active", "archived", "deleted"}]
      /\ request \in [Requests -> {"none", "pending", "applied"}]
      /\ pc \in [Calls -> Labels]
  BY <1>1 DEF Init, Labels
<1>4. /\ born \in [Roadmaps -> Nat] /\ used \in [Generates -> Nat]
      /\ written \in [Requests -> 0..Updates] /\ since \in [Generates -> Nat]
      /\ next \in [Confirms -> 1..(Updates + 1)]
  BY <1>1, LimitsType DEF Init
<1>5. /\ flag \in [Generates -> BOOLEAN]
      /\ before \in [Generates -> SUBSET Generates]
  BY <1>1 DEF Init
<1>6. QED
  BY <1>2, <1>3, <1>4, <1>5 DEF TypeOK

LEMMA TypeStep ==
    ASSUME TypeOK, [Next]_vars
    PROVE  TypeOK'
<1>1. ASSUME NEW g \in Generates, ReadUser(g)
      PROVE  TypeOK'
  BY <1>1, LimitsType DEF TypeOK, Labels, Goto, Starts, Lost, args, roadmaps, mods, reads, counters, ReadUser, Over, Exists
<1>2. ASSUME NEW g \in Generates, ReadCycle(g)
      PROVE  TypeOK'
  <2>1. since' \in [Generates -> Nat]
    BY <1>2 DEF TypeOK, ReadCycle
  <2>2. faults' \in Nat
    BY <1>2 DEF TypeOK, ReadCycle, Lost
  <2>3. pc' \in [Calls -> Labels]
    BY <1>2 DEF TypeOK, ReadCycle, Goto, Labels
  <2>4. QED
    BY <1>2, <2>1, <2>2, <2>3 DEF TypeOK, ReadCycle, args, roadmaps, mods, reads, counters
<1>3. ASSUME NEW g \in Generates, CountRoadmaps(g)
      PROVE  TypeOK'
  BY <1>3, LimitsType DEF TypeOK, Labels, Goto, Starts, Lost, args, roadmaps, mods, reads, counters, CountRoadmaps
<1>4. ASSUME NEW g \in Generates, Compute(g)
      PROVE  TypeOK'
  BY <1>4, LimitsType DEF TypeOK, Labels, Goto, Starts, Lost, args, roadmaps, mods, reads, counters, Compute
<1>5. ASSUME NEW g \in Generates, ArchiveOld(g)
      PROVE  TypeOK'
  <2>1. status' \in [Roadmaps -> {"none", "active", "archived", "deleted"}]
    BY <1>5 DEF TypeOK, ArchiveOld, Active
  <2>2. faults' \in Nat
    BY <1>5 DEF TypeOK, ArchiveOld, Lost, Active
  <2>3. pc' \in [Calls -> Labels]
    BY <1>5 DEF TypeOK, ArchiveOld, Goto, Labels, Active
  <2>4. QED
    BY <1>5, <2>1, <2>2, <2>3 DEF TypeOK, ArchiveOld, args, roadmaps, mods, reads, counters
<1>6. ASSUME NEW g \in Generates, InsertNew(g)
      PROVE  TypeOK'
  <2>1. pc' \in [Calls -> Labels]
    BY <1>6 DEF TypeOK, InsertNew, PassTrigger, Goto, Labels
  <2>2. born' \in [Roadmaps -> Nat]
    BY <1>6 DEF TypeOK, InsertNew, PassTrigger, roadmaps
  <2>3. UNCHANGED <<status, locked, slipped, dropped, lost>>
    BY <1>6 DEF InsertNew, PassTrigger, roadmaps
  <2>4. QED
    BY <1>6, <2>1, <2>2, <2>3 DEF TypeOK, InsertNew, args, mods, reads, counters
<1>6a. ASSUME NEW r \in Roadmaps, InsertRow(r)
       PROVE  /\ status' \in [Roadmaps -> {"none", "active", "archived", "deleted"}]
              /\ dropped' \in BOOLEAN /\ lost' \in BOOLEAN
              /\ UNCHANGED <<born, locked, slipped>>
  BY <1>6a DEF TypeOK, InsertRow
<1>6b. ASSUME NEW g \in Generates, FinishInsert(g)
       PROVE  TypeOK'
  <2>1. pc' \in [Calls -> Labels] /\ faults' \in Nat
    BY <1>6b DEF TypeOK, FinishInsert, Lost, Goto, Labels
  <2>2. /\ status' \in [Roadmaps -> {"none", "active", "archived", "deleted"}]
        /\ dropped' \in BOOLEAN /\ lost' \in BOOLEAN
        /\ UNCHANGED <<born, locked, slipped>>
    BY <1>6a, <1>6b DEF TypeOK, FinishInsert, Roadmaps, roadmaps
  <2>3. QED
    BY <1>6b, <2>1, <2>2 DEF TypeOK, FinishInsert, args, mods, reads, counters
<1>7. ASSUME NEW g \in Generates, FinishGenerate(g)
      PROVE  TypeOK'
  <2>1. freeUsed' \in BOOLEAN
    BY <1>7 DEF TypeOK, FinishGenerate, FlagAfter
  <2>2. faults' \in Nat
    BY <1>7 DEF TypeOK, FinishGenerate, Lost
  <2>3. pc' \in [Calls -> Labels]
    BY <1>7 DEF TypeOK, FinishGenerate, Goto, Labels, FlagAfter
  <2>4. QED
    BY <1>7, <2>1, <2>2, <2>3 DEF TypeOK, FinishGenerate, args, roadmaps, mods, reads, counters
<1>8. ASSUME NEW c \in Creates, CreateRoadmap(c)
      PROVE  TypeOK'
  <2>1. pc' \in [Calls -> Labels]
    BY <1>8 DEF TypeOK, CreateRoadmap, PassTrigger, Goto, Labels
  <2>2. born' \in [Roadmaps -> Nat]
    BY <1>8 DEF TypeOK, CreateRoadmap, PassTrigger
  <2>3. QED
    BY <1>8, <2>1, <2>2
       DEF TypeOK, CreateRoadmap, PassTrigger, args, mods, reads, counters
<1>8b. ASSUME NEW c \in Creates, FinishCreate(c)
       PROVE  TypeOK'
  <2>1. pc' \in [Calls -> Labels]
    BY <1>8b DEF TypeOK, FinishCreate, Goto, Labels
  <2>2. /\ status' \in [Roadmaps -> {"none", "active", "archived", "deleted"}]
        /\ dropped' \in BOOLEAN /\ lost' \in BOOLEAN
        /\ UNCHANGED <<born, locked, slipped>>
    BY <1>6a, <1>8b DEF TypeOK, FinishCreate, Roadmaps, roadmaps
  <2>3. QED
    BY <1>8b, <2>1, <2>2 DEF TypeOK, FinishCreate, args, mods, reads, counters
<1>9. ASSUME NEW d \in Drops, DropRoadmap(d)
      PROVE  TypeOK'
  BY <1>9, LimitsType DEF TypeOK, Labels, Goto, Starts, Lost, args, roadmaps, mods, reads, counters, DropRoadmap, Active
<1>10. ASSUME NEW d \in Deletes, DeleteRoadmap(d)
      PROVE  TypeOK'
  <2>1. status' \in [Roadmaps -> {"none", "active", "archived", "deleted"}]
    BY <1>10 DEF TypeOK, DeleteRoadmap, Active, Exists
  <2>2. locked' \subseteq Roadmaps
    BY <1>10 DEF TypeOK, DeleteRoadmap, Active, Exists
  <2>3. dropped' \in BOOLEAN
    BY <1>10 DEF TypeOK, DeleteRoadmap, Active, Exists
  <2>4. faults' \in Nat
    BY <1>10 DEF TypeOK, DeleteRoadmap, Lost, Active, Exists
  <2>5. pc' \in [Calls -> Labels]
    BY <1>10 DEF TypeOK, DeleteRoadmap, Goto, Labels, Active, Exists
  <2>6. QED
    BY <1>10, <2>1, <2>2, <2>3, <2>4, <2>5 DEF TypeOK, DeleteRoadmap, args, roadmaps, mods, reads, counters
<1>11. ASSUME NEW d \in Deletes, FinishDelete(d)
      PROVE  TypeOK'
  <2>1. freeUsed' \in BOOLEAN
    BY <1>11 DEF TypeOK, FinishDelete
  <2>2. cleared' \in BOOLEAN
    BY <1>11 DEF TypeOK, FinishDelete
  <2>3. faults' \in Nat
    BY <1>11 DEF TypeOK, FinishDelete, Lost
  <2>4. pc' \in [Calls -> Labels]
    BY <1>11 DEF TypeOK, FinishDelete, Goto, Labels
  <2>5. QED
    BY <1>11, <2>1, <2>2, <2>3, <2>4 DEF TypeOK, FinishDelete, args, roadmaps, mods, reads, counters
<1>12. ASSUME NEW q \in Requests, ReadCounter(q)
      PROVE  TypeOK'
  BY <1>12, LimitsType DEF TypeOK, Labels, Goto, Starts, Lost, args, roadmaps, mods, reads, counters, ReadCounter
<1>13. ASSUME NEW q \in Requests, FileRequest(q)
      PROVE  TypeOK'
  <2>1. request' \in [Requests -> {"none", "pending", "applied"}]
    BY <1>13 DEF TypeOK, FileRequest
  <2>2. faults' \in Nat
    BY <1>13 DEF TypeOK, FileRequest, Lost
  <2>3. pc' \in [Calls -> Labels]
    BY <1>13 DEF TypeOK, FileRequest, Goto, Labels
  <2>4. QED
    BY <1>13, <2>1, <2>2, <2>3 DEF TypeOK, FileRequest, args, roadmaps, mods, reads, counters
<1>14. ASSUME NEW c \in Confirms, ReadRequest(c)
      PROVE  TypeOK'
  BY <1>14, LimitsType DEF TypeOK, Labels, Goto, Starts, Lost, args, roadmaps, mods, reads, counters, ReadRequest
<1>15. ASSUME NEW c \in Confirms, ApplyUpdate(c)
      PROVE  TypeOK'
  BY <1>15, LimitsType DEF TypeOK, Labels, Goto, Starts, Lost, args, roadmaps, mods, reads, counters, ApplyUpdate
<1>16. ASSUME NEW c \in Confirms, MarkApplied(c)
      PROVE  TypeOK'
  <2>1. request' \in [Requests -> {"none", "pending", "applied"}]
    BY <1>16 DEF TypeOK, MarkApplied
  <2>2. faults' \in Nat
    BY <1>16 DEF TypeOK, MarkApplied, Lost
  <2>3. pc' \in [Calls -> Labels]
    BY <1>16 DEF TypeOK, MarkApplied, Goto, Labels
  <2>4. QED
    BY <1>16, <2>1, <2>2, <2>3 DEF TypeOK, MarkApplied, args, roadmaps, mods, reads, counters
<1>17. ASSUME NEW c \in Confirms, Increment(c)
      PROVE  TypeOK'
  <2>1. used' \in [Generates -> Nat]
    BY <1>17 DEF TypeOK, Increment
  <2>2. faults' \in Nat
    BY <1>17 DEF TypeOK, Increment, Lost
  <2>3. pc' \in [Calls -> Labels]
    BY <1>17 DEF TypeOK, Increment, Goto, Labels
  <2>4. QED
    BY <1>17, <2>1, <2>2, <2>3 DEF TypeOK, Increment, args, roadmaps, mods, reads, counters
<1>18. ASSUME NEW c \in Calls, Dies(c)
      PROVE  TypeOK'
  BY <1>18, LimitsType DEF TypeOK, Labels, Goto, Starts, Lost, args, roadmaps, mods, reads, counters, Dies, Open
<1>19. ASSUME NextCycle
      PROVE  TypeOK'
  BY <1>19, LimitsType DEF TypeOK, Labels, Goto, Starts, Lost, args, roadmaps, mods, reads, counters, NextCycle
<1>20. ASSUME DelayEnds
      PROVE  TypeOK'
  BY <1>20, LimitsType DEF TypeOK, Labels, Goto, Starts, Lost, args, roadmaps, mods, reads, counters, DelayEnds
<1>21. CASE UNCHANGED vars
  BY <1>21, LimitsType DEF TypeOK, Labels, Goto, Starts, Lost, args, roadmaps, mods, reads, counters, vars
<1>22. QED
  BY <1>1, <1>2, <1>3, <1>4, <1>5, <1>6, <1>6b, <1>7, <1>8, <1>8b, <1>9, <1>10, <1>11,
     <1>12, <1>13, <1>14, <1>15, <1>16, <1>17, <1>18, <1>19, <1>20, <1>21
     DEF Next, Generate, Request, Confirm

-----------------------------------------------------------------------------
(* The delay of a deletion and the one active roadmap.                     *)
AtMostOne == \A r, s \in Active : r = s
LockedIsDropped == locked # {} => dropped
Judged == \A r \in Roadmaps : pc[r] = "index" /\ r \notin slipped => locked = {}
DelayInv == /\ AtMostOne /\ LockedHasNone /\ LockedIsDropped /\ Judged
            /\ KeepsOneActive

Gap == {"insert", "index"}

(* What leaves the rows and their history alone, takes no generate out of  *)
(* the gap and asks for no roadmap keeps it.                               *)
LEMMA DelayFrame ==
    ASSUME DelayInv, UNCHANGED <<status, locked, slipped, dropped, lost>>,
           \A g \in Generates : pc[g] \in Gap => pc'[g] \in Gap,
           \A r \in Roadmaps : pc'[r] = "index" => pc[r] = "index"
    PROVE  DelayInv'
<1>1. /\ Active' = Active
      /\ \A r : Exists(r)' = Exists(r)
  BY DEF Active, Exists
<1>2. KeepsOneActive'
  BY <1>1 DEF DelayInv, KeepsOneActive, Gap
<1>3. QED
  BY <1>1, <1>2 DEF DelayInv, AtMostOne, LockedHasNone, LockedIsDropped, Judged

(* A call whose label moves, and that is no generate in the gap.           *)
LEMMA DelayLabel ==
    ASSUME TypeOK, DelayInv, NEW c \in Calls, NEW l \in Labels, l # "index",
           UNCHANGED <<status, locked, slipped, dropped, lost>>,
           c \in Generates => pc[c] \notin Gap, Goto(c, l)
    PROVE  DelayInv'
<1>1. \A g \in Generates : pc[g] \in Gap => pc'[g] \in Gap
  BY DEF Goto, TypeOK
<1>2. \A r \in Roadmaps : pc'[r] = "index" => pc[r] = "index"
  BY DEF Goto, TypeOK, Calls, Roadmaps
<1>3. QED
  BY <1>1, <1>2, DelayFrame

(* The trigger lets an insert pass only where no delay runs.               *)
LEMMA DelayTrigger ==
    ASSUME TypeOK, DelayInv, NEW r \in Roadmaps, PassTrigger(r)
    PROVE  DelayInv'
<1>1. /\ Active' = Active /\ locked = {}
      /\ UNCHANGED <<locked, slipped, dropped, lost>>
      /\ \A s : Exists(s)' = Exists(s)
  BY DEF PassTrigger, NoDelay, Active, Exists
<1>2. \A g \in Generates : pc[g] \in Gap => pc'[g] \in Gap
  BY DEF PassTrigger, Goto, TypeOK, Gap
<1>3. KeepsOneActive'
  BY <1>1, <1>2 DEF DelayInv, KeepsOneActive, Gap
<1>4. QED
  BY <1>1, <1>3 DEF DelayInv, AtMostOne, LockedHasNone, LockedIsDropped, Judged

(* The index lets one in only where nothing is active; what it lets in     *)
(* during a delay is what the trigger had let pass before.                 *)
LEMMA DelayInsert ==
    ASSUME TypeOK, DelayInv, NEW r \in Roadmaps, pc[r] = "index", InsertRow(r),
           \A s \in Roadmaps : pc'[s] = "index" => pc[s] = "index"
    PROVE  DelayInv'
<1>1. /\ Active' = {r} /\ dropped' = (locked # {})
      /\ UNCHANGED <<locked, slipped>>
  BY DEF InsertRow, Active, TypeOK
<1>2. locked # {} => r \in slipped
  BY DEF DelayInv, Judged
<1>3. QED
  BY <1>1, <1>2
     DEF DelayInv, AtMostOne, LockedHasNone, LockedIsDropped, Judged,
         KeepsOneActive

LEMMA DelayStep ==
    ASSUME TypeOK, TypeOK', DelayInv, [Next]_vars
    PROVE  DelayInv'
<1> USE DEF Starts, Labels, Calls, Gap
<1>k. \A c \in Creates \cup Deletes \cup Drops \cup Requests \cup Confirms :
         c \notin Generates
  BY KindsDisjoint
<1>i. ASSUME NEW c \in Calls, NEW l, l # "index", Goto(c, l)
      PROVE  \A r \in Roadmaps : pc'[r] = "index" => pc[r] = "index"
  BY <1>i DEF Goto, TypeOK, Roadmaps
<1>1. ASSUME NEW g \in Generates, ReadUser(g)
      PROVE  DelayInv'
  BY <1>1, DelayLabel DEF ReadUser, roadmaps
<1>2. ASSUME NEW g \in Generates, ReadCycle(g)
      PROVE  DelayInv'
  BY <1>2, DelayLabel DEF ReadCycle, roadmaps
<1>3. ASSUME NEW g \in Generates, CountRoadmaps(g)
      PROVE  DelayInv'
  BY <1>3, DelayLabel DEF CountRoadmaps, roadmaps
<1>4. ASSUME NEW g \in Generates, Compute(g)
      PROVE  DelayInv'
  BY <1>4, DelayLabel DEF Compute, roadmaps
<1>5. ASSUME NEW g \in Generates, ArchiveOld(g)
      PROVE  DelayInv'
  <2>1. pc'[g] = "insert"
    BY <1>5 DEF ArchiveOld, Goto, TypeOK
  <2>2. UNCHANGED <<locked, slipped, dropped, lost>>
    BY <1>5 DEF ArchiveOld
  <2>3. Active' \subseteq Active
    BY <1>5 DEF ArchiveOld, Active, TypeOK
  <2>4. Judged'
    BY <1>5, <1>i, <2>2 DEF ArchiveOld, DelayInv, Judged
  <2>5. QED
    BY <2>1, <2>2, <2>3, <2>4
       DEF DelayInv, AtMostOne, LockedHasNone, LockedIsDropped, KeepsOneActive
<1>6. ASSUME NEW g \in Generates, InsertNew(g)
      PROVE  DelayInv'
  <2>1. CASE PassTrigger(g)
    BY <2>1, DelayTrigger DEF Roadmaps
  <2>2. CASE ~NoDelay /\ Goto(g, "done") /\ UNCHANGED roadmaps
    <3>1. dropped /\ Active' = Active
          /\ UNCHANGED <<locked, slipped, dropped>>
      BY <2>2 DEF NoDelay, DelayInv, LockedIsDropped, Active, roadmaps
    <3>2. Judged'
      BY <1>i, <2>2, <3>1 DEF DelayInv, Judged
    <3>3. QED
      BY <3>1, <3>2
         DEF DelayInv, AtMostOne, LockedHasNone, LockedIsDropped, KeepsOneActive
  <2>3. QED
    BY <1>6, <2>1, <2>2 DEF InsertNew
<1>6b. ASSUME NEW g \in Generates, FinishInsert(g)
       PROVE  DelayInv'
  <2>1. \A r \in Roadmaps : pc'[r] = "index" => pc[r] = "index"
    BY <1>6b, <1>i DEF FinishInsert
  <2>2. CASE InsertRow(g)
    BY <1>6b, <2>1, <2>2, DelayInsert DEF FinishInsert, Roadmaps
  <2>3. CASE Active # {} /\ UNCHANGED roadmaps
    <3>1. Active' = Active /\ UNCHANGED <<locked, slipped, dropped>>
      BY <2>3 DEF Active, roadmaps
    <3>2. QED
      BY <2>1, <2>3, <3>1
         DEF DelayInv, AtMostOne, LockedHasNone, LockedIsDropped, Judged,
             KeepsOneActive
  <2>4. CASE lost' /\ UNCHANGED <<status, locked, slipped, dropped>>
    <3>1. Active' = Active
      BY <2>4 DEF Active
    <3>2. QED
      BY <2>1, <2>4, <3>1
         DEF DelayInv, AtMostOne, LockedHasNone, LockedIsDropped, Judged,
             KeepsOneActive
  <2>5. QED
    BY <1>6b, <2>2, <2>3, <2>4 DEF FinishInsert
<1>7. ASSUME NEW g \in Generates, FinishGenerate(g)
      PROVE  DelayInv'
  BY <1>7, DelayLabel DEF FinishGenerate, roadmaps
<1>8. ASSUME NEW c \in Creates, CreateRoadmap(c)
      PROVE  DelayInv'
  BY <1>8, DelayTrigger DEF CreateRoadmap, Roadmaps
<1>8b. ASSUME NEW c \in Creates, FinishCreate(c)
       PROVE  DelayInv'
  <2>1. \A r \in Roadmaps : pc'[r] = "index" => pc[r] = "index"
    BY <1>8b, <1>i DEF FinishCreate
  <2>2. CASE InsertRow(c)
    BY <1>8b, <2>1, <2>2, DelayInsert DEF FinishCreate, Roadmaps
  <2>3. CASE UNCHANGED roadmaps
    BY <1>8b, <1>k, <2>3, DelayLabel DEF FinishCreate, roadmaps
  <2>4. QED
    BY <1>8b, <2>2, <2>3 DEF FinishCreate
<1>9. ASSUME NEW d \in Drops, DropRoadmap(d)
      PROVE  DelayInv'
  <2>1. PICK r \in Active : status' = [status EXCEPT ![r] = "deleted"]
    BY <1>9 DEF DropRoadmap
  <2>2. Active' = {}
    BY <2>1 DEF DelayInv, AtMostOne, Active, TypeOK
  <2>3. dropped'
    BY <1>9 DEF DropRoadmap
  <2>4. Judged'
    BY <1>9, <1>i DEF DropRoadmap, Judged
  <2>5. QED
    BY <2>2, <2>3, <2>4
       DEF DelayInv, AtMostOne, LockedHasNone, LockedIsDropped, KeepsOneActive
<1>10. ASSUME NEW d \in Deletes, DeleteRoadmap(d)
       PROVE  DelayInv'
  <2>1. CASE UNCHANGED <<status, locked, dropped>>
    BY <1>10, <1>k, <2>1, DelayLabel DEF DeleteRoadmap
  <2>2. ASSUME NEW r \in Roadmaps, Exists(r),
               status' = [status EXCEPT ![r] = "archived"],
               locked' = locked \ {r},
               dropped' = (dropped \/ r \in Active)
        PROVE  DelayInv'
    <3>1. Active' = Active \ {r}
      BY <2>2 DEF Active, TypeOK
    <3>2. /\ UNCHANGED <<slipped, lost>>
          /\ \A g \in Generates : pc[g] \in Gap => pc'[g] \in Gap
          /\ \A s \in Roadmaps : pc'[s] = "index" => pc[s] = "index"
      BY <1>10, <1>i, <1>k DEF DeleteRoadmap, Goto, TypeOK
    <3>3. KeepsOneActive'
      <4>1. SUFFICES ASSUME Active \ {r} = {}, ~dropped, r \notin Active
                     PROVE  lost \/ \E g \in Generates : pc[g] \in Gap
        BY <2>2, <3>1, <3>2 DEF KeepsOneActive
      <4>2. QED
        BY <2>2, <4>1 DEF DelayInv, KeepsOneActive
    <3>4. QED
      BY <2>2, <3>1, <3>2, <3>3
         DEF DelayInv, AtMostOne, LockedHasNone, LockedIsDropped, Judged
  <2>3. QED
    BY <1>10, <2>1, <2>2 DEF DeleteRoadmap
<1>11. ASSUME NEW d \in Deletes, FinishDelete(d)
       PROVE  DelayInv'
  BY <1>11, <1>k, DelayLabel DEF FinishDelete, roadmaps
<1>12. ASSUME NEW q \in Requests, ReadCounter(q)
       PROVE  DelayInv'
  BY <1>12, <1>k, DelayLabel DEF ReadCounter, roadmaps
<1>13. ASSUME NEW q \in Requests, FileRequest(q)
       PROVE  DelayInv'
  BY <1>13, <1>k, DelayLabel DEF FileRequest, roadmaps
<1>14. ASSUME NEW c \in Confirms, ReadRequest(c)
       PROVE  DelayInv'
  BY <1>14, <1>k, DelayLabel DEF ReadRequest, roadmaps
<1>15. ASSUME NEW c \in Confirms, ApplyUpdate(c)
       PROVE  DelayInv'
  BY <1>15, DelayFrame DEF ApplyUpdate, roadmaps
<1>16. ASSUME NEW c \in Confirms, MarkApplied(c)
       PROVE  DelayInv'
  BY <1>16, <1>k, DelayLabel DEF MarkApplied, roadmaps
<1>17. ASSUME NEW c \in Confirms, Increment(c)
       PROVE  DelayInv'
  BY <1>17, <1>k, DelayLabel DEF Increment, roadmaps
<1>18. ASSUME NEW c \in Calls, Dies(c)
       PROVE  DelayInv'
  <2>1. CASE c \in Generates /\ pc[c] \in Gap
    <3>1. lost' /\ Active' = Active /\ UNCHANGED <<locked, slipped, dropped>>
      BY <1>18, <2>1 DEF Dies, Active
    <3>2. \A r \in Roadmaps : pc'[r] = "index" => pc[r] = "index"
      BY <1>18, <1>i DEF Dies
    <3>3. QED
      BY <3>1, <3>2
         DEF DelayInv, AtMostOne, LockedHasNone, LockedIsDropped, Judged,
             KeepsOneActive
  <2>2. CASE ~(c \in Generates /\ pc[c] \in Gap)
    <3>1. lost' = lost
      BY <1>18, <2>2 DEF Dies, TypeOK
    <3>2. QED
      BY <1>18, <2>2, <3>1, DelayLabel DEF Dies
  <2>3. QED
    BY <2>1, <2>2
<1>19. ASSUME NextCycle
       PROVE  DelayInv'
  BY <1>19, DelayFrame DEF NextCycle, roadmaps
<1>20. ASSUME DelayEnds
       PROVE  DelayInv'
  <2>1. /\ locked' = {} /\ dropped' = (dropped /\ Active = {})
        /\ UNCHANGED <<pc, status, slipped, lost>>
    BY <1>20 DEF DelayEnds
  <2>2. Active' = Active /\ \A r : Exists(r)' = Exists(r)
    BY <2>1 DEF Active, Exists
  <2>3. QED
    BY <2>1, <2>2
       DEF DelayInv, AtMostOne, LockedHasNone, LockedIsDropped, Judged,
           KeepsOneActive
<1>21. CASE UNCHANGED vars
  BY <1>21, DelayFrame DEF vars, roadmaps
<1>22. QED
  BY <1>1, <1>2, <1>3, <1>4, <1>5, <1>6, <1>6b, <1>7, <1>8, <1>8b, <1>9, <1>10, <1>11, <1>12,
     <1>13, <1>14, <1>15, <1>16, <1>17, <1>18, <1>19, <1>20, <1>21
     DEF Next, Generate, Request, Confirm

-----------------------------------------------------------------------------
(* free_roadmap_used and the roadmaps that were generated.                 *)
Excused == ~free \/ cleared \/ deaths # 0 \/ faults # 0
RowsLate == \A g \in Generates : Exists(g) => pc[g] \in {"tail", "done", "dead"}
FlagFollows ==
    \A g \in Generates :
        /\ Over(g) /\ Exists(g) => freeUsed
        /\ before[g] # {} => flag[g]
        /\ pc[g] \in {"compute", "archive", "insert", "index", "tail"} => ~flag[g]
        /\ Exists(g) => before[g] = {}
FlagInv == RowsLate /\ (Excused \/ FlagFollows)

(* What happens to no generate keeps it.                                   *)
LEMMA FlagElsewhere ==
    ASSUME FlagInv, UNCHANGED <<free, flag, before>>,
           \A g \in Generates : pc'[g] = pc[g] /\ Exists(g)' = Exists(g),
           Excused' \/ (~Excused /\ UNCHANGED freeUsed)
    PROVE  FlagInv'
<1>1. RowsLate'
  BY DEF FlagInv, RowsLate
<1>2. Excused' \/ FlagFollows'
  BY DEF FlagInv, FlagFollows, Over
<1>3. QED
  BY <1>1, <1>2 DEF FlagInv

(* A step of a call that is no generate and moves only its own label.      *)
LEMMA FlagLabel ==
    ASSUME TypeOK, TypeOK', FlagInv, NEW c, c \notin Generates, NEW l,
           Goto(c, l), UNCHANGED <<free, freeUsed, cleared, flag, before, deaths>>,
           \A g \in Generates : Exists(g)' = Exists(g),
           faults' = faults \/ faults' = faults + 1
    PROVE  FlagInv'
<1>1. \A g \in Generates : pc'[g] = pc[g]
  BY DEF Goto, TypeOK, Calls
<1>2. Excused' \/ ~Excused
  BY DEF Excused, TypeOK
<1>3. QED
  BY <1>1, <1>2, FlagElsewhere

LEMMA Kinds ==
    ASSUME NEW c \in Creates \cup Deletes \cup Drops \cup Requests \cup Confirms
    PROVE  c \notin Generates
  BY KindsDisjoint

LEMMA FlagStep ==
    ASSUME TypeOK, TypeOK', FlagInv, [Next]_vars
    PROVE  FlagInv'
<1> USE DEF args, roadmaps, reads, counters
<1>1. ASSUME NEW g \in Generates, ReadUser(g)
      PROVE  FlagInv'
  <2>1. /\ \A f \in Generates : Exists(f)' = Exists(f)
        /\ UNCHANGED <<free, freeUsed, cleared, deaths>>
        /\ pc[g] = "idle"
        /\ before' = [before EXCEPT ![g] = {f \in Generates : Over(f) /\ Exists(f)}]
    BY <1>1 DEF ReadUser, Exists, Starts
  <2>2. ~Exists(g)
    BY <2>1 DEF FlagInv, RowsLate
  <2>3. \A f \in Generates \ {g} : pc'[f] = pc[f] /\ before'[f] = before[f]
                                   /\ flag'[f] = flag[f]
    <3>1. \E l : pc' = [pc EXCEPT ![g] = l]
      BY <1>1 DEF ReadUser, Goto
    <3>2. \E x : flag' = [flag EXCEPT ![g] = x]
      <4>1. CASE flag' = [flag EXCEPT ![g] = freeUsed]
        BY <4>1
      <4>2. CASE flag' = flag
        <5>1. flag' = [flag EXCEPT ![g] = flag[g]]
          BY <4>2 DEF TypeOK
        <5>2. QED
          BY <5>1
      <4>3. QED
        BY <1>1, <4>1, <4>2 DEF ReadUser
    <3>3. QED
      BY <2>1, <3>1, <3>2 DEF TypeOK, Calls
  <2>4. RowsLate'
    BY <2>1, <2>2, <2>3 DEF FlagInv, RowsLate
  <2>5. CASE Lost
    BY <2>4, <2>5 DEF Lost, FlagInv, Excused, TypeOK
  <2>6. CASE /\ flag' = [flag EXCEPT ![g] = freeUsed]
             /\ Goto(g, "cycle")
             /\ UNCHANGED faults
    <3>1. Excused' = Excused
      BY <2>1, <2>6 DEF Excused
    <3>2. flag'[g] = freeUsed /\ pc'[g] = "cycle"
      BY <2>6 DEF Goto, TypeOK, Calls
    <3>3. ASSUME FlagFollows PROVE before'[g] # {} => freeUsed
      BY <2>1, <3>3 DEF FlagFollows, TypeOK
    <3>4. ASSUME FlagFollows PROVE FlagFollows'
      BY <2>1, <2>2, <2>3, <3>2, <3>3, <3>4 DEF FlagFollows, Over
    <3>5. QED
      BY <2>4, <3>1, <3>4 DEF FlagInv
  <2>7. QED
    BY <1>1, <2>5, <2>6 DEF ReadUser
<1>2. ASSUME NEW g \in Generates, ReadCycle(g)
      PROVE  FlagInv'
  <2>1. /\ \A f \in Generates : Exists(f)' = Exists(f)
        /\ UNCHANGED <<free, freeUsed, cleared, deaths, flag, before>>
        /\ pc[g] = "cycle" /\ pc' = [pc EXCEPT ![g] = "count"]
        /\ faults' = faults \/ faults' = faults + 1
    BY <1>2 DEF ReadCycle, Exists, Goto, Lost
  <2>2. Excused => Excused'
    BY <2>1 DEF Excused, TypeOK
  <2>3. \A f \in Generates : pc'[f] = IF f = g THEN "count" ELSE pc[f]
    BY <2>1 DEF TypeOK, Calls
  <2>4. QED
    BY <2>1, <2>2, <2>3 DEF FlagInv, RowsLate, FlagFollows, Over
<1>3. ASSUME NEW g \in Generates, CountRoadmaps(g)
      PROVE  FlagInv'
  <2>1. /\ \A f \in Generates : Exists(f)' = Exists(f)
        /\ UNCHANGED <<free, freeUsed, cleared, deaths, flag, before>>
        /\ pc[g] = "count"
        /\ faults' = faults \/ faults' = faults + 1
    BY <1>3 DEF CountRoadmaps, Exists, Lost
  <2>2. Excused => Excused'
    BY <2>1 DEF Excused, TypeOK
  <2>3. /\ \A f \in Generates \ {g} : pc'[f] = pc[f]
        /\ pc'[g] = "done" \/ (pc'[g] = "compute" /\ (free => ~flag[g]))
    BY <1>3 DEF CountRoadmaps, Within, Goto, TypeOK, Calls
  <2>4. ~Exists(g)
    BY <2>1 DEF FlagInv, RowsLate
  <2>5. RowsLate'
    BY <2>1, <2>3, <2>4 DEF FlagInv, RowsLate
  <2>6. Excused' \/ FlagFollows'
    BY <2>1, <2>2, <2>3, <2>4 DEF FlagInv, FlagFollows, Over, Excused
  <2>7. QED
    BY <2>5, <2>6 DEF FlagInv
<1>4. ASSUME NEW g \in Generates, Compute(g)
      PROVE  FlagInv'
  <2>1. /\ \A f \in Generates : Exists(f)' = Exists(f)
        /\ UNCHANGED <<free, freeUsed, cleared, deaths, faults, flag, before>>
        /\ pc[g] = "compute"
    BY <1>4 DEF Compute, Exists
  <2>2. /\ \A f \in Generates \ {g} : pc'[f] = pc[f]
        /\ pc'[g] \in {"archive", "done"}
    BY <1>4 DEF Compute, Goto, TypeOK, Calls
  <2>3. ~Exists(g)
    BY <2>1 DEF FlagInv, RowsLate
  <2>4. QED
    BY <2>1, <2>2, <2>3 DEF FlagInv, RowsLate, FlagFollows, Over, Excused
<1>5. ASSUME NEW g \in Generates, ArchiveOld(g)
      PROVE  FlagInv'
  <2>1. \A f \in Generates : Exists(f)' = Exists(f)
    BY <1>5 DEF ArchiveOld, Exists, Active, TypeOK, Roadmaps
  <2>2. /\ UNCHANGED <<free, freeUsed, cleared, deaths, flag, before>>
        /\ pc[g] = "archive"
        /\ faults' = faults \/ faults' = faults + 1
    BY <1>5 DEF ArchiveOld, Lost
  <2>3. Excused => Excused'
    BY <2>2 DEF Excused, TypeOK
  <2>4. \A f \in Generates : pc'[f] = IF f = g THEN "insert" ELSE pc[f]
    BY <1>5 DEF ArchiveOld, Goto, TypeOK, Calls
  <2>5. ~Exists(g)
    BY <2>2 DEF FlagInv, RowsLate
  <2>6. QED
    BY <2>1, <2>2, <2>3, <2>4, <2>5 DEF FlagInv, RowsLate, FlagFollows, Over
<1>6. ASSUME NEW g \in Generates, InsertNew(g)
      PROVE  FlagInv'
  <2>1. /\ \A f \in Generates : Exists(f)' = Exists(f)
        /\ UNCHANGED <<free, freeUsed, cleared, deaths, faults, flag, before>>
        /\ pc[g] = "insert"
    BY <1>6 DEF InsertNew, PassTrigger, Exists
  <2>2. /\ \A f \in Generates \ {g} : pc'[f] = pc[f]
        /\ pc'[g] \in {"index", "done"}
    BY <1>6 DEF InsertNew, PassTrigger, Goto, TypeOK, Calls
  <2>3. ~Exists(g)
    BY <2>1 DEF FlagInv, RowsLate
  <2>4. QED
    BY <2>1, <2>2, <2>3 DEF FlagInv, RowsLate, FlagFollows, Over, Excused
<1>6b. ASSUME NEW g \in Generates, FinishInsert(g)
       PROVE  FlagInv'
  <2>1. /\ UNCHANGED <<free, freeUsed, cleared, deaths, flag, before>>
        /\ pc[g] = "index"
        /\ faults' = faults \/ faults' = faults + 1
    BY <1>6b DEF FinishInsert, Lost
  <2>2. Excused => Excused'
    BY <2>1 DEF Excused, TypeOK
  <2>3. \A f \in Generates \ {g} : Exists(f)' = Exists(f) /\ pc'[f] = pc[f]
    <3>1. \E l : pc' = [pc EXCEPT ![g] = l]
      BY <1>6b DEF FinishInsert, Goto
    <3>2. status' = [status EXCEPT ![g] = "active"] \/ status' = status
      BY <1>6b DEF FinishInsert, InsertRow
    <3>3. QED
      BY <3>1, <3>2 DEF Exists, TypeOK, Roadmaps, Calls
  <2>4. ~Exists(g)
    BY <2>1 DEF FlagInv, RowsLate
  <2>5. pc'[g] = "tail" \/ (pc'[g] = "done" /\ ~Exists(g)')
    BY <1>6b, <2>4 DEF FinishInsert, Exists, Goto, TypeOK, Calls
  <2>6. RowsLate'
    BY <2>3, <2>5 DEF FlagInv, RowsLate
  <2>7. ASSUME FlagFollows PROVE FlagFollows'
    <3>1. ~flag[g] /\ before[g] = {}
      BY <2>1, <2>7 DEF FlagFollows
    <3>2. QED
      BY <2>1, <2>3, <2>5, <2>7, <3>1 DEF FlagFollows, Over
  <2>8. QED
    BY <2>2, <2>6, <2>7 DEF FlagInv
<1>7. ASSUME NEW g \in Generates, FinishGenerate(g)
      PROVE  FlagInv'
  <2>1. /\ \A f \in Generates : Exists(f)' = Exists(f)
        /\ UNCHANGED <<free, cleared, deaths, flag, before>>
        /\ pc[g] = "tail"
        /\ faults' = faults \/ faults' = faults + 1
        /\ faults' = faults => freeUsed' = FlagAfter(g)
    BY <1>7 DEF FinishGenerate, Exists, Lost, TypeOK
  <2>2. \A f \in Generates : pc'[f] = IF f = g THEN "done" ELSE pc[f]
    BY <1>7 DEF FinishGenerate, Goto, TypeOK, Calls
  <2>3. RowsLate'
    BY <2>1, <2>2 DEF FlagInv, RowsLate
  <2>4. Excused' \/ (~Excused /\ freeUsed')
    <3>1. CASE Excused
      BY <2>1, <3>1 DEF Excused, TypeOK
    <3>2. CASE ~Excused /\ faults' = faults
      BY <2>1, <3>2 DEF Excused, FlagAfter
    <3>3. CASE faults' = faults + 1
      BY <3>3 DEF Excused, TypeOK
    <3>4. QED
      BY <2>1, <3>1, <3>2, <3>3
  <2>5. ASSUME FlagFollows, freeUsed' PROVE FlagFollows'
    BY <2>1, <2>2, <2>5 DEF FlagFollows, Over
  <2>6. QED
    BY <2>3, <2>4, <2>5 DEF FlagInv
<1>8. ASSUME NEW c \in Creates, CreateRoadmap(c)
      PROVE  FlagInv'
  <2>1. c \notin Generates
    BY Kinds
  <2>2. \A g \in Generates : Exists(g)' = Exists(g)
    BY <1>8 DEF CreateRoadmap, PassTrigger, Exists
  <2>3. QED
    BY <1>8, <2>1, <2>2, FlagLabel DEF CreateRoadmap, PassTrigger
<1>8b. ASSUME NEW c \in Creates, FinishCreate(c)
       PROVE  FlagInv'
  <2>1. c \notin Generates
    BY Kinds
  <2>2. \A g \in Generates : Exists(g)' = Exists(g)
    BY <1>8b, <2>1 DEF FinishCreate, InsertRow, Exists, TypeOK, Roadmaps
  <2>3. QED
    BY <1>8b, <2>1, <2>2, FlagLabel DEF FinishCreate
<1>9. ASSUME NEW d \in Drops, DropRoadmap(d)
      PROVE  FlagInv'
  <2>1. d \notin Generates
    BY Kinds
  <2>2. \A g \in Generates : Exists(g)' = Exists(g)
    BY <1>9 DEF DropRoadmap, Exists, Active, TypeOK, Roadmaps
  <2>3. QED
    BY <1>9, <2>1, <2>2, FlagLabel DEF DropRoadmap
<1>10. ASSUME NEW d \in Deletes, DeleteRoadmap(d)
       PROVE  FlagInv'
  <2>1. d \notin Generates
    BY Kinds
  <2>2. \A g \in Generates : Exists(g)' = Exists(g)
    BY <1>10 DEF DeleteRoadmap, Exists, TypeOK, Roadmaps
  <2>3. faults' = faults \/ faults' = faults + 1
    BY <1>10 DEF DeleteRoadmap, Lost
  <2>4. QED
    BY <1>10, <2>1, <2>2, <2>3, FlagLabel DEF DeleteRoadmap
<1>11. ASSUME NEW d \in Deletes, FinishDelete(d)
       PROVE  FlagInv'
  <2>1. /\ \A g \in Generates : pc'[g] = pc[g] /\ Exists(g)' = Exists(g)
        /\ UNCHANGED <<free, flag, before>>
    BY <1>11, Kinds DEF FinishDelete, Goto, Exists, TypeOK, Calls
  <2>2. Excused'
    BY <1>11 DEF FinishDelete, Lost, Excused, TypeOK
  <2>3. QED
    BY <2>1, <2>2, FlagElsewhere
<1>12. ASSUME NEW q \in Requests, Request(q)
       PROVE  FlagInv'
  <2>1. q \notin Generates
    BY Kinds
  <2>2. /\ \A g \in Generates : Exists(g)' = Exists(g)
        /\ faults' = faults \/ faults' = faults + 1
        /\ UNCHANGED <<free, freeUsed, cleared, flag, before, deaths>>
    BY <1>12 DEF Request, ReadCounter, FileRequest, Lost, Exists
  <2>3. PICK l : Goto(q, l)
    BY <1>12 DEF Request, ReadCounter, FileRequest
  <2>4. QED
    BY <2>1, <2>2, <2>3, FlagLabel
<1>13. ASSUME NEW c \in Confirms, Confirm(c)
       PROVE  FlagInv'
  <2>1. c \notin Generates
    BY Kinds
  <2>2. /\ \A g \in Generates : Exists(g)' = Exists(g)
        /\ faults' = faults \/ faults' = faults + 1
        /\ UNCHANGED <<free, freeUsed, cleared, flag, before, deaths>>
    BY <1>13 DEF Confirm, ReadRequest, ApplyUpdate, MarkApplied, Increment, Lost, Exists
  <2>3. CASE ApplyUpdate(c)
    <3>1. UNCHANGED pc
      BY <2>3 DEF ApplyUpdate
    <3>2. Excused' \/ ~Excused
      BY <2>2 DEF Excused, TypeOK
    <3>3. QED
      BY <2>2, <3>1, <3>2, FlagElsewhere
  <2>4. CASE ~ApplyUpdate(c)
    <3>1. PICK l : Goto(c, l)
      BY <1>13, <2>4 DEF Confirm, ReadRequest, MarkApplied, Increment
    <3>2. QED
      BY <2>1, <2>2, <3>1, FlagLabel
  <2>5. QED
    BY <2>3, <2>4
<1>14. ASSUME NEW c \in Calls, Dies(c)
       PROVE  FlagInv'
  <2>1. /\ \A g \in Generates : Exists(g)' = Exists(g)
        /\ \A g \in Generates : pc'[g] = pc[g] \/ pc'[g] = "dead"
    BY <1>14 DEF Dies, Exists, Goto, TypeOK, Calls
  <2>2. Excused'
    BY <1>14 DEF Dies, Excused, TypeOK
  <2>3. QED
    BY <2>1, <2>2 DEF FlagInv, RowsLate
<1>15. CASE NextCycle \/ DelayEnds \/ UNCHANGED vars
  <2>1. /\ \A g \in Generates : pc'[g] = pc[g] /\ Exists(g)' = Exists(g)
        /\ UNCHANGED <<free, flag, before, freeUsed, cleared, deaths, faults>>
    BY <1>15 DEF NextCycle, DelayEnds, vars, Exists
  <2>2. Excused' = Excused
    BY <2>1 DEF Excused
  <2>3. QED
    BY <2>1, <2>2, FlagElsewhere
<1>16. QED
  BY <1>1, <1>2, <1>3, <1>4, <1>5, <1>6, <1>6b, <1>7, <1>8, <1>8b, <1>9, <1>10,
     <1>11, <1>12, <1>13, <1>14, <1>15 DEF Next, Generate

-----------------------------------------------------------------------------
(* The calls that run, and the count of roadmaps.                          *)
OpenBounded == Cardinality(Open) <= MaxOpen
CyclesKnown ==
    /\ \A r \in Roadmaps : born[r] <= cycle
    /\ \A g \in Generates : since[g] <= cycle
CountInv == OpenBounded /\ CyclesKnown /\ OvershootBounded

LEMMA Finite ==
    /\ IsFiniteSet(Generates) /\ IsFiniteSet(Roadmaps)
    /\ IsFiniteSet(Open) /\ IsFiniteSet(Taken)
<1>1. /\ Generates \subseteq Calls /\ Roadmaps \subseteq Calls
      /\ Open \subseteq Calls /\ Taken \subseteq Calls
  BY DEF Calls, Roadmaps, Open, Taken
<1>2. QED
  BY <1>1, CallsFinite, FS_Subset

(* One more member counts one more at most.                                *)
LEMMA OneMore ==
    ASSUME NEW A, IsFiniteSet(A), NEW B, NEW x, B \subseteq A \cup {x}
    PROVE  /\ IsFiniteSet(B)
           /\ Cardinality(B) \in Nat /\ Cardinality(A) \in Nat
           /\ Cardinality(B) <= Cardinality(A) + 1
<1>1. IsFiniteSet(A \cup {x}) /\ Cardinality(A \cup {x}) <= Cardinality(A) + 1
  <2>1. Cardinality(A) \in Nat
    BY FS_CardinalityType
  <2>2. /\ IsFiniteSet(A \cup {x})
        /\ Cardinality(A \cup {x}) = IF x \in A THEN Cardinality(A)
                                                 ELSE Cardinality(A) + 1
    BY FS_AddElement
  <2>3. QED
    BY <2>1, <2>2
<1>2. QED
  BY <1>1, FS_Subset, FS_CardinalityType

(* No more than MaxOpen calls ever run.                                    *)
LEMMA OpenStep ==
    ASSUME TypeOK, TypeOK', OpenBounded, [Next]_vars
    PROVE  OpenBounded'
<1>1. \/ Open' \subseteq Open
      \/ \E c \in Calls : Starts(c) /\ Open' \subseteq Open \cup {c}
  <2> USE DEF Goto, Open, Over, TypeOK
  <2>1. ASSUME NEW g \in Generates, Generate(g)
        PROVE  \/ Open' \subseteq Open
               \/ Starts(g) /\ Open' \subseteq Open \cup {g}
    BY <2>1 DEF Generate, ReadUser, ReadCycle, CountRoadmaps, Compute, ArchiveOld,
                InsertNew, PassTrigger, FinishInsert, FinishGenerate
  <2>2. ASSUME NEW c \in Creates, CreateRoadmap(c) \/ FinishCreate(c)
        PROVE  \/ Open' \subseteq Open
               \/ Starts(c) /\ Open' \subseteq Open \cup {c}
    BY <2>2 DEF CreateRoadmap, PassTrigger, FinishCreate
  <2>3. ASSUME NEW d \in Drops, DropRoadmap(d)
        PROVE  Starts(d) /\ Open' \subseteq Open \cup {d}
    BY <2>3 DEF DropRoadmap
  <2>4. ASSUME NEW d \in Deletes, DeleteRoadmap(d) \/ FinishDelete(d)
        PROVE  \/ Open' \subseteq Open
               \/ Starts(d) /\ Open' \subseteq Open \cup {d}
    BY <2>4 DEF DeleteRoadmap, FinishDelete
  <2>5. ASSUME NEW q \in Requests, Request(q)
        PROVE  \/ Open' \subseteq Open
               \/ Starts(q) /\ Open' \subseteq Open \cup {q}
    BY <2>5 DEF Request, ReadCounter, FileRequest
  <2>6. ASSUME NEW c \in Confirms, Confirm(c)
        PROVE  \/ Open' \subseteq Open
               \/ Starts(c) /\ Open' \subseteq Open \cup {c}
    BY <2>6 DEF Confirm, ReadRequest, ApplyUpdate, MarkApplied, Increment
  <2>7. ASSUME NEW c \in Calls, Dies(c)
        PROVE  Open' \subseteq Open
    BY <2>7 DEF Dies
  <2>8. CASE NextCycle \/ DelayEnds \/ UNCHANGED vars
    BY <2>8 DEF NextCycle, DelayEnds, vars
  <2>9. QED
    BY <2>1, <2>2, <2>3, <2>4, <2>5, <2>6, <2>7, <2>8 DEF Next, Calls
<1>2. CASE Open' \subseteq Open
  BY <1>2, Finite, FS_Subset, FS_CardinalityType, LimitsType DEF OpenBounded
<1>3. ASSUME NEW c \in Calls, Starts(c), Open' \subseteq Open \cup {c}
      PROVE  OpenBounded'
  <2>1. /\ Cardinality(Open') <= Cardinality(Open) + 1
        /\ Cardinality(Open) \in Nat /\ Cardinality(Open') \in Nat
    BY <1>3, Finite, OneMore
  <2>2. QED
    BY <1>3, <2>1, LimitsType DEF Starts, OpenBounded
<1>4. QED
  BY <1>1, <1>2, <1>3

LEMMA CyclesStep ==
    ASSUME TypeOK, TypeOK', CyclesKnown, [Next]_vars
    PROVE  CyclesKnown'
<1> USE DEF args, roadmaps, reads
<1>1. CASE UNCHANGED <<born, since, cycle>>
  BY <1>1 DEF CyclesKnown
<1>2. CASE UNCHANGED <<born, since>> /\ cycle' = cycle + 1
  BY <1>2 DEF CyclesKnown, TypeOK
<1>3. ASSUME NEW g \in Generates, since' = [since EXCEPT ![g] = cycle],
             UNCHANGED <<born, cycle>>
      PROVE  CyclesKnown'
  BY <1>3 DEF CyclesKnown, TypeOK
<1>4. ASSUME NEW r \in Roadmaps, PassTrigger(r), UNCHANGED <<since, cycle>>
      PROVE  CyclesKnown'
  BY <1>4 DEF CyclesKnown, TypeOK, PassTrigger
<1>5. ASSUME NEW g \in Generates, Generate(g)
      PROVE  CyclesKnown'
  BY <1>1, <1>3, <1>4, <1>5
     DEF Generate, ReadUser, ReadCycle, CountRoadmaps, Compute, ArchiveOld,
         InsertNew, FinishInsert, InsertRow, FinishGenerate, Roadmaps
<1>6. ASSUME NEW c \in Creates, CreateRoadmap(c) \/ FinishCreate(c)
      PROVE  CyclesKnown'
  BY <1>1, <1>4, <1>6 DEF CreateRoadmap, FinishCreate, InsertRow, Roadmaps
<1>7. QED
  BY <1>1, <1>2, <1>5, <1>6
     DEF Next, DropRoadmap, DeleteRoadmap, FinishDelete, Request, ReadCounter,
         FileRequest, Confirm, ReadRequest, ApplyUpdate, MarkApplied, Increment,
         Dies, NextCycle, DelayEnds, vars

(* What adds no generate to those taken keeps the bound.                   *)
LEMMA TakenShrinks ==
    ASSUME TypeOK, TypeOK', OvershootBounded, Taken' \subseteq Taken,
           free' = free, faults' >= faults
    PROVE  OvershootBounded'
<1>1. /\ Cardinality(Taken') <= Cardinality(Taken)
      /\ Cardinality(Taken) \in Nat /\ Cardinality(Taken') \in Nat
  BY Finite, FS_Subset, FS_CardinalityType
<1>2. Limit' = Limit /\ Limit \in Nat
  BY LimitsType DEF Limit
<1>3. QED
  BY <1>1, <1>2, LimitsType DEF OvershootBounded, TypeOK

-----------------------------------------------------------------------------
(* Modifications: what a request still lacks, and what still counts it.    *)
InOrder == \A c \in Confirms : next[c] <= written[of[c]] + 1
Whole == \A q \in Requests : request[q] = "applied" => written[q] = Updates
Ledger(g) == Cardinality(Applied(g))
                <= used[g] + Cardinality(Counting(g)) + deaths + faults
ModInv == /\ faults = 0 => InOrder /\ Whole
          /\ \A g \in Generates : Ledger(g)

LEMMA FiniteMods ==
    ASSUME NEW g
    PROVE  /\ IsFiniteSet(Applied(g)) /\ IsFiniteSet(Counting(g))
           /\ Cardinality(Applied(g)) \in Nat /\ Cardinality(Counting(g)) \in Nat
<1>1. Applied(g) \subseteq Calls /\ Counting(g) \subseteq Calls
  BY DEF Applied, Counting, Calls
<1>2. IsFiniteSet(Applied(g)) /\ IsFiniteSet(Counting(g))
  BY <1>1, CallsFinite, FS_Subset
<1>3. QED
  BY <1>2, FS_CardinalityType

(* Nothing more is applied, and nothing that counts gets less.             *)
LEMMA LedgerKept ==
    ASSUME TypeOK, TypeOK', NEW g \in Generates, Ledger(g),
           NEW A, NEW B, Applied(g)' = A, Counting(g)' = B,
           A \subseteq Applied(g), Counting(g) \subseteq B,
           used'[g] >= used[g], deaths' >= deaths, faults' >= faults
    PROVE  Ledger(g)'
<1>1. /\ IsFiniteSet(A) /\ IsFiniteSet(B)
      /\ Cardinality(A) \in Nat /\ Cardinality(B) \in Nat
  <2>1. A \subseteq Calls /\ B \subseteq Calls
    BY DEF Applied, Counting, Calls
  <2>2. QED
    BY <2>1, CallsFinite, FS_Subset, FS_CardinalityType
<1>2. /\ Cardinality(A) <= Cardinality(Applied(g))
      /\ Cardinality(Counting(g)) <= Cardinality(B)
  BY <1>1, FiniteMods, FS_Subset
<1>3. QED
  BY <1>1, <1>2, FiniteMods DEF Ledger, TypeOK

(* One confirm stops counting, and the counter or a failure takes over.    *)
LEMMA LedgerMoves ==
    ASSUME TypeOK, TypeOK', NEW g \in Generates, Ledger(g), NEW c,
           NEW B, Applied(g)' = Applied(g), Counting(g)' = B,
           Counting(g) \subseteq B \cup {c},
           used'[g] + deaths' + faults' >= used[g] + deaths + faults + 1
    PROVE  Ledger(g)'
<1>1. IsFiniteSet(B) /\ Cardinality(B) \in Nat
  <2>1. B \subseteq Calls
    BY DEF Counting, Calls
  <2>2. QED
    BY <2>1, CallsFinite, FS_Subset, FS_CardinalityType
<1>2. Cardinality(Counting(g)) <= Cardinality(B) + 1
  BY <1>1, OneMore
<1>3. QED
  BY <1>1, <1>2, FiniteMods DEF Ledger, TypeOK

(* One request more is applied, and its confirm counts it.                 *)
LEMMA LedgerGrows ==
    ASSUME TypeOK, TypeOK', NEW g \in Generates, Ledger(g), NEW c, NEW q,
           NEW A, Applied(g)' = A, A \subseteq Applied(g) \cup {q},
           Counting(g)' = Counting(g) \cup {c}, c \notin Counting(g),
           UNCHANGED <<used, deaths, faults>>
    PROVE  Ledger(g)'
<1>1. Cardinality(A) <= Cardinality(Applied(g)) + 1 /\ Cardinality(A) \in Nat
  BY FiniteMods, OneMore
<1>2. Cardinality(Counting(g) \cup {c}) = Cardinality(Counting(g)) + 1
  BY FiniteMods, FS_AddElement
<1>3. QED
  BY <1>1, <1>2, FiniteMods DEF Ledger, TypeOK

(* A call that is no confirm at its counter leaves those that count.       *)
LEMMA CountingElsewhere ==
    ASSUME TypeOK, NEW g \in Generates, UNCHANGED <<on, of>>, NEW c, NEW l,
           Goto(c, l), c \notin Counting(g)
    PROVE  Counting(g) \subseteq Counting(g)'
  BY DEF Counting, Goto, TypeOK, Calls

(* Steps that touch neither requests nor their counters.                   *)
LEMMA ModsElsewhere ==
    ASSUME TypeOK, TypeOK', ModInv, UNCHANGED <<on, of, mods>>,
           NEW l, UNCHANGED pc \/ (\E c \in Calls : pc[c] # "increment" /\ Goto(c, l)),
           faults' >= faults, deaths' >= deaths
    PROVE  ModInv'
<1>1. faults' = 0 => InOrder' /\ Whole'
  BY DEF ModInv, InOrder, Whole, mods, TypeOK
<1>2. ASSUME NEW g \in Generates PROVE Ledger(g)'
  <2>1. Applied(g)' = Applied(g)
    BY DEF Applied, mods
  <2>2. Counting(g) \subseteq Counting(g)'
    BY DEF Counting, Goto, TypeOK, Calls
  <2>3. used'[g] >= used[g]
    BY DEF mods, TypeOK
  <2>4. QED
    BY <2>1, <2>2, <2>3, LedgerKept DEF ModInv
<1>3. QED
  BY <1>1, <1>2 DEF ModInv

LEMMA ModStep ==
    ASSUME TypeOK, TypeOK', ModInv, [Next]_vars
    PROVE  ModInv'
<1>1. UNCHANGED <<on, of>> /\ faults' >= faults /\ deaths' >= deaths
  <2> USE DEF Lost, TypeOK, args, counters
  <2>1. ASSUME NEW g \in Generates, Generate(g)
        PROVE  UNCHANGED <<on, of>> /\ faults' >= faults /\ deaths' >= deaths
    BY <2>1 DEF Generate, ReadUser, ReadCycle, CountRoadmaps, Compute, ArchiveOld,
                InsertNew, FinishInsert, FinishGenerate
  <2>2. QED
    BY <2>1 DEF Next, CreateRoadmap, FinishCreate, DropRoadmap, DeleteRoadmap,
         FinishDelete, Request, ReadCounter, FileRequest, Confirm, ReadRequest, ApplyUpdate,
         MarkApplied, Increment, Dies, NextCycle, DelayEnds, vars
<1>2. ASSUME NEW c \in Calls, NEW l, pc[c] # "increment", Goto(c, l), UNCHANGED mods
      PROVE  ModInv'
  BY <1>1, <1>2, ModsElsewhere
<1>3. ASSUME NEW g \in Generates, Generate(g)
      PROVE  ModInv'
  BY <1>2, <1>3 DEF Generate, ReadUser, ReadCycle, CountRoadmaps, Compute,
                    ArchiveOld, InsertNew, PassTrigger, FinishInsert,
                    FinishGenerate, Starts, Calls
<1>4. ASSUME NEW c \in Calls, CreateRoadmap(c) \/ FinishCreate(c) \/ DropRoadmap(c)
                              \/ DeleteRoadmap(c) \/ FinishDelete(c)
                              \/ ReadCounter(c)
      PROVE  ModInv'
  BY <1>2, <1>4 DEF CreateRoadmap, PassTrigger, FinishCreate, DropRoadmap,
                    DeleteRoadmap, FinishDelete, ReadCounter, Starts
<1>5. ASSUME NEW q \in Requests, FileRequest(q)
      PROVE  ModInv'
  <2>1. /\ request' = [request EXCEPT ![q] = "pending"] \/ UNCHANGED request
        /\ UNCHANGED <<used, written, next>>
        /\ pc[q] = "file" /\ Goto(q, "done")
    BY <1>5 DEF FileRequest
  <2>2. faults' = 0 => InOrder' /\ Whole'
    BY <1>1, <2>1 DEF ModInv, InOrder, Whole, TypeOK
  <2>3. ASSUME NEW g \in Generates PROVE Ledger(g)'
    <3>1. Applied(g)' \subseteq Applied(g)
      BY <1>1, <2>1 DEF Applied, TypeOK
    <3>2. q \notin Counting(g)
      BY <2>1 DEF Counting
    <3>3. Counting(g) \subseteq Counting(g)'
      BY <1>1, <2>1, <3>2, CountingElsewhere
    <3>4. used'[g] >= used[g]
      BY <2>1 DEF TypeOK
    <3>5. QED
      BY <1>1, <3>1, <3>3, <3>4, LedgerKept DEF ModInv
  <2>4. QED
    BY <2>2, <2>3 DEF ModInv
<1>6. ASSUME NEW c \in Confirms, ReadRequest(c)
      PROVE  ModInv'
  BY <1>2, <1>6 DEF ReadRequest, Starts, Calls
<1>7. ASSUME NEW c \in Confirms, ApplyUpdate(c)
      PROVE  ModInv'
  <2>1. /\ UNCHANGED <<request, used, pc>>
        /\ next' = [next EXCEPT ![c] = @ + 1]
        /\ next[c] <= Updates
    BY <1>7 DEF ApplyUpdate
  <2>2. ASSUME faults' = 0 PROVE InOrder' /\ Whole'
    <3>1. faults = 0
      BY <1>1, <2>2 DEF TypeOK
    <3>2. written' = [written EXCEPT ![of[c]] = IF @ < next[c] THEN next[c] ELSE @]
      BY <1>7, <2>2, <3>1 DEF ApplyUpdate, Lost
    <3>3. written'[of[c]] >= next[c] /\ written'[of[c]] >= written[of[c]]
      BY <3>2 DEF TypeOK
    <3>4. \A q \in Requests : written'[q] >= written[q] /\ written'[q] <= Updates
      BY <3>2, LimitsType DEF TypeOK
    <3>5. \A d \in Confirms : next'[d] = IF d = c THEN next[c] + 1 ELSE next[d]
      BY <2>1 DEF TypeOK
    <3>6. InOrder /\ Whole
      BY <3>1 DEF ModInv
    <3>7. ASSUME NEW d \in Confirms PROVE next'[d] <= written'[of[d]] + 1
      <4>1. of[d] \in Requests /\ of[c] \in Requests /\ next[d] \in Nat /\ next[c] \in Nat
        BY LimitsType DEF TypeOK
      <4>2. written[of[d]] \in Nat /\ written'[of[d]] \in Nat
            /\ written'[of[c]] \in Nat /\ written[of[c]] \in Nat
        BY <4>1, LimitsType DEF TypeOK
      <4>3. next[d] <= written[of[d]] + 1 /\ written'[of[d]] >= written[of[d]]
        BY <3>4, <3>6, <4>1 DEF InOrder
      <4>4. CASE d = c
        BY <3>3, <3>5, <4>1, <4>2, <4>4
      <4>5. CASE d # c
        BY <3>5, <4>1, <4>2, <4>3, <4>5
      <4>6. QED
        BY <4>4, <4>5
    <3>8. InOrder'
      BY <1>1, <3>7 DEF InOrder
    <3>9. Whole'
      <4>1. ASSUME NEW q \in Requests, request[q] = "applied"
            PROVE  written'[q] = Updates
        <5>1. /\ written[q] = Updates /\ written'[q] >= written[q]
              /\ written'[q] <= Updates
          BY <3>4, <3>6, <4>1 DEF Whole
        <5>2. written'[q] \in 0..Updates /\ Updates \in Nat
          BY LimitsType DEF TypeOK
        <5>3. QED
          BY <5>1, <5>2
      <4>2. QED
        BY <2>1, <4>1 DEF Whole
    <3>10. QED
      BY <3>8, <3>9
  <2>3. ASSUME NEW g \in Generates PROVE Ledger(g)'
    <3>1. Applied(g)' = Applied(g) /\ Counting(g)' = Counting(g)
      BY <1>1, <2>1 DEF Applied, Counting
    <3>2. used'[g] >= used[g]
      BY <2>1 DEF TypeOK
    <3>3. QED
      BY <1>1, <3>1, <3>2, LedgerKept DEF ModInv
  <2>4. QED
    BY <2>2, <2>3 DEF ModInv
<1>8. ASSUME NEW c \in Confirms, MarkApplied(c)
      PROVE  ModInv'
  <2>1. /\ UNCHANGED <<used, written, next, deaths>>
        /\ pc[c] = "apply" /\ next[c] > Updates
        /\ Goto(c, "increment")
    BY <1>8 DEF MarkApplied
  <2>2. \/ request' = [request EXCEPT ![of[c]] = "applied"] /\ faults' = faults
        \/ UNCHANGED request /\ faults' = faults + 1
    BY <1>8 DEF MarkApplied, Lost
  <2>3. ASSUME faults' = 0 PROVE InOrder' /\ Whole'
    <3>1. faults = 0 /\ InOrder /\ Whole
      BY <1>1, <2>3 DEF ModInv, TypeOK
    <3>2. written[of[c]] = Updates
      <4>1. /\ written[of[c]] \in 0..Updates /\ next[c] \in 1..(Updates + 1)
            /\ Updates \in Nat
        BY LimitsType DEF TypeOK
      <4>2. next[c] <= written[of[c]] + 1
        BY <3>1 DEF InOrder
      <4>3. QED
        BY <2>1, <4>1, <4>2
    <3>3. QED
      BY <1>1, <2>1, <2>2, <3>1, <3>2 DEF InOrder, Whole, TypeOK
  <2>4. ASSUME NEW g \in Generates PROVE Ledger(g)'
    <3>1. c \notin Counting(g)
      BY <2>1 DEF Counting
    <3>2. Counting(g) \subseteq Counting(g)'
      BY <1>1, <2>1, <3>1, CountingElsewhere
    <3>3. used'[g] >= used[g]
      BY <2>1 DEF TypeOK
    <3>4. CASE Applied(g)' \subseteq Applied(g)
      BY <1>1, <3>2, <3>3, <3>4, LedgerKept DEF ModInv
    <3>5. CASE /\ on[of[c]] = g /\ faults' = faults
               /\ request' = [request EXCEPT ![of[c]] = "applied"]
      <4>1. Applied(g)' \subseteq Applied(g) \cup {of[c]}
        BY <1>1, <3>5 DEF Applied, TypeOK
      <4>2. Counting(g)' = Counting(g) \cup {c}
        BY <1>1, <2>1, <3>5 DEF Counting, Goto, TypeOK, Calls
      <4>3. QED
        BY <2>1, <3>1, <3>5, <4>1, <4>2, LedgerGrows DEF ModInv
    <3>6. Applied(g)' \subseteq Applied(g) \/ (on[of[c]] = g /\ faults' = faults
               /\ request' = [request EXCEPT ![of[c]] = "applied"])
      BY <1>1, <2>2 DEF Applied, TypeOK
    <3>7. QED
      BY <3>4, <3>5, <3>6
  <2>5. QED
    BY <2>3, <2>4 DEF ModInv
<1>9. ASSUME NEW c \in Confirms, Increment(c)
      PROVE  ModInv'
  <2>1. /\ UNCHANGED <<request, written, next, deaths>>
        /\ pc[c] = "increment" /\ Goto(c, "done")
        /\ \/ used' = [used EXCEPT ![on[of[c]]] = @ + 1] /\ faults' = faults
           \/ UNCHANGED used /\ faults' = faults + 1
    BY <1>9 DEF Increment, Lost
  <2>2. faults' = 0 => InOrder' /\ Whole'
    BY <1>1, <2>1 DEF ModInv, InOrder, Whole, TypeOK
  <2>3. ASSUME NEW g \in Generates PROVE Ledger(g)'
    <3>1. Applied(g)' = Applied(g)
      BY <1>1, <2>1 DEF Applied
    <3>2. CASE on[of[c]] = g
      <4>1. Counting(g) \subseteq Counting(g)' \cup {c}
        BY <1>1, <2>1 DEF Counting, Goto, TypeOK, Calls
      <4>2. used'[g] + deaths' + faults' >= used[g] + deaths + faults + 1
        BY <2>1, <3>2 DEF TypeOK
      <4>3. QED
        BY <3>1, <4>1, <4>2, LedgerMoves DEF ModInv
    <3>3. CASE on[of[c]] # g
      <4>1. c \notin Counting(g)
        BY <3>3 DEF Counting
      <4>2. Counting(g) \subseteq Counting(g)'
        BY <1>1, <2>1, <4>1, CountingElsewhere
      <4>3. used'[g] >= used[g]
        BY <2>1 DEF TypeOK
      <4>4. QED
        BY <1>1, <3>1, <4>2, <4>3, LedgerKept DEF ModInv
    <3>4. QED
      BY <3>2, <3>3
  <2>4. QED
    BY <2>2, <2>3 DEF ModInv
<1>10. ASSUME NEW c \in Calls, Dies(c)
       PROVE  ModInv'
  <2>1. /\ UNCHANGED <<mods, faults>> /\ deaths' = deaths + 1 /\ Goto(c, "dead")
    BY <1>10 DEF Dies
  <2>2. faults' = 0 => InOrder' /\ Whole'
    BY <1>1, <2>1 DEF ModInv, InOrder, Whole, mods
  <2>3. ASSUME NEW g \in Generates PROVE Ledger(g)'
    <3>1. Applied(g)' = Applied(g)
      BY <1>1, <2>1 DEF Applied, mods
    <3>2. Counting(g) \subseteq Counting(g)' \cup {c}
      BY <1>1, <2>1 DEF Counting, Goto, TypeOK, Calls
    <3>3. used'[g] + deaths' + faults' >= used[g] + deaths + faults + 1
      BY <2>1 DEF mods, TypeOK
    <3>4. QED
      BY <3>1, <3>2, <3>3, LedgerMoves DEF ModInv
  <2>4. QED
    BY <2>2, <2>3 DEF ModInv
<1>11. CASE NextCycle \/ DelayEnds \/ UNCHANGED vars
  <2>1. UNCHANGED <<pc, mods>>
    BY <1>11 DEF NextCycle, DelayEnds, vars
  <2>2. QED
    BY <1>1, <2>1, ModsElsewhere
<1>12. QED
  BY <1>3, <1>4, <1>5, <1>6, <1>7, <1>8, <1>9, <1>10, <1>11
     DEF Next, Request, Confirm, Calls

(* The generate that the count lets pass comes on top of the roadmaps it   *)
(* has counted and of the calls that run, itself among them.               *)
LEMMA CountPasses ==
    ASSUME TypeOK, TypeOK', CountInv, NEW g \in Generates, pc[g] = "count",
           Within(g), Goto(g, "compute"),
           UNCHANGED <<args, roadmaps, cycle, faults>>
    PROVE  OvershootBounded'
<1> DEFINE Born == {f \in Generates : Exists(f) /\ born[f] = cycle}
<1>1. Born \subseteq RoadmapsSince(since[g])
  BY DEF RoadmapsSince, Roadmaps, CountInv, CyclesKnown, TypeOK
<1>2. Taken' \subseteq Born \cup Open
  BY DEF Taken, Open, Over, Goto, Exists, TypeOK, Calls, roadmaps
<1>3. /\ IsFiniteSet(RoadmapsSince(since[g])) /\ IsFiniteSet(Born)
      /\ Cardinality(Born) <= Cardinality(RoadmapsSince(since[g]))
      /\ Cardinality(Born) \in Nat
      /\ Cardinality(RoadmapsSince(since[g])) \in Nat
  <2>1. RoadmapsSince(since[g]) \subseteq Roadmaps
    BY DEF RoadmapsSince
  <2>2. IsFiniteSet(RoadmapsSince(since[g]))
    BY <2>1, Finite, FS_Subset
  <2>3. QED
    BY <2>2, <1>1, FS_Subset, FS_CardinalityType
<1> HIDE DEF Born
<1>4. /\ Cardinality(Born \cup Open) <= Cardinality(Born) + Cardinality(Open)
      /\ IsFiniteSet(Born \cup Open)
      /\ Cardinality(Open) \in Nat /\ Cardinality(Born \cup Open) \in Nat
  <2>1. /\ IsFiniteSet(Born \cup Open) /\ IsFiniteSet(Born \cap Open)
        /\ Cardinality(Born \cup Open) =
              Cardinality(Born) + Cardinality(Open) - Cardinality(Born \cap Open)
    BY <1>3, Finite, FS_Union, FS_Intersection
  <2>2. QED
    BY <2>1, <1>3, Finite, FS_CardinalityType
<1>5. Cardinality(Taken') <= Cardinality(Born \cup Open) /\ Cardinality(Taken') \in Nat
  BY <1>2, <1>4, FS_Subset, FS_CardinalityType
<1>6. Cardinality(RoadmapsSince(since[g])) < Limit /\ Limit \in Nat
  BY LimitsType DEF Within, Limit
<1>7. Limit' = Limit /\ faults' = faults
  BY DEF Limit, args
<1>8. QED
  BY <1>3, <1>4, <1>5, <1>6, <1>7, LimitsType
     DEF CountInv, OpenBounded, OvershootBounded, TypeOK

LEMMA OvershootStep ==
    ASSUME TypeOK, TypeOK', RowsLate, CountInv, [Next]_vars
    PROVE  OvershootBounded'
<1> USE DEF args, roadmaps
<1>1. ASSUME NEW g \in Generates, CountRoadmaps(g)
      PROVE  OvershootBounded'
  <2>1. CASE Goto(g, IF Within(g) THEN "compute" ELSE "done") /\ UNCHANGED faults
    <3>1. CASE Within(g)
      BY <1>1, <2>1, <3>1, CountPasses DEF CountRoadmaps
    <3>2. CASE ~Within(g)
      <4>1. Taken' \subseteq Taken
        BY <1>1, <2>1, <3>2 DEF CountRoadmaps, Taken, Exists, Goto, TypeOK, Calls
      <4>2. QED
        BY <1>1, <2>1, <4>1, TakenShrinks DEF CountRoadmaps, CountInv, TypeOK
    <3>3. QED
      BY <3>1, <3>2
  <2>2. CASE Lost
    <3>1. Taken' \subseteq Taken \cup {g}
      BY <1>1 DEF CountRoadmaps, Taken, Exists, Goto, TypeOK, Calls
    <3>2. /\ Cardinality(Taken') <= Cardinality(Taken) + 1
          /\ Cardinality(Taken) \in Nat /\ Cardinality(Taken') \in Nat
      BY <3>1, Finite, OneMore
    <3>3. Limit' = Limit /\ Limit \in Nat
      BY <1>1, LimitsType DEF CountRoadmaps, Limit
    <3>4. QED
      BY <2>2, <3>2, <3>3, LimitsType DEF Lost, CountInv, OvershootBounded, TypeOK
  <2>3. QED
    BY <1>1, <2>1, <2>2 DEF CountRoadmaps
<1>2. CASE Taken' \subseteq Taken /\ free' = free /\ faults' >= faults
  BY <1>2, TakenShrinks DEF CountInv
<1>3. faults' >= faults /\ free' = free
  <2> USE DEF Lost, TypeOK
  <2>1. ASSUME NEW g \in Generates, Generate(g)
        PROVE  faults' >= faults /\ free' = free
    BY <2>1 DEF Generate, ReadUser, ReadCycle, CountRoadmaps, Compute, ArchiveOld,
                InsertNew, FinishInsert, FinishGenerate, counters
  <2>2. QED
    BY <2>1 DEF Next, CreateRoadmap, FinishCreate, DropRoadmap, DeleteRoadmap,
         FinishDelete, Request, ReadCounter, FileRequest, Confirm, ReadRequest, ApplyUpdate,
         MarkApplied, Increment, Dies, NextCycle, DelayEnds, vars, counters
<1>4. ASSUME NEW g \in Generates,
             ReadUser(g) \/ ReadCycle(g) \/ Compute(g) \/ FinishGenerate(g)
      PROVE  Taken' \subseteq Taken
  BY <1>4 DEF ReadUser, ReadCycle, Compute, FinishGenerate, Taken, Exists, Goto,
              TypeOK, Calls
<1>5. ASSUME NEW g \in Generates, ArchiveOld(g)
      PROVE  Taken' \subseteq Taken
  <2>1. /\ \A f \in Generates : Exists(f)' = Exists(f)
        /\ pc[g] = "archive" /\ UNCHANGED <<born, cycle>>
        /\ pc' = [pc EXCEPT ![g] = "insert"]
    BY <1>5 DEF ArchiveOld, Exists, Active, TypeOK, Roadmaps, Goto
  <2>2. QED
    BY <2>1 DEF Taken, TypeOK, Calls
<1>6. ASSUME NEW g \in Generates, InsertNew(g) \/ FinishInsert(g)
      PROVE  Taken' \subseteq Taken
  <2>1. pc[g] \in {"insert", "index"} /\ g \in Taken /\ cycle' = cycle
    BY <1>6 DEF InsertNew, FinishInsert, Taken
  <2>2. \A f \in Generates \ {g} : /\ Exists(f)' = Exists(f)
                                   /\ pc'[f] = pc[f] /\ born'[f] = born[f]
    <3>1. \E l : pc' = [pc EXCEPT ![g] = l]
      BY <1>6 DEF InsertNew, PassTrigger, FinishInsert, Goto
    <3>2. /\ status' = [status EXCEPT ![g] = "active"] \/ UNCHANGED status
          /\ born' = [born EXCEPT ![g] = cycle] \/ UNCHANGED born
      BY <1>6 DEF InsertNew, PassTrigger, FinishInsert, InsertRow
    <3>3. QED
      BY <3>1, <3>2 DEF Exists, TypeOK, Roadmaps, Calls
  <2>3. QED
    BY <2>1, <2>2 DEF Taken
<1>7. ASSUME NEW c, c \notin Generates, NEW l, Goto(c, l), cycle' = cycle,
             \A f \in Generates : Exists(f)' = Exists(f) /\ born'[f] = born[f]
      PROVE  Taken' \subseteq Taken
  BY <1>7 DEF Taken, Goto, TypeOK, Calls
<1>8. ASSUME NEW c \in Creates, CreateRoadmap(c) \/ FinishCreate(c)
      PROVE  Taken' \subseteq Taken
  <2>1. c \notin Generates
    BY Kinds
  <2>2. \A f \in Generates : Exists(f)' = Exists(f) /\ born'[f] = born[f]
    BY <1>8, <2>1
       DEF CreateRoadmap, PassTrigger, FinishCreate, InsertRow, Exists, TypeOK,
           Roadmaps
  <2>3. cycle' = cycle /\ \E l : Goto(c, l)
    BY <1>8 DEF CreateRoadmap, PassTrigger, FinishCreate
  <2>4. QED
    BY <1>7, <2>1, <2>2, <2>3
<1>9. ASSUME NEW d \in Drops, DropRoadmap(d)
      PROVE  Taken' \subseteq Taken
  <2>1. d \notin Generates
    BY Kinds
  <2>2. \A f \in Generates : Exists(f)' = Exists(f) /\ born'[f] = born[f]
    BY <1>9 DEF DropRoadmap, Exists, Active, TypeOK, Roadmaps
  <2>3. QED
    BY <1>7, <1>9, <2>1, <2>2 DEF DropRoadmap
<1>10. ASSUME NEW d \in Deletes, DeleteRoadmap(d) \/ FinishDelete(d)
       PROVE  Taken' \subseteq Taken
  <2>1. d \notin Generates
    BY Kinds
  <2>2. \A f \in Generates : Exists(f)' = Exists(f) /\ born'[f] = born[f]
    BY <1>10 DEF DeleteRoadmap, FinishDelete, Exists, TypeOK, Roadmaps
  <2>3. QED
    BY <1>7, <1>10, <2>1, <2>2 DEF DeleteRoadmap, FinishDelete
<1>11. ASSUME NEW q \in Requests, Request(q)
       PROVE  Taken' \subseteq Taken
  <2>1. q \notin Generates
    BY Kinds
  <2>2. UNCHANGED <<status, born, cycle>> /\ \E l : Goto(q, l)
    BY <1>11 DEF Request, ReadCounter, FileRequest
  <2>3. QED
    BY <1>7, <2>1, <2>2 DEF Exists
<1>12. ASSUME NEW c \in Confirms, Confirm(c)
       PROVE  Taken' \subseteq Taken
  <2>1. c \notin Generates
    BY Kinds
  <2>2. UNCHANGED <<status, born, cycle>> /\ (UNCHANGED pc \/ \E l : Goto(c, l))
    BY <1>12 DEF Confirm, ReadRequest, ApplyUpdate, MarkApplied, Increment
  <2>3. QED
    BY <1>7, <2>1, <2>2 DEF Exists, Taken
<1>13. ASSUME NEW c \in Calls, Dies(c)
       PROVE  Taken' \subseteq Taken
  BY <1>13 DEF Dies, Taken, Exists, Goto, TypeOK, Calls
<1>14. CASE NextCycle
  <2>1. UNCHANGED <<pc, status, born>> /\ cycle' = cycle + 1
    BY <1>14 DEF NextCycle
  <2>2. \A f \in Generates : born[f] # cycle'
    BY <2>1 DEF CountInv, CyclesKnown, TypeOK, Roadmaps
  <2>3. Taken' \subseteq Taken
    BY <2>1, <2>2 DEF Taken
  <2>4. QED
    BY <1>2, <1>3, <2>3
<1>15. CASE DelayEnds \/ UNCHANGED vars
  <2>1. Taken' = Taken
    BY <1>15 DEF DelayEnds, vars, Taken, Exists
  <2>2. QED
    BY <1>2, <1>3, <2>1
<1>16. QED
  BY <1>1, <1>2, <1>3, <1>4, <1>5, <1>6, <1>8, <1>9, <1>10, <1>11, <1>12, <1>13,
     <1>14, <1>15 DEF Next, Generate

-----------------------------------------------------------------------------
IInv == TypeOK /\ DelayInv /\ FlagInv /\ CountInv /\ ModInv

LEMMA InvInit == Init => IInv
<1>1. SUFFICES ASSUME Init PROVE IInv
  OBVIOUS
<1>2. TypeOK
  BY <1>1, TypeInit
<1>3. /\ \A r \in Roadmaps : ~Exists(r) /\ born[r] = 0
      /\ \A c \in Calls : pc[c] = "idle"
      /\ \A r \in Roadmaps : pc[r] = "idle"
      /\ \A g \in Generates : before[g] = {} /\ since[g] = 0 /\ pc[g] = "idle"
      /\ locked = {} /\ cycle = 0 /\ faults = 0
  BY <1>1 DEF Init, Exists, Calls, Roadmaps
<1>4. Active = {}
  BY <1>3 DEF Active, Exists
<1>5. DelayInv
  BY <1>3, <1>4
     DEF DelayInv, AtMostOne, LockedHasNone, LockedIsDropped, Judged, KeepsOneActive
<1>6. FlagInv
  BY <1>3 DEF FlagInv, RowsLate, FlagFollows, Over, Roadmaps
<1>7. Open = {} /\ Taken = {}
  BY <1>3 DEF Open, Taken, Roadmaps
<1>8. CountInv
  <2>1. Limit \in Nat /\ Limit >= 1
    BY LimitsType DEF Limit
  <2>2. QED
    BY <1>3, <1>7, <2>1, FS_EmptySet, LimitsType
       DEF CountInv, OpenBounded, CyclesKnown, OvershootBounded
<1>9. ModInv
  <2>1. \A g \in Generates : Applied(g) = {}
    BY <1>1 DEF Init, Applied
  <2>2. InOrder /\ Whole
    BY <1>1 DEF Init, InOrder, Whole
  <2>3. QED
    BY <1>2, <2>1, <2>2, FS_EmptySet, FiniteMods DEF ModInv, Ledger, TypeOK
<1>10. QED
  BY <1>2, <1>5, <1>6, <1>8, <1>9 DEF IInv

LEMMA InvStep == IInv /\ [Next]_vars => IInv'
<1>1. SUFFICES ASSUME IInv, [Next]_vars PROVE IInv'
  OBVIOUS
<1>2. TypeOK'
  BY <1>1, TypeStep DEF IInv
<1>3. DelayInv' /\ FlagInv'
  BY <1>1, <1>2, DelayStep, FlagStep DEF IInv
<1>4. OpenBounded' /\ CyclesKnown' /\ OvershootBounded'
  BY <1>1, <1>2, OpenStep, CyclesStep, OvershootStep DEF IInv, CountInv, FlagInv
<1>5. ModInv'
  BY <1>1, <1>2, ModStep DEF IInv
<1>6. QED
  BY <1>2, <1>3, <1>4, <1>5 DEF IInv, CountInv

LEMMA Invariance == Spec => []IInv
  BY InvInit, InvStep, PTL DEF Spec

(* The tables, payloads and locals keep their types.                       *)
THEOREM TypesKept == Spec => []TypeOK
<1>1. IInv => TypeOK
  BY DEF IInv
<1>2. QED
  BY <1>1, Invariance, PTL

(* However many generates overlap, the limit of the cycle is exceeded by   *)
(* fewer roadmaps than calls that run at once, failed counts apart.        *)
THEOREM LimitExceededByOverlapOnly == Spec => []OvershootBounded
<1>1. IInv => OvershootBounded
  BY DEF IInv, CountInv
<1>2. QED
  BY <1>1, Invariance, PTL

(* The free tier's flag, read first and written last, lets no generate     *)
(* pass that began after another had ended.                                *)
THEOREM FreeRoadmapIsOne == Spec => []FreeOnce
<1>1. IInv => FreeOnce
  BY DEF IInv, FlagInv, FlagFollows, Excused, FreeOnce
<1>2. QED
  BY <1>1, Invariance, PTL

(* The two ways to delete, the index and the trigger together leave no     *)
(* active roadmap while the delay of a deletion runs, but one that the     *)
(* trigger had let pass before the deletion.                               *)
THEOREM NoActiveDuringDelay == Spec => []LockedHasNone
<1>1. IInv => LockedHasNone
  BY DEF IInv, DelayInv
<1>2. QED
  BY <1>1, Invariance, PTL

(* Archiving the old roadmap before the new one is accepted leaves the     *)
(* user without one only in that gap, if the generate was lost there, or   *)
(* on account of a deletion, the deleted roadmap's or the delay's that one *)
(* had slipped past.                                                       *)
THEOREM OneStaysActive == Spec => []KeepsOneActive
<1>1. IInv => KeepsOneActive
  BY DEF IInv, DelayInv
<1>2. QED
  BY <1>1, Invariance, PTL

(* A request marked applied has all its updates, and some confirm has      *)
(* counted it, is about to, or was cut short.                              *)
THEOREM AppliedOnceWhole == Spec => []AppliedAndCounted
<1>1. IInv => AppliedAndCounted
  BY DEF IInv, ModInv, Whole, Ledger, AppliedAndCounted
<1>2. QED
  BY <1>1, Invariance, PTL

-----------------------------------------------------------------------------
(* Refinement: every step is a step of OneRoadmap or a stutter.  Besides   *)
(* IInv it takes that a call whose insert is still to come has no row.     *)
CreatesLate == \A c \in Creates : Exists(c) => pc[c] \notin {"idle", "index"}

Asked == {r \in Roadmaps : pc[r] = "index"}
Shelves == [OR!ShelfNext]_(OR!shelfVars)

(* Only a call that enters or leaves the gap between trigger and index     *)
(* changes what is asked for.                                              *)
LEMMA AsksNothing ==
    ASSUME TypeOK, NEW c, NEW l, Goto(c, l), l # "index",
           c \in Calls => pc[c] # "index"
    PROVE  Asked' = Asked
BY DEF Asked, Goto, TypeOK, Calls, Roadmaps

LEMMA SameShelf ==
    ASSUME UNCHANGED <<status, locked>>, Asked' = Asked
    PROVE  Shelves
BY DEF Shelves, OR!shelfVars, Active, Exists, Asked

LEMMA Asks ==
    ASSUME TypeOK, NEW r \in Roadmaps, ~Exists(r), PassTrigger(r)
    PROVE  Shelves
<1>1. Asked' = Asked \cup {r}
  BY DEF PassTrigger, Goto, Asked, TypeOK, Calls, Roadmaps
<1>2. locked = {} /\ UNCHANGED <<status, locked>>
  BY DEF PassTrigger, NoDelay
<1>3. OR!Ask(r)
  BY <1>1, <1>2 DEF OR!Ask, Asked, Active, Exists
<1>4. QED
  BY <1>3 DEF Shelves, OR!ShelfNext

LEMMA TakesUp ==
    ASSUME TypeOK, NEW r \in Roadmaps, ~Exists(r), pc[r] = "index",
           InsertRow(r), NEW l, l # "index", Goto(r, l)
    PROVE  Shelves
<1>1. Active = {} /\ Active' = {r} /\ UNCHANGED locked
  BY DEF InsertRow, Active, TypeOK
<1>2. {s \in Roadmaps : Exists(s)}' = {s \in Roadmaps : Exists(s)} \cup {r}
  BY DEF InsertRow, Exists, TypeOK
<1>3. r \in Asked /\ Asked' = Asked \ {r}
  BY DEF Goto, Asked, TypeOK, Calls, Roadmaps
<1>4. OR!TakeUp(r)
  BY <1>1, <1>2, <1>3 DEF OR!TakeUp, Asked
<1>5. QED
  BY <1>4 DEF Shelves, OR!ShelfNext

LEMMA Refuses ==
    ASSUME TypeOK, NEW r \in Roadmaps, pc[r] = "index", NEW l, l # "index",
           Goto(r, l), UNCHANGED <<status, locked>>
    PROVE  Shelves
<1>1. r \in Asked /\ Asked' = Asked \ {r}
  BY DEF Goto, Asked, TypeOK, Calls, Roadmaps
<1>2. OR!Refuse(r)
  BY <1>1 DEF OR!Refuse, Asked, Active, Exists
<1>3. QED
  BY <1>2 DEF Shelves, OR!ShelfNext

(* Roadmaps that stop being active do not stop having a row.               *)
LEMMA Leaves ==
    ASSUME TypeOK, NEW S \in SUBSET Roadmaps, NEW x \in {"archived", "deleted"},
           \A r \in S : Exists(r), Active \subseteq S,
           status' = [r \in Roadmaps |-> IF r \in S THEN x ELSE status[r]],
           Active = {} => UNCHANGED locked, Asked' = Asked
    PROVE  Shelves
<1>1. Active' = {}
  BY DEF Active
<1>2. {s \in Roadmaps : Exists(s)}' = {s \in Roadmaps : Exists(s)}
  BY DEF Exists
<1>3. CASE Active = {}
  BY <1>1, <1>2, <1>3 DEF Shelves, OR!shelfVars, Asked
<1>4. CASE Active # {}
  <2>1. OR!Leave
    BY <1>1, <1>2, <1>4 DEF OR!Leave, Asked
  <2>2. QED
    BY <2>1 DEF Shelves, OR!ShelfNext
<1>5. QED
  BY <1>3, <1>4

LEMMA DeleteShelves ==
    ASSUME TypeOK, DelayInv, NEW d \in Deletes, DeleteRoadmap(d)
    PROVE  Shelves
<1>a. Asked' = Asked
  BY AsksNothing DEF DeleteRoadmap, Starts
<1>1. CASE UNCHANGED <<status, locked>>
  BY <1>a, <1>1, SameShelf
<1>2. ASSUME NEW r \in Roadmaps, Exists(r),
             status' = [status EXCEPT ![r] = "archived"],
             locked' = locked \ {r}
      PROVE  Shelves
  <2>1. {s \in Roadmaps : Exists(s)}' = {s \in Roadmaps : Exists(s)}
    BY <1>2 DEF Exists, TypeOK
  <2>2. CASE r \in Active
    <3>1. Active' = {}
      BY <1>2, <2>2 DEF DelayInv, AtMostOne, Active, TypeOK
    <3>2. OR!Leave
      BY <1>a, <2>1, <2>2, <3>1 DEF OR!Leave, Asked
    <3>3. QED
      BY <3>2 DEF Shelves, OR!ShelfNext
  <2>3. CASE r \notin Active
    <3>1. Active' = Active
      BY <1>2, <2>3 DEF Active, TypeOK
    <3>2. CASE (locked' # {}) = (locked # {})
      BY <1>a, <2>1, <3>1, <3>2 DEF Shelves, OR!shelfVars, Asked
    <3>3. CASE locked # {} /\ locked' = {}
      <4>1. OR!DelayPasses
        BY <1>a, <2>1, <3>1, <3>3 DEF OR!DelayPasses, Asked
      <4>2. QED
        BY <4>1 DEF Shelves, OR!ShelfNext
    <3>4. QED
      BY <1>2, <3>2, <3>3
  <2>4. QED
    BY <2>2, <2>3
<1>3. QED
  BY <1>1, <1>2 DEF DeleteRoadmap

LEMMA ShelfStep ==
    ASSUME TypeOK, DelayInv, RowsLate, CreatesLate, [Next]_vars
    PROVE  Shelves
<1>1. ASSUME NEW g \in Generates, ArchiveOld(g) PROVE Shelves
  <2>a. Asked' = Asked
    BY <1>1, AsksNothing DEF ArchiveOld
  <2>1. CASE UNCHANGED <<status, locked>>
    BY <2>a, <2>1, SameShelf
  <2>2. CASE status' = [r \in Roadmaps |->
                           IF r \in Active THEN "archived" ELSE status[r]]
    <3>1. Active \in SUBSET Roadmaps /\ \A r \in Active : Exists(r)
      BY DEF Active, Exists
    <3>2. QED
      BY <1>1, <2>a, <2>2, <3>1, Leaves DEF ArchiveOld
  <2>3. QED
    BY <1>1, <2>1, <2>2 DEF ArchiveOld
<1>2. ASSUME NEW g \in Generates, InsertNew(g) PROVE Shelves
  <2>1. g \in Roadmaps /\ ~Exists(g)
    BY <1>2 DEF Roadmaps, InsertNew, RowsLate
  <2>2. CASE PassTrigger(g)
    BY <2>1, <2>2, Asks
  <2>3. CASE Goto(g, "done") /\ UNCHANGED roadmaps
    BY <1>2, <2>3, AsksNothing, SameShelf DEF InsertNew, roadmaps
  <2>4. QED
    BY <1>2, <2>2, <2>3 DEF InsertNew
<1>2b. ASSUME NEW g \in Generates, FinishInsert(g) PROVE Shelves
  <2>1. g \in Roadmaps /\ ~Exists(g) /\ pc[g] = "index"
    BY <1>2b DEF Roadmaps, FinishInsert, RowsLate
  <2>2. CASE InsertRow(g) /\ Goto(g, "tail")
    BY <2>1, <2>2, TakesUp
  <2>3. CASE Goto(g, "done") /\ UNCHANGED <<status, locked>>
    BY <2>1, <2>3, Refuses
  <2>4. QED
    BY <1>2b, <2>2, <2>3 DEF FinishInsert, roadmaps
<1>3. ASSUME NEW c \in Creates, CreateRoadmap(c) PROVE Shelves
  BY <1>3, Asks DEF CreateRoadmap, Starts, CreatesLate, Roadmaps
<1>3b. ASSUME NEW c \in Creates, FinishCreate(c) PROVE Shelves
  <2>1. c \in Roadmaps /\ ~Exists(c) /\ pc[c] = "index" /\ Goto(c, "done")
    BY <1>3b DEF Roadmaps, FinishCreate, CreatesLate
  <2>2. CASE InsertRow(c)
    BY <2>1, <2>2, TakesUp
  <2>3. CASE UNCHANGED <<status, locked>>
    BY <2>1, <2>3, Refuses
  <2>4. QED
    BY <1>3b, <2>2, <2>3 DEF FinishCreate, roadmaps
<1>4. ASSUME NEW d \in Drops, DropRoadmap(d) PROVE Shelves
  <2>a. Asked' = Asked
    BY <1>4, AsksNothing DEF DropRoadmap, Starts
  <2>1. PICK r \in Active : status' = [status EXCEPT ![r] = "deleted"]
    BY <1>4 DEF DropRoadmap
  <2>2. Active = {r} /\ Exists(r) /\ r \in Roadmaps
    BY DEF DelayInv, AtMostOne, Active, Exists
  <2>3. status' = [s \in Roadmaps |-> IF s \in {r} THEN "deleted" ELSE status[s]]
    BY <2>1 DEF TypeOK
  <2>4. QED
    BY <2>a, <2>2, <2>3, Leaves
<1>5. ASSUME NEW d \in Deletes, DeleteRoadmap(d) PROVE Shelves
  BY <1>5, DeleteShelves
<1>6. CASE DelayEnds
  <2>1. OR!DelayPasses
    BY <1>6 DEF DelayEnds, OR!DelayPasses, Active, Exists
  <2>2. QED
    BY <2>1 DEF Shelves, OR!ShelfNext
<1>7. ASSUME NEW c, NEW l, Goto(c, l), l # "index", c \in Calls => pc[c] # "index",
             UNCHANGED <<status, locked>>
      PROVE  Shelves
  BY <1>7, AsksNothing, SameShelf
<1>8. ASSUME NEW c \in Calls, Dies(c) PROVE Shelves
  <2>1. CASE c \in Roadmaps /\ pc[c] = "index"
    BY <1>8, <2>1, Refuses DEF Dies
  <2>2. CASE pc[c] # "index"
    BY <1>7, <1>8, <2>2 DEF Dies
  <2>3. CASE c \notin Roadmaps
    <3>1. Asked' = Asked
      BY <1>8, <2>3 DEF Dies, Goto, Asked, TypeOK, Calls, Roadmaps
    <3>2. QED
      BY <1>8, <3>1, SameShelf DEF Dies
  <2>4. QED
    BY <2>1, <2>2, <2>3
<1>9. ASSUME NEW g \in Generates,
             ReadUser(g) \/ ReadCycle(g) \/ CountRoadmaps(g) \/ Compute(g)
             \/ FinishGenerate(g)
      PROVE  Shelves
  BY <1>7, <1>9 DEF ReadUser, ReadCycle, CountRoadmaps, Compute, FinishGenerate,
                    Starts, roadmaps
<1>10. ASSUME NEW c, FinishDelete(c) \/ Request(c) \/ ReadRequest(c)
                     \/ MarkApplied(c) \/ Increment(c)
       PROVE  Shelves
  BY <1>7, <1>10 DEF FinishDelete, Request, ReadCounter, FileRequest, ReadRequest,
                     MarkApplied, Increment, Starts, roadmaps
<1>11. CASE UNCHANGED <<status, locked, pc>>
  BY <1>11, SameShelf DEF Asked
<1>12. QED
  BY <1>1, <1>2, <1>2b, <1>3, <1>3b, <1>4, <1>5, <1>6, <1>8, <1>9, <1>10, <1>11
     DEF Next, Generate, Confirm, ApplyUpdate, NextCycle, vars, roadmaps

(* No call goes back to its start, and only a create's own insert makes    *)
(* its row.                                                                *)
LEMMA CreatesStep ==
    ASSUME TypeOK, CreatesLate, [Next]_vars
    PROVE  CreatesLate'
<1>1. ASSUME NEW c \in Calls, NEW l \in Labels \ {"idle", "index"}, Goto(c, l),
             \A n \in Creates \ {c} : Exists(n)' => Exists(n)
      PROVE  CreatesLate'
  BY <1>1 DEF CreatesLate, Goto, TypeOK
<1>2. CASE UNCHANGED pc /\ \A n \in Creates : Exists(n)' => Exists(n)
  BY <1>2 DEF CreatesLate
<1> USE DEF Calls, Labels
<1>3. ASSUME NEW g \in Generates, Generate(g) PROVE CreatesLate'
  <2>1. \A n \in Creates \ {g} : Exists(n)' => Exists(n)
    BY <1>3 DEF Generate, ReadUser, ReadCycle, CountRoadmaps, Compute,
         ArchiveOld, InsertNew, PassTrigger, FinishInsert, InsertRow,
         FinishGenerate, roadmaps, Exists, Active, Roadmaps, TypeOK
  <2>2. g \notin Creates /\ \E l : Goto(g, l)
    BY <1>3, KindsDisjoint DEF Generate, ReadUser, ReadCycle, CountRoadmaps,
         Compute, ArchiveOld, InsertNew, PassTrigger, FinishInsert,
         FinishGenerate
  <2>3. \A n \in Creates : pc'[n] = pc[n]
    BY <2>2 DEF Goto, TypeOK
  <2>4. QED
    BY <2>1, <2>2, <2>3 DEF CreatesLate
<1>4. ASSUME NEW c \in Creates, CreateRoadmap(c) PROVE CreatesLate'
  <2>1. ~Exists(c) /\ UNCHANGED status /\ Goto(c, "index")
    BY <1>4 DEF CreateRoadmap, PassTrigger, Starts, CreatesLate
  <2>2. QED
    BY <2>1 DEF CreatesLate, Goto, Exists, TypeOK
<1>4b. ASSUME NEW c \in Creates, FinishCreate(c) PROVE CreatesLate'
  BY <1>1, <1>4b DEF FinishCreate, InsertRow, roadmaps, Exists, TypeOK, Roadmaps
<1>5. ASSUME NEW d \in Drops, DropRoadmap(d) PROVE CreatesLate'
  BY <1>1, <1>5 DEF DropRoadmap, Active, Exists, TypeOK
<1>6. ASSUME NEW d \in Deletes, DeleteRoadmap(d) \/ FinishDelete(d)
      PROVE  CreatesLate'
  <2>1. \A n \in Creates : Exists(n)' => Exists(n)
    <3>1. \/ status' = status
          \/ \E r \in Roadmaps : /\ Exists(r)
                                /\ status' = [status EXCEPT ![r] = "archived"]
      BY <1>6 DEF DeleteRoadmap, FinishDelete, roadmaps
    <3>2. QED
      BY <3>1 DEF Exists, TypeOK, Roadmaps
  <2>2. Goto(d, "unflag") \/ Goto(d, "done")
    BY <1>6 DEF DeleteRoadmap, FinishDelete
  <2>3. QED
    BY <1>1, <2>1, <2>2
<1>7. ASSUME NEW q \in Requests, Request(q) PROVE CreatesLate'
  BY <1>1, <1>7 DEF Request, ReadCounter, FileRequest, Exists, roadmaps
<1>8. ASSUME NEW c \in Confirms, Confirm(c) PROVE CreatesLate'
  BY <1>1, <1>2, <1>8 DEF Confirm, ReadRequest, ApplyUpdate, MarkApplied,
       Increment, Exists, roadmaps
<1>9. ASSUME NEW c \in Calls, Dies(c) PROVE CreatesLate'
  BY <1>1, <1>9 DEF Dies, Exists
<1>10. CASE NextCycle \/ DelayEnds \/ UNCHANGED vars
  BY <1>2, <1>10 DEF NextCycle, DelayEnds, vars, roadmaps, Exists
<1>11. QED
  BY <1>3, <1>4, <1>4b, <1>5, <1>6, <1>7, <1>8, <1>9, <1>10 DEF Next

(* The lifecycle implements OneRoadmap: whatever overlaps, dies or fails,  *)
(* a user follows one roadmap at a time, takes up the next only where none *)
(* is active and it was asked for while no delay ran, and never returns to *)
(* one that was left.                                                      *)
THEOREM OneRoadmapFollowed == Spec => FollowsOne
<1>1. Init => OR!ShelfInit /\ CreatesLate
  <2>1. SUFFICES ASSUME Init PROVE OR!ShelfInit /\ CreatesLate
    OBVIOUS
  <2>2. \A r \in Roadmaps : ~Exists(r) /\ status[r] = "none" /\ pc[r] = "idle"
    BY <2>1 DEF Init, Exists, Calls, Roadmaps
  <2>3. QED
    BY <2>1, <2>2 DEF Init, OR!ShelfInit, CreatesLate, Active, Roadmaps
<1>2. IInv /\ CreatesLate /\ [Next]_vars => Shelves /\ CreatesLate'
  BY ShelfStep, CreatesStep DEF IInv, FlagInv
<1>3. IInv /\ CreatesLate /\ [Next]_vars => [OR!ShelfNext]_(OR!shelfVars)
  BY <1>2 DEF Shelves
<1>4. Spec => []CreatesLate
  BY <1>1, <1>2, Invariance, PTL DEF Spec
<1>5. QED
  BY <1>1, <1>3, <1>4, Invariance, PTL DEF Spec, FollowsOne, OR!ShelfSpec
=============================================================================
