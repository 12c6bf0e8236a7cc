------------------------- MODULE TreasureMapProofs -------------------------
(***************************************************************************)
(* Proofs about TreasureMap for any number of tabs, days, maps, deaths and *)
(* failed writes.                                                          *)
(*                                                                         *)
(* CrossedAreClaimed is not inductive: the position a tab is about to      *)
(* write was computed from one it read earlier.  TabOK says what such a    *)
(* tab knows: everything before the node it claims next has been claimed.  *)
(* Claims are never taken back, so what one tab knows survives the others. *)
(*                                                                         *)
(* One section is about requests that take turns, none of which dies and   *)
(* none of whose writes fails.  The last two show that the handlers        *)
(* implement TreasureWalk and that no request makes round trips for ever.  *)
(***************************************************************************)
EXTENDS TreasureMap, WellFoundedInduction, FiniteSetTheorems, TLAPS

Claimed(m, n) == claims[m][n] > 0 \/ <<m, n>> \in unclaimed

RowsOK ==
    /\ \A m \in MapIds : maps[m].number <= newest
    /\ \A d \in Days : tasks[d].map <= newest

(* What a tab's request has read and still relies on.                      *)
TabOK(t) ==
    /\ shown[t].map <= newest
    /\ number[t] <= newest
    /\ shown[t].task # 0 =>
          shown[t].map # 0 /\ tasks[shown[t].task].map # 0
    /\ job[t].task # 0 => shown[t].map # 0 /\ tasks[job[t].task].map # 0
    /\ \A d \in overdue[t] : tasks[d].map # 0
    /\ pc[t] \in {"findOverdue", "findToday", "insertTask", "readTask"} =>
          shown[t].map # 0
    /\ pc[t] = "readTask" => shown[t].task # 0
    /\ pc[t] \in {"readMap", "claim", "move", "resolve"} => job[t].task # 0
    /\ pc[t] \in {"claim", "move"} =>
          /\ job[t].map \in 1..newest
          /\ job[t].at > 0
          /\ \A n \in Nodes : n < job[t].at => Claimed(job[t].map, n)
    /\ pc[t] = "claim" => job[t].at <= job[t].to
    /\ pc[t] = "move" => job[t].to < job[t].at

TInv == TypeOK /\ RowsOK /\ CrossedAreClaimed /\ \A t \in Tabs : TabOK(t)

(* A non-empty set of bounded naturals has a largest element.              *)
LEMMA LargestOf ==
    ASSUME NEW b \in Nat, NEW S \in SUBSET (0..b), S # {}
    PROVE  Largest(S) \in S /\ \A k \in S : Largest(S) >= k
<1> DEFINE T == {b - k : k \in S}
           R == OpToRel(<, Nat)
<1>1. T \subseteq Nat /\ T # {}
  <2>1. \A k \in S : b - k \in Nat
    OBVIOUS
  <2>2. PICK s \in S : TRUE
    OBVIOUS
  <2>3. b - s \in T
    OBVIOUS
  <2>4. QED
    BY <2>1, <2>3
<1>2. IsWellFoundedOn(R, Nat)
  BY NatLessThanWellFounded
<1>3. \A x, y \in Nat : y < x => <<y, x>> \in R
  BY DEF OpToRel
<1> HIDE DEF R, T
<1>4. PICK x \in T : \A y \in T : ~(<<y, x>> \in R)
  BY <1>1, <1>2, WFMin
<1>5. \A y \in T : ~(y < x)
  BY <1>1, <1>3, <1>4
<1>6. PICK n \in S : x = b - n
  BY DEF T
<1>7. ASSUME NEW k \in S PROVE n >= k
  <2>1. b - k \in T
    BY DEF T
  <2>2. QED
    BY <1>5, <1>6, <2>1
<1>8. QED
  BY <1>7 DEF Largest

(* computeMovement stays on the board and never moves back.                *)
LEMMA MovementBounds ==
    ASSUME NEW old \in 0..NodeCount, NEW s \in Nat
    PROVE  NewPosition(old, s) \in old..NodeCount
BY NodeCountType DEF NewPosition

LEMMA LastNumberBound ==
    ASSUME TypeOK, RowsOK
    PROVE  LastNumber \in 0..newest
<1> DEFINE S == {0} \cup {maps[m].number : m \in 1..newest}
<1>1. newest \in Nat /\ \A m \in 1..newest : maps[m].number \in 0..newest
  BY MapBounds DEF TypeOK, RowsOK, MapIds, Map
<1>2. S \in SUBSET (0..newest) /\ S # {}
  BY <1>1
<1> HIDE DEF S
<1>3. Largest(S) \in S
  BY <1>1, <1>2, LargestOf
<1>4. QED
  BY <1>2, <1>3 DEF LastNumber, S

-----------------------------------------------------------------------------
(* What the rows never lose, and hence what a tab may rely on.             *)
Grown ==
    /\ newest <= newest'
    /\ \A d \in Days : tasks[d].map # 0 => tasks'[d].map # 0
    /\ \A m \in MapIds, n \in Nodes : Claimed(m, n) => Claimed(m, n)'

LEMMA OtherTab ==
    ASSUME TypeOK, newest' \in Nat, Grown, NEW u \in Tabs, TabOK(u),
           pc'[u] = pc[u], shown'[u] = shown[u], overdue'[u] = overdue[u],
           job'[u] = job[u], number'[u] = number[u]
    PROVE  TabOK(u)'
<1>1. /\ newest \in Nat /\ newest <= MaxMaps /\ MaxMaps \in Nat
      /\ shown[u].map \in 0..MaxMaps /\ number[u] \in 0..MaxMaps
      /\ shown[u].task \in 0..MaxDays /\ job[u].task \in 0..MaxDays
      /\ overdue[u] \in SUBSET Days /\ job[u] \in Job
  BY MapBounds DEF TypeOK, Job
<1>2. shown[u].map <= newest' /\ number[u] <= newest'
  BY <1>1 DEF TabOK, Grown
<1>3. \A d \in 0..MaxDays : d # 0 => d \in Days
  BY DEF Days
<1>4. /\ shown[u].task # 0 =>
            shown[u].map # 0 /\ tasks'[shown[u].task].map # 0
      /\ job[u].task # 0 => shown[u].map # 0 /\ tasks'[job[u].task].map # 0
      /\ \A d \in overdue[u] : tasks'[d].map # 0
  BY <1>1, <1>3 DEF TabOK, Grown
<1>5. ASSUME pc[u] \in {"claim", "move"}
      PROVE  /\ job[u].map \in 1..newest'
             /\ job[u].at > 0
             /\ \A n \in Nodes : n < job[u].at => Claimed(job[u].map, n)'
  <2>1. /\ job[u].map \in 1..newest /\ job[u].at > 0
        /\ \A n \in Nodes : n < job[u].at => Claimed(job[u].map, n)
    BY <1>5 DEF TabOK
  <2>2. job[u].map \in MapIds /\ job[u].map \in 1..newest'
    BY <1>1, <2>1 DEF MapIds, Grown
  <2>3. QED
    BY <2>1, <2>2 DEF Grown
<1>6. QED
  BY <1>2, <1>4, <1>5 DEF TabOK, Claimed

(* A step that writes no row keeps what is said of the rows.               *)
LEMMA RowsKept ==
    ASSUME TypeOK, RowsOK, CrossedAreClaimed, UNCHANGED <<rows, unclaimed>>
    PROVE  Grown /\ RowsOK' /\ CrossedAreClaimed'
BY DEF rows, Grown, RowsOK, CrossedAreClaimed, Claimed, TypeOK, MapIds

(* The same for one tab's step: only that tab's part is left to show.      *)
LEMMA OneTab ==
    ASSUME TInv, NEW t \in Tabs,
           TypeOK', RowsOK', CrossedAreClaimed', Grown, TabOK(t)',
           \A u \in Tabs \ {t} :
              /\ pc'[u] = pc[u] /\ shown'[u] = shown[u]
              /\ overdue'[u] = overdue[u]
              /\ job'[u] = job[u] /\ number'[u] = number[u]
    PROVE  TInv'
<1>1. ASSUME NEW u \in Tabs PROVE TabOK(u)'
  <2>1. CASE u = t
    BY <2>1
  <2>2. CASE u # t
    <3>1. newest' \in Nat
      BY MapBounds DEF TypeOK
    <3>2. QED
      BY <2>2, <3>1, OtherTab DEF TInv
  <2>3. QED
    BY <2>1, <2>2
<1>2. QED
  BY <1>1 DEF TInv

-----------------------------------------------------------------------------
(* One lemma per action. *)
LEMMA Types ==
    ASSUME TypeOK
    PROVE  /\ newest \in Nat /\ newest <= MaxMaps /\ MaxMaps \in Nat
           /\ MaxDays \in Nat /\ NodeCount \in Nat
           /\ \A d \in 0..MaxDays : d # 0 => d \in Days
           /\ \A m \in 1..newest : m \in MapIds
           /\ \A m \in MapIds : m \in 0..MaxMaps
           /\ \A d \in Days : d \in 0..MaxDays /\ d # 0
           /\ \A n \in 1..NodeCount : n \in Nodes
BY MapBounds, NodeCountType DEF TypeOK, Days, MapIds, Nodes

LEMMA OpenPageStep ==
    ASSUME TInv, NEW t \in Tabs, OpenPage(t) \/ AskComplete(t)
    PROVE  TInv'
<1> USE DEF OpenPage, AskComplete, Goto
<1>1. TypeOK'
  BY DEF TInv, TypeOK, LabelSet, rows, losses
<1>2. Grown /\ RowsOK' /\ CrossedAreClaimed'
  BY RowsKept DEF TInv, losses
<1>3. TabOK(t)'
  BY DEF TInv, TypeOK, TabOK, rows, Claimed, losses
<1>4. QED
  BY <1>1, <1>2, <1>3, OneTab DEF TInv, TypeOK

LEMMA FindMapStep ==
    ASSUME TInv, NEW t \in Tabs, FindMap(t)
    PROVE  TInv'
<1> USE DEF FindMap, Goto
<1>t. TypeOK
  BY DEF TInv
<1>1. CASE ActiveMaps # {}
  <2>1. PICK m \in 1..newest : shown' = [shown EXCEPT ![t].map = m]
    BY <1>1 DEF ActiveMaps
  <2>2. m \in 0..MaxMaps /\ m <= newest /\ m # 0
    BY <1>t, Types
  <2>3. shown'[t].map = m /\ shown'[t].task = shown[t].task
    BY <1>t, <2>1 DEF TypeOK
  <2>4. TypeOK'
    <3>1. shown' \in [Tabs -> [map : 0..MaxMaps, task : 0..MaxDays]]
      BY <1>t, <2>1, <2>2 DEF TypeOK
    <3>2. QED
      BY <1>t, <1>1, <3>1 DEF TypeOK, LabelSet, rows, counters, losses
  <2>5. Grown /\ RowsOK' /\ CrossedAreClaimed'
    BY RowsKept DEF TInv, losses
  <2>6. TabOK(t)'
    BY <1>t, <1>1, <2>2, <2>3 DEF TInv, TypeOK, TabOK, rows, Claimed, losses
  <2>7. QED
    BY <1>t, <1>1, <2>1, <2>4, <2>5, <2>6, OneTab DEF TypeOK
<1>2. CASE ActiveMaps = {}
  <2>1. TypeOK'
    BY <1>t, <1>2 DEF TypeOK, LabelSet, rows, counters, losses
  <2>2. Grown /\ RowsOK' /\ CrossedAreClaimed'
    BY RowsKept DEF TInv, losses
  <2>3. TabOK(t)'
    BY <1>t, <1>2 DEF TInv, TypeOK, TabOK, rows, Claimed, losses
  <2>4. QED
    BY <1>t, <1>2, <2>1, <2>2, <2>3, OneTab DEF TypeOK
<1>3. QED
  BY <1>1, <1>2

LEMMA ReadNumberStep ==
    ASSUME TInv, NEW t \in Tabs, ReadNumber(t)
    PROVE  TInv'
<1> USE DEF ReadNumber, Goto
<1>t. TypeOK
  BY DEF TInv
<1>1. LastNumber \in 0..newest /\ LastNumber \in 0..MaxMaps
  <2>1. LastNumber \in 0..newest
    BY LastNumberBound DEF TInv
  <2>2. QED
    BY <1>t, <2>1, Types
<1>2. TypeOK'
  BY <1>t, <1>1 DEF TypeOK, LabelSet, rows, counters, losses
<1>3. Grown /\ RowsOK' /\ CrossedAreClaimed'
  BY RowsKept DEF TInv, losses
<1>4. TabOK(t)'
  BY <1>t, <1>1 DEF TInv, TypeOK, TabOK, rows, Claimed, losses
<1>5. QED
  BY <1>t, <1>2, <1>3, <1>4, OneTab DEF TypeOK

(* Where a request goes after a resolveMovement.                           *)
LEMMA NextJobTab ==
    ASSUME TypeOK, RowsOK, NEW t \in Tabs, TabOK(t), Grown, newest' \in Nat,
           job[t].task # 0, UNCHANGED shown,
           number'[t] <= newest', NextJob(t)
    PROVE  /\ TabOK(t)'
           /\ job' \in [Tabs -> Job] /\ overdue' \in [Tabs -> SUBSET Days]
           /\ pc' \in [Tabs -> LabelSet]
           /\ \A u \in Tabs \ {t} : /\ pc'[u] = pc[u] /\ job'[u] = job[u]
                                    /\ overdue'[u] = overdue[u]
<1>1. NoJob \in Job /\ NoJob.task = 0
  BY MapBounds, NodeCountType DEF NoJob, Job
<1>2. /\ shown[t].map <= newest' /\ shown[t].map # 0
      /\ shown[t].task # 0 => tasks'[shown[t].task].map # 0
      /\ \A d \in overdue[t] : d \in Days /\ tasks'[d].map # 0
  <2>1. /\ shown[t].map \in Nat /\ newest \in Nat
        /\ shown[t].task # 0 => shown[t].task \in Days
        /\ overdue[t] \subseteq Days
    BY Types DEF TypeOK
  <2>2. QED
    BY <2>1 DEF TabOK, Grown
<1>3. CASE overdue[t] = {}
  <2>1. PICK l \in {"findMap", "findToday"} : pc' = [pc EXCEPT ![t] = l]
    BY <1>3 DEF NextJob, Goto
  <2>2. job' = [job EXCEPT ![t] = NoJob] /\ overdue' = overdue
    BY <1>3 DEF NextJob
  <2>3. TabOK(t)'
    BY <1>1, <1>2, <1>3, <2>1, <2>2 DEF TabOK, TypeOK
  <2>4. pc' \in [Tabs -> LabelSet]
    BY <2>1 DEF TypeOK, LabelSet
  <2>5. QED
    BY <1>1, <2>1, <2>2, <2>3, <2>4 DEF TypeOK
<1>4. CASE overdue[t] # {}
  <2> DEFINE d == Largest(overdue[t])
             next == [NoJob EXCEPT !.task = d]
  <2>1. d \in overdue[t]
    <3>1. overdue[t] \in SUBSET (0..MaxDays) /\ MaxDays \in Nat
      BY Types DEF TypeOK
    <3>2. QED
      BY <1>4, <3>1, LargestOf
  <2>2. /\ job' = [job EXCEPT ![t] = next]
        /\ overdue' = [overdue EXCEPT ![t] = @ \ {d}]
        /\ pc' = [pc EXCEPT ![t] = "readMap"]
    BY <1>4 DEF NextJob, Goto
  <2> HIDE DEF d
  <2>3. next \in Job /\ next.task = d /\ d # 0 /\ d \in Days
    BY <1>1, <1>2, <2>1, Types DEF Job, NoJob
  <2> HIDE DEF next
  <2>4. TabOK(t)'
    BY <1>2, <2>1, <2>2, <2>3 DEF TabOK, TypeOK
  <2>5. QED
    BY <2>2, <2>3, <2>4 DEF TypeOK, LabelSet
<1>5. QED
  BY <1>3, <1>4

LEMMA InsertMapStep ==
    ASSUME TInv, NEW t \in Tabs, InsertMap(t)
    PROVE  TInv'
<1>t. TypeOK /\ RowsOK /\ CrossedAreClaimed /\ TabOK(t)
  BY DEF TInv
<1>0. /\ pc[t] = "insertMap"
      /\ number' = [number EXCEPT ![t] = 0]
      /\ UNCHANGED <<today, claims, tasks, day, counters, unclaimed>>
      /\ faults' \in Nat
  BY <1>t DEF InsertMap, TypeOK
<1>1. /\ newest' \in {newest, newest + 1} /\ newest' \in 0..MaxMaps
      /\ maps' \in [MapIds -> Map] /\ RowsOK' /\ CrossedAreClaimed' /\ Grown
  <2>1. CASE UNCHANGED <<maps, newest>>
    <3>1. Grown /\ RowsOK' /\ CrossedAreClaimed'
      BY <1>0, <1>t, <2>1, RowsKept DEF rows
    <3>2. QED
      BY <1>t, <2>1, <3>1 DEF TypeOK
  <2>2. CASE InsertedMap(t)
    <3> DEFINE new == [pos |-> 0, active |-> TRUE, completed |-> FALSE,
                       number |-> number[t] + 1]
    <3>1. /\ newest' = newest + 1 /\ newest + 1 \in MapIds
          /\ newest' \in 0..MaxMaps
          /\ maps' = [maps EXCEPT ![newest + 1] = new]
      BY <1>t, <2>2, Types DEF InsertedMap, MapIds
    <3>2. number[t] \in Nat /\ number[t] <= newest
      BY <1>t DEF TypeOK, TabOK
    <3>3. new \in Map /\ new.pos = 0 /\ new.number <= newest'
      BY <3>1, <3>2, <1>t, Types DEF Map
    <3> HIDE DEF new
    <3>4. maps' \in [MapIds -> Map]
      BY <1>t, <3>1, <3>3 DEF TypeOK
    <3>5. RowsOK'
      <4>1. ASSUME NEW m \in MapIds PROVE maps'[m].number <= newest'
        <5>1. CASE m = newest + 1
          BY <1>t, <3>1, <3>3, <5>1 DEF TypeOK
        <5>2. CASE m # newest + 1
          <6>1. maps'[m] = maps[m] /\ maps[m].number \in Nat
            BY <1>t, <3>1, <5>2 DEF TypeOK, Map
          <6>2. QED
            BY <1>t, <3>1, <6>1, Types DEF RowsOK
        <5>3. QED
          BY <5>1, <5>2
      <4>2. ASSUME NEW d \in Days PROVE tasks'[d].map <= newest'
        <5>1. tasks[d].map \in Nat
          BY <1>t DEF TypeOK, Task
        <5>2. QED
          BY <1>0, <1>t, <3>1, <5>1, Types DEF RowsOK
      <4>3. QED
        BY <4>1, <4>2 DEF RowsOK
    <3>6. CrossedAreClaimed'
      <4>1. ASSUME NEW m \in 1..newest', NEW n \in 1..maps'[m].pos
            PROVE  Claimed(m, n)'
        <5>1. CASE m = newest + 1
          BY <1>t, <3>1, <3>3, <5>1 DEF TypeOK
        <5>2. CASE m # newest + 1
          <6>1. m \in 1..newest /\ maps'[m] = maps[m]
            BY <1>t, <3>1, <5>2, Types DEF TypeOK
          <6>2. QED
            BY <1>0, <1>t, <6>1 DEF CrossedAreClaimed, Claimed
        <5>3. QED
          BY <5>1, <5>2
      <4>2. QED
        BY <4>1 DEF CrossedAreClaimed, Claimed
    <3>7. Grown
      BY <1>0, <1>t, <3>1, Types DEF Grown, Claimed
    <3>8. QED
      BY <3>1, <3>4, <3>5, <3>6, <3>7
  <2>3. QED
    BY <2>1, <2>2 DEF InsertMap
<1>n. /\ newest' \in Nat /\ newest <= newest'
      /\ number'[t] = 0 /\ number' \in [Tabs -> 0..MaxMaps]
  BY <1>0, <1>1, <1>t, Types DEF TypeOK, Grown
<1>2. /\ TabOK(t)'
      /\ shown' \in [Tabs -> [map : 0..MaxMaps, task : 0..MaxDays]]
      /\ job' \in [Tabs -> Job] /\ overdue' \in [Tabs -> SUBSET Days]
      /\ pc' \in [Tabs -> LabelSet]
      /\ \A u \in Tabs \ {t} : /\ pc'[u] = pc[u] /\ job'[u] = job[u]
                               /\ overdue'[u] = overdue[u]
                               /\ shown'[u] = shown[u]
  <2>1. CASE job[t].task = 0
    <3>1. UNCHANGED <<overdue, job, tasks>>
      BY <1>0, <2>1 DEF InsertMap
    <3>2. CASE newest' # newest
      <4>1. /\ shown' = [shown EXCEPT ![t].map = newest']
            /\ pc' = [pc EXCEPT ![t] = "findOverdue"]
        BY <2>1, <3>2 DEF InsertMap, Goto
      <4>2. newest' # 0 /\ newest' \in 0..MaxMaps
        BY <1>1, <1>t, <3>2, Types
      <4>3. shown'[t].map = newest' /\ shown'[t].task = shown[t].task
        BY <1>t, <4>1 DEF TypeOK
      <4>4. TabOK(t)'
        BY <1>n, <1>t, <2>1, <3>1, <4>1, <4>2, <4>3 DEF TabOK, TypeOK
      <4>5. shown' \in [Tabs -> [map : 0..MaxMaps, task : 0..MaxDays]]
        BY <1>t, <4>1, <4>2 DEF TypeOK
      <4>6. QED
        BY <1>t, <3>1, <4>1, <4>4, <4>5 DEF TypeOK, LabelSet
    <3>3. CASE newest' = newest
      <4>1. pc' = [pc EXCEPT ![t] = "idle"] /\ UNCHANGED shown
        BY <2>1, <3>3 DEF InsertMap, Goto
      <4>2. TabOK(t)'
        BY <1>n, <1>t, <2>1, <3>1, <3>3, <4>1 DEF TabOK, TypeOK
      <4>3. QED
        BY <1>t, <3>1, <4>1, <4>2 DEF TypeOK, LabelSet
    <3>4. QED
      BY <3>2, <3>3
  <2>2. CASE job[t].task # 0
    <3>1. NextJob(t) /\ UNCHANGED shown
      BY <2>2 DEF InsertMap
    <3>2. QED
      BY <1>1, <1>n, <1>t, <2>2, <3>1, NextJobTab DEF TypeOK
  <2>3. QED
    BY <2>1, <2>2
<1>3. TypeOK'
  BY <1>0, <1>1, <1>2, <1>n, <1>t DEF TypeOK, counters
<1>4. \A u \in Tabs \ {t} : number'[u] = number[u]
  BY <1>0, <1>t DEF TypeOK
<1>5. QED
  BY <1>1, <1>2, <1>3, <1>4, OneTab

LEMMA FindOverdueStep ==
    ASSUME TInv, NEW t \in Tabs, FindOverdue(t)
    PROVE  TInv'
<1>t. TypeOK /\ RowsOK /\ CrossedAreClaimed /\ TabOK(t)
  BY DEF TInv
<1> DEFINE past == {d \in 1..(today - 1) : /\ tasks[d].map # 0
                                           /\ ~tasks[d].is_completed
                                           /\ ~tasks[d].resolved}
<1>0. /\ pc[t] = "findOverdue"
      /\ day' = [day EXCEPT ![t] = today]
      /\ UNCHANGED <<today, rows, shown, number, counters, losses>>
  BY DEF FindOverdue
<1>p. past \in SUBSET Days /\ \A d \in past : tasks[d].map # 0
  <2>1. today \in Days /\ Days = 1..MaxDays /\ MaxDays \in Nat
    BY <1>t, Types DEF TypeOK, Days
  <2>2. QED
    BY <2>1
<1>1. Grown /\ RowsOK' /\ CrossedAreClaimed'
  BY <1>0, <1>t, RowsKept DEF losses
<1>2. CASE past = {}
  <2>1. pc' = [pc EXCEPT ![t] = "findToday"] /\ UNCHANGED <<overdue, job>>
    BY <1>2 DEF FindOverdue, Goto
  <2>2. TypeOK'
    BY <1>0, <1>t, <2>1
       DEF TypeOK, LabelSet, rows, counters, losses
  <2>3. TabOK(t)'
    BY <1>0, <1>t, <2>1 DEF TabOK, TypeOK, rows
  <2>4. QED
    BY <1>0, <1>1, <1>t, <2>1, <2>2, <2>3, OneTab DEF TypeOK
<1>3. CASE past # {}
  <2> DEFINE d == Largest(past)
             next == [NoJob EXCEPT !.task = d]
  <2>1. d \in past
    <3>1. past \in SUBSET (0..MaxDays) /\ MaxDays \in Nat
      BY <1>p, <1>t, Types
    <3>2. QED
      BY <1>3, <3>1, LargestOf
  <2>2. /\ job' = [job EXCEPT ![t] = next]
        /\ overdue' = [overdue EXCEPT ![t] = past \ {d}]
        /\ pc' = [pc EXCEPT ![t] = "readMap"]
    BY <1>3 DEF FindOverdue, Goto
  <2> HIDE DEF past, d
  <2>3. next \in Job /\ next.task = d /\ d # 0 /\ d \in Days
    <3>1. d \in Days /\ d # 0 /\ d \in 0..MaxDays
      BY <1>p, <1>t, <2>1, Types
    <3>2. NoJob \in Job
      BY MapBounds, NodeCountType DEF NoJob, Job
    <3>3. QED
      BY <3>1, <3>2 DEF Job
  <2> HIDE DEF next
  <2>4. TypeOK'
    <3>1. /\ job' \in [Tabs -> Job] /\ overdue' \in [Tabs -> SUBSET Days]
          /\ pc' \in [Tabs -> LabelSet] /\ day' \in [Tabs -> Days]
      BY <1>0, <1>p, <1>t, <2>2, <2>3 DEF TypeOK, LabelSet
    <3>2. QED
      BY <1>0, <1>t, <3>1 DEF TypeOK, rows, counters, losses
  <2>5. TabOK(t)'
    BY <1>0, <1>p, <1>t, <2>1, <2>2, <2>3 DEF TabOK, TypeOK, rows
  <2>6. QED
    BY <1>0, <1>1, <1>t, <2>2, <2>4, <2>5, OneTab DEF TypeOK
<1>4. QED
  BY <1>2, <1>3

LEMMA FindTodayStep ==
    ASSUME TInv, NEW t \in Tabs, FindToday(t)
    PROVE  TInv'
<1>t. TypeOK /\ RowsOK /\ CrossedAreClaimed /\ TabOK(t)
  BY DEF TInv
<1>d. day[t] \in Days /\ day[t] \in 0..MaxDays
  BY <1>t, Types DEF TypeOK
<1>0. /\ pc[t] = "findToday"
      /\ UNCHANGED <<today, rows, day, overdue, job, number, counters, losses>>
  BY DEF FindToday
<1>1. Grown /\ RowsOK' /\ CrossedAreClaimed'
  BY <1>0, <1>t, RowsKept DEF losses
<1>2. CASE tasks[day[t]].map # 0
  <2>1. /\ shown' = [shown EXCEPT ![t].task = day[t]]
        /\ pc' = [pc EXCEPT ![t] = "idle"]
    BY <1>2 DEF FindToday, Goto
  <2>2. shown' \in [Tabs -> [map : 0..MaxMaps, task : 0..MaxDays]]
    BY <1>d, <1>t, <2>1 DEF TypeOK
  <2>3. shown'[t].map = shown[t].map /\ shown'[t].task = day[t]
    BY <1>t, <2>1 DEF TypeOK
  <2>4. TypeOK'
    BY <1>0, <1>t, <2>1, <2>2 DEF TypeOK, LabelSet, rows, counters, losses
  <2>5. TabOK(t)'
    BY <1>0, <1>2, <1>t, <2>1, <2>3 DEF TabOK, TypeOK, rows
  <2>6. QED
    BY <1>0, <1>1, <1>t, <2>1, <2>4, <2>5, OneTab DEF TypeOK
<1>3. CASE tasks[day[t]].map = 0
  <2>1. UNCHANGED shown /\ pc' = [pc EXCEPT ![t] = "insertTask"]
    BY <1>3 DEF FindToday, Goto
  <2>2. TypeOK'
    BY <1>0, <1>t, <2>1 DEF TypeOK, LabelSet, rows, counters, losses
  <2>3. TabOK(t)'
    BY <1>0, <1>t, <2>1 DEF TabOK, TypeOK, rows
  <2>4. QED
    BY <1>0, <1>1, <1>t, <2>1, <2>2, <2>3, OneTab DEF TypeOK
<1>4. QED
  BY <1>2, <1>3

LEMMA InsertTaskStep ==
    ASSUME TInv, NEW t \in Tabs, InsertTask(t)
    PROVE  TInv'
<1>t. TypeOK /\ RowsOK /\ CrossedAreClaimed /\ TabOK(t)
  BY DEF TInv
<1>d. day[t] \in Days /\ day[t] \in 0..MaxDays /\ day[t] # 0
  BY <1>t, Types DEF TypeOK
<1>0. /\ pc[t] = "insertTask"
      /\ pc' = [pc EXCEPT ![t] = "idle"]
      /\ UNCHANGED <<today, maps, newest, claims, day, overdue, job, number,
                     counters, losses>>
  BY DEF InsertTask, Goto
<1>1. CASE tasks[day[t]].map = 0
  <2> DEFINE new == [NoTask EXCEPT !.map = shown[t].map]
  <2>1. /\ tasks' = [tasks EXCEPT ![day[t]] = new]
        /\ shown' = [shown EXCEPT ![t].task = day[t]]
    BY <1>1 DEF InsertTask
  <2>2. new \in Task /\ new.map = shown[t].map /\ new.map # 0
        /\ new.map <= newest
    BY <1>0, <1>t DEF NoTask, Task, TypeOK, TabOK
  <2> HIDE DEF new
  <2>3. /\ tasks' \in [Days -> Task] /\ tasks'[day[t]] = new
        /\ \A d \in Days : tasks[d].map # 0 => tasks'[d].map # 0
        /\ \A d \in Days : tasks'[d].map <= newest
    BY <1>d, <1>t, <2>1, <2>2 DEF TypeOK, RowsOK
  <2>4. TypeOK'
    BY <1>0, <1>d, <1>t, <2>1, <2>3 DEF TypeOK, LabelSet, counters, losses
  <2>5. Grown /\ RowsOK' /\ CrossedAreClaimed'
    BY <1>0, <1>t, <2>3, Types
       DEF Grown, RowsOK, CrossedAreClaimed, Claimed, losses
  <2>6. TabOK(t)'
    <3>1. /\ shown'[t].map = shown[t].map /\ shown'[t].task = day[t]
          /\ shown[t].map # 0
      BY <1>0, <1>t, <2>1 DEF TypeOK, TabOK
    <3>2. job[t].task # 0 => job[t].task \in Days
      BY <1>t, Types DEF TypeOK, Job
    <3>3. overdue[t] \subseteq Days
      BY <1>t DEF TypeOK
    <3>4. QED
      BY <1>0, <1>t, <2>2, <2>3, <3>1, <3>2, <3>3 DEF TabOK, TypeOK
  <2>7. QED
    BY <1>0, <1>t, <2>1, <2>4, <2>5, <2>6, OneTab DEF TypeOK
<1>2. CASE tasks[day[t]].map # 0
  <2>1. UNCHANGED <<tasks, shown>>
    BY <1>2 DEF InsertTask
  <2>2. TypeOK'
    BY <1>0, <1>t, <2>1 DEF TypeOK, LabelSet, counters, losses
  <2>3. Grown /\ RowsOK' /\ CrossedAreClaimed'
    BY <1>0, <1>t, <2>1, RowsKept DEF rows, losses
  <2>4. TabOK(t)'
    BY <1>0, <1>t, <2>1 DEF TabOK, TypeOK
  <2>5. QED
    BY <1>0, <1>t, <2>1, <2>2, <2>3, <2>4, OneTab DEF TypeOK
<1>3. QED
  BY <1>1, <1>2

LEMMA ReadTaskStep ==
    ASSUME TInv, NEW t \in Tabs, ReadTask(t)
    PROVE  TInv'
<1>t. TypeOK /\ RowsOK /\ CrossedAreClaimed /\ TabOK(t)
  BY DEF TInv
<1> USE DEF ReadTask, Goto
<1>0. UNCHANGED <<today, rows, shown, day, overdue, number, counters, losses>>
  OBVIOUS
<1>1. Grown /\ RowsOK' /\ CrossedAreClaimed'
  BY <1>0, <1>t, RowsKept DEF losses
<1>2. CASE tasks[shown[t].task].is_completed
  <2>1. TypeOK'
    BY <1>2, <1>t DEF TypeOK, LabelSet, rows, counters, losses
  <2>2. TabOK(t)'
    BY <1>2, <1>t DEF TabOK, TypeOK, rows
  <2>3. QED
    BY <1>1, <1>2, <1>t, <2>1, <2>2, OneTab DEF TypeOK
<1>3. CASE ~tasks[shown[t].task].is_completed
  <2> DEFINE next == [NoJob EXCEPT !.task = shown[t].task,
                                   !.wasCompleted = TRUE]
  <2>1. next \in Job /\ next.task = shown[t].task
    <3>1. NoJob \in Job /\ shown[t].task \in 0..MaxDays
      BY <1>t, MapBounds, NodeCountType DEF NoJob, Job, TypeOK
    <3>2. QED
      BY <3>1 DEF Job
  <2>2. job' = [job EXCEPT ![t] = next] /\ pc' = [pc EXCEPT ![t] = "readMap"]
    BY <1>3
  <2> HIDE DEF next
  <2>3. TypeOK'
    BY <1>0, <1>t, <2>1, <2>2 DEF TypeOK, LabelSet, rows, counters, losses
  <2>4. TabOK(t)'
    BY <1>0, <1>t, <2>1, <2>2 DEF TabOK, TypeOK, rows
  <2>5. QED
    BY <1>0, <1>1, <1>t, <2>2, <2>3, <2>4, OneTab DEF TypeOK
<1>4. QED
  BY <1>2, <1>3

LEMMA ReadMapStep ==
    ASSUME TInv, NEW t \in Tabs, NEW s \in CompletedSpaces \cup {AutoSpaces},
           ReadMap(t, s)
    PROVE  TInv'
<1>t. TypeOK /\ RowsOK /\ CrossedAreClaimed /\ TabOK(t)
  BY DEF TInv
<1> DEFINE m == tasks[job[t].task].map
           old == maps[m].pos
           new == NewPosition(old, s)
           l == ClaimOrMove(old + 1, new)
<1>0. /\ pc[t] = "readMap"
      /\ UNCHANGED <<today, rows, shown, day, overdue, number, counters,
                     losses>>
      /\ job' = [job EXCEPT ![t] = [job[t] EXCEPT !.map = m, !.at = old + 1,
                                                  !.to = new]]
      /\ pc' = [pc EXCEPT ![t] = l]
  BY DEF ReadMap, Goto
<1>1. Grown /\ RowsOK' /\ CrossedAreClaimed'
  BY <1>0, <1>t, RowsKept DEF losses
<1>2. m \in 1..newest /\ m \in MapIds /\ m \in 0..MaxMaps
  <2>1. job[t].task # 0 /\ job[t].task \in Days
    BY <1>0, <1>t, Types DEF TabOK, TypeOK, Job
  <2>2. tasks[job[t].task].map \in 0..MaxMaps
    BY <1>t, <2>1 DEF TypeOK, Task
  <2>3. tasks[job[t].task].map # 0 /\ tasks[job[t].task].map <= newest
    BY <1>t, <2>1 DEF TabOK, RowsOK
  <2>4. QED
    BY <1>t, <2>2, <2>3, Types
<1> HIDE DEF m
<1>3. /\ old \in 0..NodeCount /\ \A n \in 1..old : Claimed(m, n)
      /\ NodeCount \in Nat
  BY <1>2, <1>t, Types DEF TypeOK, Map, CrossedAreClaimed, Claimed
<1> HIDE DEF old
<1>4. new \in old..NodeCount
  BY <1>3, MovementBounds DEF CompletedSpaces, AutoSpaces
<1> HIDE DEF new
<1>5. /\ l \in {"claim", "move"}
      /\ l = "claim" => old + 1 <= new
      /\ l = "move" => new < old + 1
  BY <1>3, <1>4 DEF ClaimOrMove
<1> HIDE DEF l
<1>6. /\ job' \in [Tabs -> Job]
      /\ job'[t].task = job[t].task /\ job'[t].map = m
      /\ job'[t].at = old + 1 /\ job'[t].to = new
  <2>1. job[t] \in Job /\ old + 1 \in 0..(NodeCount + 1)
        /\ new \in 0..NodeCount
    BY <1>3, <1>4, <1>t DEF TypeOK
  <2>2. [job[t] EXCEPT !.map = m, !.at = old + 1, !.to = new] \in Job
    BY <1>2, <2>1 DEF Job
  <2>3. QED
    BY <1>0, <1>t, <2>1, <2>2 DEF TypeOK, Job
<1>7. TypeOK'
  BY <1>0, <1>5, <1>6, <1>t DEF TypeOK, LabelSet, rows, counters, losses
<1>8. TabOK(t)'
  <2>1. ASSUME NEW n \in Nodes, n < old + 1
        PROVE  claims'[m][n] > 0 \/ <<m, n>> \in unclaimed'
    <3>1. n \in 1..old
      BY <1>3, <2>1 DEF Nodes
    <3>2. QED
      BY <1>0, <1>3, <3>1 DEF Claimed, rows, losses
  <2>2. pc'[t] = l
    BY <1>0, <1>t DEF TypeOK
  <2>3. QED
    BY <1>0, <1>2, <1>3, <1>5, <1>6, <1>t, <2>1, <2>2
       DEF TabOK, TypeOK, Claimed, rows, losses
<1>9. QED
  BY <1>0, <1>1, <1>7, <1>8, <1>t, OneTab DEF TypeOK

LEMMA ClaimNodeStep ==
    ASSUME TInv, NEW t \in Tabs, ClaimNode(t)
    PROVE  TInv'
<1>t. TypeOK /\ RowsOK /\ CrossedAreClaimed /\ TabOK(t)
  BY DEF TInv
<1> DEFINE m == job[t].map
           n == job[t].at
           l == ClaimOrMove(n + 1, job[t].to)
<1>0. /\ pc[t] = "claim"
      /\ pc' = [pc EXCEPT ![t] = l]
      /\ job' = [job EXCEPT ![t].at = n + 1]
      /\ UNCHANGED <<today, maps, newest, tasks, shown, day, overdue, number,
                     counters>>
  BY DEF ClaimNode, Goto
<1>1. /\ job[t] \in Job /\ m \in 1..newest /\ m \in MapIds
      /\ n \in Nodes /\ n <= job[t].to /\ job[t].to \in 0..NodeCount
      /\ NodeCount \in Nat /\ n \in Nat
      /\ \A k \in Nodes : k < n => Claimed(m, k)
  <2>1. job[t] \in Job /\ NodeCount \in Nat
    BY <1>t, Types DEF TypeOK
  <2>2. /\ m \in 1..newest /\ n > 0 /\ n <= job[t].to
        /\ \A k \in Nodes : k < n => Claimed(m, k)
    BY <1>0, <1>t DEF TabOK
  <2>3. QED
    BY <1>t, <2>1, <2>2, Types DEF Job, Nodes
<1>2. /\ claims' \in [MapIds -> [Nodes -> Nat]]
      /\ unclaimed' \in SUBSET (MapIds \X Nodes) /\ faults' \in Nat
      /\ \A i \in MapIds, k \in Nodes : Claimed(i, k) => Claimed(i, k)'
      /\ claims'[m][n] > 0 \/ <<m, n>> \in unclaimed'
  <2>1. CASE /\ claims' = [claims EXCEPT ![m][n] = @ + 1]
             /\ UNCHANGED losses
    <3>1. \A i \in MapIds, k \in Nodes :
             /\ claims[i][k] \in Nat
             /\ claims'[i][k] = IF i = m /\ k = n THEN claims[i][k] + 1
                                ELSE claims[i][k]
      BY <1>1, <1>t, <2>1 DEF TypeOK
    <3>2. claims' \in [MapIds -> [Nodes -> Nat]]
      BY <1>1, <1>t, <2>1 DEF TypeOK
    <3>3. /\ \A i \in MapIds, k \in Nodes : Claimed(i, k) => Claimed(i, k)'
          /\ claims'[m][n] > 0
      BY <1>1, <2>1, <3>1 DEF Claimed, losses
    <3>4. QED
      BY <1>t, <2>1, <3>2, <3>3 DEF TypeOK, losses
  <2>2. CASE /\ faults' = faults + 1 /\ UNCHANGED claims
             /\ unclaimed' = unclaimed \cup {<<m, n>>}
    BY <1>1, <1>t, <2>2 DEF TypeOK, Claimed
  <2>3. QED
    BY <2>1, <2>2 DEF ClaimNode
<1>3. Grown /\ RowsOK' /\ CrossedAreClaimed'
  <2>1. Grown
    BY <1>0, <1>2, <1>t, Types DEF Grown
  <2>2. RowsOK'
    BY <1>0, <1>t DEF RowsOK
  <2>3. ASSUME NEW i \in 1..newest, NEW k \in 1..maps[i].pos
        PROVE  Claimed(i, k)'
    <3>1. i \in MapIds /\ maps[i].pos \in 0..NodeCount
      BY <1>t, Types DEF TypeOK, Map
    <3>2. k \in Nodes /\ Claimed(i, k)
      BY <1>1, <1>t, <2>3, <3>1 DEF CrossedAreClaimed, Claimed, Nodes
    <3>3. QED
      BY <1>2, <3>1, <3>2
  <2>4. QED
    BY <1>0, <2>1, <2>2, <2>3 DEF CrossedAreClaimed, Claimed
<1>4. /\ l \in {"claim", "move"}
      /\ l = "claim" => n + 1 <= job[t].to
      /\ l = "move" => job[t].to < n + 1
  BY <1>1 DEF ClaimOrMove, Job
<1>5. /\ job' \in [Tabs -> Job]
      /\ job'[t].task = job[t].task /\ job'[t].map = m
      /\ job'[t].at = n + 1 /\ job'[t].to = job[t].to
  <2>1. n + 1 \in 0..(NodeCount + 1)
    BY <1>1
  <2>2. [job[t] EXCEPT !.at = n + 1] \in Job
    BY <1>1, <2>1 DEF Job
  <2>3. job' = [job EXCEPT ![t] = [job[t] EXCEPT !.at = n + 1]]
    BY <1>0
  <2>4. QED
    BY <1>1, <1>t, <2>2, <2>3 DEF TypeOK, Job
<1>6. TypeOK'
  <2>1. pc' \in [Tabs -> LabelSet]
    BY <1>0, <1>4, <1>t DEF TypeOK, LabelSet
  <2>2. QED
    BY <1>0, <1>2, <1>5, <1>t, <2>1 DEF TypeOK, counters
<1>7. TabOK(t)'
  <2>1. ASSUME NEW k \in Nodes, k < n + 1
        PROVE  claims'[m][k] > 0 \/ <<m, k>> \in unclaimed'
    <3>1. CASE k = n
      BY <1>2, <3>1
    <3>2. CASE k # n
      <4>1. Claimed(m, k)
        BY <1>1, <2>1, <3>2 DEF Nodes
      <4>2. m \in MapIds
        BY <1>1
      <4>3. \A i \in MapIds : Claimed(i, k) =>
               (claims'[i][k] > 0 \/ <<i, k>> \in unclaimed')
        BY <1>2 DEF Claimed
      <4>4. QED
        BY <4>1, <4>2, <4>3
    <3>3. QED
      BY <3>1, <3>2
  <2>2. pc'[t] = l
    BY <1>0, <1>t DEF TypeOK
  <2>3. UNCHANGED <<shown, overdue, number, tasks, newest>>
    BY <1>0
  <2>4. m \in 1..newest /\ n + 1 > 0
    BY <1>1
  <2> HIDE DEF m, n, l
  <2>5. QED
    BY <1>0, <1>4, <1>5, <1>t, <2>1, <2>2, <2>3, <2>4
       DEF TabOK, TypeOK, Claimed
<1>8. QED
  BY <1>0, <1>3, <1>6, <1>7, <1>t, OneTab DEF TypeOK

LEMMA MoveTokenStep ==
    ASSUME TInv, NEW t \in Tabs, MoveToken(t)
    PROVE  TInv'
<1>t. TypeOK /\ RowsOK /\ CrossedAreClaimed /\ TabOK(t)
  BY DEF TInv
<1> DEFINE m == job[t].map
           to == job[t].to
           done == to >= NodeCount
<1>0. /\ pc[t] = "move"
      /\ pc' = [pc EXCEPT ![t] = "resolve"]
      /\ UNCHANGED <<today, newest, claims, tasks, shown, day, overdue, job,
                     number, counters, unclaimed>>
      /\ faults' \in Nat
      /\ \/ maps' = maps
         \/ maps' = [maps EXCEPT ![m].pos = to, ![m].active = ~done,
                                 ![m].completed = done]
  BY <1>t DEF MoveToken, Goto, TypeOK
<1>1. /\ m \in 1..newest /\ m \in MapIds /\ to \in 0..NodeCount
      /\ \A k \in 1..to : Claimed(m, k)
  <2>1. job[t] \in Job /\ NodeCount \in Nat
    BY <1>t, Types DEF TypeOK
  <2>2. /\ m \in 1..newest /\ to < job[t].at
        /\ \A k \in Nodes : k < job[t].at => Claimed(m, k)
    BY <1>0, <1>t DEF TabOK
  <2>3. QED
    BY <1>t, <2>1, <2>2, Types DEF Job, Nodes
<1> HIDE DEF m, to
<1>2. /\ maps' \in [MapIds -> Map]
      /\ \A i \in MapIds : /\ maps'[i].number = maps[i].number
                           /\ maps'[i].pos = maps[i].pos
                              \/ (i = m /\ maps'[i].pos = to)
  <2>1. CASE maps' = maps
    BY <1>t, <2>1 DEF TypeOK
  <2>2. CASE maps' = [maps EXCEPT ![m].pos = to, ![m].active = ~done,
                                  ![m].completed = done]
    <3> DEFINE new == [maps[m] EXCEPT !.pos = to, !.active = ~done,
                                      !.completed = done]
    <3>1. done \in BOOLEAN /\ maps[m] \in Map
      BY <1>1, <1>t DEF TypeOK
    <3> HIDE DEF done
    <3>2. new \in Map /\ new.pos = to /\ new.number = maps[m].number
      BY <1>1, <3>1 DEF Map
    <3>3. maps' = [maps EXCEPT ![m] = new]
      BY <1>1, <1>t, <2>2 DEF TypeOK
    <3> HIDE DEF new
    <3>4. QED
      BY <1>1, <1>t, <3>2, <3>3 DEF TypeOK
  <2>3. QED
    BY <1>0, <2>1, <2>2
<1>3. Grown /\ RowsOK' /\ CrossedAreClaimed'
  <2>1. Grown
    BY <1>0, <1>t, Types DEF Grown, Claimed
  <2>2. RowsOK'
    BY <1>0, <1>2, <1>t DEF RowsOK
  <2>3. ASSUME NEW i \in 1..newest, NEW k \in 1..maps'[i].pos
        PROVE  Claimed(i, k)
    <3>1. i \in MapIds
      BY <1>t, Types
    <3>2. CASE maps'[i].pos = maps[i].pos
      BY <1>t, <2>3, <3>2 DEF CrossedAreClaimed, Claimed
    <3>3. CASE i = m /\ maps'[i].pos = to
      BY <1>1, <2>3, <3>3
    <3>4. QED
      BY <1>2, <3>1, <3>2, <3>3
  <2>4. QED
    BY <1>0, <2>1, <2>2, <2>3 DEF CrossedAreClaimed, Claimed
<1>4. TypeOK'
  BY <1>0, <1>2, <1>t DEF TypeOK, LabelSet, counters
<1>5. TabOK(t)'
  BY <1>0, <1>t DEF TabOK, TypeOK
<1>6. QED
  BY <1>0, <1>3, <1>4, <1>5, <1>t, OneTab DEF TypeOK

LEMMA ResolveTaskStep ==
    ASSUME TInv, NEW t \in Tabs, ResolveTask(t)
    PROVE  TInv'
<1>t. TypeOK /\ RowsOK /\ CrossedAreClaimed /\ TabOK(t)
  BY DEF TInv
<1>0. /\ pc[t] = "resolve" /\ faults' \in Nat
      /\ UNCHANGED <<today, maps, newest, claims, shown, day, number,
                     counters, unclaimed>>
  BY <1>t DEF ResolveTask, TypeOK
<1>k. job[t].task # 0 /\ job[t].task \in Days /\ job[t].wasCompleted \in BOOLEAN
  BY <1>0, <1>t, Types DEF TabOK, TypeOK, Job
<1>1. /\ tasks' \in [Days -> Task]
      /\ \A d \in Days : tasks'[d].map = tasks[d].map
  <2>1. CASE UNCHANGED tasks
    BY <1>t, <2>1 DEF TypeOK
  <2>2. CASE tasks' = [tasks EXCEPT
                          ![job[t].task].is_completed = job[t].wasCompleted,
                          ![job[t].task].resolved = TRUE]
    <3> DEFINE d == job[t].task
               new == [tasks[d] EXCEPT !.is_completed = job[t].wasCompleted,
                                       !.resolved = TRUE]
    <3>1. new \in Task /\ new.map = tasks[d].map
      BY <1>k, <1>t DEF TypeOK, Task
    <3>2. tasks' = [tasks EXCEPT ![d] = new]
      BY <1>k, <1>t, <2>2 DEF TypeOK
    <3> HIDE DEF new
    <3>3. QED
      BY <1>k, <1>t, <3>1, <3>2 DEF TypeOK
  <2>3. QED
    BY <2>1, <2>2 DEF ResolveTask
<1>2. Grown /\ RowsOK' /\ CrossedAreClaimed'
  <2>1. Grown
    BY <1>0, <1>1, <1>t, Types DEF Grown, Claimed
  <2>2. RowsOK' /\ CrossedAreClaimed'
    BY <1>0, <1>1, <1>t DEF RowsOK, CrossedAreClaimed
  <2>3. QED
    BY <2>1, <2>2
<1>3. /\ TabOK(t)'
      /\ job' \in [Tabs -> Job] /\ overdue' \in [Tabs -> SUBSET Days]
      /\ pc' \in [Tabs -> LabelSet]
      /\ \A u \in Tabs \ {t} : /\ pc'[u] = pc[u] /\ job'[u] = job[u]
                               /\ overdue'[u] = overdue[u]
  <2>1. CASE job[t].to >= NodeCount
    <3>1. pc' = [pc EXCEPT ![t] = "readNumber"] /\ UNCHANGED <<overdue, job>>
      BY <2>1 DEF ResolveTask, Goto
    <3>2. TabOK(t)'
      <4>1. /\ shown[t].task # 0 => shown[t].task \in Days
            /\ overdue[t] \subseteq Days
        BY <1>t, Types DEF TypeOK
      <4>2. QED
        BY <1>0, <1>1, <1>k, <1>t, <3>1, <4>1 DEF TabOK, TypeOK
    <3>3. QED
      BY <1>t, <3>1, <3>2 DEF TypeOK, LabelSet
  <2>2. CASE ~(job[t].to >= NodeCount)
    <3>1. NextJob(t)
      BY <2>2 DEF ResolveTask
    <3>2. newest' \in Nat /\ number'[t] <= newest'
      BY <1>0, <1>t, Types DEF TabOK
    <3>3. QED
      BY <1>0, <1>2, <1>k, <1>t, <3>1, <3>2, NextJobTab
  <2>3. QED
    BY <2>1, <2>2
<1>4. TypeOK'
  BY <1>0, <1>1, <1>3, <1>t DEF TypeOK, counters
<1>5. QED
  BY <1>0, <1>2, <1>3, <1>4, <1>t, OneTab

LEMMA DiesStep ==
    ASSUME TInv, NEW t \in Tabs, Dies(t)
    PROVE  TInv'
<1>t. TypeOK /\ RowsOK /\ CrossedAreClaimed /\ TabOK(t)
  BY DEF TInv
<1>0. NoJob \in Job /\ NoJob.task = 0
  BY MapBounds, NodeCountType DEF NoJob, Job
<1> USE DEF Dies, Goto
<1>1. TypeOK'
  BY <1>0, <1>t, Types DEF TypeOK, LabelSet, rows, losses
<1>2. Grown /\ RowsOK' /\ CrossedAreClaimed'
  BY <1>t, RowsKept DEF losses
<1>3. TabOK(t)'
  BY <1>0, <1>t, Types DEF TabOK, TypeOK, rows
<1>4. QED
  BY <1>1, <1>2, <1>3, <1>t, OneTab DEF TypeOK

LEMMA IdleStep ==
    ASSUME TInv, Midnight \/ UNCHANGED vars
    PROVE  TInv'
<1>t. TypeOK /\ RowsOK /\ CrossedAreClaimed
  BY DEF TInv
<1>0. UNCHANGED <<rows, pc, shown, day, overdue, job, number, counters,
                  losses>>
  BY DEF Midnight, vars, rows, counters, losses
<1>1. TypeOK'
  <2>1. today' \in Days
    BY <1>t, MapBounds DEF Midnight, vars, TypeOK, Days
  <2>2. QED
    BY <1>0, <1>t, <2>1 DEF TypeOK, rows, counters, losses
<1>2. Grown /\ RowsOK' /\ CrossedAreClaimed'
  BY <1>0, <1>t, RowsKept DEF losses
<1>3. ASSUME NEW u \in Tabs PROVE TabOK(u)'
  <2>1. newest' \in Nat /\ TabOK(u)
    BY <1>1, MapBounds DEF TypeOK, TInv
  <2>2. QED
    BY <1>0, <1>2, <1>t, <2>1, OtherTab
<1>4. QED
  BY <1>1, <1>2, <1>3 DEF TInv

-----------------------------------------------------------------------------
LEMMA FirstMap == Init => TInv
<1> SUFFICES ASSUME Init PROVE TInv
  OBVIOUS
<1>1. TypeOK
  <2>1. /\ NoMap \in Map /\ NoTask \in Task /\ NoJob \in Job
        /\ 1 \in Days /\ 0 \in 0..MaxMaps /\ 0 \in 0..MaxDays
    BY MapBounds, NodeCountType
       DEF NoMap, Map, NoTask, Task, NoJob, Job, Days
  <2>2. QED
    BY <2>1 DEF Init, TypeOK, LabelSet
<1>2. RowsOK
  BY DEF Init, RowsOK, NoMap, NoTask
<1>3. CrossedAreClaimed
  BY DEF Init, CrossedAreClaimed
<1>4. ASSUME NEW t \in Tabs PROVE TabOK(t)
  BY DEF Init, TabOK, NoJob
<1>5. QED
  BY <1>1, <1>2, <1>3, <1>4 DEF TInv

LEMMA MapStep == TInv /\ [Next]_vars => TInv'
<1> SUFFICES ASSUME TInv, [Next]_vars PROVE TInv'
  OBVIOUS
<1>1. ASSUME NEW t \in Tabs, Request(t) PROVE TInv'
  BY <1>1, FindMapStep, ReadNumberStep, InsertMapStep, FindOverdueStep,
     FindTodayStep, InsertTaskStep, ReadTaskStep, ReadMapStep, ClaimNodeStep,
     MoveTokenStep, ResolveTaskStep DEF Request
<1>2. ASSUME NEW t \in Tabs, OpenPage(t) \/ AskComplete(t) PROVE TInv'
  BY <1>2, OpenPageStep
<1>3. ASSUME NEW t \in Tabs, Dies(t) PROVE TInv'
  BY <1>3, DiesStep
<1>4. CASE Midnight \/ UNCHANGED vars
  BY <1>4, IdleStep
<1>5. QED
  BY <1>1, <1>2, <1>3, <1>4 DEF Next

LEMMA MapInvariance == Spec => []TInv
BY FirstMap, MapStep, PTL DEF Spec

(* Every row and every request keeps its type: the token stays on the      *)
(* board and no handler works on a map or a task that does not exist.      *)
THEOREM MapTypeCorrect == Spec => []TypeOK
<1>1. TInv => TypeOK
  BY DEF TInv
<1>2. QED
  BY <1>1, MapInvariance, PTL

(* No interleaving, repetition or death of requests lets the token cross a *)
(* node whose reward was not claimed.                                      *)
THEOREM NoRewardSkipped == Spec => []CrossedAreClaimed
<1>1. TInv => CrossedAreClaimed
  BY DEF TInv
<1>2. QED
  BY <1>1, MapInvariance, PTL

-----------------------------------------------------------------------------
LEMMA OneActiveStep == TInv /\ OneActiveMap /\ [Next]_vars => OneActiveMap'
<1> SUFFICES ASSUME TInv, OneActiveMap, [Next]_vars PROVE OneActiveMap'
  OBVIOUS
<1>t. TypeOK /\ newest \in Nat
  BY Types DEF TInv
<1>1. CASE UNCHANGED <<maps, newest>>
  BY <1>1 DEF OneActiveMap, ActiveMaps
<1>2. ASSUME NEW t \in Tabs, InsertedMap(t) PROVE OneActiveMap'
  <2>1. ASSUME NEW m \in 1..newest', maps'[m].active PROVE m = newest + 1
    <3>1. /\ ActiveMaps = {} /\ newest' = newest + 1
          /\ \A k \in MapIds : k # newest + 1 => maps'[k] = maps[k]
      BY <1>2, <1>t DEF InsertedMap, TypeOK
    <3>2. CASE m # newest + 1
      <4>1. m \in 1..newest /\ maps'[m] = maps[m]
        BY <1>t, <2>1, <3>1, <3>2, Types
      <4>2. QED
        BY <2>1, <3>1, <4>1 DEF ActiveMaps
    <3>3. QED
      BY <3>2
  <2>2. QED
    BY <2>1 DEF OneActiveMap, ActiveMaps
<1>3. ASSUME NEW t \in Tabs, InsertMap(t) PROVE OneActiveMap'
  BY <1>1, <1>2, <1>3 DEF InsertMap
<1>4. ASSUME NEW t \in Tabs, MoveToken(t) PROVE OneActiveMap'
  <2> DEFINE done == job[t].to >= NodeCount
  <2>1. newest' = newest /\ job[t].map \in MapIds
    <3>1. job[t].map \in 1..newest
      BY <1>4 DEF MoveToken, TInv, TabOK
    <3>2. QED
      BY <1>4, <1>t, <3>1, Types DEF MoveToken
  <2>2. CASE UNCHANGED maps
    BY <1>1, <2>1, <2>2
  <2>3. CASE /\ maps' = [maps EXCEPT ![job[t].map].pos = job[t].to,
                                     ![job[t].map].active = ~done,
                                     ![job[t].map].completed = done]
             /\ done \/ ActiveMaps \ {job[t].map} = {}
    <3>1. \A k \in MapIds :
             maps'[k].active = IF k = job[t].map THEN ~done ELSE maps[k].active
      BY <1>t, <2>1, <2>3 DEF TypeOK, Map
    <3>2. \A k \in 1..newest : k \in MapIds
      BY <1>t, Types
    <3>3. CASE done
      BY <2>1, <3>1, <3>2, <3>3 DEF OneActiveMap, ActiveMaps
    <3>4. CASE ActiveMaps \ {job[t].map} = {}
      BY <2>1, <3>1, <3>2, <3>4 DEF OneActiveMap, ActiveMaps
    <3>5. QED
      BY <2>3, <3>3, <3>4
  <2>4. QED
    BY <1>4, <2>2, <2>3 DEF MoveToken
<1>5. QED
  BY <1>1, <1>3, <1>4
     DEF Next, Request, OpenPage, FindMap, ReadNumber, FindOverdue, FindToday,
         InsertTask, AskComplete, ReadTask, ReadMap, ClaimNode, ResolveTask,
         Dies, Midnight, vars, rows

(* A user never has two active maps, whichever of the insert of a new map  *)
(* and the stale update of an old one comes first.                         *)
THEOREM NeverTwoActive == Spec => []OneActiveMap
<1>1. Init => OneActiveMap
  BY DEF Init, OneActiveMap, ActiveMaps
<1>2. QED
  BY <1>1, OneActiveStep, MapInvariance, PTL DEF Spec
-----------------------------------------------------------------------------
(* A request keeps bringing a map until there is an active one.            *)
LEMMA BringsElsewhere ==
    ASSUME TypeOK, EndedIsReplaced, deaths' = deaths, faults' = faults,
           UNCHANGED <<maps, newest>>, NEW t \in Tabs,
           ~BringsMap(t) \/ BringsMap(t)',
           \A u \in Tabs \ {t} : pc'[u] = pc[u] /\ job'[u] = job[u]
    PROVE  EndedIsReplaced'
<1> SUFFICES ASSUME newest > 0, ActiveMaps = {}, deaths = 0, faults = 0
             PROVE  \E u \in Tabs : BringsMap(u)'
  BY DEF EndedIsReplaced, ActiveMaps
<1>1. PICK u \in Tabs : BringsMap(u)
  BY DEF EndedIsReplaced
<1>2. CASE u = t
  BY <1>1, <1>2
<1>3. CASE u # t
  BY <1>1, <1>3 DEF BringsMap
<1>4. QED
  BY <1>2, <1>3

LEMMA ReplacedStep ==
    ASSUME TInv, EndedIsReplaced, [Next]_vars
    PROVE  EndedIsReplaced'
<1>t. /\ TypeOK /\ newest \in Nat /\ deaths \in Nat /\ faults \in Nat
      /\ \A m \in 1..newest : m \in MapIds
  BY Types DEF TInv, TypeOK
<1>1. CASE UNCHANGED <<maps, newest, pc, job, deaths, faults>>
  BY <1>1 DEF EndedIsReplaced, ActiveMaps, BringsMap
<1>2. ASSUME NEW t \in Tabs, InsertMap(t) PROVE EndedIsReplaced'
  <2>1. CASE InsertedMap(t)
    <3>1. newest' = newest + 1 /\ newest + 1 \in MapIds
          /\ maps'[newest + 1].active
      BY <1>t, <2>1, MapBounds DEF InsertedMap, TypeOK, MapIds
    <3>2. newest + 1 \in ActiveMaps'
      BY <1>t, <3>1 DEF ActiveMaps
    <3>3. QED
      BY <3>2 DEF EndedIsReplaced
  <2>2. CASE ActiveMaps # {} /\ UNCHANGED <<maps, newest>>
    BY <2>2 DEF EndedIsReplaced, ActiveMaps
  <2>3. CASE faults' = faults + 1
    <3>1. faults' # 0
      BY <1>t, <2>3
    <3>2. QED
      BY <3>1 DEF EndedIsReplaced
  <2>4. QED
    BY <1>2, <2>1, <2>2, <2>3 DEF InsertMap
<1>3. ASSUME NEW t \in Tabs, MoveToken(t) PROVE EndedIsReplaced'
  <2>1. /\ pc[t] = "move" /\ pc' = [pc EXCEPT ![t] = "resolve"]
        /\ newest' = newest /\ job' = job /\ deaths' = deaths
    BY <1>3 DEF MoveToken, Goto, counters
  <2>2. /\ pc'[t] = "resolve" /\ ~BringsMap(t)
        /\ \A u \in Tabs \ {t} : pc'[u] = pc[u]
    BY <1>t, <2>1 DEF TypeOK, BringsMap
  <2>3. CASE faults' = faults + 1
    <3>1. faults' # 0
      BY <1>t, <2>3
    <3>2. QED
      BY <3>1 DEF EndedIsReplaced
  <2>4. CASE faults' = faults /\ UNCHANGED maps
    BY <1>t, <2>1, <2>2, <2>4, BringsElsewhere
  <2>5. CASE /\ maps' = [maps EXCEPT ![job[t].map].pos = job[t].to,
                            ![job[t].map].active = ~(job[t].to >= NodeCount),
                            ![job[t].map].completed = job[t].to >= NodeCount]
    <3>1. CASE job[t].to >= NodeCount
      BY <2>1, <2>2, <3>1 DEF EndedIsReplaced, BringsMap
    <3>2. CASE ~(job[t].to >= NodeCount)
      <4>1. job[t].map \in 1..newest
        BY <2>1 DEF TInv, TabOK
      <4>2. maps'[job[t].map].active
        BY <1>t, <2>5, <3>2, <4>1 DEF TypeOK, Map
      <4>3. QED
        BY <2>1, <4>1, <4>2 DEF EndedIsReplaced, ActiveMaps
    <3>3. QED
      BY <3>1, <3>2
  <2>6. QED
    BY <1>3, <2>3, <2>4, <2>5 DEF MoveToken
<1>4. ASSUME NEW t \in Tabs, ResolveTask(t) PROVE EndedIsReplaced'
  <2>1. /\ pc[t] = "resolve" /\ UNCHANGED <<maps, newest>> /\ deaths' = deaths
    BY <1>4 DEF ResolveTask, counters
  <2>2. CASE faults' = faults + 1
    <3>1. faults' # 0
      BY <1>t, <2>2
    <3>2. QED
      BY <3>1 DEF EndedIsReplaced
  <2>3. CASE faults' = faults /\ job[t].to >= NodeCount
    <3>1. pc' = [pc EXCEPT ![t] = "readNumber"] /\ job' = job
      BY <1>4, <2>3 DEF ResolveTask, Goto
    <3>2. /\ BringsMap(t)'
          /\ \A u \in Tabs \ {t} : pc'[u] = pc[u] /\ job'[u] = job[u]
      BY <1>t, <3>1 DEF TypeOK, BringsMap
    <3>3. QED
      BY <1>t, <2>1, <2>3, <3>2, BringsElsewhere
  <2>4. CASE faults' = faults /\ ~(job[t].to >= NodeCount)
    <3>1. ~BringsMap(t)
      BY <2>1, <2>4 DEF BringsMap
    <3>2. \A u \in Tabs \ {t} : pc'[u] = pc[u] /\ job'[u] = job[u]
      <4>1. NextJob(t)
        BY <1>4, <2>4 DEF ResolveTask
      <4>2. QED
        BY <1>t, <4>1 DEF NextJob, Goto, TypeOK
    <3>3. QED
      BY <1>t, <2>1, <2>4, <3>1, <3>2, BringsElsewhere
  <2>5. QED
    BY <1>4, <2>2, <2>3, <2>4 DEF ResolveTask
<1>5. ASSUME NEW t \in Tabs,
             \/ OpenPage(t) \/ FindMap(t) \/ ReadNumber(t) \/ FindOverdue(t)
             \/ FindToday(t) \/ InsertTask(t) \/ AskComplete(t) \/ ReadTask(t)
             \/ \E s \in CompletedSpaces \cup {AutoSpaces} : ReadMap(t, s)
      PROVE  EndedIsReplaced'
  <2>1. /\ UNCHANGED <<maps, newest>> /\ deaths' = deaths /\ faults' = faults
        /\ pc[t] # "resolve" /\ pc[t] # "insertMap"
        /\ pc[t] = "readNumber" => ReadNumber(t)
    BY <1>5 DEF OpenPage, FindMap, ReadNumber, FindOverdue, FindToday,
         InsertTask, AskComplete, ReadTask, ReadMap, rows, counters, losses
  <2>2. \A u \in Tabs \ {t} : pc'[u] = pc[u] /\ job'[u] = job[u]
    BY <1>5, <1>t DEF OpenPage, FindMap, ReadNumber, FindOverdue, FindToday,
         InsertTask, AskComplete, ReadTask, ReadMap, Goto, TypeOK
  <2>3. ~BringsMap(t) \/ BringsMap(t)'
    <3>1. CASE pc[t] = "readNumber"
      BY <1>t, <2>1, <3>1 DEF ReadNumber, Goto, TypeOK, BringsMap
    <3>2. CASE pc[t] # "readNumber"
      BY <2>1, <3>2 DEF BringsMap
    <3>3. QED
      BY <3>1, <3>2
  <2>4. QED
    BY <1>t, <2>1, <2>2, <2>3, BringsElsewhere
<1>6. ASSUME NEW t \in Tabs, ClaimNode(t) PROVE EndedIsReplaced'
  <2>1. /\ pc[t] = "claim" /\ UNCHANGED <<maps, newest>> /\ deaths' = deaths
        /\ \A u \in Tabs \ {t} : pc'[u] = pc[u] /\ job'[u] = job[u]
        /\ faults' \in {faults, faults + 1}
    BY <1>6, <1>t DEF ClaimNode, Goto, TypeOK, counters, losses
  <2>2. CASE faults' = faults + 1
    <3>1. faults' # 0
      BY <1>t, <2>2
    <3>2. QED
      BY <3>1 DEF EndedIsReplaced
  <2>3. CASE faults' = faults
    <3>1. ~BringsMap(t)
      BY <2>1 DEF BringsMap
    <3>2. QED
      BY <1>t, <2>1, <2>3, <3>1, BringsElsewhere
  <2>4. QED
    BY <2>1, <2>2, <2>3
<1>7. ASSUME NEW t \in Tabs, Dies(t) PROVE EndedIsReplaced'
  <2>1. deaths' # 0
    BY <1>7, <1>t DEF Dies
  <2>2. QED
    BY <2>1 DEF EndedIsReplaced
<1>8. QED
  BY <1>1, <1>2, <1>3, <1>4, <1>5, <1>6, <1>7
     DEF Next, Request, Midnight, vars, rows, counters, losses

(* While nothing dies and no write fails, a user whose maps have all ended *)
(* has a request under way that brings the next one: whichever of the      *)
(* overlapping requests walked to the end, for any number of tabs.         *)
THEOREM EndedMapIsReplaced == Spec => []EndedIsReplaced
<1>1. Init => EndedIsReplaced
  BY DEF Init, EndedIsReplaced
<1>2. TInv /\ EndedIsReplaced /\ [Next]_vars => EndedIsReplaced'
  BY ReplacedStep
<1>3. QED
  BY <1>1, <1>2, MapInvariance, PTL DEF Spec
-----------------------------------------------------------------------------
(* Requests that take turns, where none dies and no write fails.  The      *)
(* claims of a map reach to its position, or to where the one request that *)
(* is moving on it has come; a map before the newest is at its end.        *)
Moving(t) == pc[t] \in {"claim", "move"}
MovingOn(t, m) == Moving(t) /\ job[t].map = m
ClaimedBefore(m, k) == \A n \in Nodes : claims[m][n] = IF n < k THEN 1 ELSE 0

Ordered(m) ==
    /\ maps[m].number = m
    /\ maps[m].active <=> maps[m].pos < NodeCount
    /\ maps[m].completed <=> maps[m].pos = NodeCount
    /\ m < newest => maps[m].pos = NodeCount
Settled(m) ==
    (\A t \in Tabs : ~MovingOn(t, m)) => ClaimedBefore(m, maps[m].pos + 1)
Underway(t) ==
    /\ Moving(t) => /\ maps[job[t].map].pos < job[t].at
                    /\ ClaimedBefore(job[t].map, job[t].at)
    /\ pc[t] = "claim" => job[t].at <= job[t].to
    /\ pc[t] = "move" => job[t].at = job[t].to + 1
    /\ pc[t] = "insertMap" => number[t] = newest

TurnInv ==
    /\ \A m \in 1..newest : Ordered(m) /\ Settled(m)
    /\ \A m \in MapIds : m > newest => ClaimedBefore(m, 1)
    /\ \A t \in Tabs : Underway(t)

LEMMA TurnInit == Init => TurnInv
<1> SUFFICES ASSUME Init PROVE TurnInv
  OBVIOUS
<1>1. newest = 0 /\ \A t \in Tabs : pc[t] = "idle"
  BY DEF Init
<1>2. \A m \in MapIds, n \in Nodes : claims[m][n] = 0
  BY DEF Init
<1>3. \A n \in Nodes : ~(n < 1)
  BY NodeCountType DEF Nodes
<1>4. QED
  BY <1>1, <1>2, <1>3 DEF TurnInv, Underway, Moving, ClaimedBefore

(* A request that neither moves nor is about to.                           *)
LEMMA TurnFrame ==
    ASSUME TypeOK, TurnInv, NEW t \in Tabs, UNCHANGED <<maps, newest, claims>>,
           ~Moving(t), pc'[t] \notin {"claim", "move"},
           pc'[t] = "insertMap" => number'[t] = newest,
           \A u \in Tabs \ {t} : /\ pc'[u] = pc[u] /\ job'[u] = job[u]
                                 /\ number'[u] = number[u]
    PROVE  TurnInv'
<1>1. \A m : \A u \in Tabs : MovingOn(u, m)' = MovingOn(u, m)
  BY DEF MovingOn, Moving
<1>2. \A m, k : ClaimedBefore(m, k)' = ClaimedBefore(m, k)
  BY DEF ClaimedBefore
<1>3. \A m \in 1..newest : Ordered(m)' /\ Settled(m)'
  BY <1>1, <1>2 DEF TurnInv, Ordered, Settled
<1>4. ASSUME NEW u \in Tabs PROVE Underway(u)'
  <2>1. CASE u = t
    BY <2>1 DEF Underway, Moving
  <2>2. CASE u # t
    BY <2>2, <1>2 DEF TurnInv, Underway, Moving
  <2>3. QED
    BY <2>1, <2>2
<1>5. QED
  BY <1>2, <1>3, <1>4 DEF TurnInv

LEMMA LastNumberIsNewest ==
    ASSUME TypeOK, TurnInv
    PROVE  LastNumber = newest
<1> DEFINE S == {0} \cup {maps[m].number : m \in 1..newest}
<1>1. newest \in Nat
  BY Types
<1>2. \A m \in 1..newest : maps[m].number = m
  BY DEF TurnInv, Ordered
<1>3. S \in SUBSET (0..newest) /\ S # {} /\ newest \in S
  <2>1. newest = 0 \/ newest \in 1..newest
    BY <1>1
  <2>2. newest \in S
    BY <1>2, <2>1
  <2>3. QED
    BY <1>1, <1>2, <2>2
<1> HIDE DEF S
<1>4. Largest(S) \in S /\ Largest(S) >= newest
  BY <1>1, <1>3, LargestOf
<1>5. QED
  BY <1>1, <1>3, <1>4 DEF LastNumber, S

LEMMA TurnInsertMap ==
    ASSUME TInv, TurnInv, Alone, MaxFaults = 0, NEW t \in Tabs, InsertMap(t)
    PROVE  TurnInv'
<1>t. TypeOK /\ newest \in Nat /\ NodeCount \in Nat \ {0}
  BY Types, NodeCountType DEF TInv
<1>1. pc[t] = "insertMap" /\ UNCHANGED claims
  BY DEF InsertMap
<1>2. \A u \in Tabs \ {t} : pc[u] = "idle"
  BY <1>1 DEF Alone
<1>3. /\ \A u \in Tabs \ {t} : pc'[u] = "idle" /\ job'[u] = job[u]
                               /\ number'[u] = number[u]
      /\ pc'[t] \in {"idle", "findOverdue", "findMap", "findToday", "readMap"}
  BY <1>t, <1>1, <1>2 DEF InsertMap, NextJob, Goto, TypeOK
<1>4. CASE UNCHANGED <<maps, newest>>
  BY <1>t, <1>1, <1>2, <1>3, <1>4, TurnFrame DEF Moving
<1>5. CASE InsertedMap(t)
  <2> DEFINE k == newest + 1
  <2>1. /\ newest' = k /\ k \in MapIds /\ ActiveMaps = {}
        /\ maps' = [maps EXCEPT ![k] =
                       [pos |-> 0, active |-> TRUE, completed |-> FALSE,
                        number |-> number[t] + 1]]
    BY <1>t, <1>5, Types DEF InsertedMap, MapIds
  <2>2. number[t] = newest
    BY <1>1 DEF TurnInv, Underway
  <2>3. /\ \A m \in 1..newest : m \in MapIds /\ m # k /\ maps'[m] = maps[m]
        /\ maps'[k].pos = 0 /\ maps'[k].active = TRUE
        /\ maps'[k].completed = FALSE /\ maps'[k].number = k
    BY <1>t, <2>1, <2>2, Types DEF TypeOK
  <2>4. \A m, j : ClaimedBefore(m, j)' = ClaimedBefore(m, j)
    BY <1>1 DEF ClaimedBefore
  <2>5. \A u \in Tabs : ~Moving(u) /\ ~Moving(u)'
    BY <1>1, <1>2, <1>3 DEF Moving
  <2>6. ASSUME NEW m \in 1..newest' PROVE Ordered(m)' /\ Settled(m)'
    <3>1. CASE m = k
      <4>1. Ordered(m)'
        <5>1. ~(k < k) /\ 0 < NodeCount
          BY <1>t
        <5>2. QED
          BY <2>1, <2>3, <3>1, <5>1 DEF Ordered
      <4>2. ClaimedBefore(k, 1)
        BY <1>t, <2>1 DEF TurnInv
      <4>3. QED
        BY <2>3, <2>4, <3>1, <4>1, <4>2 DEF Settled
    <3>2. CASE m # k
      <4>1. m \in 1..newest
        BY <1>t, <2>1, <3>2
      <4>2. maps[m].pos = NodeCount
        <5>1. ~maps[m].active /\ maps[m].pos \in 0..NodeCount
          BY <1>t, <2>1, <2>3, <4>1 DEF ActiveMaps, TypeOK, Map
        <5>2. Ordered(m)
          BY <4>1 DEF TurnInv
        <5>3. QED
          BY <1>t, <5>1, <5>2 DEF Ordered
      <4>3. Ordered(m)'
        BY <2>3, <4>1, <4>2 DEF TurnInv, Ordered
      <4>4. ClaimedBefore(m, maps[m].pos + 1)
        BY <2>5, <4>1 DEF TurnInv, Settled, MovingOn
      <4>5. QED
        BY <2>3, <2>4, <4>1, <4>3, <4>4 DEF Settled
    <3>3. QED
      BY <3>1, <3>2
  <2>7. \A m \in MapIds : m > newest' => ClaimedBefore(m, 1)'
    BY <1>t, <2>1, <2>4 DEF TurnInv, MapIds
  <2>8. \A u \in Tabs : Underway(u)'
    BY <1>3, <2>5 DEF Underway, Moving
  <2>9. QED
    BY <2>6, <2>7, <2>8 DEF TurnInv
<1>6. faults \in Nat
  BY <1>t DEF TypeOK
<1>7. QED
  BY <1>4, <1>5, <1>6 DEF InsertMap

LEMMA TurnReadMap ==
    ASSUME TInv, TInv', TurnInv, Alone, NEW t \in Tabs,
           NEW s \in CompletedSpaces \cup {AutoSpaces}, ReadMap(t, s)
    PROVE  TurnInv'
<1>p. PICK m, old, new : /\ m = tasks[job[t].task].map
                         /\ old = maps[m].pos
                         /\ new = NewPosition(old, s)
  OBVIOUS
<1>t. TypeOK /\ newest \in Nat /\ NodeCount \in Nat
  BY Types DEF TInv
<1>1. /\ pc[t] = "readMap" /\ UNCHANGED <<maps, newest, claims, number>>
      /\ job' = [job EXCEPT ![t] = [job[t] EXCEPT !.map = m, !.at = old + 1,
                                                  !.to = new]]
      /\ pc' = [pc EXCEPT ![t] = ClaimOrMove(old + 1, new)]
  BY <1>p DEF ReadMap, Goto, rows
<1>2. /\ job'[t].map = m /\ job'[t].at = old + 1 /\ job'[t].to = new
      /\ pc'[t] = ClaimOrMove(old + 1, new)
      /\ \A u \in Tabs \ {t} : pc'[u] = pc[u] /\ job'[u] = job[u]
  BY <1>t, <1>1 DEF TypeOK, Job
<1>3. \A u \in Tabs \ {t} : pc[u] = "idle"
  BY <1>1 DEF Alone
<1>4. Moving(t)' /\ m \in 1..newest /\ m \in MapIds
  <2>1. Moving(t)'
    BY <1>2 DEF Moving, ClaimOrMove
  <2>2. m \in 1..newest'
    BY <1>2, <2>1 DEF TInv, TabOK, Moving
  <2>3. QED
    BY <1>t, <1>1, <2>1, <2>2, Types
<1>5. old \in 0..NodeCount
  BY <1>p, <1>t, <1>4 DEF TypeOK, Map
<1>6. /\ new \in old..NodeCount
      /\ old + 1 <= new \/ old + 1 = new + 1
  BY <1>p, <1>t, <1>5 DEF NewPosition, CompletedSpaces, AutoSpaces
<1>7. /\ pc'[t] = "claim" => old + 1 <= new
      /\ pc'[t] = "move" => old + 1 = new + 1
      /\ pc'[t] # "insertMap"
  BY <1>2, <1>5, <1>6 DEF ClaimOrMove
<1>8. \A k, j : ClaimedBefore(k, j)' = ClaimedBefore(k, j)
  BY <1>1 DEF ClaimedBefore
<1>9. \A u \in Tabs : ~Moving(u)
  BY <1>1, <1>3 DEF Moving
<1>10. \A k \in 1..newest : Ordered(k) /\ ClaimedBefore(k, maps[k].pos + 1)
  BY <1>9 DEF TurnInv, Settled, MovingOn
<1>11. \A k \in 1..newest' : Ordered(k)' /\ Settled(k)'
  BY <1>1, <1>8, <1>10 DEF Ordered, Settled
<1>12. Underway(t)'
  <2>1. maps'[job'[t].map].pos = old
    BY <1>p, <1>1, <1>2
  <2>2. ClaimedBefore(m, old + 1)'
    BY <1>p, <1>4, <1>8, <1>10
  <2>3. ClaimedBefore(job[t].map, job[t].at)'
    BY <1>2, <2>2 DEF ClaimedBefore
  <2>4. QED
    BY <1>2, <1>5, <1>7, <2>1, <2>3 DEF Underway
<1>13. \A u \in Tabs : Underway(u)'
  BY <1>2, <1>3, <1>12 DEF Underway, Moving
<1>14. QED
  BY <1>1, <1>8, <1>11, <1>13 DEF TurnInv

LEMMA TurnClaimNode ==
    ASSUME TInv, TurnInv, Alone, MaxFaults = 0, NEW t \in Tabs, ClaimNode(t)
    PROVE  TurnInv'
<1>p. PICK m, n : m = job[t].map /\ n = job[t].at
  OBVIOUS
<1>t. TypeOK /\ newest \in Nat /\ NodeCount \in Nat /\ faults \in Nat
  BY Types DEF TInv, TypeOK
<1>1. /\ pc[t] = "claim" /\ UNCHANGED <<maps, newest, number>>
      /\ claims' = [claims EXCEPT ![m][n] = @ + 1]
      /\ job' = [job EXCEPT ![t].at = n + 1]
      /\ pc' = [pc EXCEPT ![t] = ClaimOrMove(n + 1, job[t].to)]
  BY <1>p, <1>t DEF ClaimNode, Goto
<1>2. /\ job'[t].map = m /\ job'[t].at = n + 1 /\ job'[t].to = job[t].to
      /\ pc'[t] = ClaimOrMove(n + 1, job[t].to)
      /\ \A u \in Tabs \ {t} : pc'[u] = pc[u] /\ job'[u] = job[u]
  BY <1>p, <1>t, <1>1 DEF TypeOK, Job
<1>3. \A u \in Tabs \ {t} : pc[u] = "idle"
  BY <1>1 DEF Alone
<1>4. /\ m \in 1..newest /\ m \in MapIds /\ n > 0 /\ n <= job[t].to
      /\ job[t].to \in 0..NodeCount /\ n \in 0..(NodeCount + 1)
      /\ maps[m].pos < n /\ ClaimedBefore(m, n) /\ maps[m].pos \in 0..NodeCount
  <2>1. m \in 1..newest /\ n > 0 /\ n <= job[t].to
    BY <1>p, <1>1 DEF TInv, TabOK
  <2>2. job[t].to \in 0..NodeCount /\ n \in 0..(NodeCount + 1)
    BY <1>p, <1>t DEF TypeOK, Job
  <2>3. maps[m].pos < n /\ ClaimedBefore(m, n)
    BY <1>p, <1>1 DEF TurnInv, Underway, Moving
  <2>4. m \in MapIds
    BY <1>t, <2>1, Types
  <2>5. maps[m].pos \in 0..NodeCount
    BY <1>t, <2>4 DEF TypeOK, Map
  <2>6. QED
    BY <2>1, <2>2, <2>3, <2>4, <2>5
<1>5. n \in Nodes
  BY <1>t, <1>4, Types
<1>6. /\ ClaimedBefore(m, n + 1)'
      /\ \A j : \A k \in MapIds \ {m} : ClaimedBefore(k, j) => ClaimedBefore(k, j)'
  <2>1. \A k \in MapIds, i \in Nodes :
           claims'[k][i] = IF k = m /\ i = n THEN claims[k][i] + 1 ELSE claims[k][i]
    BY <1>t, <1>1, <1>4, <1>5 DEF TypeOK
  <2>2. \A i \in Nodes : claims[m][i] = IF i < n THEN 1 ELSE 0
    BY <1>4 DEF ClaimedBefore
  <2>3. \A i \in Nodes : claims'[m][i] = IF i < n + 1 THEN 1 ELSE 0
    BY <1>4, <2>1, <2>2 DEF Nodes
  <2>4. QED
    BY <2>1, <2>3 DEF ClaimedBefore
<1>7. /\ pc'[t] \in {"claim", "move"}
      /\ pc'[t] = "claim" => n + 1 <= job[t].to
      /\ pc'[t] = "move" => n + 1 = job[t].to + 1
  BY <1>2, <1>4 DEF ClaimOrMove
<1>8. \A k \in 1..newest : k \in MapIds
  BY <1>t, Types
<1>9. ASSUME NEW k \in 1..newest' PROVE Ordered(k)' /\ Settled(k)'
  <2>1. k \in 1..newest /\ k \in MapIds
    BY <1>1, <1>8
  <2>2. Ordered(k)'
    BY <1>1, <2>1 DEF TurnInv, Ordered
  <2>3. CASE k = m
    BY <1>2, <1>7, <2>2, <2>3 DEF Settled, MovingOn, Moving
  <2>4. CASE k # m
    <3>1. \A u \in Tabs : ~MovingOn(u, k)
      BY <1>p, <1>3, <2>4 DEF MovingOn, Moving
    <3>2. ClaimedBefore(k, maps[k].pos + 1)
      BY <2>1, <3>1 DEF TurnInv, Settled
    <3>3. QED
      BY <1>1, <1>6, <2>1, <2>2, <2>4, <3>2 DEF Settled
  <2>5. QED
    BY <2>3, <2>4
<1>10. \A k \in MapIds : k > newest' => ClaimedBefore(k, 1)'
  <2>1. ~(m > newest)
    BY <1>t, <1>4
  <2>2. QED
    BY <1>1, <1>6, <2>1 DEF TurnInv
<1>11. Underway(t)'
  <2>1. maps'[job'[t].map].pos = maps[m].pos
    BY <1>1, <1>2
  <2>2. maps[m].pos < n + 1
    BY <1>4
  <2>3. ClaimedBefore(job[t].map, job[t].at)'
    BY <1>2, <1>6 DEF ClaimedBefore
  <2>4. QED
    BY <1>2, <1>7, <2>1, <2>2, <2>3 DEF Underway
<1>12. \A u \in Tabs : Underway(u)'
  BY <1>2, <1>3, <1>11 DEF Underway, Moving
<1>13. QED
  BY <1>9, <1>10, <1>12 DEF TurnInv

LEMMA TurnMoveToken ==
    ASSUME TInv, TurnInv, Alone, MaxFaults = 0, NEW t \in Tabs, MoveToken(t)
    PROVE  TurnInv'
<1>p. PICK m, to : m = job[t].map /\ to = job[t].to
  OBVIOUS
<1> DEFINE done == to >= NodeCount
<1>t. TypeOK /\ newest \in Nat /\ NodeCount \in Nat /\ faults \in Nat
  BY Types DEF TInv, TypeOK
<1>1. /\ pc[t] = "move" /\ UNCHANGED <<newest, claims, job, number>>
      /\ pc' = [pc EXCEPT ![t] = "resolve"]
      /\ IF ~done /\ ActiveMaps \ {m} # {} THEN UNCHANGED maps
         ELSE maps' = [maps EXCEPT ![m].pos = to, ![m].active = ~done,
                                   ![m].completed = done]
  BY <1>p, <1>t DEF MoveToken, Goto
<1>2. /\ \A u \in Tabs \ {t} : pc[u] = "idle"
      /\ \A u \in Tabs : ~Moving(u)' /\ pc'[u] # "insertMap"
  <2>1. \A u \in Tabs \ {t} : pc[u] = "idle" /\ pc'[u] = pc[u]
    BY <1>t, <1>1 DEF Alone, TypeOK
  <2>2. pc'[t] = "resolve"
    BY <1>t, <1>1 DEF TypeOK
  <2>3. QED
    BY <2>1, <2>2 DEF Moving
<1>3. /\ m \in 1..newest /\ m \in MapIds /\ to \in 0..NodeCount
      /\ maps[m].pos \in 0..NodeCount /\ maps[m].pos < to + 1
      /\ ClaimedBefore(m, to + 1)
  <2>1. m \in 1..newest /\ m \in MapIds
    BY <1>p, <1>t, <1>1, Types DEF TInv, TabOK
  <2>2. /\ job[t].at = to + 1 /\ maps[m].pos < job[t].at
        /\ ClaimedBefore(m, job[t].at)
    BY <1>p, <1>1 DEF TurnInv, Underway, Moving
  <2>3. to \in 0..NodeCount /\ maps[m].pos \in 0..NodeCount
    BY <1>p, <1>t, <2>1 DEF TypeOK, Job, Map
  <2>4. QED
    BY <2>1, <2>2, <2>3
<1>4. \A k \in 1..newest : Ordered(k) /\ k \in MapIds
  BY <1>t, Types DEF TurnInv
<1>5. m < newest => to = NodeCount
  <2>1. m < newest => maps[m].pos = NodeCount
    BY <1>3, <1>4 DEF Ordered
  <2>2. QED
    BY <1>t, <1>3, <2>1
<1>6. ~(~done /\ ActiveMaps \ {m} # {})
  <2>1. SUFFICES ASSUME ~done, NEW k \in ActiveMaps \ {m} PROVE FALSE
    OBVIOUS
  <2>2. k \in 1..newest /\ maps[k].active /\ Ordered(k)
    BY <1>4 DEF ActiveMaps
  <2>3. ~(k < newest)
    BY <1>t, <2>2 DEF Ordered
  <2>4. m < newest
    BY <1>t, <1>3, <2>2, <2>3
  <2>5. QED
    BY <1>t, <1>5, <2>1, <2>4
<1>7. /\ maps'[m].pos = to
      /\ (maps'[m].active <=> ~done) /\ (maps'[m].completed <=> done)
      /\ maps'[m].number = maps[m].number
      /\ \A k \in MapIds \ {m} : maps'[k] = maps[k]
  <2>1. maps' = [maps EXCEPT ![m].pos = to, ![m].active = ~done,
                             ![m].completed = done]
    BY <1>1, <1>6
  <2>2. maps[m] \in Map
    BY <1>t, <1>3 DEF TypeOK
  <2>3. QED
    BY <1>t, <1>3, <2>1, <2>2 DEF TypeOK, Map
<1>8. \A k, j : ClaimedBefore(k, j)' = ClaimedBefore(k, j)
  BY <1>1 DEF ClaimedBefore
<1>9. ASSUME NEW k \in 1..newest' PROVE Ordered(k)' /\ Settled(k)'
  <2>1. k \in 1..newest /\ k \in MapIds /\ Ordered(k)
    BY <1>1, <1>4
  <2>2. CASE k = m
    <3>1. maps[m].number = m
      BY <2>1, <2>2 DEF Ordered
    <3>2. (done <=> to = NodeCount) /\ (~done <=> to < NodeCount)
      BY <1>t, <1>3
    <3>3. Ordered(m)'
      BY <1>1, <1>5, <1>7, <3>1, <3>2 DEF Ordered
    <3>4. QED
      BY <1>1, <1>3, <1>7, <2>2, <3>3 DEF Settled, ClaimedBefore
  <2>3. CASE k # m
    <3>1. \A u \in Tabs : ~MovingOn(u, k)
      BY <1>p, <1>2, <2>3 DEF MovingOn, Moving
    <3>2. ClaimedBefore(k, maps[k].pos + 1)
      BY <2>1, <3>1 DEF TurnInv, Settled
    <3>3. QED
      BY <1>1, <1>7, <1>8, <2>1, <2>3, <3>2 DEF Ordered, Settled
  <2>4. QED
    BY <2>2, <2>3
<1>10. \A k \in MapIds : k > newest' => ClaimedBefore(k, 1)'
  BY <1>1, <1>8 DEF TurnInv
<1>11. \A u \in Tabs : Underway(u)'
  BY <1>2 DEF Underway, Moving
<1>12. QED
  BY <1>9, <1>10, <1>11 DEF TurnInv

LEMMA TurnStep ==
    ASSUME MaxDeaths = 0, MaxFaults = 0
    PROVE  TInv /\ TInv' /\ TurnInv /\ Alone /\ [Next]_vars => TurnInv'
<1> SUFFICES ASSUME TInv, TInv', TurnInv, Alone, [Next]_vars PROVE TurnInv'
  OBVIOUS
<1>t. TypeOK /\ deaths \in Nat /\ faults \in Nat
  BY DEF TInv, TypeOK
<1>1. ASSUME NEW t \in Tabs, OpenPage(t) \/ AskComplete(t) PROVE TurnInv'
  BY <1>1, <1>t, TurnFrame DEF OpenPage, AskComplete, Goto, rows, Moving, TypeOK
<1>2. ASSUME NEW t \in Tabs, FindMap(t) PROVE TurnInv'
  BY <1>2, <1>t, TurnFrame DEF FindMap, Goto, rows, Moving, TypeOK
<1>3. ASSUME NEW t \in Tabs, ReadNumber(t) PROVE TurnInv'
  <2>1. number'[t] = newest
    BY <1>3, <1>t, LastNumberIsNewest DEF ReadNumber, TypeOK
  <2>2. QED
    BY <1>3, <1>t, <2>1, TurnFrame DEF ReadNumber, Goto, rows, Moving, TypeOK
<1>4. ASSUME NEW t \in Tabs, FindOverdue(t) PROVE TurnInv'
  BY <1>4, <1>t, TurnFrame DEF FindOverdue, Goto, rows, Moving, TypeOK
<1>5. ASSUME NEW t \in Tabs, FindToday(t) PROVE TurnInv'
  BY <1>5, <1>t, TurnFrame DEF FindToday, Goto, rows, Moving, TypeOK
<1>6. ASSUME NEW t \in Tabs, InsertTask(t) PROVE TurnInv'
  BY <1>6, <1>t, TurnFrame DEF InsertTask, Goto, rows, Moving, TypeOK
<1>7. ASSUME NEW t \in Tabs, ReadTask(t) PROVE TurnInv'
  BY <1>7, <1>t, TurnFrame DEF ReadTask, Goto, rows, Moving, TypeOK
<1>8. ASSUME NEW t \in Tabs, ResolveTask(t) PROVE TurnInv'
  <2>1. /\ pc[t] = "resolve" /\ UNCHANGED <<maps, newest, claims, number>>
        /\ pc'[t] \in {"readNumber", "findMap", "findToday", "readMap"}
        /\ \A u \in Tabs \ {t} : pc'[u] = pc[u] /\ job'[u] = job[u]
    BY <1>8, <1>t DEF ResolveTask, NextJob, Goto, TypeOK
  <2>2. QED
    BY <1>t, <2>1, TurnFrame DEF Moving
<1>9. ASSUME NEW t \in Tabs, Dies(t) PROVE FALSE
  BY <1>9, <1>t DEF Dies
<1>10. CASE Midnight \/ UNCHANGED vars
  <2>1. UNCHANGED <<maps, newest, claims, pc, job, number>>
    BY <1>10 DEF Midnight, vars, rows
  <2>2. QED
    BY <2>1 DEF TurnInv, Ordered, Settled, ClaimedBefore, MovingOn, Moving, Underway
<1>11. QED
  BY <1>1, <1>2, <1>3, <1>4, <1>5, <1>6, <1>7, <1>8, <1>9, <1>10, TurnInsertMap,
     TurnReadMap, TurnClaimNode, TurnMoveToken DEF Next, Request

LEMMA TurnInvariance ==
    ASSUME MaxDeaths = 0, MaxFaults = 0
    PROVE  Spec /\ []Alone => []TurnInv
<1>1. TInv /\ TInv' /\ TurnInv /\ Alone /\ [Next]_vars => TurnInv'
  BY TurnStep
<1>2. QED
  BY <1>1, TurnInit, MapInvariance, PTL DEF Spec

(* As long as requests take turns and run to their end, a reward is        *)
(* claimed once and, between requests, exactly up to the token: whichever  *)
(* tab acts on whatever outdated page (resolveMovement, computeMovement).  *)
THEOREM TurnsClaimExactly ==
    ASSUME MaxDeaths = 0, MaxFaults = 0
    PROVE  Spec => AloneClaimsExactly
<1>1. TInv /\ TurnInv => ClaimedExactly
  <2>1. SUFFICES ASSUME TInv, TurnInv, NEW m \in 1..newest, NEW n \in Nodes
                 PROVE  /\ claims[m][n] <= 1
                        /\ (\A t \in Tabs : pc[t] = "idle") =>
                              (claims[m][n] = 1 <=> n <= maps[m].pos)
    BY DEF ClaimedExactly
  <2>0. TypeOK /\ m \in MapIds
    BY <2>1, Types DEF TInv
  <2>2. maps[m].pos \in 0..NodeCount /\ n \in Nat
    BY <2>0 DEF TypeOK, Map, Nodes
  <2>3. CASE \E t \in Tabs : MovingOn(t, m)
    <3>1. PICK t \in Tabs : MovingOn(t, m)
      BY <2>3
    <3>2. ClaimedBefore(m, job[t].at) /\ pc[t] # "idle"
      <4>1. Underway(t) /\ Moving(t) /\ job[t].map = m
        BY <2>1, <3>1 DEF TurnInv, MovingOn
      <4>2. QED
        BY <4>1 DEF Underway, Moving
    <3>3. claims[m][n] \in {0, 1}
      BY <3>2 DEF ClaimedBefore
    <3>4. QED
      BY <3>2, <3>3
  <2>4. CASE \A t \in Tabs : ~MovingOn(t, m)
    <3>1. claims[m][n] = IF n < maps[m].pos + 1 THEN 1 ELSE 0
      BY <2>1, <2>4 DEF TurnInv, Settled, ClaimedBefore
    <3>2. QED
      BY <2>2, <3>1
  <2>5. QED
    BY <2>3, <2>4
<1>2. QED
  BY <1>1, TurnInvariance, MapInvariance, PTL DEF AloneClaimsExactly, OneAtATime

(* As long as requests take turns and run to their end, maps are numbered  *)
(* in order and a map is opened only when the one before is finished.      *)
THEOREM TurnsKeepMapsInOrder ==
    ASSUME MaxDeaths = 0, MaxFaults = 0
    PROVE  Spec => AloneMapsInOrder
<1>1. TInv /\ TurnInv => MapsInOrder
  <2>1. SUFFICES ASSUME TInv, TurnInv, NEW m \in 1..newest
                 PROVE  /\ maps[m].number = m
                        /\ m < newest => /\ maps[m].completed /\ ~maps[m].active
                                         /\ maps[m].pos = NodeCount
    BY DEF MapsInOrder
  <2>2. Ordered(m) /\ NodeCount \in Nat
    BY <2>1, NodeCountType DEF TurnInv
  <2>3. QED
    BY <2>2 DEF Ordered
<1>2. QED
  BY <1>1, TurnInvariance, MapInvariance, PTL DEF AloneMapsInOrder, OneAtATime

-----------------------------------------------------------------------------
(* WalksTreasure: the map that is active is the one that is unfinished,    *)
(* since every write of one column writes the other.                       *)

ActiveIsUnfinished ==
    /\ \A m \in 1..newest : maps[m].active <=> maps[m].pos < NodeCount
    /\ \A m \in MapIds : m > newest => maps[m].pos = 0

Walks == TW!WalkNext \/ UNCHANGED TW!walkVars

LEMMA WalkConstants ==
    NodeCount \in Nat \ {0} /\ MaxMaps \in Nat /\ MapIds = 1..MaxMaps
BY NodeCountType, MapBounds DEF MapIds

LEMMA ActivesUnfinished ==
    ASSUME TInv, ActiveIsUnfinished
    PROVE  TW!Unfinished = ActiveMaps /\ \A m \in 1..newest : m \in MapIds
<1>1. \A m \in 1..newest : m \in MapIds
  BY WalkConstants DEF TInv, TypeOK
<1>2. QED
  BY <1>1 DEF TW!Unfinished, ActiveMaps, ActiveIsUnfinished

LEMMA SameWalk ==
    ASSUME UNCHANGED <<maps, newest, claims, unclaimed>>
    PROVE  Walks
BY DEF Walks, TW!walkVars, SettledNodes

LEMMA InsertedMapWalks ==
    ASSUME TInv, ActiveIsUnfinished, NEW t \in Tabs, InsertedMap(t),
           UNCHANGED <<claims, unclaimed>>
    PROVE  Walks /\ ActiveIsUnfinished'
<1> DEFINE new == [pos |-> 0, active |-> TRUE, completed |-> FALSE,
                   number |-> number[t] + 1]
<1>1. /\ ActiveMaps = {} /\ newest < MaxMaps /\ newest' = newest + 1
      /\ maps' = [maps EXCEPT ![newest + 1] = new]
      /\ newest \in Nat /\ newest + 1 \in MapIds /\ DOMAIN maps = MapIds
  BY WalkConstants DEF InsertedMap, TInv, TypeOK
<1>2. new.pos = 0 /\ new.active = TRUE
  OBVIOUS
<1>3. \A m \in MapIds : maps'[m] = IF m = newest + 1 THEN new ELSE maps[m]
  BY <1>1
<1>4. maps[newest + 1].pos = 0
  BY <1>1 DEF ActiveIsUnfinished
<1>5. \A m \in MapIds : maps'[m].pos = maps[m].pos
  BY <1>2, <1>3, <1>4
<1> HIDE DEF new
<1>6. ActiveIsUnfinished'
  <2>1. ASSUME NEW m \in 1..newest'
        PROVE  maps'[m].active <=> maps'[m].pos < NodeCount
    <3>1. m \in MapIds
      BY <1>1, WalkConstants
    <3>2. CASE m = newest + 1
      BY <1>2, <1>3, <3>1, <3>2, WalkConstants
    <3>3. CASE m # newest + 1
      BY <1>1, <1>3, <3>1, <3>3 DEF ActiveIsUnfinished
    <3>4. QED
      BY <3>2, <3>3
  <2>2. \A m \in MapIds : m > newest' => maps'[m].pos = 0
    BY <1>1, <1>5, WalkConstants DEF ActiveIsUnfinished
  <2>3. QED
    BY <2>1, <2>2 DEF ActiveIsUnfinished
<1>7. TW!LayOut
  <2>1. TW!Unfinished = {}
    BY <1>1, ActivesUnfinished
  <2>2. [m \in MapIds |-> maps'[m].pos] = [m \in MapIds |-> maps[m].pos]
    BY <1>5
  <2>3. SettledNodes' = SettledNodes
    BY DEF SettledNodes
  <2>4. QED
    BY <1>1, <2>1, <2>2, <2>3 DEF TW!LayOut
<1>8. QED
  BY <1>6, <1>7 DEF Walks, TW!WalkNext

LEMMA ClaimNodeWalks ==
    ASSUME TInv, ActiveIsUnfinished, NEW t \in Tabs, ClaimNode(t)
    PROVE  Walks
<1> DEFINE m == job[t].map
           n == job[t].at
<1>1. /\ m \in 1..newest /\ m \in MapIds /\ n \in Nodes
      /\ claims \in [MapIds -> [Nodes -> Nat]]
      /\ UNCHANGED <<maps, newest>>
  <2>1. TypeOK /\ TabOK(t) /\ pc[t] = "claim" /\ job[t] \in Job
    BY DEF TInv, ClaimNode, TypeOK
  <2>2. m \in 1..newest /\ n > 0 /\ n <= job[t].to
    BY <2>1 DEF TabOK
  <2>3. QED
    BY <2>1, <2>2, WalkConstants DEF Job, Nodes, TypeOK, ClaimNode
<1>2. SettledNodes' = SettledNodes \cup {<<m, n>>}
  <2>1. CASE UNCHANGED losses /\ claims' = [claims EXCEPT ![m][n] = @ + 1]
    <3>1. \A k \in MapIds \X Nodes :
             claims'[k[1]][k[2]] = IF k = <<m, n>> THEN claims[k[1]][k[2]] + 1
                                   ELSE claims[k[1]][k[2]]
      BY <1>1, <2>1
    <3>2. \A k \in MapIds \X Nodes : claims[k[1]][k[2]] \in Nat
      BY <1>1
    <3>3. \A k \in MapIds \X Nodes :
             claims'[k[1]][k[2]] > 0 <=> claims[k[1]][k[2]] > 0 \/ k = <<m, n>>
      BY <3>1, <3>2
    <3>4. <<m, n>> \in MapIds \X Nodes /\ unclaimed' = unclaimed
      BY <1>1, <2>1 DEF losses
    <3> HIDE DEF m, n
    <3>5. QED
      BY <3>3, <3>4 DEF SettledNodes
  <2>2. CASE UNCHANGED claims /\ unclaimed' = unclaimed \cup {<<m, n>>}
    BY <2>2 DEF SettledNodes
  <2>3. QED
    BY <2>1, <2>2 DEF ClaimNode
<1>3. TW!Settle(m, n)
  BY <1>1, <1>2 DEF TW!Settle
<1>4. QED
  BY <1>1, <1>3, WalkConstants DEF Walks, TW!WalkNext, Nodes

LEMMA MoveTokenWalks ==
    ASSUME TInv, ActiveIsUnfinished, NEW t \in Tabs, MoveToken(t)
    PROVE  Walks /\ ActiveIsUnfinished'
<1> DEFINE m == job[t].map
           to == job[t].to
           done == to >= NodeCount
<1>1. /\ m \in 1..newest /\ m \in MapIds /\ to \in 0..NodeCount
      /\ \A k \in 1..to : <<m, k>> \in SettledNodes
      /\ maps \in [MapIds -> Map]
      /\ UNCHANGED <<newest, claims, unclaimed>>
  <2>1. TypeOK /\ TabOK(t) /\ pc[t] = "move" /\ job[t] \in Job
    BY DEF TInv, MoveToken, TypeOK
  <2>2. /\ m \in 1..newest /\ to < job[t].at
        /\ \A k \in Nodes : k < job[t].at => Claimed(m, k)
    BY <2>1 DEF TabOK
  <2>3. m \in MapIds /\ to \in 0..NodeCount
    BY <2>1, <2>2, WalkConstants DEF Job, TypeOK
  <2>4. ASSUME NEW k \in 1..to PROVE <<m, k>> \in SettledNodes
    <3>1. k \in Nodes /\ k < job[t].at
      BY <2>1, <2>2, <2>3, WalkConstants DEF Nodes, Job
    <3>2. Claimed(m, k)
      BY <2>2, <3>1
    <3>3. QED
      BY <2>3, <3>1, <3>2 DEF Claimed, SettledNodes
  <2>5. QED
    BY <2>1, <2>2, <2>3, <2>4 DEF TypeOK, MoveToken
<1>2. CASE UNCHANGED maps
  BY <1>1, <1>2, SameWalk DEF ActiveIsUnfinished
<1>3. CASE /\ maps' = [maps EXCEPT ![m].pos = to, ![m].active = ~done,
                                   ![m].completed = done]
           /\ done \/ ActiveMaps \ {m} = {}
  <2>1. /\ \A k \in MapIds : maps'[k].pos = IF k = m THEN to ELSE maps[k].pos
        /\ \A k \in MapIds :
              maps'[k].active = IF k = m THEN ~done ELSE maps[k].active
    BY <1>1, <1>3 DEF Map
  <2>2. to \in Nat /\ (~done <=> to < NodeCount)
    BY <1>1, WalkConstants
  <2>3. \A k \in 1..newest : k \in MapIds
    BY ActivesUnfinished
  <2>4. ActiveIsUnfinished'
    <3>1. ASSUME NEW k \in 1..newest
          PROVE  maps'[k].active <=> maps'[k].pos < NodeCount
      <4>1. CASE k = m
        BY <2>1, <2>2, <2>3, <4>1
      <4>2. CASE k # m
        BY <2>1, <2>3, <4>2 DEF ActiveIsUnfinished
      <4>3. QED
        BY <4>1, <4>2
    <3>2. ASSUME NEW k \in MapIds, k > newest PROVE maps'[k].pos = 0
      <4>1. k # m
        <5> newest \in Nat /\ k \in Nat
          BY WalkConstants DEF TInv, TypeOK
        <5> HIDE DEF m
        <5> QED
          BY <1>1, <3>2
      <4>2. QED
        BY <2>1, <3>2, <4>1 DEF ActiveIsUnfinished
    <3>3. QED
      BY <1>1, <3>1, <3>2 DEF ActiveIsUnfinished
  <2>5. TW!Walk(m, to)
    <3>1. to < NodeCount => TW!Unfinished \subseteq {m}
      BY <1>3, <2>2, ActivesUnfinished
    <3>2. [k \in MapIds |-> maps'[k].pos]
             = [[k \in MapIds |-> maps[k].pos] EXCEPT ![m] = to]
      BY <2>1
    <3>3. SettledNodes' = SettledNodes
      BY <1>1 DEF SettledNodes
    <3>4. QED
      BY <1>1, <3>1, <3>2, <3>3 DEF TW!Walk
  <2>6. TW!WalkNext
    <3>1. m \in 1..MaxMaps /\ to \in 0..NodeCount
      BY <1>1, WalkConstants
    <3>2. PICK a \in 1..MaxMaps, b \in 0..NodeCount : a = m /\ b = to
      BY <3>1
    <3>3. TW!Walk(a, b)
      BY <2>5, <3>2 DEF TW!Walk
    <3>4. QED
      BY <3>2, <3>3 DEF TW!WalkNext
  <2>7. QED
    BY <2>4, <2>6 DEF Walks
<1>4. QED
  BY <1>2, <1>3 DEF MoveToken

LEMMA WalkStep ==
    ASSUME TInv, ActiveIsUnfinished, [Next]_vars
    PROVE  Walks /\ ActiveIsUnfinished'
<1>1. CASE UNCHANGED <<maps, newest, claims, unclaimed>>
  BY <1>1, SameWalk DEF ActiveIsUnfinished
<1>2. ASSUME NEW t \in Tabs, InsertMap(t) PROVE Walks /\ ActiveIsUnfinished'
  <2>1. UNCHANGED <<claims, unclaimed>>
    BY <1>2 DEF InsertMap
  <2>2. InsertedMap(t) \/ UNCHANGED <<maps, newest>>
    BY <1>2 DEF InsertMap
  <2>3. QED
    BY <1>1, <2>1, <2>2, InsertedMapWalks
<1>3. ASSUME NEW t \in Tabs, ClaimNode(t) PROVE Walks /\ ActiveIsUnfinished'
  BY <1>3, ClaimNodeWalks DEF ClaimNode, ActiveIsUnfinished
<1>4. ASSUME NEW t \in Tabs, MoveToken(t) PROVE Walks /\ ActiveIsUnfinished'
  BY <1>4, MoveTokenWalks
<1>5. QED
  BY <1>1, <1>2, <1>3, <1>4
     DEF Next, Request, OpenPage, FindMap, ReadNumber, FindOverdue, FindToday,
         InsertTask, AskComplete, ReadTask, ReadMap, ResolveTask, Dies,
         Midnight, vars, rows, losses

LEMMA WalkStart == Init => TW!WalkInit /\ ActiveIsUnfinished
<1> SUFFICES ASSUME Init PROVE TW!WalkInit /\ ActiveIsUnfinished
  OBVIOUS
<1>1. \A m \in MapIds : maps[m].pos = 0
  BY DEF Init, NoMap
<1>2. SettledNodes = {}
  BY DEF Init, SettledNodes
<1>3. TW!WalkInit
  BY <1>1, <1>2 DEF TW!WalkInit, Init, MapIds
<1>4. ActiveIsUnfinished
  BY <1>1 DEF ActiveIsUnfinished, Init
<1>5. QED
  BY <1>3, <1>4

(* The handlers implement TreasureWalk: a map is laid out only when none   *)
(* is unfinished and the token moves over settled nodes only, for any      *)
(* number of tabs, days and maps, and whatever dies or fails.              *)
THEOREM TreasureIsWalked == Spec => WalksTreasure
<1>1. Spec => [](TInv /\ ActiveIsUnfinished)
  <2>1. Init => ActiveIsUnfinished
    BY WalkStart
  <2>2. TInv /\ ActiveIsUnfinished /\ [Next]_vars => ActiveIsUnfinished'
    BY WalkStep
  <2>3. QED
    BY <2>1, <2>2, MapInvariance, PTL DEF Spec
<1>2. Init => TW!WalkInit
  BY WalkStart
<1>3. TInv /\ ActiveIsUnfinished /\ [Next]_vars
         => [TW!WalkNext]_(TW!walkVars)
  BY WalkStep DEF Walks
<1>4. QED
  BY <1>1, <1>2, <1>3, PTL DEF Spec, WalksTreasure, TW!WalkSpec

-----------------------------------------------------------------------------
(* The round trips a request may still make (RequestsRunOut).  A tab runs  *)
(* no movement before it asks for a map or the day's task: a row inserted  *)
(* there never sends it on with another overdue task.                      *)
RestsAt(t) ==
    pc[t] \in {"idle", "findMap", "findOverdue", "findToday", "insertTask",
               "readTask"} => job[t].task = 0

Apart(t) == \A u \in Tabs \ {t} : UNCHANGED <<pc[u], job[u], overdue[u]>>

Late(t) == PerMovement * Cardinality(overdue[t])

LEMMA OnceLess ==
    ASSUME NEW w \in Nat, NEW n \in Nat, n # 0
    PROVE  w * (n - 1) + w = w * n /\ w * (n - 1) \in Nat /\ w * n \in Nat
OBVIOUS

LEMMA FewerTimes ==
    ASSUME NEW w \in Nat, NEW a \in Nat, NEW b \in Nat, a <= b
    PROVE  w * a <= b * w /\ w * a \in Nat /\ b * w \in Nat
OBVIOUS

LEMMA Allowance ==
    /\ PerMovement \in Nat /\ PageLoad \in Nat
    /\ PerMovement = NodeCount + 5 /\ NodeCount \in Nat
    /\ MaxDays * PerMovement \in Nat /\ PageLoad = MaxDays * PerMovement + 6
BY NodeCountType, MapBounds DEF PerMovement, PageLoad

LEMMA DaysAreFinite ==
    ASSUME NEW S \in SUBSET Days
    PROVE  IsFiniteSet(S) /\ Cardinality(S) \in Nat /\ Cardinality(S) <= MaxDays
<1>1. IsFiniteSet(Days) /\ Cardinality(Days) = MaxDays
  BY MapBounds, FS_Interval DEF Days
<1>2. QED
  BY <1>1, FS_Subset, FS_CardinalityType

(* One overdue task less is one movement less.                             *)
LEMMA OneLate ==
    ASSUME NEW S \in SUBSET Days, NEW d \in S
    PROVE  /\ PerMovement * Cardinality(S \ {d}) + PerMovement
                = PerMovement * Cardinality(S)
           /\ PerMovement * Cardinality(S \ {d}) \in Nat
           /\ PerMovement * Cardinality(S) <= MaxDays * PerMovement
<1>1. /\ IsFiniteSet(S) /\ Cardinality(S) \in Nat /\ Cardinality(S) <= MaxDays
      /\ Cardinality(S \ {d}) \in Nat
  BY DaysAreFinite
<1>2. Cardinality(S \ {d}) = Cardinality(S) - 1
  BY <1>1, FS_RemoveElement
<1>3. Cardinality(S) # 0
  BY <1>1, <1>2
<1>4. QED
  BY <1>1, <1>2, <1>3, OnceLess, FewerTimes, Allowance, MapBounds

LEMMA LateType ==
    ASSUME TypeOK, NEW t \in Tabs
    PROVE  /\ Late(t) \in Nat
           /\ overdue[t] = {} => Late(t) = 0
           /\ AfterJob(t) =
                 Late(t) + IF job[t].wasCompleted THEN PageLoad ELSE 2
           /\ AfterJob(t) \in Nat /\ AfterJob(t) >= Late(t) + 2
<1>1. Cardinality(overdue[t]) \in Nat
  BY DaysAreFinite DEF TypeOK
<1>2. overdue[t] = {} => Cardinality(overdue[t]) = 0
  BY FS_EmptySet
<1>3. Late(t) \in Nat /\ (overdue[t] = {} => Late(t) = 0)
  BY <1>1, <1>2, Allowance DEF Late
<1>4. AfterJob(t) = Late(t) + IF job[t].wasCompleted THEN PageLoad ELSE 2
  BY DEF AfterJob, Late
<1>5. QED
  BY <1>3, <1>4, Allowance

(* What is left at each statement of a request.                            *)
LEMMA LeftAt ==
    ASSUME NEW t
    PROVE  /\ pc[t] = "idle" => Remaining(t) = 0
           /\ pc[t] = "insertTask" => Remaining(t) = 1
           /\ pc[t] = "findToday" => Remaining(t) = 2
           /\ pc[t] = "findOverdue" => Remaining(t) = PageLoad - 3
           /\ pc[t] = "insertMap" => Remaining(t) =
                 IF job[t].task = 0 THEN PageLoad - 2 ELSE AfterJob(t) + 1
           /\ pc[t] = "readNumber" => Remaining(t) =
                 IF job[t].task = 0 THEN PageLoad - 1 ELSE AfterJob(t) + 2
           /\ pc[t] = "findMap" => Remaining(t) = PageLoad
           /\ pc[t] = "resolve" => Remaining(t) = AfterJob(t) + 3
           /\ pc[t] = "move" => Remaining(t) = AfterJob(t) + 4
           /\ pc[t] = "claim" =>
                 Remaining(t) = AfterJob(t) + 5 + job[t].to - job[t].at
           /\ pc[t] = "readMap" => Remaining(t) = AfterJob(t) + PerMovement
           /\ pc[t] = "readTask" => Remaining(t) =
                 PerMovement * (Cardinality(overdue[t]) + 1) + PageLoad + 1
BY DEF Remaining

(* A request that is running has something left to do.                     *)
LEMMA SomethingLeft ==
    ASSUME TInv, NEW t \in Tabs, pc[t] # "idle"
    PROVE  Remaining(t) \in Nat /\ Remaining(t) > 0
<1>1. /\ AfterJob(t) \in Nat /\ PageLoad \in Nat /\ PageLoad >= 6
      /\ PerMovement \in Nat /\ PerMovement >= 5
  BY LateType, Allowance DEF TInv
<1>2. CASE pc[t] = "claim"
  <2>1. /\ job[t].to \in Nat /\ job[t].at \in Nat /\ job[t].at <= job[t].to
    BY <1>2, Allowance DEF TInv, TypeOK, Job, TabOK
  <2>2. QED
    BY <1>1, <1>2, <2>1, LeftAt
<1>3. CASE pc[t] = "readTask"
  <2>1. Cardinality(overdue[t]) + 1 \in Nat
    BY DaysAreFinite DEF TInv, TypeOK
  <2>2. PerMovement * (Cardinality(overdue[t]) + 1) \in Nat
    BY <1>1, <2>1
  <2>3. QED
    BY <1>1, <1>3, <2>2, LeftAt
<1>4. CASE pc[t] \notin {"claim", "readTask"}
  <2>1. pc[t] \in LabelSet
    BY DEF TInv, TypeOK
  <2>2. QED
    BY <1>1, <1>4, <2>1, LeftAt DEF LabelSet
<1>5. QED
  BY <1>2, <1>3, <1>4

LEMMA LeftIsCounted == TInv => \A t \in Tabs : Remaining(t) \in Nat
BY SomethingLeft, LeftAt

(* After a movement: the next overdue task, the page or the day's task.    *)
LEMMA NextJobSpends ==
    ASSUME TInv, TypeOK', NEW t \in Tabs, NextJob(t)
    PROVE  /\ Remaining(t)' <= AfterJob(t) /\ Remaining(t)' \in Int
           /\ RestsAt(t)' /\ Apart(t)
<1>t. TypeOK
  BY DEF TInv
<1>1. CASE overdue[t] = {}
  <2>1. /\ pc' = [pc EXCEPT ![t] = IF job[t].wasCompleted THEN "findMap"
                                                          ELSE "findToday"]
        /\ job' = [job EXCEPT ![t] = NoJob] /\ overdue' = overdue
    BY <1>1 DEF NextJob, Goto
  <2>2. /\ pc'[t] = IF job[t].wasCompleted THEN "findMap" ELSE "findToday"
        /\ job'[t].task = 0
    BY <1>t, <2>1 DEF TypeOK, NoJob
  <2>3. AfterJob(t) = IF job[t].wasCompleted THEN PageLoad ELSE 2
    BY <1>t, <1>1, LateType, Allowance
  <2>4. Remaining(t)' = IF job[t].wasCompleted THEN PageLoad ELSE 2
    BY <2>2 DEF Remaining, PageLoad, PerMovement
  <2>5. Apart(t)
    BY <1>t, <2>1 DEF Apart, TypeOK
  <2>6. QED
    BY <2>2, <2>3, <2>4, <2>5, Allowance DEF RestsAt
<1>2. CASE overdue[t] # {}
  <2> DEFINE d == Largest(overdue[t])
             next == [NoJob EXCEPT !.task = d]
  <2>1. d \in overdue[t] /\ overdue[t] \in SUBSET Days
    <3>1. overdue[t] \in SUBSET (0..MaxDays) /\ MaxDays \in Nat
      BY <1>t, Types DEF TypeOK
    <3>2. QED
      BY <1>t, <1>2, <3>1, LargestOf DEF TypeOK
  <2>2. /\ job' = [job EXCEPT ![t] = next]
        /\ overdue' = [overdue EXCEPT ![t] = overdue[t] \ {d}]
        /\ pc' = [pc EXCEPT ![t] = "readMap"]
    BY <1>2 DEF NextJob, Goto
  <2> HIDE DEF d
  <2>3. next.wasCompleted = FALSE
    BY DEF NoJob
  <2> HIDE DEF next
  <2>4. /\ pc'[t] = "readMap" /\ job'[t] = next
        /\ overdue'[t] = overdue[t] \ {d}
    BY <1>t, <2>2 DEF TypeOK
  <2>5. Late(t)' + PerMovement = Late(t) /\ Late(t)' \in Nat
    BY <2>1, <2>4, OneLate DEF Late, PerMovement
  <2>6. AfterJob(t)' = Late(t)' + 2
    BY <2>3, <2>4 DEF AfterJob, Late, PerMovement
  <2>7. Remaining(t)' = AfterJob(t)' + PerMovement
    BY <2>4 DEF Remaining, PerMovement
  <2>8. AfterJob(t) \in Nat /\ AfterJob(t) >= Late(t) + 2 /\ Late(t) \in Nat
    BY <1>t, LateType
  <2>9. RestsAt(t)'
    BY <2>4 DEF RestsAt
  <2>10. Apart(t)
    BY <1>t, <2>2 DEF Apart, TypeOK
  <2>11. QED
    BY <2>5, <2>6, <2>7, <2>8, <2>9, <2>10, Allowance
<1>3. QED
  BY <1>1, <1>2

Spent(t) == Remaining(t)' < Remaining(t) /\ RestsAt(t)' /\ Apart(t)

(* A statement that leaves the request's movement and list as they are.    *)
LEMMA SameJob ==
    ASSUME UNCHANGED <<job, overdue>>, NEW t
    PROVE  AfterJob(t)' = AfterJob(t) /\ job'[t] = job[t]
BY DEF AfterJob, PerMovement, PageLoad

LEMMA PageSpends ==
    ASSUME TInv, NEW t \in Tabs, RestsAt(t),
           FindMap(t) \/ ReadNumber(t) \/ FindToday(t) \/ InsertTask(t)
    PROVE  Spent(t)
<1> USE DEF TInv, TypeOK, Goto, RestsAt
<1>1. PageLoad' = PageLoad /\ PageLoad \in Nat /\ PageLoad >= 6
  BY Allowance DEF PageLoad, PerMovement
<1>2. AfterJob(t) \in Nat
  BY LateType
<1>3. UNCHANGED <<job, overdue>> /\ Apart(t)
  BY DEF FindMap, ReadNumber, FindToday, InsertTask, Apart
<1>4. CASE FindMap(t)
  <2>1. pc[t] = "findMap" /\ job[t].task = 0
        /\ pc'[t] \in {"findOverdue", "readNumber"}
    BY <1>4 DEF FindMap
  <2>2. Remaining(t) = PageLoad
    BY <2>1, LeftAt
  <2>3. Remaining(t)' = IF pc'[t] = "findOverdue" THEN PageLoad - 3
                                                   ELSE PageLoad - 1
    BY <1>1, <1>3, <2>1 DEF Remaining
  <2>4. QED
    BY <1>1, <1>3, <2>1, <2>2, <2>3 DEF Spent
<1>5. CASE ReadNumber(t)
  <2>1. pc[t] = "readNumber" /\ pc'[t] = "insertMap"
    BY <1>5 DEF ReadNumber
  <2>2. Remaining(t) = IF job[t].task = 0 THEN PageLoad - 1
                                           ELSE AfterJob(t) + 2
    BY <2>1, LeftAt
  <2>3. Remaining(t)' = IF job[t].task = 0 THEN PageLoad - 2
                                            ELSE AfterJob(t) + 1
    BY <1>1, <1>3, <2>1, SameJob DEF Remaining
  <2>4. QED
    BY <1>1, <1>2, <1>3, <2>1, <2>2, <2>3 DEF Spent
<1>6. CASE FindToday(t) \/ InsertTask(t)
  <2>1. /\ pc[t] \in {"findToday", "insertTask"} /\ job[t].task = 0
        /\ pc'[t] \in {"insertTask", "idle"}
        /\ pc[t] = "insertTask" => pc'[t] = "idle"
    BY <1>6 DEF FindToday, InsertTask
  <2>2. Remaining(t) = IF pc[t] = "findToday" THEN 2 ELSE 1
    BY <2>1, LeftAt
  <2>3. Remaining(t)' = IF pc'[t] = "insertTask" THEN 1 ELSE 0
    BY <2>1 DEF Remaining
  <2>4. QED
    BY <1>3, <2>1, <2>2, <2>3 DEF Spent
<1>7. QED
  BY <1>4, <1>5, <1>6

LEMMA InsertMapSpends ==
    ASSUME TInv, TypeOK', NEW t \in Tabs, InsertMap(t)
    PROVE  Spent(t)
<1>1. pc[t] = "insertMap" /\ TypeOK
  BY DEF InsertMap, TInv
<1>2. /\ AfterJob(t) \in Nat /\ PageLoad \in Nat /\ PageLoad >= 6
      /\ PageLoad' = PageLoad
  BY <1>1, LateType, Allowance DEF PageLoad, PerMovement
<1>3. Remaining(t) = IF job[t].task = 0 THEN PageLoad - 2
                                         ELSE AfterJob(t) + 1
  BY <1>1, LeftAt
<1>4. CASE job[t].task = 0
  <2>1. /\ UNCHANGED <<overdue, job>>
        /\ \E l \in {"findOverdue", "idle"} : pc' = [pc EXCEPT ![t] = l]
    BY <1>4 DEF InsertMap, Goto
  <2>2. pc'[t] \in {"findOverdue", "idle"} /\ Apart(t) /\ RestsAt(t)'
    BY <1>1, <1>4, <2>1 DEF TypeOK, Apart, RestsAt
  <2>3. Remaining(t)' = IF pc'[t] = "idle" THEN 0 ELSE PageLoad - 3
    BY <1>2, <2>2 DEF Remaining
  <2>4. QED
    BY <1>2, <1>3, <1>4, <2>2, <2>3 DEF Spent
<1>5. CASE job[t].task # 0
  <2>1. NextJob(t)
    BY <1>5 DEF InsertMap
  <2>2. QED
    BY <1>2, <1>3, <1>5, <2>1, NextJobSpends DEF Spent
<1>6. QED
  BY <1>4, <1>5

(* The list of overdue tasks is read: at most one per past day.            *)
LEMMA FindOverdueSpends ==
    ASSUME TInv, TypeOK', NEW t \in Tabs, RestsAt(t), FindOverdue(t)
    PROVE  Spent(t)
<1> DEFINE past == {d \in 1..(today - 1) : /\ tasks[d].map # 0
                                           /\ ~tasks[d].is_completed
                                           /\ ~tasks[d].resolved}
<1>1. pc[t] = "findOverdue" /\ TypeOK /\ job[t].task = 0
  BY DEF FindOverdue, TInv, RestsAt
<1>2. /\ PageLoad = MaxDays * PerMovement + 6 /\ PageLoad \in Nat
      /\ MaxDays * PerMovement \in Nat /\ PerMovement \in Nat
  BY Allowance
<1>3. Remaining(t) = PageLoad - 3
  BY <1>1, LeftAt
<1>4. past \in SUBSET Days
  BY <1>1, MapBounds DEF TypeOK, Days
<1>5. CASE past = {}
  <2>1. pc' = [pc EXCEPT ![t] = "findToday"] /\ UNCHANGED <<overdue, job>>
    BY <1>5 DEF FindOverdue, Goto
  <2>2. pc'[t] = "findToday" /\ Apart(t) /\ RestsAt(t)'
    BY <1>1, <2>1 DEF TypeOK, Apart, RestsAt
  <2>3. Remaining(t)' = 2
    BY <2>2 DEF Remaining
  <2>4. QED
    BY <1>2, <1>3, <2>2, <2>3 DEF Spent
<1>6. CASE past # {}
  <2> DEFINE d == Largest(past)
             next == [NoJob EXCEPT !.task = d]
  <2>1. d \in past
    <3>1. past \in SUBSET (0..MaxDays) /\ MaxDays \in Nat
      BY <1>1, <1>4, Types
    <3> HIDE DEF past
    <3>2. QED
      BY <1>6, <3>1, LargestOf
  <2>2. /\ job' = [job EXCEPT ![t] = next]
        /\ overdue' = [overdue EXCEPT ![t] = past \ {d}]
        /\ pc' = [pc EXCEPT ![t] = "readMap"]
    BY <1>6 DEF FindOverdue, Goto
  <2> HIDE DEF d, past
  <2>3. next.wasCompleted = FALSE
    BY DEF NoJob
  <2> HIDE DEF next
  <2>4. /\ pc'[t] = "readMap" /\ job'[t] = next
        /\ overdue'[t] = past \ {d}
    BY <1>1, <2>2 DEF TypeOK
  <2>5. /\ PerMovement * Cardinality(past \ {d}) + PerMovement
              <= MaxDays * PerMovement
        /\ PerMovement * Cardinality(past \ {d}) \in Nat
    BY <1>4, <2>1, OneLate
  <2>6. AfterJob(t)' = PerMovement * Cardinality(past \ {d}) + 2
    BY <2>3, <2>4 DEF AfterJob, PerMovement
  <2>7. Remaining(t)' = AfterJob(t)' + PerMovement
    BY <2>4 DEF Remaining, PerMovement
  <2>8. Apart(t) /\ RestsAt(t)'
    BY <1>1, <2>2, <2>4 DEF TypeOK, Apart, RestsAt
  <2>9. QED
    BY <1>2, <1>3, <2>5, <2>6, <2>7, <2>8 DEF Spent
<1>7. QED
  BY <1>5, <1>6

LEMMA ReadTaskSpends ==
    ASSUME TInv, TypeOK', NEW t \in Tabs, RestsAt(t), ReadTask(t)
    PROVE  Spent(t)
<1>1. pc[t] = "readTask" /\ TypeOK /\ job[t].task = 0 /\ overdue' = overdue
  BY DEF ReadTask, TInv, RestsAt
<1>2. /\ PageLoad \in Nat /\ PerMovement \in Nat /\ PageLoad' = PageLoad
      /\ Cardinality(overdue[t]) \in Nat
  BY <1>1, Allowance, DaysAreFinite DEF TypeOK, PageLoad, PerMovement
<1>3. Remaining(t) = Late(t) + PerMovement + PageLoad + 1 /\ Late(t) \in Nat
  <2>1. Remaining(t)
           = PerMovement * (Cardinality(overdue[t]) + 1) + PageLoad + 1
    BY <1>1, LeftAt
  <2>2. PerMovement * (Cardinality(overdue[t]) + 1)
           = PerMovement * Cardinality(overdue[t]) + PerMovement
    <3>1. /\ Cardinality(overdue[t]) + 1 \in Nat
          /\ Cardinality(overdue[t]) + 1 # 0
          /\ (Cardinality(overdue[t]) + 1) - 1 = Cardinality(overdue[t])
      BY <1>2
    <3>2. QED
      BY <1>2, <3>1, OnceLess
  <2>3. Late(t) \in Nat
    BY <1>1, LateType
  <2>4. QED
    BY <2>1, <2>2, <2>3 DEF Late
<1>4. CASE tasks[shown[t].task].is_completed
  <2>1. pc' = [pc EXCEPT ![t] = "idle"] /\ UNCHANGED job
    BY <1>4 DEF ReadTask, Goto
  <2>2. pc'[t] = "idle" /\ Apart(t) /\ RestsAt(t)'
    BY <1>1, <2>1 DEF TypeOK, Apart, RestsAt
  <2>3. Remaining(t)' = 0
    BY <2>2 DEF Remaining
  <2>4. QED
    BY <1>2, <1>3, <2>2, <2>3 DEF Spent
<1>5. CASE ~tasks[shown[t].task].is_completed
  <2> DEFINE next == [NoJob EXCEPT !.task = shown[t].task,
                                   !.wasCompleted = TRUE]
  <2>1. pc' = [pc EXCEPT ![t] = "readMap"] /\ job' = [job EXCEPT ![t] = next]
    BY <1>5 DEF ReadTask, Goto
  <2>2. next.wasCompleted
    BY DEF NoJob
  <2> HIDE DEF next
  <2>3. /\ pc'[t] = "readMap" /\ job'[t] = next
        /\ Apart(t) /\ RestsAt(t)'
    BY <1>1, <2>1 DEF TypeOK, Apart, RestsAt
  <2>4. AfterJob(t)' = Late(t) + PageLoad
    BY <1>1, <1>2, <2>2, <2>3 DEF AfterJob, Late, PerMovement
  <2>5. Remaining(t)' = AfterJob(t)' + PerMovement
    BY <2>3 DEF Remaining, PerMovement
  <2>6. QED
    BY <1>2, <1>3, <2>3, <2>4, <2>5 DEF Spent
<1>6. QED
  BY <1>4, <1>5

(* A movement claims each node from the one after its position at most     *)
(* once, then writes the position and closes its task.                     *)
LEMMA MovementSpends ==
    ASSUME TInv, TypeOK', NEW t \in Tabs,
           \/ \E s \in CompletedSpaces \cup {AutoSpaces} : ReadMap(t, s)
           \/ ClaimNode(t) \/ MoveToken(t)
    PROVE  Spent(t)
<1>1. /\ TypeOK /\ job[t] \in Job /\ job'[t] \in Job /\ NodeCount \in Nat
      /\ AfterJob(t) \in Nat /\ PerMovement = NodeCount + 5
      /\ overdue' = overdue
  BY LateType, Allowance DEF TInv, TypeOK, ReadMap, ClaimNode, MoveToken
<1>2. ASSUME UNCHANGED overdue, job'[t].wasCompleted = job[t].wasCompleted
      PROVE  AfterJob(t)' = AfterJob(t)
  BY <1>2 DEF AfterJob, PerMovement, PageLoad
<1>3. /\ job'[t].at \in Nat /\ job'[t].to \in Nat
      /\ job'[t].to <= NodeCount /\ job[t].at \in Nat /\ job[t].to \in Nat
  BY <1>1 DEF Job
<1>4. ASSUME NEW s \in CompletedSpaces \cup {AutoSpaces}, ReadMap(t, s)
      PROVE  Spent(t)
  <2> DEFINE m == tasks[job[t].task].map
             old == maps[m].pos
             new == NewPosition(old, s)
  <2>1. /\ pc[t] = "readMap"
        /\ job' = [job EXCEPT ![t] = [job[t] EXCEPT !.map = m, !.at = old + 1,
                                                    !.to = new]]
        /\ pc' = [pc EXCEPT ![t] = ClaimOrMove(old + 1, new)]
    BY <1>4 DEF ReadMap, Goto
  <2>2. /\ pc'[t] = ClaimOrMove(job'[t].at, job'[t].to)
        /\ job'[t].wasCompleted = job[t].wasCompleted
        /\ job'[t].at = old + 1 /\ Apart(t)
    BY <1>1, <2>1 DEF TypeOK, Job, Apart
  <2>3. old \in Nat
    <3>1. m \in MapIds
      <4>1. TabOK(t) /\ RowsOK
        BY DEF TInv
      <4>2. job[t].task # 0 /\ m # 0
        BY <2>1, <4>1 DEF TabOK
      <4>3. job[t].task \in Days
        BY <1>1, <4>2, Types DEF Job
      <4>4. m \in 0..MaxMaps
        BY <1>1, <4>3 DEF TypeOK, Task
      <4>5. QED
        BY <4>2, <4>4, MapBounds DEF MapIds
    <3>2. QED
      BY <1>1, <3>1 DEF TypeOK, Map
  <2> HIDE DEF old, new, m
  <2>4. job'[t].at >= 1
    BY <2>2, <2>3
  <2>5. pc'[t] = IF job'[t].at <= job'[t].to THEN "claim" ELSE "move"
    BY <2>2 DEF ClaimOrMove
  <2>6. Remaining(t)' = IF pc'[t] = "claim"
                        THEN AfterJob(t)' + 5 + job'[t].to - job'[t].at
                        ELSE AfterJob(t)' + 4
    BY <2>5 DEF Remaining
  <2>7. Remaining(t) = AfterJob(t) + PerMovement
    BY <2>1, LeftAt
  <2>8. AfterJob(t)' = AfterJob(t)
    BY <1>1, <1>2, <2>2
  <2>9. QED
    BY <1>1, <1>3, <2>2, <2>4, <2>5, <2>6, <2>7, <2>8 DEF Spent, RestsAt
<1>5. ASSUME ClaimNode(t)
      PROVE  Spent(t)
  <2>1. /\ pc[t] = "claim"
        /\ job' = [job EXCEPT ![t].at = @ + 1]
        /\ pc' = [pc EXCEPT ![t] = ClaimOrMove(job[t].at + 1, job[t].to)]
    BY <1>5 DEF ClaimNode, Goto
  <2>2. /\ pc'[t] = ClaimOrMove(job'[t].at, job'[t].to)
        /\ job'[t].wasCompleted = job[t].wasCompleted
        /\ job'[t].to = job[t].to
        /\ job'[t].at = job[t].at + 1 /\ Apart(t)
    BY <1>1, <2>1 DEF TypeOK, Job, Apart
  <2>3. pc'[t] = IF job'[t].at <= job'[t].to THEN "claim" ELSE "move"
    BY <2>2 DEF ClaimOrMove
  <2>4. Remaining(t)' = IF pc'[t] = "claim"
                        THEN AfterJob(t)' + 5 + job'[t].to - job'[t].at
                        ELSE AfterJob(t)' + 4
    BY <2>3 DEF Remaining
  <2>5. Remaining(t) = AfterJob(t) + 5 + job[t].to - job[t].at
    BY <2>1, LeftAt
  <2>6. AfterJob(t)' = AfterJob(t) /\ job[t].at <= job[t].to
    BY <1>1, <1>2, <2>1, <2>2 DEF TInv, TabOK
  <2>7. QED
    BY <1>1, <1>3, <2>2, <2>3, <2>4, <2>5, <2>6 DEF Spent, RestsAt
<1>6. ASSUME MoveToken(t)
      PROVE  Spent(t)
  <2>1. pc[t] = "move" /\ pc' = [pc EXCEPT ![t] = "resolve"] /\ UNCHANGED job
    BY <1>6 DEF MoveToken, Goto
  <2>2. pc'[t] = "resolve" /\ Apart(t)
    BY <1>1, <2>1 DEF TypeOK, Apart
  <2>3. Remaining(t) = AfterJob(t) + 4 /\ Remaining(t)' = AfterJob(t)' + 3
    BY <2>1, <2>2 DEF Remaining
  <2>4. AfterJob(t)' = AfterJob(t)
    BY <1>1, <1>2, <2>1
  <2>5. QED
    BY <1>1, <2>2, <2>3, <2>4 DEF Spent, RestsAt
<1>7. QED
  BY <1>4, <1>5, <1>6

LEMMA ResolveTaskSpends ==
    ASSUME TInv, TypeOK', NEW t \in Tabs, ResolveTask(t)
    PROVE  Spent(t)
<1>1. pc[t] = "resolve" /\ TypeOK /\ job[t].task # 0
  BY DEF ResolveTask, TInv, TabOK
<1>2. AfterJob(t) \in Nat /\ Remaining(t) = AfterJob(t) + 3
  BY <1>1, LateType, LeftAt
<1>3. CASE job[t].to >= NodeCount
  <2>1. pc' = [pc EXCEPT ![t] = "readNumber"] /\ UNCHANGED <<overdue, job>>
    BY <1>3 DEF ResolveTask, Goto
  <2>2. pc'[t] = "readNumber" /\ Apart(t) /\ RestsAt(t)'
    BY <1>1, <2>1 DEF TypeOK, Apart, RestsAt
  <2>3. Remaining(t)' = AfterJob(t) + 2
    BY <1>1, <2>1, <2>2, SameJob DEF Remaining
  <2>4. QED
    BY <1>2, <2>2, <2>3 DEF Spent
<1>4. CASE ~(job[t].to >= NodeCount)
  <2>1. NextJob(t)
    BY <1>4 DEF ResolveTask
  <2>2. QED
    BY <1>2, <2>1, NextJobSpends DEF Spent
<1>5. QED
  BY <1>3, <1>4

LEMMA RequestSpends ==
    ASSUME TInv, TypeOK', NEW t \in Tabs, RestsAt(t), Request(t) \/ Dies(t)
    PROVE  Spent(t)
<1>1. CASE Request(t)
  BY <1>1, PageSpends, InsertMapSpends, FindOverdueSpends, ReadTaskSpends,
     MovementSpends, ResolveTaskSpends DEF Request
<1>2. CASE Dies(t)
  <2>1. /\ pc[t] # "idle" /\ TypeOK
        /\ pc' = [pc EXCEPT ![t] = "idle"]
        /\ overdue' = [overdue EXCEPT ![t] = {}]
        /\ job' = [job EXCEPT ![t] = NoJob]
    BY <1>2 DEF Dies, Goto, TInv
  <2>2. pc'[t] = "idle" /\ Apart(t) /\ RestsAt(t)'
    BY <2>1 DEF TypeOK, Apart, RestsAt, NoJob
  <2>3. Remaining(t)' = 0
    BY <2>2 DEF Remaining
  <2>4. QED
    BY <2>1, <2>2, <2>3, SomethingLeft DEF Spent
<1>3. QED
  BY <1>1, <1>2

LEMMA AskingRests ==
    ASSUME TypeOK, NEW t \in Tabs, RestsAt(t), OpenPage(t) \/ AskComplete(t)
    PROVE  pc[t] = "idle" /\ RestsAt(t)' /\ Apart(t)
BY DEF OpenPage, AskComplete, Goto, TypeOK, RestsAt, Apart

LEMMA StillLeft ==
    ASSUME NEW t, UNCHANGED <<pc[t], job[t], overdue[t]>>
    PROVE  Remaining(t)' = Remaining(t) /\ RestsAt(t)' = RestsAt(t)
BY DEF Remaining, AfterJob, PerMovement, PageLoad, RestsAt

Rests == \A t \in Tabs : RestsAt(t)

LEMMA RestsStep ==
    ASSUME TInv, TypeOK', Rests, [Next]_vars
    PROVE  /\ Rests'
           /\ \A t \in Tabs : pc[t] # "idle" =>
                 Spent(t) \/ (/\ Remaining(t)' = Remaining(t)
                              /\ ~(Request(t) \/ Dies(t)))
<1>1. ASSUME UNCHANGED <<pc, job, overdue>>
      PROVE  /\ Rests'
             /\ \A t \in Tabs : Remaining(t)' = Remaining(t)
  BY <1>1, StillLeft DEF Rests
<1>2. ASSUME NEW u \in Tabs, Request(u) \/ Dies(u) \/ OpenPage(u) \/ AskComplete(u)
      PROVE  /\ RestsAt(u)' /\ Apart(u)
             /\ Spent(u) \/ pc[u] = "idle"
  BY <1>2, RequestSpends, AskingRests DEF Spent, Rests, TInv
<1>3. ASSUME NEW u \in Tabs, RestsAt(u)', Apart(u), Spent(u) \/ pc[u] = "idle"
      PROVE  /\ Rests'
             /\ \A t \in Tabs : pc[t] # "idle" =>
                   Spent(t) \/ Remaining(t)' = Remaining(t)
  <2>1. ASSUME NEW t \in Tabs, t # u
        PROVE  Remaining(t)' = Remaining(t) /\ RestsAt(t)'
    BY <1>3, <2>1, StillLeft DEF Apart, Rests
  <2>2. QED
    BY <1>3, <2>1 DEF Rests
<1>4. ASSUME NEW t \in Tabs, Request(t) \/ Dies(t) PROVE Spent(t)
  BY <1>4, RequestSpends DEF Rests
<1>5. /\ Rests'
      /\ \A t \in Tabs : pc[t] # "idle" =>
            Spent(t) \/ Remaining(t)' = Remaining(t)
  BY <1>1, <1>2, <1>3 DEF Next, Midnight, vars
<1>6. QED
  BY <1>4, <1>5

(* No request runs for ever: each of its round trips, also one that fails  *)
(* and the one it dies in, takes from a count that nothing else adds to,   *)
(* for any number of tabs, days and maps.                                  *)
THEOREM RequestsRunOutHolds == Spec => RequestsRunOut
<1>1. Spec => [](TInv /\ Rests)
  <2>1. Init => Rests
    BY DEF Init, Rests, RestsAt, NoJob
  <2>2. TInv /\ TInv' /\ Rests /\ [Next]_vars => Rests'
    BY RestsStep DEF TInv
  <2>3. QED
    BY <2>1, <2>2, MapInvariance, PTL DEF Spec
<1>2. TInv' => (\A t \in Tabs : Remaining(t) \in Nat)'
  BY LeftIsCounted, PTL
<1>3. TInv /\ TInv' /\ Rests /\ [Next]_vars =>
        [\A t \in Tabs : pc[t] # "idle" =>
           /\ Remaining(t)' <= Remaining(t)
           /\ Request(t) \/ Dies(t) => Remaining(t)' < Remaining(t)]_vars
  <2> SUFFICES ASSUME TInv, TInv', Rests, [Next]_vars,
                      NEW t \in Tabs, pc[t] # "idle"
               PROVE  /\ Remaining(t)' <= Remaining(t)
                      /\ Request(t) \/ Dies(t)
                            => Remaining(t)' < Remaining(t)
    OBVIOUS
  <2>1. Remaining(t) \in Nat /\ Remaining(t)' \in Nat
    BY <1>2, LeftIsCounted
  <2>2. TypeOK'
    BY DEF TInv
  <2>3. \/ Spent(t)
        \/ Remaining(t)' = Remaining(t) /\ ~(Request(t) \/ Dies(t))
    BY <2>2, RestsStep
  <2>4. QED
    BY <2>1, <2>3 DEF Spent
<1>4. QED
  BY <1>1, <1>3, PTL DEF Spec, RequestsRunOut
=============================================================================
