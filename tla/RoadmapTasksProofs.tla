------------------------- MODULE RoadmapTasksProofs -------------------------
(***************************************************************************)
(* Proofs about RoadmapTasks for any number of pages, calls, phases,       *)
(* tasks, deaths, closed tabs and failed writes.                           *)
(*                                                                         *)
(* Ladder is not inductive: a page, a loop or an unlock request opens a    *)
(* phase because of what was read earlier.  No action ever locks a phase,  *)
(* so whatever was once seen open is open still; CallOK says what each     *)
(* call saw.                                                               *)
(***************************************************************************)
EXTENDS RoadmapTasks, FiniteSetTheorems, TLAPS

TaskLabels == {"unmark", "readTask", "mark", "earn", "award"}

(* What the types of a call's fields depend on.                            *)
CallTypes(c) ==
    /\ call[c].closes => call[c].task \in Tasks
    /\ pc[c] \in TaskLabels => call[c].task \in Tasks
    /\ pc[c] \in PageLabels => call[c].closes
    /\ pc[c] = "openNext" => call[c].opens \in Phases
    /\ pc[c] \in LoopLabels =>
          call[c].phase > 0 /\ LoopGoesOn(call[c].snap, call[c].phase)
    /\ pc[c] \in {"insertUnlock", "override"} => call[c].phase \in Phases

TInv == /\ TypeOK
        /\ \A r \in UnlockIds : unlocks[r].pending => unlocks[r].phase \in Phases
        /\ \A c \in Calls : CallTypes(c)

LEMMA ConstantTypes ==
    /\ PhaseCount \in Nat \ {0} /\ TabCount \in Nat /\ MaxUnlocks \in Nat
    /\ MaxToggles \in Nat /\ MaxUnmarks \in Nat
    /\ MaxDeaths \in Nat /\ MaxClosings \in Nat /\ MaxFaults \in Nat
BY PhaseCountType, BoundsType

LEMMA TaskFacts ==
    /\ IsFiniteSet(Tasks)
    /\ \A k \in Tasks : k[1] \in Phases
    /\ \A p \in Phases : TasksOf(p) \subseteq Tasks
<1>1. IsFiniteSet(Phases) /\ IsFiniteSet(1..5)
  <2>1. PhaseCount \in Int /\ 1 \in Int /\ 5 \in Int
    BY ConstantTypes
  <2>2. IsFiniteSet(1..PhaseCount)
    BY <2>1, FS_Interval
  <2>3. IsFiniteSet(1..5)
    BY <2>1, FS_Interval
  <2>4. QED
    BY <2>2, <2>3 DEF Phases
<1>2. IsFiniteSet(Phases \X (1..5))
  BY <1>1, FS_Product
<1>3. Tasks \subseteq Phases \X (1..5)
  BY DEF Tasks
<1>4. IsFiniteSet(Tasks)
  BY <1>2, <1>3, FS_Subset
<1>5. QED
  BY <1>3, <1>4 DEF TasksOf

LEMMA MoreTimes ==
    ASSUME NEW w \in Nat, NEW a \in Int, NEW b \in Int, a <= b
    PROVE  a * w <= b * w /\ a * w \in Int /\ b * w \in Int
OBVIOUS

LEMMA DivisionBounds ==
    ASSUME NEW a \in Nat \ {0}, NEW x \in Nat, x < 101 * a
    PROVE  x \div a \in 0..100
<1>1. x \div a \in Int /\ (x \div a) * a <= x /\ x < ((x \div a) + 1) * a
  OBVIOUS
<1> DEFINE q == x \div a
<1>2. q \in Int /\ q * a <= x /\ x < (q + 1) * a
  BY <1>1
<1> HIDE DEF q
<1>3. q <= 100
  <2> SUFFICES ASSUME 101 <= q PROVE FALSE
    BY <1>2
  <2>1. 101 * a <= q * a /\ q * a \in Int
    BY <1>2, MoreTimes
  <2>2. QED
    BY <1>2, <2>1
<1>4. q >= 0
  <2> SUFFICES ASSUME q + 1 <= 0 PROVE FALSE
    BY <1>2
  <2>1. (q + 1) * a <= 0 * a
    BY <1>2, MoreTimes
  <2>2. (q + 1) * a \in Int
    BY <1>2, MoreTimes
  <2>3. QED
    BY <1>2, <2>1, <2>2
<1>5. QED
  BY <1>2, <1>3, <1>4 DEF q

(* Math.round of a share of the tasks is a percentage.                     *)
LEMMA PercentType ==
    ASSUME NEW n \in Counts
    PROVE  Percent(n) \in 0..100
<1>1. Cardinality(Tasks) \in Nat
  BY TaskFacts, FS_CardinalityType
<1> DEFINE total == Cardinality(Tasks)
<1>2. CASE total = 0
  BY <1>2 DEF Percent
<1>3. CASE total # 0
  <2>1. total \in Nat \ {0} /\ n \in 0..total
    BY <1>1, <1>3 DEF Counts
  <2> HIDE DEF total
  <2>2. 2 * total \in Nat \ {0} /\ 200 * n + total \in Nat
    BY <2>1
  <2>3. 200 * n + total < 101 * (2 * total)
    BY <2>1
  <2>4. (200 * n + total) \div (2 * total) \in 0..100
    BY <2>2, <2>3, DivisionBounds
  <2>5. QED
    BY <2>4, <1>3 DEF Percent, total
<1>4. QED
  BY <1>2, <1>3

LEMMA NoCallType == NoCall \in Call
BY ConstantTypes, TaskFacts, FS_CardinalityType DEF NoCall, Call, Counts, View, Unseen, Statuses

LEMMA CallFields ==
    ASSUME NEW k \in Call
    PROVE  /\ \A x \in 0..PhaseCount : [k EXCEPT !.phase = x] \in Call
           /\ \A n \in Counts : [k EXCEPT !.count = n] \in Call
           /\ [k EXCEPT !.tab = 0] \in Call
           /\ \A x \in 0..PhaseCount, s \in [Phases -> Statuses] :
                 [k EXCEPT !.snap = s, !.phase = x] \in Call
           /\ \A x \in 0..PhaseCount, r \in UnlockIds :
                 [k EXCEPT !.unlock = r, !.phase = x] \in Call
<1> DEFINE T == Tasks \cup {<<0, 0>>}
<1>1. Call = [tab : 0..TabCount, task : T, closes : BOOLEAN,
              opens : 0..PhaseCount, before : View, phase : 0..PhaseCount,
              snap : [Phases -> Statuses], count : Counts, unlock : 0..MaxUnlocks]
  BY DEF Call
<1> HIDE DEF T
<1>2. 0 \in 0..TabCount /\ \A r \in UnlockIds : r \in 0..MaxUnlocks
  BY ConstantTypes DEF UnlockIds
<1>3. \A x \in 0..PhaseCount : [k EXCEPT !.phase = x] \in Call
  BY <1>1
<1>4. \A n \in Counts : [k EXCEPT !.count = n] \in Call
  BY <1>1
<1>5. [k EXCEPT !.tab = 0] \in Call
  BY <1>1, <1>2
<1>6. \A x \in 0..PhaseCount, s \in [Phases -> Statuses] :
         [k EXCEPT !.snap = s, !.phase = x] \in Call
  BY <1>1
<1>7. \A x \in 0..PhaseCount, r \in UnlockIds :
         [k EXCEPT !.unlock = r, !.phase = x] \in Call
  BY <1>1, <1>2
<1>8. QED
  BY <1>3, <1>4, <1>5, <1>6, <1>7

LEMMA FetchedType == TypeOK => Fetched \in View
BY DEF TypeOK, Fetched, View

LEMMA TypeInit == Init => TInv
<1> SUFFICES ASSUME Init PROVE TInv
  OBVIOUS
<1>1. Fetched \in View
  BY ConstantTypes DEF Init, Fetched, View, Statuses
<1>2. TypeOK
  BY <1>1, NoCallType, ConstantTypes
  DEF TypeOK, Init, Statuses, UnlockIds, Labels
<1>3. \A c \in Calls : CallTypes(c)
  BY DEF Init, CallTypes, NoCall, TaskLabels, PageLabels, LoopLabels
<1>4. QED
  BY <1>2, <1>3 DEF TInv, Init

LEMMA CallParts ==
    ASSUME NEW k \in Call
    PROVE  /\ k.tab \in 0..TabCount
           /\ k.task \in Tasks \cup {<<0, 0>>}
           /\ k.closes \in BOOLEAN
           /\ k.opens \in 0..PhaseCount
           /\ k.before \in View
           /\ k.phase \in 0..PhaseCount
           /\ k.snap \in [Phases -> Statuses]
           /\ k.count \in Counts
           /\ k.unlock \in 0..MaxUnlocks
BY DEF Call

LEMMA NewCallType ==
    ASSUME NEW t \in Tabs, NEW k \in Tasks, NEW v \in View
    PROVE  /\ [NoCall EXCEPT !.tab = t, !.task = k] \in Call
           /\ [NoCall EXCEPT !.tab = t, !.task = k, !.before = v,
                             !.closes = Closes(v, k), !.opens = Opens(v, k)]
                 \in Call
<1> DEFINE T == Tasks \cup {<<0, 0>>}
<1>1. Call = [tab : 0..TabCount, task : T, closes : BOOLEAN,
              opens : 0..PhaseCount, before : View, phase : 0..PhaseCount,
              snap : [Phases -> Statuses], count : Counts, unlock : 0..MaxUnlocks]
  BY DEF Call
<1>2. k \in T /\ k[1] \in Phases
  BY TaskFacts
<1> HIDE DEF T
<1>3. Closes(v, k) \in BOOLEAN
  BY DEF Closes
<1>4. Opens(v, k) \in 0..PhaseCount
  <2>1. k[1] < PhaseCount => k[1] + 1 \in 0..PhaseCount
    BY <1>2, ConstantTypes DEF Phases
  <2>2. 0 \in 0..PhaseCount
    BY ConstantTypes
  <2>3. QED
    BY <2>1, <2>2 DEF Opens
<1>5. t \in 0..TabCount
  BY ConstantTypes DEF Tabs
<1>6. QED
  BY <1>1, <1>2, <1>3, <1>4, <1>5, NoCallType

(* Only the fields and the statement of call c have changed.               *)
LEMMA OtherCallTypes ==
    ASSUME NEW c \in Calls, \A d \in Calls : CallTypes(d),
           \A d \in Calls \ {c} : pc'[d] = pc[d] /\ call'[d] = call[d],
           CallTypes(c)'
    PROVE  \A d \in Calls : CallTypes(d)'
<1> SUFFICES ASSUME NEW d \in Calls, d # c PROVE CallTypes(d)'
  OBVIOUS
<1>1. CallTypes(d) /\ pc'[d] = pc[d] /\ call'[d] = call[d]
  OBVIOUS
<1>2. QED
  BY <1>1 DEF CallTypes

-----------------------------------------------------------------------------
(* Each step of a call keeps the types: one lemma per action.              *)

LEMMA NextPhase ==
    ASSUME TInv, NEW c \in Calls, pc[c] \in LoopLabels
    PROVE  /\ call[c].phase \in Phases /\ call[c].phase + 1 \in Phases
           /\ [call EXCEPT ![c].phase = call[c].phase + 1] \in [Calls -> Call]
<1>1. call[c] \in Call /\ call \in [Calls -> Call] /\ CallTypes(c)
  BY DEF TInv, TypeOK
<1>2. call[c].phase \in 1..PhaseCount /\ call[c].phase < PhaseCount
  BY <1>1, CallParts, ConstantTypes DEF CallTypes, LoopGoesOn
<1>3. call[c].phase + 1 \in 0..PhaseCount
  BY <1>2, ConstantTypes
<1>4. [call[c] EXCEPT !.phase = call[c].phase + 1] \in Call
  BY <1>1, <1>3, CallFields
<1>5. QED
  BY <1>1, <1>2, <1>4, ConstantTypes DEF Phases

LEMMA LoopTypes ==
    ASSUME TInv, NEW c \in Calls, pc[c] \in LoopLabels,
           call' = [call EXCEPT ![c].phase = call[c].phase + 1],
           LoopAt(c, call[c].snap, call[c].phase + 1)
    PROVE  CallTypes(c)'
<1>1. call[c] \in Call /\ CallTypes(c) /\ pc \in [Calls -> Labels]
      /\ call \in [Calls -> Call]
  BY DEF TInv, TypeOK
<1>2. call[c].phase + 1 \in Phases /\ call[c].phase + 1 > 0
  <2>1. call[c].phase + 1 \in Phases
    BY NextPhase
  <2>2. QED
    BY <2>1, ConstantTypes DEF Phases
<1>3. /\ call'[c].closes = call[c].closes /\ call'[c].task = call[c].task
      /\ call'[c].snap = call[c].snap /\ call'[c].opens = call[c].opens
      /\ call'[c].phase = call[c].phase + 1
  BY <1>1 DEF Call
<1>4. pc'[c] = IF LoopGoesOn(call[c].snap, call[c].phase + 1)
               THEN "readTasks" ELSE "count"
  BY <1>1 DEF LoopAt, Goto
<1>5. QED
  BY <1>1, <1>2, <1>3, <1>4
  DEF CallTypes, TaskLabels, LoopLabels, PageLabels, LoopGoesOn

LEMMA UnmarkTypes ==
    ASSUME TInv, NEW c \in Calls, Unmark(c)
    PROVE  TInv'
<1>1. TypeOK /\ CallTypes(c) /\ call[c] \in Call
  BY DEF TInv, TypeOK
<1>2. call' \in [Calls -> Call]
  BY <1>1, NoCallType, CallParts, CallFields DEF TypeOK, Unmark, Finishes
<1>3. pc' \in [Calls -> Labels]
  BY <1>1 DEF TypeOK, Unmark, Goto, Labels, FunctionLabels, PageLabels, Finishes
<1>4. TypeOK'
  BY <1>1, <1>2, <1>3
  DEF TypeOK, Unmark, rows, counters, clicks, stops, WriteLost, Finishes
<1>5. CallTypes(c)'
  BY <1>1, NoCallType, CallParts
  DEF TypeOK, Unmark, Goto, CallTypes, TaskLabels, LoopLabels, PageLabels, Finishes, NoCall
<1>6. \A d \in Calls \ {c} : pc'[d] = pc[d] /\ call'[d] = call[d]
  BY <1>1 DEF TypeOK, Unmark, Goto, Finishes, Finishes
<1>7. \A r \in UnlockIds : unlocks'[r].pending => unlocks'[r].phase \in Phases
  BY <1>1 DEF TInv, TypeOK, Unmark, rows, CallTypes
<1>8. QED
  BY <1>4, <1>5, <1>6, <1>7, OtherCallTypes DEF TInv

LEMMA ReadTaskTypes ==
    ASSUME TInv, NEW c \in Calls, ReadTask(c)
    PROVE  TInv'
<1>1. TypeOK /\ CallTypes(c) /\ call[c] \in Call
  BY DEF TInv, TypeOK
<1>2. call' \in [Calls -> Call]
  BY <1>1, NoCallType, CallParts, CallFields DEF TypeOK, ReadTask, Refuse
<1>3. pc' \in [Calls -> Labels]
  BY <1>1 DEF TypeOK, ReadTask, Goto, Labels, FunctionLabels, PageLabels, Refuse, PageGoesOn, Tabs
<1>4. TypeOK'
  BY <1>1, <1>2, <1>3, CallParts
  DEF TypeOK, ReadTask, rows, counters, clicks, stops, WriteLost, Refuse, PageGoesOn, Tabs
<1>5. CallTypes(c)'
  BY <1>1, NoCallType, CallParts
  DEF TypeOK, ReadTask, Goto, CallTypes, TaskLabels, LoopLabels, PageLabels, Refuse, PageGoesOn, NoCall
<1>6. \A d \in Calls \ {c} : pc'[d] = pc[d] /\ call'[d] = call[d]
  BY <1>1 DEF TypeOK, ReadTask, Goto, Refuse, Refuse, PageGoesOn, Tabs
<1>7. \A r \in UnlockIds : unlocks'[r].pending => unlocks'[r].phase \in Phases
  BY <1>1 DEF TInv, TypeOK, ReadTask, rows, CallTypes
<1>8. QED
  BY <1>4, <1>5, <1>6, <1>7, OtherCallTypes DEF TInv

LEMMA MarkTypes ==
    ASSUME TInv, NEW c \in Calls, Mark(c)
    PROVE  TInv'
<1>1. TypeOK /\ CallTypes(c) /\ call[c] \in Call
  BY DEF TInv, TypeOK
<1>2. call' \in [Calls -> Call]
  BY <1>1, NoCallType, CallParts, CallFields DEF TypeOK, Mark
<1>3. pc' \in [Calls -> Labels]
  BY <1>1 DEF TypeOK, Mark, Goto, Labels, FunctionLabels, PageLabels, CallTypes, TaskLabels
<1>4. TypeOK'
  BY <1>1, <1>2, <1>3, TaskFacts
  DEF TypeOK, Mark, rows, counters, clicks, stops, WriteLost, CallTypes, TaskLabels
<1>5. CallTypes(c)'
  BY <1>1, NoCallType, CallParts
  DEF TypeOK, Mark, Goto, CallTypes, TaskLabels, LoopLabels, PageLabels
<1>6. \A d \in Calls \ {c} : pc'[d] = pc[d] /\ call'[d] = call[d]
  BY <1>1 DEF TypeOK, Mark, Goto, CallTypes, TaskLabels
<1>7. \A r \in UnlockIds : unlocks'[r].pending => unlocks'[r].phase \in Phases
  BY <1>1 DEF TInv, TypeOK, Mark, rows, CallTypes
<1>8. QED
  BY <1>4, <1>5, <1>6, <1>7, OtherCallTypes DEF TInv

LEMMA EarnTypes ==
    ASSUME TInv, NEW c \in Calls, Earn(c)
    PROVE  TInv'
<1>1. TypeOK /\ CallTypes(c) /\ call[c] \in Call
  BY DEF TInv, TypeOK
<1>2. call' \in [Calls -> Call]
  BY <1>1, NoCallType, CallParts, CallFields DEF TypeOK, Earn
<1>3. pc' \in [Calls -> Labels]
  BY <1>1 DEF TypeOK, Earn, Goto, Labels, FunctionLabels, PageLabels
<1>4. TypeOK'
  BY <1>1, <1>2, <1>3
  DEF TypeOK, Earn, rows, counters, clicks, stops, WriteLost
<1>5. CallTypes(c)'
  BY <1>1, NoCallType, CallParts
  DEF TypeOK, Earn, Goto, CallTypes, TaskLabels, LoopLabels, PageLabels
<1>6. \A d \in Calls \ {c} : pc'[d] = pc[d] /\ call'[d] = call[d]
  BY <1>1 DEF TypeOK, Earn, Goto
<1>7. \A r \in UnlockIds : unlocks'[r].pending => unlocks'[r].phase \in Phases
  BY <1>1 DEF TInv, TypeOK, Earn, rows, CallTypes
<1>8. QED
  BY <1>4, <1>5, <1>6, <1>7, OtherCallTypes DEF TInv

LEMMA AwardTypes ==
    ASSUME TInv, NEW c \in Calls, Award(c)
    PROVE  TInv'
<1>1. TypeOK /\ CallTypes(c) /\ call[c] \in Call
  BY DEF TInv, TypeOK
<1>2. call' \in [Calls -> Call]
  BY <1>1, NoCallType, CallParts, CallFields DEF TypeOK, Award
<1>3. pc' \in [Calls -> Labels]
  BY <1>1 DEF TypeOK, Award, Goto, Labels, FunctionLabels, PageLabels, CallTypes, TaskLabels
<1>4. TypeOK'
  BY <1>1, <1>2, <1>3, TaskFacts
  DEF TypeOK, Award, rows, counters, clicks, stops, WriteLost, CallTypes, TaskLabels
<1>5. CallTypes(c)'
  BY <1>1, NoCallType, CallParts
  DEF TypeOK, Award, Goto, CallTypes, TaskLabels, LoopLabels, PageLabels
<1>6. \A d \in Calls \ {c} : pc'[d] = pc[d] /\ call'[d] = call[d]
  BY <1>1 DEF TypeOK, Award, Goto, CallTypes, TaskLabels
<1>7. \A r \in UnlockIds : unlocks'[r].pending => unlocks'[r].phase \in Phases
  BY <1>1 DEF TInv, TypeOK, Award, rows, CallTypes
<1>8. QED
  BY <1>4, <1>5, <1>6, <1>7, OtherCallTypes DEF TInv

LEMMA ReadPhasesTypes ==
    ASSUME TInv, NEW c \in Calls, ReadPhases(c)
    PROVE  TInv'
<1>1. TypeOK /\ CallTypes(c) /\ call[c] \in Call
  BY DEF TInv, TypeOK
<1>2. call' \in [Calls -> Call]
  <2>1. 1 \in 0..PhaseCount /\ status \in [Phases -> Statuses]
    BY <1>1, ConstantTypes DEF TypeOK
  <2>2. [call[c] EXCEPT !.snap = status, !.phase = 1] \in Call
    BY <1>1, <2>1, CallFields
  <2>3. QED
    BY <1>1, <2>2 DEF TypeOK, ReadPhases
<1>3. pc' \in [Calls -> Labels]
  BY <1>1 DEF TypeOK, ReadPhases, Goto, Labels, FunctionLabels, PageLabels, LoopAt
<1>4. TypeOK'
  BY <1>1, <1>2, <1>3
  DEF TypeOK, ReadPhases, rows, counters, clicks, stops, WriteLost, LoopAt
<1>5. CallTypes(c)'
  BY <1>1, NoCallType, CallParts, ConstantTypes
  DEF TypeOK, ReadPhases, Goto, CallTypes, TaskLabels, LoopLabels, PageLabels, LoopAt, LoopGoesOn
<1>6. \A d \in Calls \ {c} : pc'[d] = pc[d] /\ call'[d] = call[d]
  BY <1>1 DEF TypeOK, ReadPhases, Goto, LoopAt
<1>7. \A r \in UnlockIds : unlocks'[r].pending => unlocks'[r].phase \in Phases
  BY <1>1 DEF TInv, TypeOK, ReadPhases, rows, CallTypes
<1>8. QED
  BY <1>4, <1>5, <1>6, <1>7, OtherCallTypes DEF TInv

LEMMA ReadTasksTypes ==
    ASSUME TInv, NEW c \in Calls, ReadTasks(c)
    PROVE  TInv'
<1>1. TypeOK /\ CallTypes(c) /\ call[c] \in Call
  BY DEF TInv, TypeOK
<1>2. call' \in [Calls -> Call]
  BY <1>1, NextPhase DEF TypeOK, ReadTasks, LoopLabels
<1>3. pc' \in [Calls -> Labels]
  BY <1>1 DEF TypeOK, ReadTasks, Goto, Labels, FunctionLabels, PageLabels, LoopAt
<1>4. TypeOK'
  BY <1>1, <1>2, <1>3
  DEF TypeOK, ReadTasks, rows, counters, clicks, stops, WriteLost, LoopAt
<1>5. CallTypes(c)'
  <2>1. pc[c] \in LoopLabels
    BY DEF ReadTasks, LoopLabels
  <2>2. CASE UNCHANGED call
    <3>1. pc'[c] = "complete"
      <4>1. \/ Goto(c, "complete")
            \/ call' = [call EXCEPT ![c].phase = call[c].phase + 1]
        BY DEF ReadTasks
      <4>2. call'[c].phase = call[c].phase /\ call[c].phase \in Int
        BY <1>1, <2>2, CallParts
      <4>3. call' # [call EXCEPT ![c].phase = call[c].phase + 1]
        BY <1>1, <4>2 DEF TypeOK, Call
      <4>4. QED
        BY <1>1, <4>1, <4>3 DEF Goto, TypeOK
    <3>2. QED
      BY <1>1, <2>1, <2>2, <3>1 DEF CallTypes, TaskLabels, LoopLabels, PageLabels
  <2>3. CASE ~UNCHANGED call
    BY <2>1, <2>3, LoopTypes DEF ReadTasks
  <2>4. QED
    BY <2>2, <2>3
<1>6. \A d \in Calls \ {c} : pc'[d] = pc[d] /\ call'[d] = call[d]
  BY <1>1 DEF TypeOK, ReadTasks, Goto, CallTypes, LoopLabels, LoopGoesOn, LoopAt
<1>7. \A r \in UnlockIds : unlocks'[r].pending => unlocks'[r].phase \in Phases
  BY <1>1 DEF TInv, TypeOK, ReadTasks, rows, CallTypes
<1>8. QED
  BY <1>4, <1>5, <1>6, <1>7, OtherCallTypes DEF TInv

LEMMA CompletePhaseTypes ==
    ASSUME TInv, NEW c \in Calls, CompletePhase(c)
    PROVE  TInv'
<1>1. TypeOK /\ CallTypes(c) /\ call[c] \in Call
  BY DEF TInv, TypeOK
<1>2. call' \in [Calls -> Call]
  BY <1>1, NextPhase DEF TypeOK, CompletePhase, LoopLabels
<1>3. pc' \in [Calls -> Labels]
  BY <1>1 DEF TypeOK, CompletePhase, Goto, Labels, FunctionLabels, PageLabels, LoopAt, Statuses
<1>4. TypeOK'
  BY <1>1, <1>2, <1>3, ConstantTypes
  DEF TypeOK, CompletePhase, rows, counters, clicks, stops, WriteLost, LoopAt, Statuses
<1>5. CallTypes(c)'
  <2>1. pc[c] \in LoopLabels
    BY DEF CompletePhase, LoopLabels
  <2>2. CASE call[c].snap[call[c].phase + 1] = "locked"
    <3>1. UNCHANGED call /\ pc'[c] = "unlockNext"
      BY <1>1, <2>2 DEF CompletePhase, Goto, TypeOK
    <3>2. QED
      BY <1>1, <2>1, <3>1 DEF CallTypes, TaskLabels, LoopLabels, PageLabels
  <2>3. CASE call[c].snap[call[c].phase + 1] # "locked"
    BY <2>1, <2>3, LoopTypes DEF CompletePhase
  <2>4. QED
    BY <2>2, <2>3
<1>6. \A d \in Calls \ {c} : pc'[d] = pc[d] /\ call'[d] = call[d]
  BY <1>1 DEF TypeOK, CompletePhase, Goto, CallTypes, LoopLabels, LoopGoesOn, LoopAt, Statuses
<1>7. \A r \in UnlockIds : unlocks'[r].pending => unlocks'[r].phase \in Phases
  BY <1>1 DEF TInv, TypeOK, CompletePhase, rows, CallTypes
<1>8. QED
  BY <1>4, <1>5, <1>6, <1>7, OtherCallTypes DEF TInv

LEMMA UnlockNextTypes ==
    ASSUME TInv, NEW c \in Calls, UnlockNext(c)
    PROVE  TInv'
<1>1. TypeOK /\ CallTypes(c) /\ call[c] \in Call
  BY DEF TInv, TypeOK
<1>2. call' \in [Calls -> Call]
  BY <1>1, NextPhase DEF TypeOK, UnlockNext, LoopLabels
<1>3. pc' \in [Calls -> Labels]
  BY <1>1 DEF TypeOK, UnlockNext, Goto, Labels, FunctionLabels, PageLabels, LoopAt, Statuses
<1>4. TypeOK'
  BY <1>1, <1>2, <1>3, ConstantTypes
  DEF TypeOK, UnlockNext, rows, counters, clicks, stops, WriteLost, LoopAt, Statuses
<1>5. CallTypes(c)'
  BY <1>1, NoCallType, CallParts, ConstantTypes
  DEF TypeOK, UnlockNext, Goto, CallTypes, TaskLabels, LoopLabels, PageLabels, LoopAt, LoopGoesOn
<1>6. \A d \in Calls \ {c} : pc'[d] = pc[d] /\ call'[d] = call[d]
  BY <1>1 DEF TypeOK, UnlockNext, Goto, CallTypes, LoopLabels, LoopGoesOn, LoopAt, Statuses
<1>7. \A r \in UnlockIds : unlocks'[r].pending => unlocks'[r].phase \in Phases
  BY <1>1 DEF TInv, TypeOK, UnlockNext, rows, CallTypes
<1>8. QED
  BY <1>4, <1>5, <1>6, <1>7, OtherCallTypes DEF TInv

LEMMA CountDoneTypes ==
    ASSUME TInv, NEW c \in Calls, CountDone(c)
    PROVE  TInv'
<1>1. TypeOK /\ CallTypes(c) /\ call[c] \in Call
  BY DEF TInv, TypeOK
<1>2. call' \in [Calls -> Call]
  <2>1. Cardinality(done) \in Counts
    <3>1. /\ done \subseteq Tasks /\ IsFiniteSet(Tasks)
          /\ IsFiniteSet(done) /\ Cardinality(done) <= Cardinality(Tasks)
      BY <1>1, TaskFacts, FS_Subset DEF TypeOK
    <3>2. QED
      BY <3>1, FS_CardinalityType DEF Counts
  <2>2. QED
    BY <1>1, <2>1, CallFields DEF TypeOK, CountDone
<1>3. pc' \in [Calls -> Labels]
  BY <1>1 DEF TypeOK, CountDone, Goto, Labels, FunctionLabels, PageLabels
<1>4. TypeOK'
  BY <1>1, <1>2, <1>3
  DEF TypeOK, CountDone, rows, counters, clicks, stops, WriteLost
<1>5. CallTypes(c)'
  BY <1>1, NoCallType, CallParts
  DEF TypeOK, CountDone, Goto, CallTypes, TaskLabels, LoopLabels, PageLabels
<1>6. \A d \in Calls \ {c} : pc'[d] = pc[d] /\ call'[d] = call[d]
  BY <1>1 DEF TypeOK, CountDone, Goto
<1>7. \A r \in UnlockIds : unlocks'[r].pending => unlocks'[r].phase \in Phases
  BY <1>1 DEF TInv, TypeOK, CountDone, rows, CallTypes
<1>8. QED
  BY <1>4, <1>5, <1>6, <1>7, OtherCallTypes DEF TInv

LEMMA AnswerTypes ==
    ASSUME TInv, NEW c \in Calls, Answer(c)
    PROVE  TInv'
<1>1. TypeOK /\ CallTypes(c) /\ call[c] \in Call
  BY DEF TInv, TypeOK
<1>2. call' \in [Calls -> Call]
  BY <1>1, NoCallType, CallParts, CallFields DEF TypeOK, Answer
<1>3. pc' \in [Calls -> Labels]
  BY <1>1 DEF TypeOK, Answer, Goto, Labels, FunctionLabels, PageLabels, PageGoesOn
<1>4. TypeOK'
  BY <1>1, <1>2, <1>3, PercentType, CallParts
  DEF TypeOK, Answer, rows, counters, clicks, stops, WriteLost, PageGoesOn
<1>5. CallTypes(c)'
  BY <1>1, NoCallType, CallParts
  DEF TypeOK, Answer, Goto, CallTypes, TaskLabels, LoopLabels, PageLabels, PageGoesOn, NoCall
<1>6. \A d \in Calls \ {c} : pc'[d] = pc[d] /\ call'[d] = call[d]
  BY <1>1 DEF TypeOK, Answer, Goto, PageGoesOn
<1>7. \A r \in UnlockIds : unlocks'[r].pending => unlocks'[r].phase \in Phases
  BY <1>1 DEF TInv, TypeOK, Answer, rows, CallTypes
<1>8. QED
  BY <1>4, <1>5, <1>6, <1>7, OtherCallTypes DEF TInv

LEMMA ClosePhaseTypes ==
    ASSUME TInv, NEW c \in Calls, ClosePhase(c)
    PROVE  TInv'
<1>1. TypeOK /\ CallTypes(c) /\ call[c] \in Call
  BY DEF TInv, TypeOK
<1>2. call' \in [Calls -> Call]
  BY <1>1, NoCallType, CallParts, CallFields DEF TypeOK, ClosePhase, Finishes
<1>3. pc' \in [Calls -> Labels]
  BY <1>1 DEF TypeOK, ClosePhase, Goto, Labels, FunctionLabels, PageLabels, Finishes, CallTypes, PageLabels
<1>4. TypeOK'
  BY <1>1, <1>2, <1>3, TaskFacts
  DEF TypeOK, ClosePhase, rows, counters, clicks, stops, WriteLost, Finishes, CallTypes, PageLabels
<1>5. CallTypes(c)'
  BY <1>1, NoCallType, CallParts
  DEF TypeOK, ClosePhase, Goto, CallTypes, TaskLabels, LoopLabels, PageLabels, Finishes, NoCall, Phases
<1>6. \A d \in Calls \ {c} : pc'[d] = pc[d] /\ call'[d] = call[d]
  BY <1>1 DEF TypeOK, ClosePhase, Goto, Finishes, Finishes, CallTypes, PageLabels
<1>7. \A r \in UnlockIds : unlocks'[r].pending => unlocks'[r].phase \in Phases
  BY <1>1 DEF TInv, TypeOK, ClosePhase, rows, CallTypes
<1>8. QED
  BY <1>4, <1>5, <1>6, <1>7, OtherCallTypes DEF TInv

LEMMA OpenNextTypes ==
    ASSUME TInv, NEW c \in Calls, OpenNext(c)
    PROVE  TInv'
<1>1. TypeOK /\ CallTypes(c) /\ call[c] \in Call
  BY DEF TInv, TypeOK
<1>2. call' \in [Calls -> Call]
  BY <1>1, NoCallType, CallParts, CallFields DEF TypeOK, OpenNext, Finishes
<1>3. pc' \in [Calls -> Labels]
  BY <1>1 DEF TypeOK, OpenNext, Goto, Labels, FunctionLabels, PageLabels, Finishes, Statuses
<1>4. TypeOK'
  BY <1>1, <1>2, <1>3
  DEF TypeOK, OpenNext, rows, counters, clicks, stops, WriteLost, Finishes, Statuses
<1>5. CallTypes(c)'
  BY <1>1, NoCallType, CallParts
  DEF TypeOK, OpenNext, Goto, CallTypes, TaskLabels, LoopLabels, PageLabels, Finishes, NoCall
<1>6. \A d \in Calls \ {c} : pc'[d] = pc[d] /\ call'[d] = call[d]
  BY <1>1 DEF TypeOK, OpenNext, Goto, Finishes, Finishes, Statuses
<1>7. \A r \in UnlockIds : unlocks'[r].pending => unlocks'[r].phase \in Phases
  BY <1>1 DEF TInv, TypeOK, OpenNext, rows, CallTypes
<1>8. QED
  BY <1>4, <1>5, <1>6, <1>7, OtherCallTypes DEF TInv

LEMMA ClickTypes ==
    ASSUME TInv, NEW c \in Calls, NEW t \in Tabs, NEW k \in Tasks, Click(c, t, k)
    PROVE  TInv'
<1>1. TypeOK /\ CallTypes(c) /\ call[c] \in Call
  BY DEF TInv, TypeOK
<1>2. call' \in [Calls -> Call]
  <2>1. view[t] \in View
    BY <1>1 DEF TypeOK
  <2> DEFINE unmark == [NoCall EXCEPT !.tab = t, !.task = k]
             mark == [NoCall EXCEPT !.tab = t, !.task = k, !.before = view[t],
                                    !.closes = Closes(view[t], k),
                                    !.opens = Opens(view[t], k)]
  <2>2. unmark \in Call /\ mark \in Call
    BY <2>1, NewCallType
  <2>3. \E x \in {unmark, mark} : call' = [call EXCEPT ![c] = x]
    BY DEF Click
  <2> HIDE DEF unmark, mark
  <2>4. QED
    BY <1>1, <2>2, <2>3 DEF TypeOK
<1>3. pc' \in [Calls -> Labels]
  BY <1>1 DEF TypeOK, Click, Goto, Labels, FunctionLabels, PageLabels, View, Shown
<1>4. TypeOK'
  <2>1. view[t] \in View
    BY <1>1 DEF TypeOK
  <2>2. /\ [view[t] EXCEPT !.done = @ \ {k}] \in View
        /\ [view[t] EXCEPT !.done = @ \cup {k}] \in View
    BY <2>1 DEF View
  <2>3. view' \in [Tabs -> View]
    BY <1>1, <2>2 DEF TypeOK, Click
  <2>4. toggles' \in Nat /\ unmarks' \in Nat
    BY <1>1 DEF TypeOK, Click
  <2>5. QED
    BY <1>1, <1>2, <1>3, <2>3, <2>4 DEF TypeOK, Click, rows, stops
<1>5. CallTypes(c)'
  <2>1. call'[c].task = k
    <3> DEFINE unmark == [NoCall EXCEPT !.tab = t, !.task = k]
               mark == [NoCall EXCEPT !.tab = t, !.task = k, !.before = view[t],
                                      !.closes = Closes(view[t], k),
                                      !.opens = Opens(view[t], k)]
    <3>1. unmark.task = k /\ mark.task = k
      BY DEF NoCall
    <3>2. \E x \in {unmark, mark} : call' = [call EXCEPT ![c] = x]
      BY DEF Click
    <3> HIDE DEF unmark, mark
    <3>3. QED
      BY <1>1, <3>1, <3>2 DEF TypeOK
  <2>2. pc'[c] \in {"unmark", "readTask"}
    BY <1>1 DEF TypeOK, Click, Goto
  <2>3. QED
    BY <2>1, <2>2 DEF CallTypes, TaskLabels, LoopLabels, PageLabels
<1>6. \A d \in Calls \ {c} : pc'[d] = pc[d] /\ call'[d] = call[d]
  BY <1>1 DEF TypeOK, Click, Goto, View, Shown
<1>7. \A r \in UnlockIds : unlocks'[r].pending => unlocks'[r].phase \in Phases
  BY <1>1 DEF TInv, TypeOK, Click, rows, CallTypes
<1>8. QED
  BY <1>4, <1>5, <1>6, <1>7, OtherCallTypes DEF TInv

LEMMA AskUnlockTypes ==
    ASSUME TInv, NEW c \in Calls, AskUnlock(c)
    PROVE  TInv'
<1>1. TypeOK /\ CallTypes(c) /\ call[c] \in Call
  BY DEF TInv, TypeOK
<1>2. call' \in [Calls -> Call]
  BY <1>1, NoCallType, CallParts, CallFields DEF TypeOK, AskUnlock
<1>3. pc' \in [Calls -> Labels]
  BY <1>1 DEF TypeOK, AskUnlock, Goto, Labels, FunctionLabels, PageLabels
<1>4. TypeOK'
  BY <1>1, <1>2, <1>3
  DEF TypeOK, AskUnlock, rows, counters, clicks, stops, WriteLost
<1>5. CallTypes(c)'
  BY <1>1, NoCallType, CallParts
  DEF TypeOK, AskUnlock, Goto, CallTypes, TaskLabels, LoopLabels, PageLabels
<1>6. \A d \in Calls \ {c} : pc'[d] = pc[d] /\ call'[d] = call[d]
  BY <1>1 DEF TypeOK, AskUnlock, Goto
<1>7. \A r \in UnlockIds : unlocks'[r].pending => unlocks'[r].phase \in Phases
  BY <1>1 DEF TInv, TypeOK, AskUnlock, rows, CallTypes
<1>8. QED
  BY <1>4, <1>5, <1>6, <1>7, OtherCallTypes DEF TInv

LEMMA FindLockedTypes ==
    ASSUME TInv, NEW c \in Calls, FindLocked(c)
    PROVE  TInv'
<1>1. TypeOK /\ CallTypes(c) /\ call[c] \in Call
  BY DEF TInv, TypeOK
<1>2. call' \in [Calls -> Call]
  <2>1. \A p \in Phases : [call[c] EXCEPT !.phase = p] \in Call
    <3>1. \A p \in Phases : p \in 0..PhaseCount
      BY ConstantTypes DEF Phases
    <3>2. QED
      BY <1>1, <3>1, CallFields
  <2>2. QED
    BY <1>1, <2>1, NoCallType DEF TypeOK, FindLocked, Finishes
<1>3. pc' \in [Calls -> Labels]
  BY <1>1 DEF TypeOK, FindLocked, Goto, Labels, FunctionLabels, PageLabels, Finishes
<1>4. TypeOK'
  BY <1>1, <1>2, <1>3
  DEF TypeOK, FindLocked, rows, counters, clicks, stops, WriteLost, Finishes
<1>5. CallTypes(c)'
  <2>1. CASE Finishes(c)
    BY <1>1, <2>1 DEF TypeOK, Finishes, Goto, NoCall, CallTypes, TaskLabels,
                     LoopLabels, PageLabels
  <2>2. ASSUME NEW p \in Phases, call' = [call EXCEPT ![c].phase = p],
               Goto(c, "insertUnlock")
        PROVE  CallTypes(c)'
    <3>1. /\ call'[c].phase = p /\ call'[c].closes = call[c].closes
          /\ call'[c].task = call[c].task
      BY <1>1, <2>2 DEF TypeOK, Call
    <3>2. pc'[c] = "insertUnlock"
      BY <1>1, <2>2 DEF TypeOK, Goto
    <3>3. QED
      BY <1>1, <3>1, <3>2 DEF CallTypes, TaskLabels, LoopLabels, PageLabels
  <2>3. QED
    BY <2>1, <2>2 DEF FindLocked
<1>6. \A d \in Calls \ {c} : pc'[d] = pc[d] /\ call'[d] = call[d]
  BY <1>1 DEF TypeOK, FindLocked, Goto, Finishes, Phases, Finishes
<1>7. \A r \in UnlockIds : unlocks'[r].pending => unlocks'[r].phase \in Phases
  BY <1>1 DEF TInv, TypeOK, FindLocked, rows, CallTypes
<1>8. QED
  BY <1>4, <1>5, <1>6, <1>7, OtherCallTypes DEF TInv

LEMMA InsertUnlockTypes ==
    ASSUME TInv, NEW c \in Calls, InsertUnlock(c)
    PROVE  TInv'
<1>1. TypeOK /\ CallTypes(c) /\ call[c] \in Call
  BY DEF TInv, TypeOK
<1>2. call' \in [Calls -> Call]
  BY <1>1, NoCallType, CallParts, CallFields DEF TypeOK, InsertUnlock, Finishes
<1>3. pc' \in [Calls -> Labels]
  BY <1>1 DEF TypeOK, InsertUnlock, Goto, Labels, FunctionLabels, PageLabels, Finishes, UnlockIds
<1>4. TypeOK'
  <2> DEFINE U == [phase : 0..PhaseCount, pending : BOOLEAN]
  <2>1. [phase |-> call[c].phase, pending |-> TRUE] \in U
    BY <1>1, CallParts
  <2>2. unlocks' \in [UnlockIds -> U]
    BY <1>1, <2>1 DEF TypeOK, InsertUnlock
  <2>3. asked' \in 0..MaxUnlocks /\ faults' \in Nat
    BY <1>1, ConstantTypes DEF TypeOK, InsertUnlock, WriteLost
  <2>4. QED
    BY <1>1, <1>2, <1>3, <2>2, <2>3 DEF TypeOK, InsertUnlock, clicks, stops
<1>5. CallTypes(c)'
  BY <1>1, NoCallType, CallParts
  DEF TypeOK, InsertUnlock, Goto, CallTypes, TaskLabels, LoopLabels, PageLabels, Finishes, NoCall
<1>6. \A d \in Calls \ {c} : pc'[d] = pc[d] /\ call'[d] = call[d]
  BY <1>1 DEF TypeOK, InsertUnlock, Goto, Finishes, Finishes, UnlockIds
<1>7. \A r \in UnlockIds : unlocks'[r].pending => unlocks'[r].phase \in Phases
  BY <1>1 DEF TInv, TypeOK, InsertUnlock, rows, CallTypes
<1>8. QED
  BY <1>4, <1>5, <1>6, <1>7, OtherCallTypes DEF TInv

LEMMA ApproveTypes ==
    ASSUME TInv, NEW c \in Calls, NEW r \in UnlockIds, Approve(c, r)
    PROVE  TInv'
<1>1. TypeOK /\ CallTypes(c) /\ call[c] \in Call
  BY DEF TInv, TypeOK
<1>2. call' \in [Calls -> Call]
  BY <1>1, NoCallType, CallParts, CallFields DEF TypeOK, Approve
<1>3. pc' \in [Calls -> Labels]
  BY <1>1 DEF TypeOK, Approve, Goto, Labels, FunctionLabels, PageLabels
<1>4. TypeOK'
  BY <1>1, <1>2, <1>3
  DEF TypeOK, Approve, rows, counters, clicks, stops, WriteLost
<1>5. CallTypes(c)'
  <2>1. /\ call'[c].phase = unlocks[r].phase
        /\ call'[c].closes = call[c].closes /\ call'[c].task = call[c].task
    BY <1>1 DEF TypeOK, Approve, Call
  <2>2. pc'[c] = "override" /\ unlocks[r].phase \in Phases
    BY <1>1 DEF TypeOK, TInv, Approve, Goto
  <2>3. QED
    BY <1>1, <2>1, <2>2 DEF CallTypes, TaskLabels, LoopLabels, PageLabels
<1>6. \A d \in Calls \ {c} : pc'[d] = pc[d] /\ call'[d] = call[d]
  BY <1>1 DEF TypeOK, Approve, Goto
<1>7. \A q \in UnlockIds : unlocks'[q].pending => unlocks'[q].phase \in Phases
  BY <1>1 DEF TInv, TypeOK, Approve, rows, CallTypes
<1>8. QED
  BY <1>4, <1>5, <1>6, <1>7, OtherCallTypes DEF TInv

LEMMA OverrideTypes ==
    ASSUME TInv, NEW c \in Calls, Override(c)
    PROVE  TInv'
<1>1. TypeOK /\ CallTypes(c) /\ call[c] \in Call
  BY DEF TInv, TypeOK
<1>2. call' \in [Calls -> Call]
  BY <1>1, NoCallType, CallParts, CallFields DEF TypeOK, Override
<1>3. pc' \in [Calls -> Labels]
  BY <1>1 DEF TypeOK, Override, Goto, Labels, FunctionLabels, PageLabels, Statuses
<1>4. TypeOK'
  BY <1>1, <1>2, <1>3
  DEF TypeOK, Override, rows, counters, clicks, stops, WriteLost, Statuses
<1>5. CallTypes(c)'
  BY <1>1, NoCallType, CallParts
  DEF TypeOK, Override, Goto, CallTypes, TaskLabels, LoopLabels, PageLabels
<1>6. \A d \in Calls \ {c} : pc'[d] = pc[d] /\ call'[d] = call[d]
  BY <1>1 DEF TypeOK, Override, Goto, Statuses
<1>7. \A r \in UnlockIds : unlocks'[r].pending => unlocks'[r].phase \in Phases
  BY <1>1 DEF TInv, TypeOK, Override, rows, CallTypes
<1>8. QED
  BY <1>4, <1>5, <1>6, <1>7, OtherCallTypes DEF TInv

LEMMA MarkApprovedTypes ==
    ASSUME TInv, NEW c \in Calls, MarkApproved(c)
    PROVE  TInv'
<1>1. TypeOK /\ CallTypes(c) /\ call[c] \in Call
  BY DEF TInv, TypeOK
<1>2. call' \in [Calls -> Call]
  BY <1>1, NoCallType, CallParts, CallFields DEF TypeOK, MarkApproved, Finishes
<1>3. pc' \in [Calls -> Labels]
  BY <1>1 DEF TypeOK, MarkApproved, Goto, Labels, FunctionLabels, PageLabels, Finishes
<1>4. TypeOK'
  <2> DEFINE U == [phase : 0..PhaseCount, pending : BOOLEAN]
             r == call[c].unlock
  <2>1. unlocks \in [UnlockIds -> U]
    BY <1>1 DEF TypeOK
  <2>2. r \in UnlockIds => [unlocks[r] EXCEPT !.pending = FALSE] \in U
    BY <2>1
  <2> HIDE DEF U
  <2>3. [unlocks EXCEPT ![r].pending = FALSE] \in [UnlockIds -> U]
    BY <2>1, <2>2
  <2>4. unlocks' \in [UnlockIds -> U]
    BY <2>1, <2>3 DEF MarkApproved
  <2>5. QED
    BY <1>1, <1>2, <1>3, <2>4 DEF TypeOK, MarkApproved, WriteLost, clicks, stops, U
<1>5. CallTypes(c)'
  BY <1>1, NoCallType, CallParts
  DEF TypeOK, MarkApproved, Goto, CallTypes, TaskLabels, LoopLabels, PageLabels, Finishes, NoCall
<1>6. \A d \in Calls \ {c} : pc'[d] = pc[d] /\ call'[d] = call[d]
  BY <1>1 DEF TypeOK, MarkApproved, Goto, Finishes, Finishes
<1>7. \A r \in UnlockIds : unlocks'[r].pending => unlocks'[r].phase \in Phases
  BY <1>1 DEF TInv, TypeOK, MarkApproved, rows, CallTypes
<1>8. QED
  BY <1>4, <1>5, <1>6, <1>7, OtherCallTypes DEF TInv

LEMMA DiesTypes ==
    ASSUME TInv, NEW c \in Calls, Dies(c)
    PROVE  TInv'
<1>1. TypeOK /\ CallTypes(c) /\ call[c] \in Call
  BY DEF TInv, TypeOK
<1>2. call' \in [Calls -> Call]
  BY <1>1, NoCallType, CallParts, CallFields DEF TypeOK, Dies, Refuse
<1>3. pc' \in [Calls -> Labels]
  BY <1>1 DEF TypeOK, Dies, Goto, Labels, FunctionLabels, PageLabels, Refuse, PageGoesOn, Tabs
<1>4. TypeOK'
  BY <1>1, <1>2, <1>3, CallParts
  DEF TypeOK, Dies, rows, counters, clicks, stops, WriteLost, Refuse, PageGoesOn, Tabs
<1>5. CallTypes(c)'
  BY <1>1, NoCallType, CallParts
  DEF TypeOK, Dies, Goto, CallTypes, TaskLabels, LoopLabels, PageLabels, Refuse, PageGoesOn, NoCall
<1>6. \A d \in Calls \ {c} : pc'[d] = pc[d] /\ call'[d] = call[d]
  BY <1>1 DEF TypeOK, Dies, Goto, Refuse, Refuse, PageGoesOn, Tabs
<1>7. \A r \in UnlockIds : unlocks'[r].pending => unlocks'[r].phase \in Phases
  BY <1>1 DEF TInv, TypeOK, Dies, rows, CallTypes
<1>8. QED
  BY <1>4, <1>5, <1>6, <1>7, OtherCallTypes DEF TInv

(* The steps that are not a call's own.                                    *)
LEMMA CloseTabTypes ==
    ASSUME TInv, NEW t \in Tabs, CloseTab(t)
    PROVE  TInv'
<1>1. TypeOK
  BY DEF TInv
<1>2. call' \in [Calls -> Call]
  <2>1. \A c \in Calls : [call[c] EXCEPT !.tab = 0] \in Call
    BY <1>1, CallFields DEF TypeOK
  <2>2. QED
    BY <1>1, <2>1, NoCallType DEF TypeOK, CloseTab
<1>3. pc' \in [Calls -> Labels]
  BY <1>1 DEF TypeOK, CloseTab, Labels
<1>4. view' \in [Tabs -> View] /\ closings' \in Nat
  BY <1>1, FetchedType DEF TypeOK, CloseTab
<1>5. TypeOK'
  BY <1>1, <1>2, <1>3, <1>4 DEF TypeOK, CloseTab, rows, clicks
<1>6. ASSUME NEW c \in Calls PROVE CallTypes(c)'
  <2>1. CallTypes(c) /\ call[c] \in Call
    BY <1>1 DEF TInv, TypeOK
  <2>2. CASE call[c].tab # t
    BY <1>1, <2>1, <2>2 DEF CloseTab, CallTypes
  <2>3. CASE call[c].tab = t /\ pc[c] \in PageLabels
    BY <1>1, <2>3 DEF CloseTab, CallTypes, NoCall, TaskLabels, LoopLabels, PageLabels
  <2>4. CASE call[c].tab = t /\ pc[c] \notin PageLabels
    <3>1. call'[c] = [call[c] EXCEPT !.tab = 0] /\ pc'[c] = pc[c]
      BY <2>4 DEF CloseTab
    <3>2. /\ call'[c].closes = call[c].closes /\ call'[c].task = call[c].task
          /\ call'[c].opens = call[c].opens /\ call'[c].snap = call[c].snap
          /\ call'[c].phase = call[c].phase
      BY <2>1, <3>1 DEF Call
    <3>3. QED
      BY <2>1, <3>1, <3>2 DEF CallTypes
  <2>5. QED
    BY <2>2, <2>3, <2>4
<1>7. QED
  BY <1>5, <1>6 DEF TInv, CloseTab, rows

LEMMA RefetchTypes ==
    ASSUME TInv, NEW t \in Tabs, Refetch(t)
    PROVE  TInv'
<1>1. TypeOK'
  BY FetchedType DEF TInv, TypeOK, Refetch, rows, counters, clicks, stops
<1>2. \A c \in Calls : CallTypes(c)'
  BY DEF TInv, CallTypes, Refetch
<1>3. QED
  BY <1>1, <1>2 DEF TInv, Refetch, rows

LEMMA TypeStep == TInv /\ [Next]_vars => TInv'
<1> SUFFICES ASSUME TInv, [Next]_vars PROVE TInv'
  OBVIOUS
<1>1. ASSUME NEW c \in Calls, Step(c) PROVE TInv'
  BY <1>1, UnmarkTypes, ReadTaskTypes, MarkTypes, EarnTypes, AwardTypes,
     ReadPhasesTypes, ReadTasksTypes, CompletePhaseTypes, UnlockNextTypes,
     CountDoneTypes, AnswerTypes, ClosePhaseTypes, OpenNextTypes,
     FindLockedTypes, InsertUnlockTypes, OverrideTypes, MarkApprovedTypes
  DEF Step
<1>2. ASSUME NEW c \in Calls, NEW t \in Tabs, NEW k \in Tasks, Click(c, t, k)
      PROVE  TInv'
  BY <1>2, ClickTypes
<1>3. ASSUME NEW c \in Calls, NEW r \in UnlockIds, Approve(c, r) PROVE TInv'
  BY <1>3, ApproveTypes
<1>4. ASSUME NEW c \in Calls, AskUnlock(c) \/ Dies(c) PROVE TInv'
  BY <1>4, AskUnlockTypes, DiesTypes
<1>5. ASSUME NEW t \in Tabs, Refetch(t) \/ CloseTab(t) PROVE TInv'
  BY <1>5, RefetchTypes, CloseTabTypes
<1>6. CASE UNCHANGED vars
  <2>1. \A c \in Calls : CallTypes(c)'
    BY <1>6 DEF TInv, CallTypes, vars
  <2>2. QED
    BY <1>6, <2>1 DEF TInv, TypeOK, vars, rows, counters, clicks, stops
<1>7. QED
  BY <1>1, <1>2, <1>3, <1>4, <1>5, <1>6 DEF Next

(* Every variable keeps its type.                                          *)
THEOREM TypesHold == Spec => []TypeOK
<1>1. Spec => []TInv
  BY TypeInit, TypeStep, PTL DEF Spec
<1>2. TInv => TypeOK
  BY DEF TInv
<1>3. QED
  BY <1>1, <1>2, PTL

-----------------------------------------------------------------------------
(* What a call saw open is open still.                                     *)

Seen(st) == \A p \in Phases : st[p] # "locked" => status[p] # "locked"

(* Phase p may be opened without leaving a locked one behind it.           *)
Reachable(p) == p = 1 \/ status[p - 1] # "locked"

CallSaw(c) ==
    /\ Seen(call[c].before.status)
    /\ Seen(call[c].snap)
    /\ call[c].opens # 0 => Reachable(call[c].opens)
    /\ pc[c] \in {"insertUnlock", "override"} => Reachable(call[c].phase)

UnlocksOK == \A r \in UnlockIds : unlocks[r].pending => Reachable(unlocks[r].phase)

LInv == /\ TInv
        /\ status[1] # "locked"
        /\ Ladder
        /\ \A t \in Tabs : Seen(view[t].status)
        /\ UnlocksOK
        /\ \A c \in Calls : CallSaw(c)

(* No phase is locked, and none is opened out of reach.                    *)
Climbs == /\ \A p \in Phases : status[p] # "locked" => status'[p] # "locked"
          /\ \A p \in Phases : status'[p] # "locked" =>
                status[p] # "locked" \/ Reachable(p)

(* What one call's step shows its page, notes down and asks for was seen   *)
(* or reached before the step.                                             *)
Notes(c) ==
    /\ \A d \in Calls \ {c} : pc'[d] = pc[d] /\ call'[d] = call[d]
    /\ \A t \in Tabs : Seen(view'[t].status)
    /\ Seen(call'[c].before.status)
    /\ Seen(call'[c].snap)
    /\ call'[c].opens # 0 => Reachable(call'[c].opens)
    /\ pc'[c] \in {"insertUnlock", "override"} => Reachable(call'[c].phase)
    /\ \A r \in UnlockIds : unlocks'[r].pending => Reachable(unlocks'[r].phase)

LEMMA PhaseBelow ==
    ASSUME NEW p \in Phases, p # 1
    PROVE  p - 1 \in Phases /\ p - 1 \in 1..(PhaseCount - 1) /\ (p - 1) + 1 = p
BY ConstantTypes DEF Phases

LEMMA OneIsPhase == 1 \in Phases
BY ConstantTypes DEF Phases

LEMMA SeenClimbs ==
    ASSUME Climbs, NEW st, Seen(st)
    PROVE  \A p \in Phases : st[p] # "locked" => status'[p] # "locked"
BY DEF Climbs, Seen

LEMMA ReachableClimbs ==
    ASSUME Climbs, NEW p \in Phases, Reachable(p)
    PROVE  p = 1 \/ status'[p - 1] # "locked"
BY PhaseBelow DEF Climbs, Reachable

LEMMA LadderClimbs ==
    ASSUME LInv, Climbs
    PROVE  status'[1] # "locked" /\ Ladder'
<1>1. status'[1] # "locked"
  BY OneIsPhase DEF LInv, Climbs
<1>2. ASSUME NEW p \in 1..(PhaseCount - 1), status'[p + 1] # "locked"
      PROVE  status'[p] # "locked"
  <2>1. p \in Phases /\ p + 1 \in Phases /\ p + 1 # 1 /\ (p + 1) - 1 = p
    BY ConstantTypes DEF Phases
  <2>2. status[p + 1] # "locked" \/ Reachable(p + 1)
    BY <1>2, <2>1 DEF Climbs
  <2>3. status[p] # "locked"
    BY <2>1, <2>2 DEF LInv, Ladder, Reachable
  <2>4. QED
    BY <2>1, <2>3 DEF Climbs
<1>3. QED
  BY <1>1, <1>2 DEF Ladder

LEMMA CallKeepsLadder ==
    ASSUME LInv, TInv', NEW c \in Calls, Climbs, Notes(c)
    PROVE  LInv'
<1>1. status'[1] # "locked" /\ Ladder'
  BY LadderClimbs
<1>2. \A t \in Tabs : Seen(view[t].status)'
  <2> SUFFICES ASSUME NEW t \in Tabs PROVE Seen(view[t].status)'
    OBVIOUS
  <2>1. Seen(view'[t].status)
    BY DEF Notes
  <2>2. QED
    BY <2>1, SeenClimbs DEF Seen
<1>3. UnlocksOK'
  <2> SUFFICES ASSUME NEW r \in UnlockIds, unlocks'[r].pending
               PROVE  Reachable(unlocks[r].phase)'
    BY DEF UnlocksOK
  <2>1. Reachable(unlocks'[r].phase)
    BY DEF Notes
  <2>2. unlocks'[r].phase \in Phases
    BY DEF TInv
  <2>3. QED
    BY <2>1, <2>2, ReachableClimbs DEF Reachable
<1>4. ASSUME NEW d \in Calls PROVE CallSaw(d)'
  <2>1. /\ Seen(call'[d].before.status) /\ Seen(call'[d].snap)
        /\ call'[d].opens # 0 => Reachable(call'[d].opens)
        /\ pc'[d] \in {"insertUnlock", "override"} => Reachable(call'[d].phase)
    <3>1. CASE d = c
      BY <3>1 DEF Notes
    <3>2. CASE d # c
      BY <3>2 DEF Notes, LInv, CallSaw
    <3>3. QED
      BY <3>1, <3>2
  <2>2. /\ call'[d].opens # 0 => call'[d].opens \in Phases
        /\ pc'[d] \in {"insertUnlock", "override"} => call'[d].phase \in Phases
    <3>1. call'[d] \in Call
      BY DEF TInv, TypeOK
    <3>2. call'[d].opens \in 0..PhaseCount
      BY <3>1 DEF Call
    <3>3. QED
      BY <3>2, ConstantTypes DEF TInv, CallTypes, Phases
  <2>3. Seen(call[d].before.status)' /\ Seen(call[d].snap)'
    BY <2>1, SeenClimbs DEF Seen
  <2>4. QED
    BY <2>1, <2>2, <2>3, ReachableClimbs DEF CallSaw, Reachable
<1>5. QED
  BY <1>1, <1>2, <1>3, <1>4 DEF LInv

LEMMA SameStatusClimbs == UNCHANGED status => Climbs
BY DEF Climbs

LEMMA OpeningClimbs ==
    ASSUME TInv, NEW q \in Phases, NEW x, x # "locked",
           status[q] # "locked" \/ Reachable(q),
           status' = [status EXCEPT ![q] = x]
    PROVE  Climbs
BY DEF Climbs, TInv, TypeOK

LEMMA UnseenSeen == Seen(NoCall.before.status) /\ Seen(NoCall.snap)
                    /\ NoCall.opens = 0
BY DEF Seen, NoCall, Unseen

LEMMA FetchedSeen == Seen(Fetched.status) /\ Seen(status)
BY DEF Seen, Fetched

LEMMA UnmarkNotes ==
    ASSUME LInv, NEW c \in Calls, Unmark(c)
    PROVE  Climbs /\ Notes(c)
<1>1. /\ TypeOK /\ CallTypes(c) /\ CallSaw(c) /\ call[c] \in Call
      /\ \A t \in Tabs : Seen(view[t].status)
  BY DEF LInv, TInv, TypeOK
<1>2. Climbs
  BY SameStatusClimbs DEF Unmark, rows
<1>3. \A d \in Calls \ {c} : pc'[d] = pc[d] /\ call'[d] = call[d]
  BY <1>1 DEF TypeOK, Unmark, Goto, Finishes
<1>4. \A t \in Tabs : Seen(view'[t].status)
  BY <1>1 DEF TypeOK, Unmark, rows, Finishes
<1>5. Seen(call'[c].before.status) /\ Seen(call'[c].snap)
  BY <1>1, UnseenSeen, FetchedSeen DEF TypeOK, CallSaw, Unmark, Call, Finishes
<1>6. call'[c].opens # 0 => Reachable(call'[c].opens)
  BY <1>1, UnseenSeen DEF TypeOK, CallSaw, Unmark, Call, Finishes
<1>7. pc'[c] \in {"insertUnlock", "override"} => Reachable(call'[c].phase)
  BY <1>1 DEF TypeOK, Unmark, Goto, Finishes
<1>8. \A r \in UnlockIds : unlocks'[r].pending => Reachable(unlocks'[r].phase)
  BY <1>1 DEF LInv, UnlocksOK, Unmark, rows, Finishes
<1>9. QED
  BY <1>2, <1>3, <1>4, <1>5, <1>6, <1>7, <1>8 DEF Notes

LEMMA ReadTaskNotes ==
    ASSUME LInv, NEW c \in Calls, ReadTask(c)
    PROVE  Climbs /\ Notes(c)
<1>1. /\ TypeOK /\ CallTypes(c) /\ CallSaw(c) /\ call[c] \in Call
      /\ \A t \in Tabs : Seen(view[t].status)
  BY DEF LInv, TInv, TypeOK
<1>2. Climbs
  BY SameStatusClimbs DEF ReadTask, rows
<1>3. \A d \in Calls \ {c} : pc'[d] = pc[d] /\ call'[d] = call[d]
  BY <1>1 DEF TypeOK, ReadTask, Goto, Refuse, PageGoesOn
<1>4. \A t \in Tabs : Seen(view'[t].status)
  <2>1. Seen(call[c].before.status)
    BY <1>1 DEF CallSaw
  <2>2. view' = view \/ view' = [view EXCEPT ![call[c].tab] = call[c].before]
    BY DEF ReadTask, Refuse
  <2>3. QED
    BY <1>1, <2>1, <2>2 DEF TypeOK
<1>5. Seen(call'[c].before.status) /\ Seen(call'[c].snap)
  BY <1>1, UnseenSeen, FetchedSeen DEF TypeOK, CallSaw, ReadTask, Call, Refuse, PageGoesOn
<1>6. call'[c].opens # 0 => Reachable(call'[c].opens)
  BY <1>1, UnseenSeen DEF TypeOK, CallSaw, ReadTask, Call, Refuse, PageGoesOn
<1>7. pc'[c] \in {"insertUnlock", "override"} => Reachable(call'[c].phase)
  BY <1>1 DEF TypeOK, ReadTask, Goto, Refuse, PageGoesOn
<1>8. \A r \in UnlockIds : unlocks'[r].pending => Reachable(unlocks'[r].phase)
  BY <1>1 DEF LInv, UnlocksOK, ReadTask, rows, Refuse, PageGoesOn
<1>9. QED
  BY <1>2, <1>3, <1>4, <1>5, <1>6, <1>7, <1>8 DEF Notes

LEMMA MarkNotes ==
    ASSUME LInv, NEW c \in Calls, Mark(c)
    PROVE  Climbs /\ Notes(c)
<1>1. /\ TypeOK /\ CallTypes(c) /\ CallSaw(c) /\ call[c] \in Call
      /\ \A t \in Tabs : Seen(view[t].status)
  BY DEF LInv, TInv, TypeOK
<1>2. Climbs
  BY SameStatusClimbs DEF Mark, rows
<1>3. \A d \in Calls \ {c} : pc'[d] = pc[d] /\ call'[d] = call[d]
  BY <1>1 DEF TypeOK, Mark, Goto
<1>4. \A t \in Tabs : Seen(view'[t].status)
  BY <1>1 DEF TypeOK, Mark, rows
<1>5. Seen(call'[c].before.status) /\ Seen(call'[c].snap)
  BY <1>1, UnseenSeen, FetchedSeen DEF TypeOK, CallSaw, Mark, Call
<1>6. call'[c].opens # 0 => Reachable(call'[c].opens)
  BY <1>1, UnseenSeen DEF TypeOK, CallSaw, Mark, Call
<1>7. pc'[c] \in {"insertUnlock", "override"} => Reachable(call'[c].phase)
  BY <1>1 DEF TypeOK, Mark, Goto
<1>8. \A r \in UnlockIds : unlocks'[r].pending => Reachable(unlocks'[r].phase)
  BY <1>1 DEF LInv, UnlocksOK, Mark, rows
<1>9. QED
  BY <1>2, <1>3, <1>4, <1>5, <1>6, <1>7, <1>8 DEF Notes

LEMMA EarnNotes ==
    ASSUME LInv, NEW c \in Calls, Earn(c)
    PROVE  Climbs /\ Notes(c)
<1>1. /\ TypeOK /\ CallTypes(c) /\ CallSaw(c) /\ call[c] \in Call
      /\ \A t \in Tabs : Seen(view[t].status)
  BY DEF LInv, TInv, TypeOK
<1>2. Climbs
  BY SameStatusClimbs DEF Earn, rows
<1>3. \A d \in Calls \ {c} : pc'[d] = pc[d] /\ call'[d] = call[d]
  BY <1>1 DEF TypeOK, Earn, Goto
<1>4. \A t \in Tabs : Seen(view'[t].status)
  BY <1>1 DEF TypeOK, Earn, rows
<1>5. Seen(call'[c].before.status) /\ Seen(call'[c].snap)
  BY <1>1, UnseenSeen, FetchedSeen DEF TypeOK, CallSaw, Earn, Call
<1>6. call'[c].opens # 0 => Reachable(call'[c].opens)
  BY <1>1, UnseenSeen DEF TypeOK, CallSaw, Earn, Call
<1>7. pc'[c] \in {"insertUnlock", "override"} => Reachable(call'[c].phase)
  BY <1>1 DEF TypeOK, Earn, Goto
<1>8. \A r \in UnlockIds : unlocks'[r].pending => Reachable(unlocks'[r].phase)
  BY <1>1 DEF LInv, UnlocksOK, Earn, rows
<1>9. QED
  BY <1>2, <1>3, <1>4, <1>5, <1>6, <1>7, <1>8 DEF Notes

LEMMA AwardNotes ==
    ASSUME LInv, NEW c \in Calls, Award(c)
    PROVE  Climbs /\ Notes(c)
<1>1. /\ TypeOK /\ CallTypes(c) /\ CallSaw(c) /\ call[c] \in Call
      /\ \A t \in Tabs : Seen(view[t].status)
  BY DEF LInv, TInv, TypeOK
<1>2. Climbs
  BY SameStatusClimbs DEF Award, rows
<1>3. \A d \in Calls \ {c} : pc'[d] = pc[d] /\ call'[d] = call[d]
  BY <1>1 DEF TypeOK, Award, Goto
<1>4. \A t \in Tabs : Seen(view'[t].status)
  BY <1>1 DEF TypeOK, Award, rows
<1>5. Seen(call'[c].before.status) /\ Seen(call'[c].snap)
  BY <1>1, UnseenSeen, FetchedSeen DEF TypeOK, CallSaw, Award, Call
<1>6. call'[c].opens # 0 => Reachable(call'[c].opens)
  BY <1>1, UnseenSeen DEF TypeOK, CallSaw, Award, Call
<1>7. pc'[c] \in {"insertUnlock", "override"} => Reachable(call'[c].phase)
  BY <1>1 DEF TypeOK, Award, Goto
<1>8. \A r \in UnlockIds : unlocks'[r].pending => Reachable(unlocks'[r].phase)
  BY <1>1 DEF LInv, UnlocksOK, Award, rows
<1>9. QED
  BY <1>2, <1>3, <1>4, <1>5, <1>6, <1>7, <1>8 DEF Notes

LEMMA ReadPhasesNotes ==
    ASSUME LInv, NEW c \in Calls, ReadPhases(c)
    PROVE  Climbs /\ Notes(c)
<1>1. /\ TypeOK /\ CallTypes(c) /\ CallSaw(c) /\ call[c] \in Call
      /\ \A t \in Tabs : Seen(view[t].status)
  BY DEF LInv, TInv, TypeOK
<1>2. Climbs
  BY SameStatusClimbs DEF ReadPhases, rows
<1>3. \A d \in Calls \ {c} : pc'[d] = pc[d] /\ call'[d] = call[d]
  BY <1>1 DEF TypeOK, ReadPhases, Goto, LoopAt
<1>4. \A t \in Tabs : Seen(view'[t].status)
  BY <1>1 DEF TypeOK, ReadPhases, rows, LoopAt
<1>5. Seen(call'[c].before.status) /\ Seen(call'[c].snap)
  BY <1>1, UnseenSeen, FetchedSeen DEF TypeOK, CallSaw, ReadPhases, Call, LoopAt
<1>6. call'[c].opens # 0 => Reachable(call'[c].opens)
  BY <1>1, UnseenSeen DEF TypeOK, CallSaw, ReadPhases, Call, LoopAt
<1>7. pc'[c] \in {"insertUnlock", "override"} => Reachable(call'[c].phase)
  BY <1>1 DEF TypeOK, ReadPhases, Goto, LoopAt
<1>8. \A r \in UnlockIds : unlocks'[r].pending => Reachable(unlocks'[r].phase)
  BY <1>1 DEF LInv, UnlocksOK, ReadPhases, rows, LoopAt
<1>9. QED
  BY <1>2, <1>3, <1>4, <1>5, <1>6, <1>7, <1>8 DEF Notes

LEMMA ReadTasksNotes ==
    ASSUME LInv, NEW c \in Calls, ReadTasks(c)
    PROVE  Climbs /\ Notes(c)
<1>1. /\ TypeOK /\ CallTypes(c) /\ CallSaw(c) /\ call[c] \in Call
      /\ \A t \in Tabs : Seen(view[t].status)
  BY DEF LInv, TInv, TypeOK
<1>2. Climbs
  BY SameStatusClimbs DEF ReadTasks, rows
<1>3. \A d \in Calls \ {c} : pc'[d] = pc[d] /\ call'[d] = call[d]
  BY <1>1 DEF TypeOK, ReadTasks, Goto, LoopAt
<1>4. \A t \in Tabs : Seen(view'[t].status)
  BY <1>1 DEF TypeOK, ReadTasks, rows, LoopAt
<1>5. Seen(call'[c].before.status) /\ Seen(call'[c].snap)
  <2>1. call'[c].before = call[c].before /\ call'[c].snap = call[c].snap
    BY <1>1 DEF TypeOK, ReadTasks, Call
  <2>2. QED
    BY <1>1, <2>1 DEF CallSaw
<1>6. call'[c].opens # 0 => Reachable(call'[c].opens)
  BY <1>1, UnseenSeen DEF TypeOK, CallSaw, ReadTasks, Call, LoopAt
<1>7. pc'[c] \in {"insertUnlock", "override"} => Reachable(call'[c].phase)
  BY <1>1 DEF TypeOK, ReadTasks, Goto, LoopAt
<1>8. \A r \in UnlockIds : unlocks'[r].pending => Reachable(unlocks'[r].phase)
  BY <1>1 DEF LInv, UnlocksOK, ReadTasks, rows, LoopAt
<1>9. QED
  BY <1>2, <1>3, <1>4, <1>5, <1>6, <1>7, <1>8 DEF Notes

LEMMA CountDoneNotes ==
    ASSUME LInv, NEW c \in Calls, CountDone(c)
    PROVE  Climbs /\ Notes(c)
<1>1. /\ TypeOK /\ CallTypes(c) /\ CallSaw(c) /\ call[c] \in Call
      /\ \A t \in Tabs : Seen(view[t].status)
  BY DEF LInv, TInv, TypeOK
<1>2. Climbs
  BY SameStatusClimbs DEF CountDone, rows
<1>3. \A d \in Calls \ {c} : pc'[d] = pc[d] /\ call'[d] = call[d]
  BY <1>1 DEF TypeOK, CountDone, Goto
<1>4. \A t \in Tabs : Seen(view'[t].status)
  BY <1>1 DEF TypeOK, CountDone, rows
<1>5. Seen(call'[c].before.status) /\ Seen(call'[c].snap)
  BY <1>1, UnseenSeen, FetchedSeen DEF TypeOK, CallSaw, CountDone, Call
<1>6. call'[c].opens # 0 => Reachable(call'[c].opens)
  BY <1>1, UnseenSeen DEF TypeOK, CallSaw, CountDone, Call
<1>7. pc'[c] \in {"insertUnlock", "override"} => Reachable(call'[c].phase)
  BY <1>1 DEF TypeOK, CountDone, Goto
<1>8. \A r \in UnlockIds : unlocks'[r].pending => Reachable(unlocks'[r].phase)
  BY <1>1 DEF LInv, UnlocksOK, CountDone, rows
<1>9. QED
  BY <1>2, <1>3, <1>4, <1>5, <1>6, <1>7, <1>8 DEF Notes

LEMMA AnswerNotes ==
    ASSUME LInv, NEW c \in Calls, Answer(c)
    PROVE  Climbs /\ Notes(c)
<1>1. /\ TypeOK /\ CallTypes(c) /\ CallSaw(c) /\ call[c] \in Call
      /\ \A t \in Tabs : Seen(view[t].status)
  BY DEF LInv, TInv, TypeOK
<1>2. Climbs
  BY SameStatusClimbs DEF Answer, rows
<1>3. \A d \in Calls \ {c} : pc'[d] = pc[d] /\ call'[d] = call[d]
  BY <1>1 DEF TypeOK, Answer, Goto, PageGoesOn
<1>4. \A t \in Tabs : Seen(view'[t].status)
  BY <1>1 DEF TypeOK, Answer, rows, PageGoesOn
<1>5. Seen(call'[c].before.status) /\ Seen(call'[c].snap)
  BY <1>1, UnseenSeen, FetchedSeen DEF TypeOK, CallSaw, Answer, Call, PageGoesOn
<1>6. call'[c].opens # 0 => Reachable(call'[c].opens)
  BY <1>1, UnseenSeen DEF TypeOK, CallSaw, Answer, Call, PageGoesOn
<1>7. pc'[c] \in {"insertUnlock", "override"} => Reachable(call'[c].phase)
  BY <1>1 DEF TypeOK, Answer, Goto, PageGoesOn
<1>8. \A r \in UnlockIds : unlocks'[r].pending => Reachable(unlocks'[r].phase)
  BY <1>1 DEF LInv, UnlocksOK, Answer, rows, PageGoesOn
<1>9. QED
  BY <1>2, <1>3, <1>4, <1>5, <1>6, <1>7, <1>8 DEF Notes

LEMMA ClosePhaseNotes ==
    ASSUME LInv, NEW c \in Calls, ClosePhase(c)
    PROVE  Climbs /\ Notes(c)
<1>1. /\ TypeOK /\ CallTypes(c) /\ CallSaw(c) /\ call[c] \in Call
      /\ \A t \in Tabs : Seen(view[t].status)
  BY DEF LInv, TInv, TypeOK
<1>2. Climbs
  BY SameStatusClimbs DEF ClosePhase, rows
<1>3. \A d \in Calls \ {c} : pc'[d] = pc[d] /\ call'[d] = call[d]
  BY <1>1 DEF TypeOK, ClosePhase, Goto, Finishes
<1>4. \A t \in Tabs : Seen(view'[t].status)
  BY <1>1 DEF TypeOK, ClosePhase, rows, Finishes
<1>5. Seen(call'[c].before.status) /\ Seen(call'[c].snap)
  BY <1>1, UnseenSeen, FetchedSeen DEF TypeOK, CallSaw, ClosePhase, Call, Finishes
<1>6. call'[c].opens # 0 => Reachable(call'[c].opens)
  BY <1>1, UnseenSeen DEF TypeOK, CallSaw, ClosePhase, Call, Finishes
<1>7. pc'[c] \in {"insertUnlock", "override"} => Reachable(call'[c].phase)
  BY <1>1 DEF TypeOK, ClosePhase, Goto, Finishes
<1>8. \A r \in UnlockIds : unlocks'[r].pending => Reachable(unlocks'[r].phase)
  BY <1>1 DEF LInv, UnlocksOK, ClosePhase, rows, Finishes
<1>9. QED
  BY <1>2, <1>3, <1>4, <1>5, <1>6, <1>7, <1>8 DEF Notes

LEMMA CompletePhaseNotes ==
    ASSUME LInv, NEW c \in Calls, CompletePhase(c)
    PROVE  Climbs /\ Notes(c)
<1>1. /\ TypeOK /\ CallTypes(c) /\ CallSaw(c) /\ call[c] \in Call
      /\ \A t \in Tabs : Seen(view[t].status)
  BY DEF LInv, TInv, TypeOK
<1>2. Climbs
  <2>1. /\ call[c].phase \in Phases /\ call[c].phase + 1 \in Phases
        /\ (call[c].phase + 1) - 1 = call[c].phase
    <3>1. call[c].phase \in Phases /\ call[c].phase + 1 \in Phases
      BY NextPhase DEF LInv, LoopLabels, CompletePhase
    <3>2. QED
      BY <3>1, ConstantTypes DEF Phases
  <2>2. call[c].snap[call[c].phase] # "locked"
    BY <1>1 DEF CallTypes, LoopGoesOn, LoopLabels, CompletePhase
  <2>3. status[call[c].phase] # "locked"
    BY <1>1, <2>1, <2>2 DEF CallSaw, Seen
  <2>4. CASE UNCHANGED status
    BY <2>4, SameStatusClimbs
  <2>5. CASE status' = [status EXCEPT ![call[c].phase] = "completed"]
    BY <2>1, <2>3, <2>5, OpeningClimbs DEF LInv
  <2>6. QED
    BY <2>4, <2>5 DEF CompletePhase
<1>3. \A d \in Calls \ {c} : pc'[d] = pc[d] /\ call'[d] = call[d]
  BY <1>1 DEF TypeOK, CompletePhase, Goto, LoopAt
<1>4. \A t \in Tabs : Seen(view'[t].status)
  BY <1>1 DEF TypeOK, CompletePhase, rows, LoopAt
<1>5. Seen(call'[c].before.status) /\ Seen(call'[c].snap)
  <2>1. call'[c].before = call[c].before /\ call'[c].snap = call[c].snap
    BY <1>1 DEF TypeOK, CompletePhase, Call
  <2>2. QED
    BY <1>1, <2>1 DEF CallSaw
<1>6. call'[c].opens # 0 => Reachable(call'[c].opens)
  BY <1>1, UnseenSeen DEF TypeOK, CallSaw, CompletePhase, Call, LoopAt
<1>7. pc'[c] \in {"insertUnlock", "override"} => Reachable(call'[c].phase)
  BY <1>1 DEF TypeOK, CompletePhase, Goto, LoopAt
<1>8. \A r \in UnlockIds : unlocks'[r].pending => Reachable(unlocks'[r].phase)
  BY <1>1 DEF LInv, UnlocksOK, CompletePhase, rows, LoopAt
<1>9. QED
  BY <1>2, <1>3, <1>4, <1>5, <1>6, <1>7, <1>8 DEF Notes

LEMMA UnlockNextNotes ==
    ASSUME LInv, NEW c \in Calls, UnlockNext(c)
    PROVE  Climbs /\ Notes(c)
<1>1. /\ TypeOK /\ CallTypes(c) /\ CallSaw(c) /\ call[c] \in Call
      /\ \A t \in Tabs : Seen(view[t].status)
  BY DEF LInv, TInv, TypeOK
<1>2. Climbs
  <2>1. /\ call[c].phase \in Phases /\ call[c].phase + 1 \in Phases
        /\ (call[c].phase + 1) - 1 = call[c].phase
    <3>1. call[c].phase \in Phases /\ call[c].phase + 1 \in Phases
      BY NextPhase DEF LInv, LoopLabels, UnlockNext
    <3>2. QED
      BY <3>1, ConstantTypes DEF Phases
  <2>2. call[c].snap[call[c].phase] # "locked"
    BY <1>1 DEF CallTypes, LoopGoesOn, LoopLabels, UnlockNext
  <2>3. status[call[c].phase] # "locked"
    BY <1>1, <2>1, <2>2 DEF CallSaw, Seen
  <2>4. Reachable(call[c].phase + 1)
    BY <2>1, <2>3 DEF Reachable
  <2>5. CASE UNCHANGED status
    BY <2>5, SameStatusClimbs
  <2>6. CASE status' = [status EXCEPT ![call[c].phase + 1] = "active"]
    BY <2>1, <2>4, <2>6, OpeningClimbs DEF LInv
  <2>7. QED
    BY <2>5, <2>6 DEF UnlockNext
<1>3. \A d \in Calls \ {c} : pc'[d] = pc[d] /\ call'[d] = call[d]
  BY <1>1 DEF TypeOK, UnlockNext, Goto, LoopAt
<1>4. \A t \in Tabs : Seen(view'[t].status)
  BY <1>1 DEF TypeOK, UnlockNext, rows, LoopAt
<1>5. Seen(call'[c].before.status) /\ Seen(call'[c].snap)
  BY <1>1, UnseenSeen, FetchedSeen DEF TypeOK, CallSaw, UnlockNext, Call, LoopAt
<1>6. call'[c].opens # 0 => Reachable(call'[c].opens)
  BY <1>1, UnseenSeen DEF TypeOK, CallSaw, UnlockNext, Call, LoopAt
<1>7. pc'[c] \in {"insertUnlock", "override"} => Reachable(call'[c].phase)
  BY <1>1 DEF TypeOK, UnlockNext, Goto, LoopAt
<1>8. \A r \in UnlockIds : unlocks'[r].pending => Reachable(unlocks'[r].phase)
  BY <1>1 DEF LInv, UnlocksOK, UnlockNext, rows, LoopAt
<1>9. QED
  BY <1>2, <1>3, <1>4, <1>5, <1>6, <1>7, <1>8 DEF Notes

LEMMA OpenNextNotes ==
    ASSUME LInv, NEW c \in Calls, OpenNext(c)
    PROVE  Climbs /\ Notes(c)
<1>1. /\ TypeOK /\ CallTypes(c) /\ CallSaw(c) /\ call[c] \in Call
      /\ \A t \in Tabs : Seen(view[t].status)
  BY DEF LInv, TInv, TypeOK
<1>2. Climbs
  <2>1. call[c].opens \in Phases /\ call[c].opens # 0
    BY <1>1, ConstantTypes DEF CallTypes, OpenNext, Phases
  <2>2. Reachable(call[c].opens)
    BY <1>1, <2>1 DEF CallSaw
  <2>3. CASE UNCHANGED status
    BY <2>3, SameStatusClimbs
  <2>4. CASE status' = [status EXCEPT ![call[c].opens] = "active"]
    BY <2>1, <2>2, <2>4, OpeningClimbs DEF LInv
  <2>5. QED
    BY <2>3, <2>4 DEF OpenNext
<1>3. \A d \in Calls \ {c} : pc'[d] = pc[d] /\ call'[d] = call[d]
  BY <1>1 DEF TypeOK, OpenNext, Goto, Finishes
<1>4. \A t \in Tabs : Seen(view'[t].status)
  BY <1>1 DEF TypeOK, OpenNext, rows, Finishes
<1>5. Seen(call'[c].before.status) /\ Seen(call'[c].snap)
  BY <1>1, UnseenSeen, FetchedSeen DEF TypeOK, CallSaw, OpenNext, Call, Finishes
<1>6. call'[c].opens # 0 => Reachable(call'[c].opens)
  BY <1>1, UnseenSeen DEF TypeOK, CallSaw, OpenNext, Call, Finishes
<1>7. pc'[c] \in {"insertUnlock", "override"} => Reachable(call'[c].phase)
  BY <1>1 DEF TypeOK, OpenNext, Goto, Finishes
<1>8. \A r \in UnlockIds : unlocks'[r].pending => Reachable(unlocks'[r].phase)
  BY <1>1 DEF LInv, UnlocksOK, OpenNext, rows, Finishes
<1>9. QED
  BY <1>2, <1>3, <1>4, <1>5, <1>6, <1>7, <1>8 DEF Notes

LEMMA ClickNotes ==
    ASSUME LInv, NEW c \in Calls, NEW t \in Tabs, NEW k \in Tasks, Click(c, t, k)
    PROVE  Climbs /\ Notes(c)
<1>1. /\ TypeOK /\ CallTypes(c) /\ CallSaw(c) /\ call[c] \in Call
      /\ \A u \in Tabs : Seen(view[u].status)
  BY DEF LInv, TInv, TypeOK
<1>2. Climbs
  BY SameStatusClimbs DEF Click, rows
<1>3. \A d \in Calls \ {c} : pc'[d] = pc[d] /\ call'[d] = call[d]
  BY <1>1 DEF TypeOK, Click, Goto
<1>4. \A u \in Tabs : Seen(view'[u].status)
  <2>1. view[t] \in View
    BY <1>1 DEF TypeOK
  <2>2. \E x \in SUBSET Tasks : view' = [view EXCEPT ![t].done = x]
    BY <2>1 DEF Click, View
  <2>3. QED
    BY <1>1, <2>1, <2>2 DEF TypeOK, View
<1>5. Seen(call'[c].before.status) /\ Seen(call'[c].snap)
  <2> DEFINE unmark == [NoCall EXCEPT !.tab = t, !.task = k]
             mark == [NoCall EXCEPT !.tab = t, !.task = k, !.before = view[t],
                                    !.closes = Closes(view[t], k),
                                    !.opens = Opens(view[t], k)]
  <2>1. /\ Seen(unmark.before.status) /\ Seen(unmark.snap)
        /\ Seen(mark.before.status) /\ Seen(mark.snap)
    BY <1>1, UnseenSeen DEF NoCall
  <2>2. \E x \in {unmark, mark} : call' = [call EXCEPT ![c] = x]
    BY DEF Click
  <2> HIDE DEF unmark, mark
  <2>3. QED
    BY <1>1, <2>1, <2>2 DEF TypeOK
<1>6. call'[c].opens # 0 => Reachable(call'[c].opens)
  <2> DEFINE unmark == [NoCall EXCEPT !.tab = t, !.task = k]
             mark == [NoCall EXCEPT !.tab = t, !.task = k, !.before = view[t],
                                    !.closes = Closes(view[t], k),
                                    !.opens = Opens(view[t], k)]
  <2>1. unmark.opens = 0 /\ mark.opens = Opens(view[t], k)
    BY DEF NoCall
  <2>2. \E x \in {unmark, mark} : call' = [call EXCEPT ![c] = x]
    BY DEF Click
  <2> HIDE DEF unmark, mark
  <2>3. Opens(view[t], k) # 0 => Reachable(Opens(view[t], k))
    <3>1. k[1] \in Phases /\ (k[1] + 1) - 1 = k[1]
      BY TaskFacts, ConstantTypes DEF Phases
    <3>2. view[t].status[k[1]] = "active" \/ k[1] = 1
      BY DEF Click, Shown
    <3>3. status[k[1]] # "locked"
      BY <1>1, <3>1, <3>2 DEF LInv, Seen
    <3>4. QED
      BY <3>1, <3>3 DEF Opens, Reachable
  <2>4. QED
    BY <1>1, <2>1, <2>2, <2>3 DEF TypeOK
<1>7. pc'[c] \in {"insertUnlock", "override"} => Reachable(call'[c].phase)
  BY <1>1 DEF TypeOK, Click, Goto
<1>8. \A r \in UnlockIds : unlocks'[r].pending => Reachable(unlocks'[r].phase)
  BY <1>1 DEF LInv, UnlocksOK, Click, rows
<1>9. QED
  BY <1>2, <1>3, <1>4, <1>5, <1>6, <1>7, <1>8 DEF Notes

LEMMA AskUnlockNotes ==
    ASSUME LInv, NEW c \in Calls, AskUnlock(c)
    PROVE  Climbs /\ Notes(c)
<1>1. /\ TypeOK /\ CallTypes(c) /\ CallSaw(c) /\ call[c] \in Call
      /\ \A t \in Tabs : Seen(view[t].status)
  BY DEF LInv, TInv, TypeOK
<1>2. Climbs
  BY SameStatusClimbs DEF AskUnlock, rows
<1>3. \A d \in Calls \ {c} : pc'[d] = pc[d] /\ call'[d] = call[d]
  BY <1>1 DEF TypeOK, AskUnlock, Goto
<1>4. \A t \in Tabs : Seen(view'[t].status)
  BY <1>1 DEF TypeOK, AskUnlock, rows
<1>5. Seen(call'[c].before.status) /\ Seen(call'[c].snap)
  BY <1>1, UnseenSeen, FetchedSeen DEF TypeOK, CallSaw, AskUnlock, Call
<1>6. call'[c].opens # 0 => Reachable(call'[c].opens)
  BY <1>1, UnseenSeen DEF TypeOK, CallSaw, AskUnlock, Call
<1>7. pc'[c] \in {"insertUnlock", "override"} => Reachable(call'[c].phase)
  BY <1>1 DEF TypeOK, AskUnlock, Goto
<1>8. \A r \in UnlockIds : unlocks'[r].pending => Reachable(unlocks'[r].phase)
  BY <1>1 DEF LInv, UnlocksOK, AskUnlock, rows
<1>9. QED
  BY <1>2, <1>3, <1>4, <1>5, <1>6, <1>7, <1>8 DEF Notes

LEMMA FindLockedNotes ==
    ASSUME LInv, NEW c \in Calls, FindLocked(c)
    PROVE  Climbs /\ Notes(c)
<1>1. /\ TypeOK /\ CallTypes(c) /\ CallSaw(c) /\ call[c] \in Call
      /\ \A t \in Tabs : Seen(view[t].status)
  BY DEF LInv, TInv, TypeOK
<1>2. Climbs
  BY SameStatusClimbs DEF FindLocked, rows
<1>3. \A d \in Calls \ {c} : pc'[d] = pc[d] /\ call'[d] = call[d]
  BY <1>1 DEF TypeOK, FindLocked, Goto, Finishes
<1>4. \A t \in Tabs : Seen(view'[t].status)
  BY <1>1 DEF TypeOK, FindLocked, rows, Finishes
<1>5. Seen(call'[c].before.status) /\ Seen(call'[c].snap)
  <2>1. CASE Finishes(c)
    BY <1>1, <2>1, UnseenSeen DEF TypeOK, Finishes
  <2>2. ASSUME NEW p \in Phases, call' = [call EXCEPT ![c].phase = p]
        PROVE  Seen(call'[c].before.status) /\ Seen(call'[c].snap)
    <3>1. call'[c].before = call[c].before /\ call'[c].snap = call[c].snap
      BY <1>1, <2>2 DEF TypeOK, Call
    <3>2. QED
      BY <1>1, <3>1 DEF CallSaw
  <2>3. QED
    BY <2>1, <2>2 DEF FindLocked
<1>6. call'[c].opens # 0 => Reachable(call'[c].opens)
  BY <1>1, UnseenSeen DEF TypeOK, CallSaw, FindLocked, Call, Finishes
<1>7. pc'[c] \in {"insertUnlock", "override"} => Reachable(call'[c].phase)
  <2>1. CASE Finishes(c)
    BY <1>1, <2>1 DEF Finishes, Goto, TypeOK
  <2>2. ASSUME NEW p \in Phases, FirstLocked(p), call' = [call EXCEPT ![c].phase = p]
        PROVE  Reachable(call'[c].phase)
    <3>1. call'[c].phase = p
      BY <1>1, <2>2 DEF TypeOK, Call
    <3>2. p # 1 => p - 1 \in 1..(p - 1)
      BY ConstantTypes DEF Phases
    <3>3. QED
      BY <2>2, <3>1, <3>2 DEF FirstLocked, Reachable
  <2>3. QED
    BY <2>1, <2>2 DEF FindLocked
<1>8. \A r \in UnlockIds : unlocks'[r].pending => Reachable(unlocks'[r].phase)
  BY <1>1 DEF LInv, UnlocksOK, FindLocked, rows, Finishes
<1>9. QED
  BY <1>2, <1>3, <1>4, <1>5, <1>6, <1>7, <1>8 DEF Notes

LEMMA InsertUnlockNotes ==
    ASSUME LInv, NEW c \in Calls, InsertUnlock(c)
    PROVE  Climbs /\ Notes(c)
<1>1. /\ TypeOK /\ CallTypes(c) /\ CallSaw(c) /\ call[c] \in Call
      /\ \A t \in Tabs : Seen(view[t].status)
  BY DEF LInv, TInv, TypeOK
<1>2. Climbs
  BY SameStatusClimbs DEF InsertUnlock, rows
<1>3. \A d \in Calls \ {c} : pc'[d] = pc[d] /\ call'[d] = call[d]
  BY <1>1 DEF TypeOK, InsertUnlock, Goto, Finishes
<1>4. \A t \in Tabs : Seen(view'[t].status)
  BY <1>1 DEF TypeOK, InsertUnlock, rows, Finishes
<1>5. Seen(call'[c].before.status) /\ Seen(call'[c].snap)
  BY <1>1, UnseenSeen, FetchedSeen DEF TypeOK, CallSaw, InsertUnlock, Call, Finishes
<1>6. call'[c].opens # 0 => Reachable(call'[c].opens)
  BY <1>1, UnseenSeen DEF TypeOK, CallSaw, InsertUnlock, Call, Finishes
<1>7. pc'[c] \in {"insertUnlock", "override"} => Reachable(call'[c].phase)
  BY <1>1 DEF TypeOK, InsertUnlock, Goto, Finishes
<1>8. \A r \in UnlockIds : unlocks'[r].pending => Reachable(unlocks'[r].phase)
  <2>1. Reachable(call[c].phase)
    BY <1>1 DEF CallSaw, InsertUnlock
  <2>2. CASE UNCHANGED unlocks
    BY <2>2 DEF LInv, UnlocksOK
  <2>3. CASE unlocks' = [unlocks EXCEPT ![asked + 1] =
                            [phase |-> call[c].phase, pending |-> TRUE]]
    BY <1>1, <2>1, <2>3 DEF LInv, UnlocksOK, TypeOK
  <2>4. QED
    BY <2>2, <2>3 DEF InsertUnlock
<1>9. QED
  BY <1>2, <1>3, <1>4, <1>5, <1>6, <1>7, <1>8 DEF Notes

LEMMA ApproveNotes ==
    ASSUME LInv, NEW c \in Calls, NEW r \in UnlockIds, Approve(c, r)
    PROVE  Climbs /\ Notes(c)
<1>1. /\ TypeOK /\ CallTypes(c) /\ CallSaw(c) /\ call[c] \in Call
      /\ \A t \in Tabs : Seen(view[t].status)
  BY DEF LInv, TInv, TypeOK
<1>2. Climbs
  BY SameStatusClimbs DEF Approve, rows
<1>3. \A d \in Calls \ {c} : pc'[d] = pc[d] /\ call'[d] = call[d]
  BY <1>1 DEF TypeOK, Approve, Goto
<1>4. \A t \in Tabs : Seen(view'[t].status)
  BY <1>1 DEF TypeOK, Approve, rows
<1>5. Seen(call'[c].before.status) /\ Seen(call'[c].snap)
  BY <1>1, UnseenSeen, FetchedSeen DEF TypeOK, CallSaw, Approve, Call
<1>6. call'[c].opens # 0 => Reachable(call'[c].opens)
  BY <1>1, UnseenSeen DEF TypeOK, CallSaw, Approve, Call
<1>7. pc'[c] \in {"insertUnlock", "override"} => Reachable(call'[c].phase)
  <2>1. call'[c].phase = unlocks[r].phase
    BY <1>1 DEF TypeOK, Approve, Call
  <2>2. QED
    BY <2>1 DEF LInv, UnlocksOK, Approve
<1>8. \A q \in UnlockIds : unlocks'[q].pending => Reachable(unlocks'[q].phase)
  BY <1>1 DEF LInv, UnlocksOK, Approve, rows
<1>9. QED
  BY <1>2, <1>3, <1>4, <1>5, <1>6, <1>7, <1>8 DEF Notes

LEMMA OverrideNotes ==
    ASSUME LInv, NEW c \in Calls, Override(c)
    PROVE  Climbs /\ Notes(c)
<1>1. /\ TypeOK /\ CallTypes(c) /\ CallSaw(c) /\ call[c] \in Call
      /\ \A t \in Tabs : Seen(view[t].status)
  BY DEF LInv, TInv, TypeOK
<1>2. Climbs
  <2>1. call[c].phase \in Phases /\ Reachable(call[c].phase)
    BY <1>1 DEF CallTypes, CallSaw, Override
  <2>2. CASE UNCHANGED status
    BY <2>2, SameStatusClimbs
  <2>3. CASE status' = [status EXCEPT ![call[c].phase] = "override_unlocked"]
    BY <2>1, <2>3, OpeningClimbs DEF LInv
  <2>4. QED
    BY <2>2, <2>3 DEF Override
<1>3. \A d \in Calls \ {c} : pc'[d] = pc[d] /\ call'[d] = call[d]
  BY <1>1 DEF TypeOK, Override, Goto
<1>4. \A t \in Tabs : Seen(view'[t].status)
  BY <1>1 DEF TypeOK, Override, rows
<1>5. Seen(call'[c].before.status) /\ Seen(call'[c].snap)
  BY <1>1, UnseenSeen, FetchedSeen DEF TypeOK, CallSaw, Override, Call
<1>6. call'[c].opens # 0 => Reachable(call'[c].opens)
  BY <1>1, UnseenSeen DEF TypeOK, CallSaw, Override, Call
<1>7. pc'[c] \in {"insertUnlock", "override"} => Reachable(call'[c].phase)
  BY <1>1 DEF TypeOK, Override, Goto
<1>8. \A r \in UnlockIds : unlocks'[r].pending => Reachable(unlocks'[r].phase)
  BY <1>1 DEF LInv, UnlocksOK, Override, rows
<1>9. QED
  BY <1>2, <1>3, <1>4, <1>5, <1>6, <1>7, <1>8 DEF Notes

LEMMA MarkApprovedNotes ==
    ASSUME LInv, NEW c \in Calls, MarkApproved(c)
    PROVE  Climbs /\ Notes(c)
<1>1. /\ TypeOK /\ CallTypes(c) /\ CallSaw(c) /\ call[c] \in Call
      /\ \A t \in Tabs : Seen(view[t].status)
  BY DEF LInv, TInv, TypeOK
<1>2. Climbs
  BY SameStatusClimbs DEF MarkApproved, rows
<1>3. \A d \in Calls \ {c} : pc'[d] = pc[d] /\ call'[d] = call[d]
  BY <1>1 DEF TypeOK, MarkApproved, Goto, Finishes
<1>4. \A t \in Tabs : Seen(view'[t].status)
  BY <1>1 DEF TypeOK, MarkApproved, rows, Finishes
<1>5. Seen(call'[c].before.status) /\ Seen(call'[c].snap)
  BY <1>1, UnseenSeen, FetchedSeen DEF TypeOK, CallSaw, MarkApproved, Call, Finishes
<1>6. call'[c].opens # 0 => Reachable(call'[c].opens)
  BY <1>1, UnseenSeen DEF TypeOK, CallSaw, MarkApproved, Call, Finishes
<1>7. pc'[c] \in {"insertUnlock", "override"} => Reachable(call'[c].phase)
  BY <1>1 DEF TypeOK, MarkApproved, Goto, Finishes
<1>8. \A r \in UnlockIds : unlocks'[r].pending => Reachable(unlocks'[r].phase)
  <2>1. \A r \in UnlockIds : unlocks'[r].phase = unlocks[r].phase
    BY <1>1 DEF TypeOK, MarkApproved
  <2>2. \A r \in UnlockIds : unlocks'[r].pending => unlocks[r].pending
    BY <1>1 DEF TypeOK, MarkApproved
  <2>3. QED
    <3> SUFFICES ASSUME NEW r \in UnlockIds, unlocks'[r].pending
                 PROVE  Reachable(unlocks'[r].phase)
      OBVIOUS
    <3>1. unlocks[r].pending
      BY <2>2, Zenon
    <3>2. unlocks'[r].phase = unlocks[r].phase
      BY <2>1
    <3>3. UnlocksOK
      BY DEF LInv
    <3>4. Reachable(unlocks[r].phase)
      BY <3>1, <3>3 DEF UnlocksOK
    <3>5. QED
      BY <3>2, <3>4
<1>9. QED
  BY <1>2, <1>3, <1>4, <1>5, <1>6, <1>7, <1>8 DEF Notes

LEMMA DiesNotes ==
    ASSUME LInv, NEW c \in Calls, Dies(c)
    PROVE  Climbs /\ Notes(c)
<1>1. /\ TypeOK /\ CallTypes(c) /\ CallSaw(c) /\ call[c] \in Call
      /\ \A t \in Tabs : Seen(view[t].status)
  BY DEF LInv, TInv, TypeOK
<1>2. Climbs
  BY SameStatusClimbs DEF Dies, rows
<1>3. \A d \in Calls \ {c} : pc'[d] = pc[d] /\ call'[d] = call[d]
  BY <1>1 DEF TypeOK, Dies, Goto, Refuse, PageGoesOn
<1>4. \A t \in Tabs : Seen(view'[t].status)
  <2>1. Seen(call[c].before.status)
    BY <1>1 DEF CallSaw
  <2>2. view' = view \/ view' = [view EXCEPT ![call[c].tab] = call[c].before]
    BY DEF Dies, Refuse
  <2>3. QED
    BY <1>1, <2>1, <2>2 DEF TypeOK
<1>5. Seen(call'[c].before.status) /\ Seen(call'[c].snap)
  BY <1>1, UnseenSeen, FetchedSeen DEF TypeOK, CallSaw, Dies, Call, Refuse, PageGoesOn
<1>6. call'[c].opens # 0 => Reachable(call'[c].opens)
  BY <1>1, UnseenSeen DEF TypeOK, CallSaw, Dies, Call, Refuse, PageGoesOn
<1>7. pc'[c] \in {"insertUnlock", "override"} => Reachable(call'[c].phase)
  BY <1>1 DEF TypeOK, Dies, Goto, Refuse, PageGoesOn
<1>8. \A r \in UnlockIds : unlocks'[r].pending => Reachable(unlocks'[r].phase)
  BY <1>1 DEF LInv, UnlocksOK, Dies, rows, Refuse, PageGoesOn
<1>9. QED
  BY <1>2, <1>3, <1>4, <1>5, <1>6, <1>7, <1>8 DEF Notes

LEMMA LadderInit == Init => LInv
<1> SUFFICES ASSUME Init PROVE LInv
  OBVIOUS
<1>1. TInv
  BY TypeInit
<1>2. status[1] # "locked"
  BY OneIsPhase DEF Init
<1>3. Ladder
  <2> SUFFICES ASSUME NEW p \in 1..(PhaseCount - 1) PROVE status[p + 1] = "locked"
    BY DEF Ladder
  <2>1. p + 1 \in Phases /\ p + 1 # 1
    BY ConstantTypes DEF Phases
  <2>2. QED
    BY <2>1 DEF Init
<1>4. \A t \in Tabs : Seen(view[t].status)
  BY FetchedSeen DEF Init
<1>5. UnlocksOK
  BY DEF Init, UnlocksOK
<1>6. \A c \in Calls : CallSaw(c)
  BY UnseenSeen DEF Init, CallSaw
<1>7. QED
  BY <1>1, <1>2, <1>3, <1>4, <1>5, <1>6 DEF LInv

LEMMA CloseTabLadder ==
    ASSUME LInv, TInv', NEW t \in Tabs, CloseTab(t)
    PROVE  LInv'
<1>1. TypeOK /\ \A c \in Calls : call[c] \in Call /\ CallSaw(c)
  BY DEF LInv, TInv, TypeOK
<1>2. UNCHANGED <<status, unlocks>>
  BY DEF CloseTab, rows
<1>3. \A s \in Tabs : Seen(view'[s].status)
  BY <1>1, FetchedSeen DEF LInv, TypeOK, CloseTab
<1>4. ASSUME NEW c \in Calls PROVE CallSaw(c)'
  <2>1. CASE call'[c] = call[c] /\ pc'[c] = pc[c]
    BY <1>1, <1>2, <2>1 DEF CallSaw, Seen, Reachable
  <2>2. CASE call'[c] = NoCall /\ pc'[c] = "idle"
    BY <1>2, <2>2, UnseenSeen DEF CallSaw, Seen
  <2>3. CASE call'[c] = [call[c] EXCEPT !.tab = 0] /\ pc'[c] = pc[c]
    <3>1. /\ call'[c].before = call[c].before /\ call'[c].snap = call[c].snap
          /\ call'[c].opens = call[c].opens /\ call'[c].phase = call[c].phase
      BY <1>1, <2>3 DEF Call
    <3>2. QED
      BY <1>1, <1>2, <2>3, <3>1 DEF CallSaw, Seen, Reachable
  <2>4. QED
    BY <2>1, <2>2, <2>3 DEF CloseTab
<1>5. QED
  BY <1>2, <1>3, <1>4 DEF LInv, Ladder, Seen, UnlocksOK, Reachable

LEMMA RefetchLadder ==
    ASSUME LInv, TInv', NEW t \in Tabs, Refetch(t)
    PROVE  LInv'
<1>1. UNCHANGED <<status, unlocks, pc, call>>
  BY DEF Refetch, rows
<1>2. \A s \in Tabs : Seen(view'[s].status)
  BY FetchedSeen DEF LInv, TInv, TypeOK, Refetch
<1>3. QED
  BY <1>1, <1>2 DEF LInv, Ladder, Seen, UnlocksOK, Reachable, CallSaw

LEMMA LadderStep == LInv /\ [Next]_vars => LInv'
<1> SUFFICES ASSUME LInv, [Next]_vars PROVE LInv'
  OBVIOUS
<1>1. TInv'
  BY TypeStep DEF LInv
<1>2. ASSUME NEW c \in Calls, Step(c) PROVE Climbs /\ Notes(c)
  BY <1>2, UnmarkNotes, ReadTaskNotes, MarkNotes, EarnNotes, AwardNotes,
     ReadPhasesNotes, ReadTasksNotes, CompletePhaseNotes, UnlockNextNotes,
     CountDoneNotes, AnswerNotes, ClosePhaseNotes, OpenNextNotes,
     FindLockedNotes, InsertUnlockNotes, OverrideNotes, MarkApprovedNotes
  DEF Step
<1>3. ASSUME NEW c \in Calls, Step(c) PROVE LInv'
  BY <1>1, <1>2, <1>3, CallKeepsLadder
<1>4. ASSUME NEW c \in Calls, NEW t \in Tabs, NEW k \in Tasks, Click(c, t, k)
      PROVE  LInv'
  BY <1>1, <1>4, ClickNotes, CallKeepsLadder
<1>5. ASSUME NEW c \in Calls, NEW r \in UnlockIds, Approve(c, r) PROVE LInv'
  BY <1>1, <1>5, ApproveNotes, CallKeepsLadder
<1>6. ASSUME NEW c \in Calls, AskUnlock(c) \/ Dies(c) PROVE LInv'
  BY <1>1, <1>6, AskUnlockNotes, DiesNotes, CallKeepsLadder
<1>7. ASSUME NEW t \in Tabs, Refetch(t) \/ CloseTab(t) PROVE LInv'
  BY <1>1, <1>7, RefetchLadder, CloseTabLadder
<1>8. CASE UNCHANGED vars
  BY <1>1, <1>8 DEF LInv, Ladder, Seen, UnlocksOK, Reachable, CallSaw, vars, rows
<1>9. QED
  BY <1>3, <1>4, <1>5, <1>6, <1>7, <1>8 DEF Next

(* No phase is open behind a locked one, whoever opens phases from         *)
(* whatever stale view, snapshot or request.                               *)
THEOREM LadderHolds == Spec => []Ladder
<1>1. Spec => []LInv
  BY LadderInit, LadderStep, PTL DEF Spec
<1>2. LInv => Ladder
  BY DEF LInv
<1>3. QED
  BY <1>1, <1>2, PTL

-----------------------------------------------------------------------------
(* CompletedWasDone: between reading a phase's tasks and marking it, the   *)
(* call relies on what it read; that the phase was once done is never      *)
(* taken back, though its tasks may be.                                    *)

DInv == /\ TInv
        /\ \A p \in Phases : TasksOf(p) \subseteq done => p \in finished
        /\ CompletedWasDone
        /\ \A c \in Calls : pc[c] = "complete" => call[c].phase \in finished

LEMMA DoneInit == Init => DInv
<1> SUFFICES ASSUME Init PROVE DInv
  OBVIOUS
<1>1. CompletedWasDone
  BY DEF Init, CompletedWasDone
<1>2. \A p \in Phases : TasksOf(p) \subseteq done => p \in finished
  BY DEF Init
<1>3. QED
  BY TypeInit, <1>1, <1>2 DEF DInv, Init

(* A step that completes no task and no phase, and reads no tasks.         *)
Aside(c) ==
    /\ done' \subseteq done /\ finished' = finished
    /\ \A p \in Phases : status'[p] = "completed" => status[p] = "completed"
    /\ pc'[c] # "complete"
    /\ \A d \in Calls \ {c} : pc'[d] = pc[d] /\ call'[d] = call[d]

LEMMA AsideKeepsDone ==
    ASSUME DInv, TInv', NEW c \in Calls, Aside(c)
    PROVE  DInv'
<1>1. \A p \in Phases : TasksOf(p)' = TasksOf(p)
  BY DEF TasksOf, Tasks, Phases
<1>2. \A p \in Phases : TasksOf(p) \subseteq done' => p \in finished'
  BY DEF DInv, Aside
<1>3. CompletedWasDone'
  BY DEF DInv, Aside, CompletedWasDone
<1>4. \A d \in Calls : pc'[d] = "complete" => call'[d].phase \in finished'
  BY DEF DInv, Aside
<1>5. QED
  BY <1>2, <1>3, <1>4 DEF DInv

LEMMA StepsAside ==
    ASSUME LInv, DInv, NEW c \in Calls
    PROVE  /\ Unmark(c) \/ ReadTask(c) \/ Earn(c) \/ Award(c) \/ CountDone(c)
              \/ Answer(c) \/ ClosePhase(c) \/ FindLocked(c) \/ InsertUnlock(c)
              \/ MarkApproved(c) \/ AskUnlock(c) \/ Dies(c) => Aside(c)
           /\ ReadPhases(c) => Aside(c)
           /\ UnlockNext(c) \/ OpenNext(c) \/ Override(c) => Aside(c)
           /\ \A t \in Tabs, k \in Tasks : Click(c, t, k) => Aside(c)
           /\ \A r \in UnlockIds : Approve(c, r) => Aside(c)
<1>1. TypeOK
  BY DEF LInv, TInv
<1>2. ASSUME Unmark(c) PROVE Aside(c)
  BY <1>1, <1>2, UnmarkNotes DEF Notes, Aside, Unmark, TypeOK, Goto, Finishes
<1>3. ASSUME ReadTask(c) PROVE Aside(c)
  BY <1>1, <1>3, ReadTaskNotes
  DEF Notes, Aside, ReadTask, TypeOK, Goto, Refuse, PageGoesOn, rows
<1>4. ASSUME Earn(c) PROVE Aside(c)
  BY <1>1, <1>4, EarnNotes DEF Notes, Aside, Earn, TypeOK, Goto, rows
<1>5. ASSUME Award(c) PROVE Aside(c)
  BY <1>1, <1>5, AwardNotes DEF Notes, Aside, Award, TypeOK, Goto
<1>6. ASSUME CountDone(c) PROVE Aside(c)
  BY <1>1, <1>6, CountDoneNotes DEF Notes, Aside, CountDone, TypeOK, Goto, rows
<1>7. ASSUME Answer(c) PROVE Aside(c)
  BY <1>1, <1>7, AnswerNotes DEF Notes, Aside, Answer, TypeOK, Goto, PageGoesOn
<1>8. ASSUME ClosePhase(c) PROVE Aside(c)
  BY <1>1, <1>8, ClosePhaseNotes DEF Notes, Aside, ClosePhase, TypeOK, Goto, Finishes
<1>9. ASSUME FindLocked(c) PROVE Aside(c)
  BY <1>1, <1>9, FindLockedNotes
  DEF Notes, Aside, FindLocked, TypeOK, Goto, Finishes, rows
<1>10. ASSUME InsertUnlock(c) PROVE Aside(c)
  BY <1>1, <1>10, InsertUnlockNotes
  DEF Notes, Aside, InsertUnlock, TypeOK, Goto, Finishes
<1>11. ASSUME MarkApproved(c) PROVE Aside(c)
  BY <1>1, <1>11, MarkApprovedNotes
  DEF Notes, Aside, MarkApproved, TypeOK, Goto, Finishes
<1>12. ASSUME AskUnlock(c) PROVE Aside(c)
  BY <1>1, <1>12, AskUnlockNotes DEF Notes, Aside, AskUnlock, TypeOK, Goto, rows
<1>13. ASSUME Dies(c) PROVE Aside(c)
  BY <1>1, <1>13, DiesNotes
  DEF Notes, Aside, Dies, TypeOK, Goto, Refuse, PageGoesOn, rows
<1>14. ASSUME ReadPhases(c) PROVE Aside(c)
  BY <1>1, <1>14, ReadPhasesNotes
  DEF Notes, Aside, ReadPhases, TypeOK, Goto, LoopAt, rows
<1>15. ASSUME UnlockNext(c) PROVE Aside(c)
  BY <1>1, <1>15, UnlockNextNotes
  DEF Notes, Aside, UnlockNext, TypeOK, Goto, LoopAt
<1>16. ASSUME OpenNext(c) PROVE Aside(c)
  BY <1>1, <1>16, OpenNextNotes DEF Notes, Aside, OpenNext, TypeOK, Goto, Finishes
<1>17. ASSUME Override(c) PROVE Aside(c)
  BY <1>1, <1>17, OverrideNotes DEF Notes, Aside, Override, TypeOK, Goto
<1>18. ASSUME NEW t \in Tabs, NEW k \in Tasks, Click(c, t, k) PROVE Aside(c)
  BY <1>1, <1>18, ClickNotes DEF Notes, Aside, Click, TypeOK, Goto, rows
<1>19. ASSUME NEW r \in UnlockIds, Approve(c, r) PROVE Aside(c)
  BY <1>1, <1>19, ApproveNotes DEF Notes, Aside, Approve, TypeOK, Goto, rows
<1>20. QED
  BY <1>2, <1>3, <1>4, <1>5, <1>6, <1>7, <1>8, <1>9, <1>10, <1>11, <1>12, <1>13,
     <1>14, <1>15, <1>16, <1>17, <1>18, <1>19

LEMMA MarkDone ==
    ASSUME LInv, DInv, TInv', NEW c \in Calls, Mark(c)
    PROVE  DInv'
<1>1. TypeOK /\ Notes(c)
  BY MarkNotes DEF LInv, TInv
<1>2. pc'[c] = "earn" /\ UNCHANGED status /\ finished \subseteq finished'
  BY <1>1 DEF TypeOK, Mark, Goto
<1>3. \A p \in Phases : TasksOf(p) \subseteq done' => p \in finished'
  BY DEF DInv, Mark
<1>4. CompletedWasDone'
  BY <1>2 DEF DInv, CompletedWasDone
<1>5. \A d \in Calls : pc'[d] = "complete" => call'[d].phase \in finished'
  BY <1>1, <1>2 DEF DInv, Notes
<1>6. QED
  BY <1>3, <1>4, <1>5 DEF DInv

LEMMA ReadTasksDone ==
    ASSUME LInv, DInv, TInv', NEW c \in Calls, ReadTasks(c)
    PROVE  DInv'
<1>1. TypeOK /\ Notes(c)
  BY ReadTasksNotes DEF LInv, TInv
<1>2. UNCHANGED <<done, status, finished>>
  BY DEF ReadTasks, rows
<1>3. call[c].phase \in Phases
  BY NextPhase DEF LInv, ReadTasks, LoopLabels
<1>4. pc'[c] = "complete" => call'[c].phase \in finished
  <2>1. CASE TasksOf(call[c].phase) \subseteq done /\ UNCHANGED call
    BY <1>3, <2>1 DEF DInv
  <2>2. CASE LoopAt(c, call[c].snap, call[c].phase + 1)
    BY <1>1, <2>2 DEF TypeOK, LoopAt, Goto
  <2>3. QED
    BY <2>1, <2>2 DEF ReadTasks
<1>5. \A d \in Calls : pc'[d] = "complete" => call'[d].phase \in finished
  BY <1>1, <1>4 DEF DInv, Notes
<1>6. QED
  BY <1>2, <1>5 DEF DInv, CompletedWasDone

LEMMA CompletePhaseDone ==
    ASSUME LInv, DInv, TInv', NEW c \in Calls, CompletePhase(c)
    PROVE  DInv'
<1>1. TypeOK /\ Notes(c)
  BY CompletePhaseNotes DEF LInv, TInv
<1>2. UNCHANGED <<done, finished>> /\ pc'[c] # "complete"
  BY <1>1 DEF TypeOK, CompletePhase, LoopAt, Goto
<1>3. call[c].phase \in finished
  BY DEF DInv, CompletePhase
<1>4. CompletedWasDone'
  <2>1. CASE UNCHANGED status
    BY <1>2, <2>1 DEF DInv, CompletedWasDone
  <2>2. CASE status' = [status EXCEPT ![call[c].phase] = "completed"]
    BY <1>1, <1>2, <1>3, <2>2 DEF DInv, CompletedWasDone, TypeOK
  <2>3. QED
    BY <2>1, <2>2 DEF CompletePhase
<1>5. \A d \in Calls : pc'[d] = "complete" => call'[d].phase \in finished
  BY <1>1, <1>2 DEF DInv, Notes
<1>6. QED
  BY <1>2, <1>4, <1>5 DEF DInv

LEMMA DoneStep == LInv /\ DInv /\ [Next]_vars => DInv'
<1> SUFFICES ASSUME LInv, DInv, [Next]_vars PROVE DInv'
  OBVIOUS
<1>1. TInv'
  BY TypeStep DEF LInv
<1>2. ASSUME NEW c \in Calls, Step(c) PROVE DInv'
  BY <1>1, <1>2, StepsAside, AsideKeepsDone, MarkDone, ReadTasksDone,
     CompletePhaseDone
  DEF Step
<1>3. ASSUME NEW c \in Calls, NEW t \in Tabs, NEW k \in Tasks, Click(c, t, k)
      PROVE  DInv'
  BY <1>1, <1>3, StepsAside, AsideKeepsDone
<1>4. ASSUME NEW c \in Calls, NEW r \in UnlockIds, Approve(c, r) PROVE DInv'
  BY <1>1, <1>4, StepsAside, AsideKeepsDone
<1>5. ASSUME NEW c \in Calls, AskUnlock(c) \/ Dies(c) PROVE DInv'
  BY <1>1, <1>5, StepsAside, AsideKeepsDone
<1>6. ASSUME NEW t \in Tabs, Refetch(t) PROVE DInv'
  BY <1>1, <1>6 DEF DInv, CompletedWasDone, Refetch, rows
<1>7. ASSUME NEW t \in Tabs, CloseTab(t) PROVE DInv'
  <2>1. \A c \in Calls : pc'[c] = "complete" => call'[c].phase \in finished
    <3> SUFFICES ASSUME NEW c \in Calls, pc'[c] = "complete"
                 PROVE  call'[c].phase \in finished
      OBVIOUS
    <3>1. call[c] \in Call
      BY DEF LInv, TInv, TypeOK
    <3>2. pc[c] = "complete" /\ call'[c].phase = call[c].phase
      BY <1>7, <3>1 DEF CloseTab, PageLabels, Call
    <3>3. QED
      BY <3>2 DEF DInv
  <2>2. UNCHANGED <<done, status, finished>>
    BY <1>7 DEF CloseTab, rows
  <2>3. QED
    BY <1>1, <2>1, <2>2 DEF DInv, CompletedWasDone
<1>8. CASE UNCHANGED vars
  BY <1>1, <1>8 DEF DInv, CompletedWasDone, vars, rows
<1>9. QED
  BY <1>2, <1>3, <1>4, <1>5, <1>6, <1>7, <1>8 DEF Next

(* A phase is only marked completed if all its tasks were complete at one  *)
(* moment, whatever is clicked, taken back, lost or killed in between.     *)
THEOREM CompletedWasDoneHolds == Spec => []CompletedWasDone
<1>1. Spec => [](LInv /\ DInv)
  BY LadderInit, LadderStep, DoneInit, DoneStep, PTL DEF Spec
<1>2. DInv => CompletedWasDone
  BY DEF DInv
<1>3. QED
  BY <1>1, <1>2, PTL

-----------------------------------------------------------------------------
(* ClimbsLadder: a step that writes a phase's status is one step of        *)
(* PhaseLadder, since Climbs keeps the ladder and DInv the completions.    *)

Ladders == PL!LadderNext \/ UNCHANGED PL!ladderVars

LEMMA RungsArePhases == PL!Rungs = Phases
BY DEF PL!Rungs, Phases

LEMMA SameLadder ==
    ASSUME UNCHANGED <<status, finished>>
    PROVE  Ladders
BY DEF Ladders, PL!ladderVars, Phased

LEMMA WriteIsRung ==
    ASSUME LInv, Climbs, NEW p \in Phases,
           NEW s \in {"active", "completed", "override_unlocked"},
           status' = [status EXCEPT ![p] = s], UNCHANGED finished,
           s = "completed" => p \in finished /\ status[p] # "locked"
    PROVE  Ladders
<1> DEFINE St(q) == Phased(status[q])
           state == [q \in Phases |-> St(q)]
<1>1. status \in [Phases -> Statuses]
  BY DEF LInv, TInv, TypeOK
<1>2. status'[p] = s /\ status[p] \in Statuses
  BY <1>1
<1>3. [q \in Phases |-> Phased(status'[q])] = [state EXCEPT ![p] = Phased(s)]
  BY <1>1 DEF Phased
<1>4. PL!Become(p, Phased(s))
  BY <1>3 DEF PL!Become, Phased
<1>5. state[p] = Phased(status[p])
  OBVIOUS
<1>6. CASE s = "completed"
  <2>1. p \in finished /\ status[p] # "locked" /\ Phased(s) = "completed"
    BY <1>6 DEF Phased
  <2>2. CASE status[p] = "completed"
    <3>1. status' = status
      BY <1>1, <1>6, <2>2
    <3>2. QED
      BY <3>1, SameLadder
  <2>3. CASE status[p] \in {"active", "override_unlocked"}
    <3>1. state[p] = "open"
      BY <1>5, <2>3 DEF Phased
    <3>2. PL!Complete(p)
      BY <1>4, <2>1, <3>1 DEF PL!Complete
    <3>3. QED
      BY <3>2, RungsArePhases DEF Ladders, PL!LadderNext
  <2>4. QED
    BY <1>2, <2>1, <2>2, <2>3 DEF Statuses
<1>7. CASE s # "completed"
  <2>1. Phased(s) = "open"
    BY <1>7 DEF Phased
  <2>2. CASE status[p] = "locked"
    <3>1. Reachable(p) /\ p # 1
      <4>1. status'[p] # "locked"
        BY <1>2
      <4>2. Reachable(p)
        BY <2>2, <4>1 DEF Climbs
      <4>3. p # 1
        BY <2>2 DEF LInv
      <4>4. QED
        BY <4>2, <4>3
    <3>2. p > 1 /\ p - 1 \in Phases /\ status[p - 1] # "locked"
      BY <3>1, PhaseBelow DEF Reachable, Phases
    <3>3. state[p] = "locked" /\ state[p - 1] # "locked"
      BY <1>5, <2>2, <3>2 DEF Phased
    <3>4. PL!Open(p)
      BY <1>4, <2>1, <3>2, <3>3 DEF PL!Open
    <3>5. QED
      BY <3>4, RungsArePhases DEF Ladders, PL!LadderNext
  <2>3. CASE status[p] = "completed"
    <3>1. state[p] = "completed"
      BY <1>5, <2>3 DEF Phased
    <3>2. PL!Reopen(p)
      BY <1>4, <2>1, <3>1 DEF PL!Reopen
    <3>3. QED
      BY <3>2, RungsArePhases DEF Ladders, PL!LadderNext
  <2>4. CASE status[p] \in {"active", "override_unlocked"}
    <3>1. state[p] = "open"
      BY <1>5, <2>4 DEF Phased
    <3>2. [q \in Phases |-> Phased(status'[q])] = state
      BY <1>3, <2>1, <3>1
    <3>3. QED
      BY <3>2 DEF Ladders, PL!ladderVars
  <2>5. QED
    BY <1>2, <2>2, <2>3, <2>4 DEF Statuses
<1>8. QED
  BY <1>6, <1>7

LEMMA MarkClimbs ==
    ASSUME LInv, TInv', NEW c \in Calls, Mark(c)
    PROVE  Ladders
<1>1. UNCHANGED status /\ finished \subseteq finished' /\ finished' \subseteq Phases
  BY DEF Mark, TInv, TypeOK
<1>2. PL!Work
  BY <1>1, RungsArePhases DEF PL!Work, Phased
<1>3. QED
  BY <1>2 DEF Ladders, PL!LadderNext

LEMMA CompletePhaseClimbs ==
    ASSUME LInv, DInv, NEW c \in Calls, CompletePhase(c)
    PROVE  Ladders
<1>1. Climbs /\ UNCHANGED finished
  BY CompletePhaseNotes DEF CompletePhase
<1>2. call[c].phase \in Phases /\ call[c].phase \in finished
  BY NextPhase DEF LInv, DInv, CompletePhase, LoopLabels
<1>3. status[call[c].phase] # "locked"
  <2>1. call[c].snap[call[c].phase] # "locked"
    BY DEF LInv, TInv, CallTypes, LoopGoesOn, LoopLabels, CompletePhase
  <2>2. QED
    BY <1>2, <2>1 DEF LInv, CallSaw, Seen
<1>4. CASE UNCHANGED status
  BY <1>1, <1>4, SameLadder
<1>5. CASE status' = [status EXCEPT ![call[c].phase] = "completed"]
  BY <1>1, <1>2, <1>3, <1>5, WriteIsRung
<1>6. QED
  BY <1>4, <1>5 DEF CompletePhase

LEMMA UnlockNextClimbs ==
    ASSUME LInv, NEW c \in Calls, UnlockNext(c)
    PROVE  Ladders
<1>1. Climbs /\ UNCHANGED finished
  BY UnlockNextNotes DEF UnlockNext
<1>2. call[c].phase + 1 \in Phases
  BY NextPhase DEF LInv, LoopLabels, UnlockNext
<1>3. CASE UNCHANGED status
  BY <1>1, <1>3, SameLadder
<1>4. CASE status' = [status EXCEPT ![call[c].phase + 1] = "active"]
  BY <1>1, <1>2, <1>4, WriteIsRung
<1>5. QED
  BY <1>3, <1>4 DEF UnlockNext

LEMMA OpenNextClimbs ==
    ASSUME LInv, NEW c \in Calls, OpenNext(c)
    PROVE  Ladders
<1>1. Climbs /\ UNCHANGED finished
  BY OpenNextNotes DEF OpenNext
<1>2. call[c].opens \in Phases
  BY DEF LInv, TInv, CallTypes, OpenNext
<1>3. CASE UNCHANGED status
  BY <1>1, <1>3, SameLadder
<1>4. CASE status' = [status EXCEPT ![call[c].opens] = "active"]
  BY <1>1, <1>2, <1>4, WriteIsRung
<1>5. QED
  BY <1>3, <1>4 DEF OpenNext

LEMMA OverrideClimbs ==
    ASSUME LInv, NEW c \in Calls, Override(c)
    PROVE  Ladders
<1>1. Climbs /\ UNCHANGED finished
  BY OverrideNotes DEF Override
<1>2. call[c].phase \in Phases
  BY DEF LInv, TInv, CallTypes, Override
<1>3. CASE UNCHANGED status
  BY <1>1, <1>3, SameLadder
<1>4. CASE status' = [status EXCEPT ![call[c].phase] = "override_unlocked"]
  BY <1>1, <1>2, <1>4, WriteIsRung
<1>5. QED
  BY <1>3, <1>4 DEF Override

LEMMA LaddersInit == Init => PL!LadderInit
<1> SUFFICES ASSUME Init PROVE PL!LadderInit
  OBVIOUS
<1>1. finished \subseteq Phases
  BY DEF Init
<1>2. [p \in Phases |-> Phased(status[p])]
         = [p \in Phases |-> IF p = 1 THEN "open" ELSE "locked"]
  BY DEF Init, Phased
<1>3. QED
  BY <1>1, <1>2, RungsArePhases DEF PL!LadderInit

LEMMA LaddersStep == LInv /\ DInv /\ [Next]_vars => Ladders
<1> SUFFICES ASSUME LInv, DInv, [Next]_vars PROVE Ladders
  OBVIOUS
<1>1. TInv'
  BY TypeStep DEF LInv
<1>2. ASSUME NEW c \in Calls,
             Unmark(c) \/ ReadTask(c) \/ Earn(c) \/ Award(c) \/ ReadPhases(c)
             \/ ReadTasks(c) \/ CountDone(c) \/ Answer(c) \/ ClosePhase(c)
             \/ FindLocked(c) \/ InsertUnlock(c) \/ MarkApproved(c)
      PROVE  Ladders
  <2>1. UNCHANGED <<status, finished>>
    BY <1>2
    DEF Unmark, ReadTask, Earn, Award, ReadPhases, ReadTasks, CountDone, Answer,
        ClosePhase, FindLocked, InsertUnlock, MarkApproved, rows
  <2>2. QED
    BY <2>1, SameLadder
<1>3. ASSUME NEW c \in Calls, Step(c) PROVE Ladders
  BY <1>1, <1>2, <1>3, MarkClimbs, CompletePhaseClimbs, UnlockNextClimbs,
     OpenNextClimbs, OverrideClimbs
  DEF Step
<1>4. ASSUME NEW c \in Calls, AskUnlock(c) \/ Dies(c) PROVE Ladders
  BY <1>4, SameLadder DEF AskUnlock, Dies, rows
<1>5. ASSUME NEW c \in Calls, NEW t \in Tabs, NEW k \in Tasks, Click(c, t, k)
      PROVE  Ladders
  BY <1>5, SameLadder DEF Click, rows
<1>6. ASSUME NEW c \in Calls, NEW r \in UnlockIds, Approve(c, r) PROVE Ladders
  BY <1>6, SameLadder DEF Approve, rows
<1>7. ASSUME NEW t \in Tabs, Refetch(t) \/ CloseTab(t) PROVE Ladders
  BY <1>7, SameLadder DEF Refetch, CloseTab, rows
<1>8. CASE UNCHANGED vars
  BY <1>8, SameLadder DEF vars, rows
<1>9. QED
  BY <1>3, <1>4, <1>5, <1>6, <1>7, <1>8 DEF Next

(* The phases climb PhaseLadder: they open one behind the other, are never *)
(* locked again, and are completed only open and once done, one phase a    *)
(* step, for any calls, pages, deaths, closed tabs and failed writes.      *)
THEOREM PhasesClimb == Spec => ClimbsLadder
<1>1. Spec => [](LInv /\ DInv)
  BY LadderInit, LadderStep, DoneInit, DoneStep, PTL DEF Spec
<1>2. Init => PL!LadderInit
  BY LaddersInit
<1>3. LInv /\ DInv /\ [Next]_vars => [PL!LadderNext]_(PL!ladderVars)
  BY LaddersStep DEF Ladders
<1>4. QED
  BY <1>1, <1>2, <1>3, PTL DEF Spec, ClimbsLadder, PL!LadderSpec

-----------------------------------------------------------------------------
(* PaidIfMissed: who may still be paid for a task is a call that billing   *)
(* has promised it or that will find the completion missing.  A completion *)
(* taken back owes at most every other call; until its write has run, none.*)

Owed(k) == {c \in Calls : /\ call[c].task = k
                          /\ pc[c] = "award" \/ (pc[c] = "earn" /\ k \notin done)}

Taking(k) == {c \in Calls : call[c].task = k /\ pc[c] = "unmark"}

Others == Cardinality(Calls) - 1

Covered(k) == paid[k] + Cardinality(Owed(k))
                 <= (unmarks - Cardinality(Taking(k))) * Others + faults

PayInv == \A k \in Tasks : Covered(k)

LEMMA CallSetFacts ==
    ASSUME NEW k
    PROVE  /\ IsFiniteSet(Owed(k)) /\ Cardinality(Owed(k)) \in Nat
           /\ IsFiniteSet(Taking(k)) /\ Cardinality(Taking(k)) \in Nat
           /\ Cardinality(Calls) \in Nat
           /\ Calls # {} => Others \in Nat
<1>1. Owed(k) \subseteq Calls /\ Taking(k) \subseteq Calls
  BY DEF Owed, Taking
<1>2. IsFiniteSet(Owed(k)) /\ IsFiniteSet(Taking(k))
  BY <1>1, CallsFinite, FS_Subset
<1>3. /\ Cardinality(Owed(k)) \in Nat /\ Cardinality(Taking(k)) \in Nat
      /\ Cardinality(Calls) \in Nat
  BY <1>2, CallsFinite, FS_CardinalityType
<1>4. Calls # {} => Cardinality(Calls) # 0
  BY CallsFinite, FS_EmptySet
<1>5. QED
  BY <1>2, <1>3, <1>4 DEF Others

LEMMA SetFactsNext ==
    ASSUME NEW k
    PROVE  /\ IsFiniteSet(Owed(k)') /\ Cardinality(Owed(k)') \in Nat
           /\ IsFiniteSet(Taking(k)') /\ Cardinality(Taking(k)') \in Nat
<1>1. Owed(k)' \subseteq Calls /\ Taking(k)' \subseteq Calls
  BY DEF Owed, Taking
<1>2. IsFiniteSet(Owed(k)') /\ IsFiniteSet(Taking(k)')
  BY <1>1, CallsFinite, FS_Subset
<1>3. QED
  BY <1>2, FS_CardinalityType

LEMMA OnceMore ==
    ASSUME NEW w \in Nat, NEW a \in Int
    PROVE  (a + 1) * w = a * w + w /\ a * w \in Int
OBVIOUS

(* Nobody is owed more than before and as many completions are being taken *)
(* back.                                                                   *)
LEMMA CoveredStays ==
    ASSUME TInv, TInv', Calls # {}, NEW k \in Tasks, Covered(k),
           Owed(k)' \subseteq Owed(k), Taking(k)' = Taking(k),
           paid'[k] = paid[k], unmarks' >= unmarks, faults' >= faults
    PROVE  Covered(k)'
<1>1. /\ paid[k] \in Nat /\ unmarks \in Nat /\ faults \in Nat
      /\ unmarks' \in Nat /\ faults' \in Nat
  BY DEF TInv, TypeOK
<1>2. Cardinality(Owed(k)') <= Cardinality(Owed(k))
  BY CallSetFacts, FS_Subset
<1>3. (unmarks - Cardinality(Taking(k))) * Others
         <= (unmarks' - Cardinality(Taking(k))) * Others
  BY <1>1, CallSetFacts, MoreTimes
<1>4. (unmarks - Cardinality(Taking(k))) * Others \in Int
      /\ (unmarks' - Cardinality(Taking(k))) * Others \in Int
  BY <1>1, CallSetFacts, MoreTimes
<1>5. Others' = Others
  BY DEF Others
<1> DEFINE old == (unmarks - Cardinality(Taking(k))) * Others
           new == (unmarks' - Cardinality(Taking(k))) * Others
<1>6. paid'[k] + Cardinality(Owed(k)') <= new + faults'
  <2>1. old <= new /\ old \in Int /\ new \in Int
    BY <1>3, <1>4
  <2>2. paid[k] + Cardinality(Owed(k)) <= old + faults
    BY DEF Covered
  <2> HIDE DEF old, new
  <2>3. QED
    BY <1>1, <1>2, <2>1, <2>2, CallSetFacts, SetFactsNext
<1>7. QED
  BY <1>5, <1>6 DEF Covered

(* A step that neither starts nor ends taking back and asks billing for    *)
(* nothing.                                                                *)
Passes(c) ==
    /\ \A d \in Calls \ {c} : pc'[d] = pc[d] /\ call'[d] = call[d]
    /\ done' = done /\ paid' = paid /\ unmarks' = unmarks /\ faults' >= faults
    /\ pc[c] # "unmark" /\ pc'[c] \notin {"unmark", "earn", "award"}

LEMMA PassesPays ==
    ASSUME TInv, TInv', PayInv, NEW c \in Calls, Passes(c)
    PROVE  PayInv'
<1> SUFFICES ASSUME NEW k \in Tasks PROVE Covered(k)'
  BY DEF PayInv, Tasks, Phases
<1>1. Owed(k)' \subseteq Owed(k)
  BY DEF Passes, Owed
<1>2. Taking(k)' = Taking(k)
  BY DEF Passes, Taking
<1>3. unmarks' >= unmarks
  BY DEF Passes, TInv, TypeOK
<1>4. Covered(k)
  BY DEF PayInv
<1>5. QED
  BY <1>1, <1>2, <1>3, <1>4, CoveredStays DEF Passes

LEMMA StepsPass ==
    ASSUME LInv, NEW c \in Calls
    PROVE  /\ ReadTask(c) \/ ReadPhases(c) \/ ReadTasks(c) \/ CompletePhase(c)
              \/ UnlockNext(c) \/ CountDone(c) \/ Answer(c) => Passes(c)
           /\ ClosePhase(c) \/ OpenNext(c) \/ FindLocked(c) \/ InsertUnlock(c)
              \/ Override(c) \/ MarkApproved(c) \/ AskUnlock(c) \/ Dies(c)
                 => Passes(c)
           /\ \A r \in UnlockIds : Approve(c, r) => Passes(c)
<1>1. TypeOK
  BY DEF LInv, TInv
<1>2. UNCHANGED faults \/ WriteLost => faults' >= faults
  BY <1>1 DEF WriteLost, TypeOK
<1>3. ASSUME ReadTask(c) PROVE Passes(c)
  BY <1>1, <1>2, <1>3, ReadTaskNotes
  DEF Notes, Passes, ReadTask, TypeOK, Goto, Refuse, PageGoesOn, rows, counters, clicks
<1>4. ASSUME ReadPhases(c) PROVE Passes(c)
  BY <1>1, <1>2, <1>4, ReadPhasesNotes
  DEF Notes, Passes, ReadPhases, TypeOK, Goto, LoopAt, rows, counters, clicks
<1>5. ASSUME ReadTasks(c) PROVE Passes(c)
  BY <1>1, <1>2, <1>5, ReadTasksNotes
  DEF Notes, Passes, ReadTasks, TypeOK, Goto, LoopAt, rows, counters, clicks
<1>6. ASSUME CompletePhase(c) PROVE Passes(c)
  BY <1>1, <1>2, <1>6, CompletePhaseNotes
  DEF Notes, Passes, CompletePhase, TypeOK, Goto, LoopAt, clicks
<1>7. ASSUME UnlockNext(c) PROVE Passes(c)
  BY <1>1, <1>2, <1>7, UnlockNextNotes
  DEF Notes, Passes, UnlockNext, TypeOK, Goto, LoopAt, clicks
<1>8. ASSUME CountDone(c) PROVE Passes(c)
  BY <1>1, <1>2, <1>8, CountDoneNotes
  DEF Notes, Passes, CountDone, TypeOK, Goto, rows, counters, clicks
<1>9. ASSUME Answer(c) PROVE Passes(c)
  BY <1>1, <1>2, <1>9, AnswerNotes
  DEF Notes, Passes, Answer, TypeOK, Goto, PageGoesOn, clicks
<1>10. ASSUME ClosePhase(c) PROVE Passes(c)
  BY <1>1, <1>2, <1>10, ClosePhaseNotes
  DEF Notes, Passes, ClosePhase, TypeOK, Goto, Finishes, clicks
<1>11. ASSUME OpenNext(c) PROVE Passes(c)
  BY <1>1, <1>2, <1>11, OpenNextNotes
  DEF Notes, Passes, OpenNext, TypeOK, Goto, Finishes, clicks
<1>12. ASSUME FindLocked(c) PROVE Passes(c)
  BY <1>1, <1>2, <1>12, FindLockedNotes
  DEF Notes, Passes, FindLocked, TypeOK, Goto, Finishes, rows, counters, clicks
<1>13. ASSUME InsertUnlock(c) PROVE Passes(c)
  BY <1>1, <1>2, <1>13, InsertUnlockNotes
  DEF Notes, Passes, InsertUnlock, TypeOK, Goto, Finishes, clicks
<1>14. ASSUME Override(c) PROVE Passes(c)
  BY <1>1, <1>2, <1>14, OverrideNotes DEF Notes, Passes, Override, TypeOK, Goto, clicks
<1>15. ASSUME MarkApproved(c) PROVE Passes(c)
  BY <1>1, <1>2, <1>15, MarkApprovedNotes
  DEF Notes, Passes, MarkApproved, TypeOK, Goto, Finishes, clicks
<1>16. ASSUME AskUnlock(c) PROVE Passes(c)
  BY <1>1, <1>2, <1>16, AskUnlockNotes
  DEF Notes, Passes, AskUnlock, TypeOK, Goto, rows, counters, clicks
<1>17. ASSUME Dies(c) PROVE Passes(c)
  BY <1>1, <1>2, <1>17, DiesNotes
  DEF Notes, Passes, Dies, TypeOK, Goto, Refuse, PageGoesOn, FunctionLabels, rows,
      clicks
<1>18. ASSUME NEW r \in UnlockIds, Approve(c, r) PROVE Passes(c)
  BY <1>1, <1>2, <1>18, ApproveNotes
  DEF Notes, Passes, Approve, TypeOK, Goto, rows, counters, clicks
<1>19. QED
  BY <1>3, <1>4, <1>5, <1>6, <1>7, <1>8, <1>9, <1>10, <1>11, <1>12, <1>13, <1>14,
     <1>15, <1>16, <1>17, <1>18

LEMMA ClickPays ==
    ASSUME LInv, TInv', PayInv, NEW c \in Calls, NEW t \in Tabs, NEW k \in Tasks,
           Click(c, t, k)
    PROVE  PayInv'
<1>1. TInv /\ TypeOK /\ unmarks \in Nat
  BY DEF LInv, TInv, TypeOK
<1>2. \A d \in Calls \ {c} : pc'[d] = pc[d] /\ call'[d] = call[d]
  BY ClickNotes DEF Notes
<1>3. pc[c] = "idle" /\ UNCHANGED <<done, paid, faults>>
  BY DEF Click, rows
<1>4. CASE pc'[c] = "readTask" /\ UNCHANGED unmarks
  BY <1>1, <1>2, <1>3, <1>4, PassesPays DEF Passes, TypeOK
<1>5. CASE pc'[c] = "unmark" /\ unmarks' = unmarks + 1 /\ call'[c].task = k
  <2> SUFFICES ASSUME NEW j \in Tasks PROVE Covered(j)'
    BY DEF PayInv, Tasks, Phases
  <2>1. Owed(j)' \subseteq Owed(j)
    BY <1>2, <1>3, <1>5 DEF Owed
  <2>2. Covered(j)
    BY DEF PayInv
  <2>3. CASE j # k
    <3>1. Taking(j)' = Taking(j)
      BY <1>2, <1>3, <1>5, <2>3 DEF Taking
    <3>2. unmarks' >= unmarks /\ faults' >= faults /\ paid'[j] = paid[j]
      BY <1>1, <1>3, <1>5 DEF TypeOK
    <3>3. QED
      BY <1>1, <2>1, <2>2, <3>1, <3>2, CoveredStays
  <2>4. CASE j = k
    <3>1. Taking(j)' = Taking(j) \cup {c} /\ c \notin Taking(j)
      BY <1>2, <1>3, <1>5, <2>4 DEF Taking
    <3>2. Cardinality(Taking(j)') = Cardinality(Taking(j)) + 1
      BY <3>1, CallSetFacts, FS_AddElement
    <3>3. Cardinality(Owed(j)') <= Cardinality(Owed(j))
      BY <2>1, CallSetFacts, FS_Subset
    <3>4. unmarks' - Cardinality(Taking(j)') = unmarks - Cardinality(Taking(j))
      BY <1>1, <1>5, <3>2, CallSetFacts
    <3> DEFINE due == (unmarks - Cardinality(Taking(j))) * Others
    <3>5. due \in Int
      BY <1>1, CallSetFacts, MoreTimes
    <3>6. (unmarks' - Cardinality(Taking(j)')) * Others' = due
      BY <3>4 DEF Others
    <3>7. paid[j] + Cardinality(Owed(j)) <= due + faults
      BY <2>2 DEF Covered
    <3>8. paid[j] \in Nat /\ faults \in Nat
      BY <1>1 DEF TypeOK
    <3> HIDE DEF due
    <3>9. paid[j] + Cardinality(Owed(j)') <= due + faults
      BY <3>3, <3>5, <3>7, <3>8, CallSetFacts, SetFactsNext
    <3>10. QED
      BY <1>3, <3>6, <3>9 DEF Covered
  <2>5. QED
    BY <2>3, <2>4
<1>6. QED
  <2>1. CASE k \in view[t].done
    <3>1. /\ call'[c] = [NoCall EXCEPT !.tab = t, !.task = k]
          /\ pc'[c] = "unmark" /\ unmarks' = unmarks + 1
      BY <1>1, <2>1 DEF Click, Goto, TypeOK
    <3>2. call'[c].task = k
      BY <3>1 DEF NoCall
    <3>3. QED
      BY <1>5, <3>1, <3>2
  <2>2. CASE k \notin view[t].done
    BY <1>1, <1>4, <2>2 DEF Click, Goto, TypeOK
  <2>3. QED
    BY <2>1, <2>2

LEMMA UnmarkPays ==
    ASSUME LInv, TInv', PayInv, NEW c \in Calls, Unmark(c)
    PROVE  PayInv'
<1> DEFINE k == call[c].task
<1>1. /\ TInv /\ TypeOK /\ k \in Tasks /\ Others \in Nat
      /\ unmarks \in Nat /\ faults \in Nat /\ faults' \in Nat
  BY CallSetFacts DEF LInv, TInv, TypeOK, CallTypes, TaskLabels, Unmark
<1>2. \A d \in Calls \ {c} : pc'[d] = pc[d] /\ call'[d] = call[d]
  BY UnmarkNotes DEF Notes
<1>3. /\ pc[c] = "unmark" /\ pc'[c] = "idle"
      /\ UNCHANGED <<paid, unmarks>> /\ faults' >= faults
      /\ done' = done \ {k} \/ done' = done
  BY <1>1 DEF Unmark, Finishes, Goto, WriteLost, clicks, TypeOK
<1> HIDE DEF k
<1> SUFFICES ASSUME NEW j \in Tasks PROVE Covered(j)'
  BY DEF PayInv, Tasks, Phases
<1>4. Covered(j)
  BY DEF PayInv
<1>5. CASE j # k
  <2>1. Owed(j)' \subseteq Owed(j) /\ Taking(j)' = Taking(j)
    BY <1>2, <1>3, <1>5 DEF Owed, Taking, k
  <2>2. unmarks' >= unmarks
    BY <1>1, <1>3
  <2>3. QED
    BY <1>1, <1>3, <1>4, <2>1, <2>2, CoveredStays
<1>6. CASE j = k
  <2>1. c \in Taking(j) /\ Taking(j)' = Taking(j) \ {c}
    BY <1>2, <1>3, <1>6 DEF Taking, k
  <2>2. Cardinality(Taking(j)') = Cardinality(Taking(j)) - 1
    BY <2>1, CallSetFacts, FS_RemoveElement
  <2>3. Cardinality(Owed(j)') <= Others
    <3>1. Owed(j)' \subseteq Calls \ {c}
      BY <1>3 DEF Owed
    <3>2. /\ IsFiniteSet(Calls \ {c})
          /\ Cardinality(Calls \ {c}) = Cardinality(Calls) - 1
      BY CallsFinite, FS_RemoveElement
    <3>3. QED
      BY <3>1, <3>2, FS_Subset DEF Others
  <2> DEFINE left == unmarks - Cardinality(Taking(j))
             due == left * Others
  <2>4. left \in Int /\ unmarks' - Cardinality(Taking(j)') = left + 1
    BY <1>1, <1>3, <2>2, CallSetFacts
  <2>5. (unmarks' - Cardinality(Taking(j)')) * Others' = due + Others
        /\ due \in Int
    <3> HIDE DEF left
    <3>1. (left + 1) * Others = left * Others + Others /\ left * Others \in Int
      BY <1>1, <2>4, OnceMore
    <3>2. QED
      BY <2>4, <3>1 DEF Others
  <2>6. paid[j] + Cardinality(Owed(j)) <= due + faults
    BY <1>4 DEF Covered
  <2>7. paid[j] \in Nat
    BY <1>1 DEF TypeOK
  <2> HIDE DEF due
  <2>8. paid[j] + Cardinality(Owed(j)') <= due + Others + faults'
    BY <1>1, <1>3, <2>3, <2>5, <2>6, <2>7, CallSetFacts, SetFactsNext
  <2>9. QED
    BY <1>3, <2>5, <2>8 DEF Covered
<1>7. QED
  BY <1>5, <1>6

LEMMA MarkPays ==
    ASSUME LInv, TInv', PayInv, NEW c \in Calls, Mark(c)
    PROVE  PayInv'
<1> DEFINE k == call[c].task
<1>1. /\ TInv /\ TypeOK /\ unmarks \in Nat /\ faults \in Nat /\ faults' \in Nat
  BY DEF LInv, TInv, TypeOK
<1>2. \A d \in Calls \ {c} : pc'[d] = pc[d] /\ call'[d] = call[d]
  BY MarkNotes DEF Notes
<1>3. /\ pc[c] = "mark" /\ pc'[c] = "earn" /\ call'[c] = call[c]
      /\ UNCHANGED <<paid, unmarks>>
      /\ \/ done' = done \cup {k} /\ faults' = faults
         \/ done' = done /\ faults' = faults + 1
  BY <1>1 DEF Mark, Goto, WriteLost, clicks, TypeOK
<1> HIDE DEF k
<1> SUFFICES ASSUME NEW j \in Tasks PROVE Covered(j)'
  BY DEF PayInv, Tasks, Phases
<1>4. Covered(j)
  BY DEF PayInv
<1>5. Taking(j)' = Taking(j)
  BY <1>2, <1>3 DEF Taking
<1>6. CASE done' = done \cup {k} /\ faults' = faults
  <2>1. Owed(j)' \subseteq Owed(j)
    BY <1>2, <1>3, <1>6 DEF Owed, k
  <2>2. unmarks' >= unmarks /\ faults' >= faults /\ paid'[j] = paid[j]
    BY <1>1, <1>3, <1>6
  <2>3. QED
    BY <1>1, <1>4, <1>5, <2>1, <2>2, CoveredStays
<1>7. CASE done' = done /\ faults' = faults + 1
  <2>1. Owed(j)' \subseteq Owed(j) \cup {c} /\ c \notin Owed(j)
    BY <1>2, <1>3, <1>7 DEF Owed
  <2>2. Cardinality(Owed(j)') <= Cardinality(Owed(j)) + 1
    <3>1. /\ IsFiniteSet(Owed(j) \cup {c})
          /\ Cardinality(Owed(j) \cup {c}) = Cardinality(Owed(j)) + 1
      BY <2>1, CallSetFacts, FS_AddElement
    <3>2. QED
      BY <2>1, <3>1, FS_Subset
  <2> DEFINE due == (unmarks - Cardinality(Taking(j))) * Others
  <2>3. due \in Int
    BY <1>1, CallSetFacts, MoreTimes
  <2>4. (unmarks' - Cardinality(Taking(j)')) * Others' = due
    BY <1>3, <1>5 DEF Others
  <2>5. paid[j] + Cardinality(Owed(j)) <= due + faults
    BY <1>4 DEF Covered
  <2>6. paid[j] \in Nat
    BY <1>1 DEF TypeOK
  <2> HIDE DEF due
  <2>7. paid[j] + Cardinality(Owed(j)') <= due + faults'
    BY <1>1, <1>7, <2>2, <2>3, <2>5, <2>6, CallSetFacts, SetFactsNext
  <2>8. QED
    BY <1>3, <2>4, <2>7 DEF Covered
<1>8. QED
  BY <1>3, <1>6, <1>7

LEMMA EarnPays ==
    ASSUME LInv, TInv', PayInv, NEW c \in Calls, Earn(c)
    PROVE  PayInv'
<1>1. TInv /\ TypeOK
  BY DEF LInv, TInv
<1>2. \A d \in Calls \ {c} : pc'[d] = pc[d] /\ call'[d] = call[d]
  BY EarnNotes DEF Notes
<1>3. /\ pc[c] = "earn" /\ call' = call
      /\ pc'[c] = IF call[c].task \in done THEN "readPhases" ELSE "award"
      /\ UNCHANGED <<done, paid, unmarks, faults>>
  BY <1>1 DEF Earn, Goto, rows, counters, clicks, TypeOK
<1> SUFFICES ASSUME NEW j \in Tasks PROVE Covered(j)'
  BY DEF PayInv, Tasks, Phases
<1>4. Owed(j)' \subseteq Owed(j)
  BY <1>2, <1>3 DEF Owed
<1>5. Taking(j)' = Taking(j)
  BY <1>2, <1>3 DEF Taking
<1>6. Covered(j) /\ unmarks' >= unmarks /\ faults' >= faults
  BY <1>1, <1>3 DEF PayInv, TypeOK
<1>7. QED
  BY <1>1, <1>3, <1>4, <1>5, <1>6, CoveredStays

LEMMA AwardPays ==
    ASSUME LInv, TInv', PayInv, NEW c \in Calls, Award(c)
    PROVE  PayInv'
<1> DEFINE k == call[c].task
<1>1. /\ TInv /\ TypeOK /\ k \in Tasks
  BY DEF LInv, TInv, CallTypes, TaskLabels, Award
<1>2. \A d \in Calls \ {c} : pc'[d] = pc[d] /\ call'[d] = call[d]
  BY AwardNotes DEF Notes
<1>3. /\ pc[c] = "award" /\ pc'[c] = "readPhases"
      /\ paid' = [paid EXCEPT ![k] = @ + 1]
      /\ UNCHANGED <<done, unmarks, faults>>
  BY <1>1 DEF Award, Goto, counters, clicks, TypeOK
<1> HIDE DEF k
<1> SUFFICES ASSUME NEW j \in Tasks PROVE Covered(j)'
  BY DEF PayInv, Tasks, Phases
<1>4. Taking(j)' = Taking(j) /\ Owed(j)' = Owed(j) \ {c}
  BY <1>2, <1>3 DEF Taking, Owed
<1>5. Covered(j) /\ unmarks' >= unmarks /\ faults' >= faults
  BY <1>1, <1>3 DEF PayInv, TypeOK
<1>6. CASE j # k
  <2>1. paid'[j] = paid[j]
    BY <1>1, <1>3, <1>6 DEF TypeOK
  <2>2. QED
    BY <1>1, <1>4, <1>5, <2>1, CoveredStays
<1>7. CASE j = k
  <2>1. c \in Owed(j)
    BY <1>3, <1>7 DEF Owed, k
  <2>2. Cardinality(Owed(j)') = Cardinality(Owed(j)) - 1
    BY <1>4, <2>1, CallSetFacts, FS_RemoveElement
  <2>3. paid'[j] = paid[j] + 1 /\ paid[j] \in Nat
    BY <1>1, <1>3, <1>7 DEF TypeOK
  <2>4. paid'[j] + Cardinality(Owed(j)') = paid[j] + Cardinality(Owed(j))
    BY <2>2, <2>3, CallSetFacts
  <2>5. QED
    BY <1>3, <1>4, <1>5, <2>4 DEF Covered, Others
<1>8. QED
  BY <1>6, <1>7

LEMMA CloseTabPays ==
    ASSUME LInv, TInv', PayInv, NEW t \in Tabs, CloseTab(t)
    PROVE  PayInv'
<1>1. TInv /\ TypeOK /\ \A c \in Calls : call[c] \in Call
  BY DEF LInv, TInv, TypeOK
<1>2. UNCHANGED <<done, paid, unmarks, faults>> /\ Calls # {}
  BY DEF CloseTab, rows, clicks
<1>3. ASSUME NEW c \in Calls
      PROVE  \/ pc'[c] = pc[c] /\ call'[c].task = call[c].task
             \/ pc[c] \in PageLabels /\ pc'[c] = "idle"
  <2>1. \/ call'[c] = call[c] /\ pc'[c] = pc[c]
        \/ pc[c] \in PageLabels /\ pc'[c] = "idle"
        \/ call'[c] = [call[c] EXCEPT !.tab = 0] /\ pc'[c] = pc[c]
    BY DEF CloseTab
  <2>2. call'[c] = [call[c] EXCEPT !.tab = 0] => call'[c].task = call[c].task
    BY <1>1 DEF Call
  <2>3. QED
    BY <2>1, <2>2
<1> SUFFICES ASSUME NEW j \in Tasks PROVE Covered(j)'
  BY DEF PayInv, Tasks, Phases
<1>4. Owed(j)' \subseteq Owed(j)
  BY <1>2, <1>3 DEF Owed, PageLabels
<1>5. Taking(j)' = Taking(j)
  BY <1>3 DEF Taking, PageLabels
<1>6. Covered(j) /\ unmarks' >= unmarks /\ faults' >= faults
  BY <1>1, <1>2 DEF PayInv, TypeOK
<1>7. QED
  BY <1>1, <1>2, <1>4, <1>5, <1>6, CoveredStays

LEMMA PayInit == Init => PayInv
<1> SUFFICES ASSUME Init, NEW k \in Tasks PROVE Covered(k)
  BY DEF PayInv
<1>1. Owed(k) = {} /\ Taking(k) = {}
  BY DEF Init, Owed, Taking
<1>2. paid[k] = 0 /\ unmarks = 0 /\ faults = 0 /\ Others \in Int
  BY CallSetFacts DEF Init, Others
<1>3. Cardinality({}) = 0
  BY FS_EmptySet
<1>4. (unmarks - Cardinality(Taking(k))) * Others = 0
  BY <1>1, <1>2, <1>3
<1>5. QED
  BY <1>1, <1>2, <1>3, <1>4 DEF Covered

LEMMA SamePays ==
    ASSUME PayInv, UNCHANGED <<done, paid, unmarks, faults, pc, call>>
    PROVE  PayInv'
<1>1. \A k \in Tasks : Owed(k)' = Owed(k) /\ Taking(k)' = Taking(k)
  BY DEF Owed, Taking
<1>2. \A k \in Tasks : Covered(k)'
  BY <1>1 DEF PayInv, Covered, Others
<1>3. QED
  BY <1>2 DEF PayInv, Tasks, Phases

LEMMA PayStep == LInv /\ PayInv /\ [Next]_vars => PayInv'
<1> SUFFICES ASSUME LInv, PayInv, [Next]_vars PROVE PayInv'
  OBVIOUS
<1>1. TInv /\ TInv'
  BY TypeStep DEF LInv
<1>2. ASSUME NEW c \in Calls, Step(c) PROVE PayInv'
  BY <1>1, <1>2, StepsPass, PassesPays, UnmarkPays, MarkPays, EarnPays, AwardPays
  DEF Step
<1>3. ASSUME NEW c \in Calls, NEW t \in Tabs, NEW k \in Tasks, Click(c, t, k)
      PROVE  PayInv'
  BY <1>1, <1>3, ClickPays
<1>4. ASSUME NEW c \in Calls, NEW r \in UnlockIds, Approve(c, r) PROVE PayInv'
  BY <1>1, <1>4, StepsPass, PassesPays
<1>5. ASSUME NEW c \in Calls, AskUnlock(c) \/ Dies(c) PROVE PayInv'
  BY <1>1, <1>5, StepsPass, PassesPays
<1>6. ASSUME NEW t \in Tabs, Refetch(t) PROVE PayInv'
  BY <1>6, SamePays DEF Refetch, rows, counters, clicks
<1>7. ASSUME NEW t \in Tabs, CloseTab(t) PROVE PayInv'
  BY <1>1, <1>7, CloseTabPays
<1>8. CASE UNCHANGED vars
  BY <1>8, SamePays DEF vars, rows, counters, clicks
<1>9. QED
  BY <1>2, <1>3, <1>4, <1>5, <1>6, <1>7, <1>8 DEF Next

(* A task is paid only for completions that billing could not see: each    *)
(* one taken back is missed by at most every other call, each lost write   *)
(* by one, whatever else is clicked, killed, closed or opened.             *)
THEOREM PaidIfMissedHolds == Spec => []PaidIfMissed
<1>1. Spec => [](LInv /\ PayInv)
  BY LadderInit, LadderStep, PayInit, PayStep, PTL DEF Spec
<1>2. LInv /\ PayInv => PaidIfMissed
  <2> SUFFICES ASSUME LInv, PayInv, NEW k \in Tasks
               PROVE  paid[k] <= unmarks * Others + faults
    BY DEF PaidIfMissed, Others
  <2>1. paid[k] \in Nat /\ unmarks \in Nat /\ faults \in Nat
    BY DEF LInv, TInv, TypeOK
  <2>2. CASE Calls # {}
    <3> DEFINE due == (unmarks - Cardinality(Taking(k))) * Others
               all == unmarks * Others
    <3>1. due <= all /\ due \in Int /\ all \in Int
      <4>1. /\ unmarks - Cardinality(Taking(k)) \in Int /\ unmarks \in Int
            /\ unmarks - Cardinality(Taking(k)) <= unmarks /\ Others \in Nat
        BY <2>1, <2>2, CallSetFacts
      <4>2. QED
        BY <4>1, MoreTimes
    <3>2. paid[k] + Cardinality(Owed(k)) <= due + faults
      BY DEF PayInv, Covered
    <3> HIDE DEF due
    <3>3. paid[k] <= all + faults
      <4> HIDE DEF all
      <4>1. QED
        BY <2>1, <3>1, <3>2, CallSetFacts
    <3>4. QED
      BY <3>3
  <2>3. CASE Calls = {}
    <3>1. Owed(k) = {} /\ Taking(k) = {} /\ Cardinality({}) = 0
      BY <2>3, FS_EmptySet DEF Owed, Taking
    <3>2. paid[k] + 0 <= (unmarks - 0) * Others + faults
      BY <3>1 DEF PayInv, Covered
    <3>3. QED
      BY <2>1, <3>2
  <2>4. QED
    BY <2>2, <2>3
<1>3. QED
  BY <1>1, <1>2, PTL

-----------------------------------------------------------------------------
(* CallsRunOut: the loop's phase only grows, and stays below PhaseCount.   *)

LEMMA LeftIs ==
    /\ Left["readTask"] = 9 /\ Left["mark"] = 8 /\ Left["earn"] = 7
    /\ Left["award"] = 6 /\ Left["readPhases"] = 5 /\ Left["readTasks"] = 4
    /\ Left["complete"] = 3 /\ Left["unlockNext"] = 2 /\ Left["count"] = 4
    /\ Left["percent"] = 3 /\ Left["closePhase"] = 2 /\ Left["openNext"] = 1
    /\ Left["findLocked"] = 4 /\ Left["insertUnlock"] = 3 /\ Left["override"] = 4
    /\ Left["approved"] = 3 /\ Left["unmark"] = 1 /\ Left["idle"] = 0
BY DEF Left

LEMMA AheadIs ==
    ASSUME TInv, NEW c \in Calls
    PROVE  /\ pc[c] \in LoopLabels =>
                 /\ PhasesAhead(c) = PhaseCount - call[c].phase
                 /\ PhasesAhead(c) \in Nat /\ PhasesAhead(c) > 0
                 /\ call[c].phase \in Nat
           /\ pc[c] \in BeforeLoop => PhasesAhead(c) = PhaseCount - 1
           /\ pc[c] \notin LoopLabels \cup BeforeLoop => PhasesAhead(c) = 0
           /\ PhasesAhead(c) \in Nat
<1>1. call[c].phase \in 0..PhaseCount
  BY DEF TInv, TypeOK, Call
<1>2. pc[c] \in LoopLabels => call[c].phase > 0 /\ call[c].phase < PhaseCount
  BY DEF TInv, CallTypes, LoopGoesOn
<1>3. QED
  BY <1>1, <1>2, ConstantTypes DEF PhasesAhead, LoopLabels, BeforeLoop

LEMMA RemainingType ==
    /\ TInv => \A c \in Calls : Remaining(c) \in Nat
    /\ TInv' => \A c \in Calls : Remaining(c)' \in Nat
<1>1. ASSUME TInv, NEW c \in Calls PROVE Remaining(c) \in Nat
  <2>1. pc[c] \in Labels
    BY <1>1 DEF TInv, TypeOK
  <2>2. Left[pc[c]] \in Nat
    BY <2>1, LeftIs DEF Labels, FunctionLabels, PageLabels
  <2>3. QED
    BY <1>1, <2>2, AheadIs DEF Remaining
<1>2. TInv => \A c \in Calls : Remaining(c) \in Nat
  BY <1>1
<1>3. (TInv => \A c \in Calls : Remaining(c) \in Nat)'
  BY <1>2, PTL
<1>4. QED
  BY <1>2, <1>3

LEMMA Shorter ==
    ASSUME TInv, TInv', NEW c \in Calls, pc'[c] \notin LoopLabels \cup BeforeLoop,
           Left[pc[c]] \in Nat, Left[pc'[c]] \in Nat, Left[pc'[c]] < Left[pc[c]]
    PROVE  Remaining(c)' < Remaining(c)
<1>1. PhasesAhead(c) \in Nat
  BY AheadIs
<1>2. PhasesAhead(c)' = 0
  BY DEF PhasesAhead
<1>3. Left' = Left
  BY DEF Left
<1>4. Remaining(c)' = Left[pc'[c]]
  BY <1>2, <1>3 DEF Remaining
<1>5. QED
  BY <1>1, <1>4 DEF Remaining

LEMMA LoopShorter ==
    ASSUME TInv, TInv', NEW c \in Calls, NEW n \in Nat, n > 0,
           pc'[c] \in {"readTasks", "count"},
           pc'[c] = "readTasks" => PhasesAhead(c)' = n - 1
    PROVE  Remaining(c)' < 3 * n + 2
<1>1. Left' = Left
  BY DEF Left
<1>2. CASE pc'[c] = "readTasks"
  BY <1>1, <1>2, LeftIs DEF Remaining
<1>3. CASE pc'[c] = "count"
  <2>1. PhasesAhead(c)' = 0
    BY <1>3 DEF PhasesAhead, LoopLabels, BeforeLoop
  <2>2. QED
    BY <1>1, <1>3, <2>1, LeftIs DEF Remaining
<1>4. QED
  BY <1>2, <1>3

LEMMA StraightRuns ==
    ASSUME TInv, TInv', NEW c \in Calls
    PROVE  \/ Unmark(c) \/ CountDone(c) \/ Answer(c) \/ ClosePhase(c)
           \/ OpenNext(c) \/ FindLocked(c) \/ InsertUnlock(c) \/ Override(c)
           \/ MarkApproved(c)
           => Remaining(c)' < Remaining(c)
<1>1. TypeOK
  BY DEF TInv
<1>2. ASSUME Unmark(c) PROVE pc[c] = "unmark" /\ pc'[c] = "idle"
  BY <1>1, <1>2 DEF Unmark, Finishes, Goto, TypeOK
<1>3. ASSUME CountDone(c) PROVE pc[c] = "count" /\ pc'[c] = "percent"
  BY <1>1, <1>3 DEF CountDone, Goto, TypeOK
<1>4. ASSUME Answer(c) PROVE pc[c] = "percent" /\ pc'[c] \in {"closePhase", "idle"}
  BY <1>1, <1>4 DEF Answer, PageGoesOn, Goto, TypeOK
<1>5. ASSUME ClosePhase(c)
      PROVE  pc[c] = "closePhase" /\ pc'[c] \in {"openNext", "idle"}
  BY <1>1, <1>5 DEF ClosePhase, Finishes, Goto, TypeOK
<1>6. ASSUME OpenNext(c) PROVE pc[c] = "openNext" /\ pc'[c] = "idle"
  BY <1>1, <1>6 DEF OpenNext, Finishes, Goto, TypeOK
<1>7. ASSUME FindLocked(c)
      PROVE  pc[c] = "findLocked" /\ pc'[c] \in {"insertUnlock", "idle"}
  BY <1>1, <1>7 DEF FindLocked, Finishes, Goto, TypeOK
<1>8. ASSUME InsertUnlock(c) PROVE pc[c] = "insertUnlock" /\ pc'[c] = "idle"
  BY <1>1, <1>8 DEF InsertUnlock, Finishes, Goto, TypeOK
<1>9. ASSUME Override(c) PROVE pc[c] = "override" /\ pc'[c] = "approved"
  BY <1>1, <1>9 DEF Override, Goto, TypeOK
<1>10. ASSUME MarkApproved(c) PROVE pc[c] = "approved" /\ pc'[c] = "idle"
  BY <1>1, <1>10 DEF MarkApproved, Finishes, Goto, TypeOK
<1>11. QED
  BY <1>2, <1>3, <1>4, <1>5, <1>6, <1>7, <1>8, <1>9, <1>10, Shorter, LeftIs
  DEF LoopLabels, BeforeLoop

LEMMA BillingRuns ==
    ASSUME TInv, TInv', NEW c \in Calls
    PROVE  Mark(c) \/ Earn(c) \/ Award(c) => Remaining(c)' < Remaining(c)
<1>1. TypeOK
  BY DEF TInv
<1>2. ASSUME Mark(c) PROVE pc[c] = "mark" /\ pc'[c] = "earn"
  BY <1>1, <1>2 DEF Mark, Goto, TypeOK
<1>3. ASSUME Earn(c) PROVE pc[c] = "earn" /\ pc'[c] \in {"readPhases", "award"}
  BY <1>1, <1>3 DEF Earn, Goto, TypeOK
<1>4. ASSUME Award(c) PROVE pc[c] = "award" /\ pc'[c] = "readPhases"
  BY <1>1, <1>4 DEF Award, Goto, TypeOK
<1>5. ASSUME pc[c] \in BeforeLoop, pc'[c] \in BeforeLoop
      PROVE  /\ Remaining(c) = 3 * (PhaseCount - 1) + Left[pc[c]]
             /\ Remaining(c)' = 3 * (PhaseCount - 1) + Left[pc'[c]]
  BY <1>5 DEF Remaining, PhasesAhead, BeforeLoop, LoopLabels, Left
<1>6. QED
  BY <1>2, <1>3, <1>4, <1>5, LeftIs, ConstantTypes DEF BeforeLoop

LEMMA RefusalRuns ==
    ASSUME TInv, TInv', NEW c \in Calls, Refuse(c),
           pc[c] \in FunctionLabels
    PROVE  Remaining(c)' < Remaining(c)
<1>1. pc'[c] \in {"closePhase", "idle"}
  BY DEF Refuse, PageGoesOn, Goto, TInv, TypeOK
<1>2. CASE pc[c] # "unlockNext"
  BY <1>1, <1>2, Shorter, LeftIs DEF FunctionLabels, LoopLabels, BeforeLoop
<1>3. CASE pc[c] = "unlockNext"
  <2>1. PhasesAhead(c) \in Nat /\ PhasesAhead(c) > 0 /\ Left' = Left
    BY <1>3, AheadIs DEF LoopLabels, Left
  <2>2. PhasesAhead(c)' = 0
    BY <1>1 DEF PhasesAhead, LoopLabels, BeforeLoop
  <2>3. Left[pc'[c]] \in 0..2 /\ Left[pc[c]] = 2
    BY <1>1, <1>3, LeftIs
  <2>4. QED
    BY <2>1, <2>2, <2>3 DEF Remaining
<1>4. QED
  BY <1>2, <1>3

LEMMA ReadTaskRuns ==
    ASSUME TInv, TInv', NEW c \in Calls, ReadTask(c)
    PROVE  Remaining(c)' < Remaining(c)
<1>1. CASE Refuse(c)
  BY <1>1, RefusalRuns DEF ReadTask, FunctionLabels
<1>2. CASE pc' = [pc EXCEPT ![c] = "mark"]
  <2>1. pc[c] = "readTask" /\ pc'[c] = "mark"
    BY <1>2 DEF ReadTask, TInv, TypeOK
  <2>2. /\ Remaining(c) = 3 * (PhaseCount - 1) + Left["readTask"]
        /\ Remaining(c)' = 3 * (PhaseCount - 1) + Left["mark"]
    BY <2>1 DEF Remaining, PhasesAhead, BeforeLoop, LoopLabels, Left
  <2>3. QED
    BY <2>2, LeftIs, ConstantTypes
<1>3. QED
  BY <1>1, <1>2 DEF ReadTask, Goto

(* The loop goes on to the phase after p, or to its end.                   *)
LEMMA LoopAtRuns ==
    ASSUME TInv, TInv', NEW c \in Calls, NEW p \in 0..(PhaseCount - 1),
           NEW snap, LoopAt(c, snap, p + 1), call'[c].phase = p + 1
    PROVE  Remaining(c)' < 3 * (PhaseCount - p) + 2
<1>1. pc'[c] \in {"readTasks", "count"}
  BY DEF LoopAt, Goto, TInv, TypeOK
<1>2. pc'[c] = "readTasks" => PhasesAhead(c)' = (PhaseCount - p) - 1
  BY ConstantTypes DEF PhasesAhead, LoopLabels
<1>3. PhaseCount - p \in Nat /\ PhaseCount - p > 0
  BY ConstantTypes
<1> DEFINE n == PhaseCount - p
<1> HIDE DEF n
<1>4. Remaining(c)' < 3 * n + 2
  BY <1>1, <1>2, <1>3, LoopShorter DEF n
<1>5. QED
  BY <1>4 DEF n

LEMMA ReadPhasesRuns ==
    ASSUME TInv, TInv', NEW c \in Calls, ReadPhases(c)
    PROVE  Remaining(c)' < Remaining(c)
<1>1. TypeOK /\ call[c] \in Call
  BY DEF TInv, TypeOK
<1>2. call'[c].phase = 0 + 1 /\ LoopAt(c, status, 0 + 1)
  BY <1>1 DEF ReadPhases, TypeOK, Call
<1>3. 0 \in 0..(PhaseCount - 1) /\ PhaseCount - 0 = PhaseCount
  BY ConstantTypes
<1>4. Remaining(c)' < 3 * PhaseCount + 2
  BY <1>2, <1>3, LoopAtRuns
<1>5. Remaining(c) = 3 * (PhaseCount - 1) + 5
  BY LeftIs DEF ReadPhases, Remaining, PhasesAhead, LoopLabels, BeforeLoop
<1>6. QED
  BY <1>4, <1>5, ConstantTypes

LEMMA LoopPhase ==
    ASSUME TInv, NEW c \in Calls, pc[c] \in LoopLabels
    PROVE  /\ call[c].phase \in 0..(PhaseCount - 1) /\ call[c].phase + 1 \in Nat
           /\ Remaining(c) = 3 * (PhaseCount - call[c].phase) + Left[pc[c]]
BY AheadIs, ConstantTypes DEF Remaining

LEMMA ReadTasksRuns ==
    ASSUME TInv, TInv', NEW c \in Calls, ReadTasks(c)
    PROVE  Remaining(c)' < Remaining(c)
<1>1. TypeOK /\ pc[c] = "readTasks" /\ call[c] \in Call
  BY DEF TInv, TypeOK, ReadTasks
<1>2. /\ call[c].phase \in 0..(PhaseCount - 1)
      /\ Remaining(c) = 3 * (PhaseCount - call[c].phase) + 4
  BY <1>1, LoopPhase, LeftIs DEF LoopLabels
<1>3. CASE Goto(c, "complete") /\ UNCHANGED call
  <2>1. pc'[c] = "complete" /\ call'[c].phase = call[c].phase
    BY <1>1, <1>3 DEF Goto, TypeOK
  <2>2. Remaining(c)' = 3 * (PhaseCount - call[c].phase) + 3
    BY <2>1, LeftIs DEF Remaining, PhasesAhead, LoopLabels, Left
  <2>3. QED
    BY <1>2, <2>2, ConstantTypes
<1>4. CASE /\ call' = [call EXCEPT ![c].phase = call[c].phase + 1]
           /\ LoopAt(c, call[c].snap, call[c].phase + 1)
  <2>1. call'[c].phase = call[c].phase + 1
    BY <1>1, <1>4 DEF TypeOK, Call
  <2>2. Remaining(c)' < 3 * (PhaseCount - call[c].phase) + 2
    BY <1>2, <1>4, <2>1, LoopAtRuns
  <2>3. Remaining(c)' \in Int
    BY RemainingType
  <2>4. QED
    BY <1>2, <2>2, <2>3, ConstantTypes
<1>5. QED
  BY <1>3, <1>4 DEF ReadTasks

LEMMA CompletePhaseRuns ==
    ASSUME TInv, TInv', NEW c \in Calls, CompletePhase(c)
    PROVE  Remaining(c)' < Remaining(c)
<1>1. TypeOK /\ pc[c] = "complete" /\ call[c] \in Call
  BY DEF TInv, TypeOK, CompletePhase
<1>2. /\ call[c].phase \in 0..(PhaseCount - 1)
      /\ Remaining(c) = 3 * (PhaseCount - call[c].phase) + 3
  BY <1>1, LoopPhase, LeftIs DEF LoopLabels
<1>3. CASE Goto(c, "unlockNext") /\ UNCHANGED call
  <2>1. pc'[c] = "unlockNext" /\ call'[c].phase = call[c].phase
    BY <1>1, <1>3 DEF Goto, TypeOK
  <2>2. Remaining(c)' = 3 * (PhaseCount - call[c].phase) + 2
    BY <2>1, LeftIs DEF Remaining, PhasesAhead, LoopLabels, Left
  <2>3. QED
    BY <1>2, <2>2, ConstantTypes
<1>4. CASE /\ call' = [call EXCEPT ![c].phase = call[c].phase + 1]
           /\ LoopAt(c, call[c].snap, call[c].phase + 1)
  <2>1. call'[c].phase = call[c].phase + 1
    BY <1>1, <1>4 DEF TypeOK, Call
  <2>2. Remaining(c)' < 3 * (PhaseCount - call[c].phase) + 2
    BY <1>2, <1>4, <2>1, LoopAtRuns
  <2>3. Remaining(c)' \in Int
    BY RemainingType
  <2>4. QED
    BY <1>2, <2>2, <2>3, ConstantTypes
<1>5. QED
  BY <1>3, <1>4 DEF CompletePhase

LEMMA UnlockNextRuns ==
    ASSUME TInv, TInv', NEW c \in Calls, UnlockNext(c)
    PROVE  Remaining(c)' < Remaining(c)
<1>1. TypeOK /\ pc[c] = "unlockNext" /\ call[c] \in Call
  BY DEF TInv, TypeOK, UnlockNext
<1>2. /\ call[c].phase \in 0..(PhaseCount - 1)
      /\ Remaining(c) = 3 * (PhaseCount - call[c].phase) + 2
  BY <1>1, LoopPhase, LeftIs DEF LoopLabels
<1>3. /\ call'[c].phase = call[c].phase + 1
      /\ LoopAt(c, call[c].snap, call[c].phase + 1)
  BY <1>1 DEF UnlockNext, TypeOK, Call
<1>4. QED
  BY <1>2, <1>3, LoopAtRuns

LEMMA StepRuns ==
    ASSUME TInv, TInv', NEW c \in Calls, Step(c) \/ Dies(c)
    PROVE  Remaining(c)' < Remaining(c)
BY StraightRuns, BillingRuns, ReadTaskRuns, ReadPhasesRuns, ReadTasksRuns,
   CompletePhaseRuns, UnlockNextRuns, RefusalRuns
DEF Step, Dies

LEMMA SameRemaining ==
    ASSUME NEW c \in Calls, pc'[c] = pc[c], call'[c].phase = call[c].phase
    PROVE  Remaining(c)' = Remaining(c)
BY DEF Remaining, PhasesAhead, Left

(* A step of another call.                                                 *)
LEMMA OthersRemain ==
    ASSUME NEW c \in Calls, Notes(c), NEW d \in Calls, d # c
    PROVE  Remaining(d)' = Remaining(d)
BY SameRemaining DEF Notes

RunsOut(d) == /\ Remaining(d)' <= Remaining(d)
              /\ Step(d) \/ Dies(d) => Remaining(d)' < Remaining(d)

LEMMA RunOutStep ==
    ASSUME LInv, [Next]_vars, NEW d \in Calls, pc[d] # "idle"
    PROVE  RunsOut(d)
<1>1. TInv /\ TInv'
  BY TypeStep DEF LInv
<1>2. Remaining(d) \in Int /\ Remaining(d)' \in Int
  BY <1>1, RemainingType
<1>3. Step(d) \/ Dies(d) => Remaining(d)' < Remaining(d)
  BY <1>1, StepRuns
<1> DEFINE Goal == Remaining(d)' < Remaining(d) \/ Remaining(d)' = Remaining(d)
<1>4. Goal
  <2>1. ASSUME NEW c \in Calls, Step(c) PROVE c = d \/ Notes(c)
    BY <2>1, UnmarkNotes, ReadTaskNotes, MarkNotes, EarnNotes, AwardNotes,
       ReadPhasesNotes, ReadTasksNotes, CompletePhaseNotes, UnlockNextNotes,
       CountDoneNotes, AnswerNotes, ClosePhaseNotes, OpenNextNotes,
       FindLockedNotes, InsertUnlockNotes, OverrideNotes, MarkApprovedNotes
    DEF Step
  <2>2. ASSUME NEW c \in Calls, Step(c) PROVE Goal
    BY <1>3, <2>1, <2>2, OthersRemain
  <2>3. ASSUME NEW c \in Calls, Dies(c) PROVE Goal
    BY <1>3, <2>3, DiesNotes, OthersRemain
  <2>4. ASSUME NEW c \in Calls, AskUnlock(c) PROVE Goal
    BY <2>4, AskUnlockNotes, OthersRemain DEF AskUnlock
  <2>5. ASSUME NEW c \in Calls, NEW r \in UnlockIds, Approve(c, r) PROVE Goal
    BY <2>5, ApproveNotes, OthersRemain DEF Approve
  <2>6. ASSUME NEW c \in Calls, NEW t \in Tabs, NEW k \in Tasks, Click(c, t, k)
        PROVE  Goal
    BY <2>6, ClickNotes, OthersRemain DEF Click
  <2>7. ASSUME NEW t \in Tabs, Refetch(t) PROVE Goal
    BY <2>7, SameRemaining DEF Refetch
  <2>8. ASSUME NEW t \in Tabs, CloseTab(t) PROVE Goal
    <3>1. call[d] \in Call
      BY <1>1 DEF TInv, TypeOK
    <3>2. CASE pc'[d] = pc[d] /\ call'[d].phase = call[d].phase
      BY <3>2, SameRemaining
    <3>3. CASE pc[d] \in PageLabels /\ pc'[d] = "idle"
      BY <1>1, <3>3, Shorter, LeftIs DEF PageLabels, LoopLabels, BeforeLoop
    <3>4. QED
      BY <2>8, <3>1, <3>2, <3>3 DEF CloseTab, Call
  <2>9. CASE UNCHANGED vars
    BY <2>9, SameRemaining DEF vars
  <2>10. QED
    BY <2>2, <2>3, <2>4, <2>5, <2>6, <2>7, <2>8, <2>9 DEF Next
<1>5. QED
  BY <1>2, <1>3, <1>4 DEF RunsOut

(* Every step of a call brings its end nearer and no other step moves it   *)
(* away, for any number of phases, calls and pages and whatever fails: a   *)
(* completion makes at most 3 round trips per phase and 6 more.            *)
THEOREM CallsRunOutHolds == Spec => CallsRunOut
<1>1. Spec => []LInv
  BY LadderInit, LadderStep, PTL DEF Spec
<1>2. LInv /\ [Next]_vars =>
         [\A c \in Calls : pc[c] # "idle" =>
              /\ Remaining(c)' <= Remaining(c)
              /\ Step(c) \/ Dies(c) => Remaining(c)' < Remaining(c)]_vars
  BY RunOutStep DEF RunsOut
<1>3. QED
  BY <1>1, <1>2, PTL DEF Spec, CallsRunOut
=============================================================================
