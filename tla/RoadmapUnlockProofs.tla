------------------------ MODULE RoadmapUnlockProofs ------------------------
(***************************************************************************)
(* Proofs of what opens a phase of RoadmapTasks, and what must.  Both hold *)
(* only where no function dies and no write fails; MaxDeaths = 0 and       *)
(* MaxFaults = 0 say so, for any number of pages, phases, tasks, clicks    *)
(* and closed tabs.                                                        *)
(***************************************************************************)
EXTENDS RoadmapTasksProofs

-----------------------------------------------------------------------------
(* OpenedByWork, where one call runs at a time: what a page shows as done  *)
(* is done, or is the task of the call that is about to mark it.           *)

OneCall == \A c, d \in Calls : c = d

AfterMark == {"earn", "award", "readPhases", "readTasks", "complete",
              "unlockNext", "count", "percent"} \cup PageLabels

Marking(c) == pc[c] \in {"readTask", "mark"}

CallWork(c) ==
    /\ pc[c] # "unmark"
    /\ call[c].before.done \subseteq done
    /\ call[c].closes => TasksOf(call[c].task[1]) \subseteq done \cup {call[c].task}
    /\ call[c].opens # 0 => call[c].closes /\ call[c].opens = call[c].task[1] + 1
    /\ pc[c] \in AfterMark => call[c].task \in done
    /\ pc[c] = "unlockNext" => call[c].phase \in finished
    /\ pc[c] = "override" =>
          call[c].unlock \in 1..asked /\ unlocks[call[c].unlock].phase = call[c].phase

AskedFor(p) == \E r \in 1..asked : unlocks[r].phase = p

Earned == \A p \in 1..(PhaseCount - 1) :
              status[p + 1] # "locked" => p \in finished \/ AskedFor(p + 1)

Work ==
    /\ Earned
    /\ \A t \in Tabs : \A k \in view[t].done :
          k \in done \/ \E c \in Calls : Marking(c) /\ k = call[c].task
    /\ \A r \in UnlockIds : unlocks[r].pending => r <= asked
    /\ \A c \in Calls : CallWork(c)

WInv == unmarks = 0 => Work

LEMMA WorkInit == Init => WInv
<1> SUFFICES ASSUME Init PROVE Work
  BY DEF WInv
<1>1. Earned
  <2> SUFFICES ASSUME NEW p \in 1..(PhaseCount - 1) PROVE status[p + 1] = "locked"
    BY DEF Earned
  <2>1. p + 1 \in Phases /\ p + 1 # 1
    BY ConstantTypes DEF Phases
  <2>2. QED
    BY <2>1 DEF Init
<1>2. \A t \in Tabs : view[t].done = {}
  BY DEF Init, Fetched
<1>3. \A c \in Calls : CallWork(c)
  BY DEF Init, CallWork, NoCall, AfterMark, PageLabels
<1>4. QED
  BY <1>1, <1>2, <1>3 DEF Work, Init

(* What the step of a call has to show.                                    *)
Works(c) ==
    /\ unmarks = 0
    /\ done \subseteq done' /\ finished \subseteq finished'
    /\ asked \in Nat /\ asked' \in Nat /\ asked <= asked'
    /\ \A r \in 1..asked : unlocks'[r].phase = unlocks[r].phase
    /\ \A r \in UnlockIds : unlocks'[r].pending => r <= asked'
    /\ \A p \in 1..(PhaseCount - 1) : status'[p + 1] # "locked" =>
          status[p + 1] # "locked" \/ p \in finished \/ AskedFor(p + 1)
    /\ \A t \in Tabs : \A k \in view'[t].done :
          k \in done' \/ (Marking(c)' /\ k = call'[c].task)
    /\ CallWork(c)'

LEMMA WorksKeeps ==
    ASSUME OneCall, WInv, NEW c \in Calls, Works(c)
    PROVE  Work'
<1>1. Work
  BY DEF WInv, Works
<1>2. \A p : AskedFor(p) => AskedFor(p)'
  <2> SUFFICES ASSUME NEW p, NEW r \in 1..asked, unlocks[r].phase = p
               PROVE  AskedFor(p)'
    BY DEF AskedFor
  <2>1. r \in 1..asked' /\ unlocks'[r].phase = p
    BY DEF Works
  <2>2. QED
    BY <2>1 DEF AskedFor
<1>3. Earned'
  <2> SUFFICES ASSUME NEW p \in 1..(PhaseCount - 1), status'[p + 1] # "locked"
               PROVE  p \in finished' \/ AskedFor(p + 1)'
    BY DEF Earned
  <2>1. p \in finished \/ AskedFor(p + 1)
    BY <1>1 DEF Works, Work, Earned
  <2>2. QED
    BY <1>2, <2>1 DEF Works
<1>4. \A t \in Tabs : \A k \in view'[t].done :
          k \in done' \/ \E d \in Calls : Marking(d)' /\ k = call'[d].task
  BY DEF Works
<1>5. \A d \in Calls : CallWork(d)'
  BY DEF Works, OneCall
<1>6. QED
  BY <1>3, <1>4, <1>5 DEF Work, Works

(* What holds before the step of a call.                                   *)
Before(c) == /\ OneCall /\ MaxFaults = 0 /\ MaxDeaths = 0
             /\ LInv /\ DInv /\ WInv /\ TInv' /\ unmarks = 0
             /\ c \in Calls

LEMMA BeforeFacts ==
    ASSUME NEW c, Before(c)
    PROVE  /\ c \in Calls /\ TypeOK /\ CallTypes(c) /\ call[c] \in Call
           /\ CallWork(c) /\ Work /\ asked \in Nat /\ ~WriteLost
           /\ \A p \in Phases : TasksOf(p) \subseteq done => p \in finished
           /\ pc[c] = "complete" => call[c].phase \in finished
           /\ \A t \in Tabs : \A k \in view[t].done :
                 k \in done \/ (Marking(c) /\ k = call[c].task)
<1>1. TypeOK /\ CallTypes(c) /\ call[c] \in Call /\ asked \in Nat
  BY ConstantTypes DEF Before, LInv, TInv, TypeOK
<1>2. Work /\ CallWork(c)
  BY DEF Before, WInv, Work
<1>3. \A t \in Tabs : \A k \in view[t].done :
         k \in done \/ (Marking(c) /\ k = call[c].task)
  BY <1>2 DEF Before, OneCall, Work
<1>4. ~WriteLost
  BY <1>1 DEF Before, WriteLost, TypeOK
<1>5. QED
  BY <1>1, <1>2, <1>3, <1>4 DEF Before, DInv

(* A step that opens nothing and asks for no unlock.                       *)
LEMMA WorksHere ==
    ASSUME NEW c, Before(c), done \subseteq done', finished \subseteq finished',
           UNCHANGED <<asked, status>>,
           \A r \in UnlockIds : /\ unlocks'[r].phase = unlocks[r].phase
                                /\ unlocks'[r].pending => unlocks[r].pending,
           \A t \in Tabs : \A k \in view'[t].done :
              k \in done' \/ (Marking(c)' /\ k = call'[c].task),
           CallWork(c)'
    PROVE  Works(c)
<1>1. asked \in Nat /\ asked \in 0..MaxUnlocks /\ Work
  BY BeforeFacts DEF TypeOK
<1>2. \A r \in 1..asked : r \in UnlockIds
  BY <1>1, ConstantTypes DEF UnlockIds
<1>3. \A r \in 1..asked : unlocks'[r].phase = unlocks[r].phase
  BY <1>2
<1>4. \A r \in UnlockIds : unlocks'[r].pending => r <= asked'
  BY <1>1 DEF Work
<1>5. QED
  BY <1>1, <1>3, <1>4 DEF Works, Before

-----------------------------------------------------------------------------
(* complete_task *)

LEMMA ReadTaskWork ==
    ASSUME NEW c, Before(c), ReadTask(c)
    PROVE  Works(c)
<1>1. UNCHANGED <<done, finished, asked, unlocks, status>>
  BY DEF ReadTask, rows
<1>2. CASE call[c].task \notin done
  <2>1. pc'[c] = "mark" /\ UNCHANGED <<view, call>>
    BY <1>2, BeforeFacts DEF ReadTask, Goto, TypeOK
  <2>2. CallWork(c)'
    BY <1>1, <2>1, BeforeFacts DEF CallWork, AfterMark, PageLabels, TasksOf, Tasks
  <2>3. QED
    BY <1>1, <2>1, <2>2, BeforeFacts, WorksHere DEF Marking, ReadTask
<1>3. CASE call[c].task \in done
  <2>1. Refuse(c)
    BY <1>3 DEF ReadTask
  <2>2. pc'[c] \in {"closePhase", "idle"}
    BY <2>1, BeforeFacts DEF Refuse, PageGoesOn, Goto, TypeOK
  <2>3. call'[c] = call[c] \/ (call'[c] = NoCall /\ pc'[c] = "idle")
    BY <2>1, BeforeFacts DEF Refuse, PageGoesOn, Goto, TypeOK
  <2>4. CallWork(c)'
    BY <1>1, <1>3, <2>2, <2>3, BeforeFacts DEF CallWork, NoCall, AfterMark, PageLabels
  <2>5. \A t \in Tabs : \A k \in view'[t].done : k \in done
    <3>1. call[c].before.done \subseteq done
      BY BeforeFacts DEF CallWork
    <3>2. \A t \in Tabs : view[t].done \subseteq done
      BY <1>3, BeforeFacts
    <3>3. view' = view \/ view' = [view EXCEPT ![call[c].tab] = call[c].before]
      BY <2>1 DEF Refuse
    <3>4. QED
      BY <3>1, <3>2, <3>3, BeforeFacts DEF TypeOK
  <2>6. QED
    BY <1>1, <2>4, <2>5, WorksHere
<1>4. QED
  BY <1>2, <1>3

LEMMA MarkWork ==
    ASSUME NEW c, Before(c), Mark(c)
    PROVE  Works(c)
<1>1. /\ done' = done \cup {call[c].task} /\ finished \subseteq finished'
      /\ UNCHANGED <<asked, unlocks, status, view, call>>
      /\ pc'[c] = "earn"
  BY BeforeFacts DEF Mark, Goto, TypeOK
<1>2. CallWork(c)'
  BY <1>1, BeforeFacts DEF CallWork, AfterMark, PageLabels
<1>3. \A t \in Tabs : \A k \in view'[t].done : k \in done'
  BY <1>1, BeforeFacts
<1>4. QED
  BY <1>1, <1>2, <1>3, WorksHere

(* A later step of the call that touches no page, no task and no status.   *)
LEMMA LaterWork ==
    ASSUME NEW c, Before(c), ~Marking(c),
           UNCHANGED <<done, finished, asked, unlocks, status, view>>,
           CallWork(c)'
    PROVE  Works(c)
<1>1. \A t \in Tabs : \A k \in view'[t].done : k \in done'
  BY BeforeFacts
<1>2. QED
  BY <1>1, WorksHere

LEMMA AnswersWork ==
    ASSUME NEW c, Before(c)
    PROVE  /\ Earn(c) => Works(c)
           /\ Award(c) => Works(c)
           /\ ReadPhases(c) => Works(c)
           /\ CountDone(c) => Works(c)
           /\ Answer(c) => Works(c)
<1> DEFINE Same == /\ call'[c].task = call[c].task
                   /\ call'[c].before = call[c].before
                   /\ call'[c].closes = call[c].closes
                   /\ call'[c].opens = call[c].opens
<1>1. ASSUME UNCHANGED <<done, finished>>, Same, pc[c] \in AfterMark,
             pc'[c] \in AfterMark \cup {"idle"}, pc'[c] # "unlockNext"
      PROVE  CallWork(c)'
  BY <1>1, BeforeFacts DEF CallWork, AfterMark, PageLabels
<1>2. ASSUME Earn(c) PROVE Works(c)
  <2>1. pc'[c] \in {"readPhases", "award"} /\ pc[c] = "earn"
        /\ UNCHANGED <<done, finished, asked, unlocks, status, view, call>>
    BY <1>2, BeforeFacts DEF Earn, Goto, TypeOK, rows
  <2>2. QED
    BY <1>1, <2>1, LaterWork DEF Marking, AfterMark
<1>3. ASSUME Award(c) PROVE Works(c)
  <2>1. pc'[c] = "readPhases" /\ pc[c] = "award"
        /\ UNCHANGED <<done, finished, asked, unlocks, status, view, call>>
    BY <1>3, BeforeFacts DEF Award, Goto, TypeOK
  <2>2. QED
    BY <1>1, <2>1, LaterWork DEF Marking, AfterMark
<1>4. ASSUME ReadPhases(c) PROVE Works(c)
  <2>1. pc'[c] \in {"readTasks", "count"} /\ pc[c] = "readPhases"
        /\ UNCHANGED <<done, finished, asked, unlocks, status, view>>
    BY <1>4, BeforeFacts DEF ReadPhases, LoopAt, Goto, TypeOK, rows
  <2>2. Same
    BY <1>4, BeforeFacts DEF ReadPhases, TypeOK, Call
  <2>3. QED
    BY <1>1, <2>1, <2>2, LaterWork DEF Marking, AfterMark
<1>5. ASSUME CountDone(c) PROVE Works(c)
  <2>1. pc'[c] = "percent" /\ pc[c] = "count"
        /\ UNCHANGED <<done, finished, asked, unlocks, status, view>>
    BY <1>5, BeforeFacts DEF CountDone, Goto, TypeOK, rows
  <2>2. Same
    BY <1>5, BeforeFacts DEF CountDone, TypeOK, Call
  <2>3. QED
    BY <1>1, <2>1, <2>2, LaterWork DEF Marking, AfterMark
<1>6. ASSUME Answer(c) PROVE Works(c)
  <2>1. pc'[c] \in {"closePhase", "idle"} /\ pc[c] = "percent"
        /\ UNCHANGED <<done, finished, asked, unlocks, status, view>>
    BY <1>6, BeforeFacts DEF Answer, PageGoesOn, Goto, TypeOK
  <2>2. call'[c] = call[c] \/ (call'[c] = NoCall /\ pc'[c] = "idle")
    BY <1>6, BeforeFacts DEF Answer, PageGoesOn, Goto, TypeOK
  <2>3. CallWork(c)'
    BY <2>1, <2>2, BeforeFacts DEF CallWork, NoCall, AfterMark, PageLabels
  <2>4. QED
    BY <2>1, <2>3, LaterWork DEF Marking
<1>7. QED
  BY <1>2, <1>3, <1>4, <1>5, <1>6

LEMMA ReadTasksWork ==
    ASSUME NEW c, Before(c), ReadTasks(c)
    PROVE  Works(c)
<1>1. /\ pc[c] = "readTasks" /\ pc'[c] \in {"readTasks", "complete", "count"}
      /\ UNCHANGED <<done, finished, asked, unlocks, status, view>>
  BY BeforeFacts DEF ReadTasks, LoopAt, Goto, TypeOK, rows
<1>2. /\ call'[c].task = call[c].task /\ call'[c].before = call[c].before
      /\ call'[c].closes = call[c].closes /\ call'[c].opens = call[c].opens
  <2>1. c \in Calls /\ call \in [Calls -> Call]
    BY BeforeFacts DEF TypeOK
  <2>2. call' = call \/ call' = [call EXCEPT ![c].phase = call[c].phase + 1]
    BY DEF ReadTasks
  <2>3. QED
    BY <2>1, <2>2 DEF Call
<1>3. CallWork(c)'
  BY <1>1, <1>2, BeforeFacts DEF CallWork, AfterMark, PageLabels
<1>4. QED
  BY <1>1, <1>3, LaterWork DEF Marking

(* A step that opens a phase it may open.                                  *)
LEMMA OpeningWork ==
    ASSUME NEW c, Before(c), ~Marking(c),
           UNCHANGED <<done, finished, asked, unlocks, view>>,
           NEW q \in Phases, NEW x, status' = [status EXCEPT ![q] = x],
           \/ status[q] # "locked"
           \/ q - 1 \in finished
           \/ AskedFor(q),
           CallWork(c)'
    PROVE  Works(c)
<1>1. Work /\ asked \in Nat
  BY BeforeFacts
<1>2. ASSUME NEW p \in 1..(PhaseCount - 1), status'[p + 1] # "locked"
      PROVE  status[p + 1] # "locked" \/ p \in finished \/ AskedFor(p + 1)
  <2>1. p + 1 \in Phases /\ (p + 1) - 1 = p
    BY ConstantTypes DEF Phases
  <2>2. CASE q = p + 1
    BY <2>1, <2>2
  <2>3. CASE q # p + 1
    BY <1>2, <2>1, <2>3, BeforeFacts DEF TypeOK
  <2>4. QED
    BY <2>2, <2>3
<1>3. \A t \in Tabs : \A k \in view'[t].done : k \in done'
  BY BeforeFacts
<1>4. QED
  BY <1>1, <1>2, <1>3 DEF Works, Before, Work

LEMMA CompletePhaseWork ==
    ASSUME NEW c, Before(c), CompletePhase(c)
    PROVE  Works(c)
<1>1. /\ pc[c] = "complete"
      /\ pc'[c] \in {"readTasks", "unlockNext", "count"}
      /\ UNCHANGED <<done, finished, asked, unlocks, view>>
      /\ status' = [status EXCEPT ![call[c].phase] = "completed"]
      /\ pc'[c] = "unlockNext" => call'[c].phase = call[c].phase
  BY BeforeFacts DEF CompletePhase, LoopAt, Goto, TypeOK
<1>2. /\ call'[c].task = call[c].task /\ call'[c].before = call[c].before
      /\ call'[c].closes = call[c].closes /\ call'[c].opens = call[c].opens
  <2>1. \/ UNCHANGED call
        \/ call' = [call EXCEPT ![c].phase = call[c].phase + 1]
    BY DEF CompletePhase
  <2>2. QED
    BY <2>1, BeforeFacts DEF TypeOK, Call
<1>3. CallWork(c)'
  BY <1>1, <1>2, BeforeFacts DEF CallWork, AfterMark, PageLabels
<1>4. call[c].phase \in Phases
  BY <1>1, NextPhase, BeforeFacts DEF LoopLabels, Before, LInv
<1>5. status[call[c].phase] # "locked"
  <2>1. call[c].snap[call[c].phase] # "locked"
    BY <1>1, BeforeFacts DEF CallTypes, LoopGoesOn, LoopLabels
  <2>2. QED
    BY <1>4, <2>1 DEF Before, LInv, CallSaw, Seen
<1>6. QED
  BY <1>1, <1>3, <1>4, <1>5, OpeningWork DEF Marking

LEMMA UnlockNextWork ==
    ASSUME NEW c, Before(c), UnlockNext(c)
    PROVE  Works(c)
<1>1. /\ pc[c] = "unlockNext"
      /\ pc'[c] \in {"readTasks", "count"}
      /\ UNCHANGED <<done, finished, asked, unlocks, view>>
      /\ status' = [status EXCEPT ![call[c].phase + 1] = "active"]
  BY BeforeFacts DEF UnlockNext, LoopAt, Goto, TypeOK
<1>2. /\ call'[c].task = call[c].task /\ call'[c].before = call[c].before
      /\ call'[c].closes = call[c].closes /\ call'[c].opens = call[c].opens
  BY BeforeFacts DEF UnlockNext, TypeOK, Call
<1>3. CallWork(c)'
  BY <1>1, <1>2, BeforeFacts DEF CallWork, AfterMark, PageLabels
<1>4. call[c].phase \in Phases /\ call[c].phase + 1 \in Phases
  BY <1>1, NextPhase, BeforeFacts DEF LoopLabels, Before, LInv
<1>5. (call[c].phase + 1) - 1 \in finished
  <2>1. call[c].phase \in finished
    BY <1>1, BeforeFacts DEF CallWork
  <2>2. (call[c].phase + 1) - 1 = call[c].phase
    BY <1>4, ConstantTypes DEF Phases
  <2>3. QED
    BY <2>1, <2>2
<1>6. QED
  BY <1>1, <1>3, <1>4, <1>5, OpeningWork DEF Marking

-----------------------------------------------------------------------------
(* Roadmap.tsx *)

LEMMA ClosePhaseWork ==
    ASSUME NEW c, Before(c), ClosePhase(c)
    PROVE  Works(c)
<1>1. /\ pc[c] = "closePhase"
      /\ UNCHANGED <<done, finished, asked, unlocks, status, view>>
      /\ \/ pc'[c] = "openNext" /\ call'[c] = call[c]
         \/ pc'[c] = "idle" /\ call'[c] = NoCall
  BY BeforeFacts DEF ClosePhase, Finishes, Goto, TypeOK
<1>2. CallWork(c)'
  BY <1>1, BeforeFacts DEF CallWork, NoCall, AfterMark, PageLabels
<1>3. QED
  BY <1>1, <1>2, LaterWork DEF Marking

LEMMA OpenNextWork ==
    ASSUME NEW c, Before(c), OpenNext(c)
    PROVE  Works(c)
<1>1. /\ pc[c] = "openNext"
      /\ pc'[c] = "idle" /\ call'[c] = NoCall
      /\ UNCHANGED <<done, finished, asked, unlocks, view>>
      /\ status' = [status EXCEPT ![call[c].opens] = "active"]
  BY BeforeFacts DEF OpenNext, Finishes, Goto, TypeOK
<1>2. CallWork(c)'
  BY <1>1 DEF CallWork, NoCall, AfterMark, PageLabels
<1>3. call[c].opens \in Phases /\ call[c].opens # 0
  BY <1>1, BeforeFacts, ConstantTypes DEF CallTypes, Phases
<1>4. call[c].opens - 1 \in finished
  <2>1. /\ call[c].closes /\ call[c].opens = call[c].task[1] + 1
        /\ call[c].task \in done
    BY <1>1, <1>3, BeforeFacts DEF CallWork, AfterMark, PageLabels
  <2>2. TasksOf(call[c].task[1]) \subseteq done
    BY <2>1, BeforeFacts DEF CallWork
  <2>3. call[c].task[1] \in Phases
    BY <2>1, TaskFacts, BeforeFacts DEF TypeOK
  <2>4. call[c].opens - 1 = call[c].task[1]
    BY <2>1, <2>3, ConstantTypes DEF Phases
  <2>5. QED
    BY <2>2, <2>3, <2>4, BeforeFacts
<1>5. QED
  BY <1>1, <1>2, <1>3, <1>4, OpeningWork DEF Marking

LEMMA ClickWork ==
    ASSUME NEW c, Before(c), NEW t \in Tabs, NEW k \in Tasks, Click(c, t, k),
           unmarks' = 0
    PROVE  Works(c)
<1>1. /\ pc[c] = "idle" /\ k \notin view[t].done
      /\ UNCHANGED <<done, finished, asked, unlocks, status>>
      /\ view' = [view EXCEPT ![t].done = @ \cup {k}]
      /\ pc'[c] = "readTask"
      /\ call'[c] = [NoCall EXCEPT !.tab = t, !.task = k, !.before = view[t],
                        !.closes = Closes(view[t], k), !.opens = Opens(view[t], k)]
  BY BeforeFacts DEF Before, Click, Goto, TypeOK, rows
<1>2. \A s \in Tabs : view[s].done \subseteq done
  BY <1>1, BeforeFacts DEF Marking
<1>3. /\ call'[c].task = k /\ call'[c].before = view[t]
      /\ call'[c].closes = Closes(view[t], k)
      /\ call'[c].opens = Opens(view[t], k)
  BY <1>1 DEF NoCall
<1>4. CallWork(c)'
  <2>1. Closes(view[t], k) => TasksOf(k[1]) \subseteq done \cup {k}
    BY <1>2 DEF Closes
  <2>2. Opens(view[t], k) # 0 =>
           Closes(view[t], k) /\ Opens(view[t], k) = k[1] + 1
    BY DEF Opens
  <2>3. TasksOf(k[1])' = TasksOf(k[1])
    BY DEF TasksOf, Tasks, Phases
  <2>4. QED
    BY <1>1, <1>2, <1>3, <2>1, <2>2, <2>3 DEF CallWork, AfterMark, PageLabels
<1>5. \A s \in Tabs : \A j \in view'[s].done : j \in done \/ j = k
  <2>1. \A s \in Tabs : view'[s].done \subseteq view[s].done \cup {k}
    BY <1>1, BeforeFacts DEF TypeOK, View
  <2>2. QED
    BY <1>2, <2>1
<1>6. QED
  BY <1>1, <1>3, <1>4, <1>5, WorksHere DEF Marking

-----------------------------------------------------------------------------
(* Early unlocks *)

LEMMA AsksWork ==
    ASSUME NEW c, Before(c)
    PROVE  /\ AskUnlock(c) => Works(c)
           /\ FindLocked(c) => Works(c)
           /\ \A r \in UnlockIds : Approve(c, r) => Works(c)
<1>1. ASSUME AskUnlock(c) PROVE Works(c)
  <2>1. /\ pc[c] = "idle" /\ pc'[c] = "findLocked"
        /\ UNCHANGED <<done, finished, asked, unlocks, status, view, call>>
    BY <1>1, BeforeFacts DEF AskUnlock, Goto, TypeOK, rows
  <2>2. CallWork(c)'
    BY <2>1, BeforeFacts DEF CallWork, AfterMark, PageLabels
  <2>3. QED
    BY <2>1, <2>2, LaterWork DEF Marking
<1>2. ASSUME FindLocked(c) PROVE Works(c)
  <2>1. /\ pc[c] = "findLocked" /\ pc'[c] \in {"idle", "insertUnlock"}
        /\ UNCHANGED <<done, finished, asked, unlocks, status, view>>
    BY <1>2, BeforeFacts DEF FindLocked, Finishes, Goto, TypeOK, rows
  <2>2. \/ call'[c] = NoCall
        \/ /\ call'[c].task = call[c].task /\ call'[c].before = call[c].before
           /\ call'[c].closes = call[c].closes /\ call'[c].opens = call[c].opens
    BY <1>2, BeforeFacts DEF FindLocked, Finishes, TypeOK, Call
  <2>3. CallWork(c)'
    BY <2>1, <2>2, BeforeFacts DEF CallWork, AfterMark, PageLabels, NoCall
  <2>4. QED
    BY <2>1, <2>3, LaterWork DEF Marking
<1>3. ASSUME NEW r \in UnlockIds, Approve(c, r) PROVE Works(c)
  <2>1. /\ pc[c] = "idle" /\ pc'[c] = "override" /\ unlocks[r].pending
        /\ UNCHANGED <<done, finished, asked, unlocks, status, view>>
    BY <1>3, BeforeFacts DEF Approve, Goto, TypeOK, rows
  <2>2. /\ call'[c].task = call[c].task /\ call'[c].before = call[c].before
        /\ call'[c].closes = call[c].closes /\ call'[c].opens = call[c].opens
        /\ call'[c].unlock = r /\ call'[c].phase = unlocks[r].phase
    BY <1>3, BeforeFacts DEF Approve, TypeOK, Call
  <2>3. r \in 1..asked
    BY <2>1, BeforeFacts, ConstantTypes DEF Work, UnlockIds
  <2>4. CallWork(c)'
    BY <2>1, <2>2, <2>3, BeforeFacts DEF CallWork, AfterMark, PageLabels
  <2>5. QED
    BY <2>1, <2>4, LaterWork DEF Marking
<1>4. QED
  BY <1>1, <1>2, <1>3

LEMMA InsertUnlockWork ==
    ASSUME NEW c, Before(c), InsertUnlock(c)
    PROVE  Works(c)
<1>1. /\ pc[c] = "insertUnlock" /\ asked' = asked + 1
      /\ unlocks' = [unlocks EXCEPT ![asked + 1] =
                        [phase |-> call[c].phase, pending |-> TRUE]]
      /\ pc'[c] = "idle" /\ call'[c] = NoCall
      /\ UNCHANGED <<done, finished, status, view>>
  BY BeforeFacts DEF InsertUnlock, Finishes, Goto, TypeOK
<1>2. asked \in Nat /\ asked' \in Nat /\ asked <= asked' /\ asked' = asked + 1
  BY <1>1, BeforeFacts
<1>3. unlocks \in [UnlockIds -> [phase : 0..PhaseCount, pending : BOOLEAN]]
      /\ UnlockIds = 1..MaxUnlocks /\ asked \in 0..MaxUnlocks
  BY BeforeFacts DEF TypeOK, UnlockIds
<1>4. \A r \in 1..asked : unlocks'[r].phase = unlocks[r].phase
  BY <1>1, <1>2, <1>3, ConstantTypes
<1>5. \A r \in UnlockIds : unlocks'[r].pending => r <= asked'
  <2> SUFFICES ASSUME NEW r \in UnlockIds, unlocks'[r].pending PROVE r <= asked'
    OBVIOUS
  <2>1. CASE r = asked + 1
    BY <1>2, <2>1
  <2>2. CASE r # asked + 1
    <3>1. unlocks[r].pending
      BY <1>1, <1>3, <2>2
    <3>2. r <= asked /\ r \in Nat
      BY <1>3, <3>1, BeforeFacts, ConstantTypes DEF Work
    <3>3. QED
      BY <1>2, <3>2
  <2>3. QED
    BY <2>1, <2>2
<1>6. CallWork(c)'
  BY <1>1 DEF CallWork, NoCall, AfterMark, PageLabels
<1>7. \A t \in Tabs : \A k \in view'[t].done : k \in done'
  BY <1>1, BeforeFacts DEF Marking
<1>8. QED
  BY <1>1, <1>2, <1>4, <1>5, <1>6, <1>7 DEF Works, Before

LEMMA OverrideWork ==
    ASSUME NEW c, Before(c), Override(c)
    PROVE  Works(c)
<1>1. /\ pc[c] = "override" /\ pc'[c] = "approved"
      /\ status' = [status EXCEPT ![call[c].phase] = "override_unlocked"]
      /\ UNCHANGED <<done, finished, asked, unlocks, view, call>>
  BY BeforeFacts DEF Override, Goto, TypeOK
<1>2. CallWork(c)'
  BY <1>1, BeforeFacts DEF CallWork, AfterMark, PageLabels
<1>3. call[c].phase \in Phases /\ AskedFor(call[c].phase)
  BY <1>1, BeforeFacts DEF CallTypes, CallWork, AskedFor
<1>4. QED
  BY <1>1, <1>2, <1>3, OpeningWork DEF Marking

LEMMA MarkApprovedWork ==
    ASSUME NEW c, Before(c), MarkApproved(c)
    PROVE  Works(c)
<1>1. /\ pc[c] = "approved" /\ pc'[c] = "idle" /\ call'[c] = NoCall
      /\ unlocks' = [unlocks EXCEPT ![call[c].unlock].pending = FALSE]
      /\ UNCHANGED <<done, finished, asked, status, view>>
  BY BeforeFacts DEF MarkApproved, Finishes, Goto, TypeOK
<1>2. CallWork(c)'
  BY <1>1 DEF CallWork, NoCall, AfterMark, PageLabels
<1>3. unlocks \in [UnlockIds -> [phase : 0..PhaseCount, pending : BOOLEAN]]
  BY BeforeFacts DEF TypeOK
<1>4. \A r \in UnlockIds : /\ unlocks'[r].phase = unlocks[r].phase
                           /\ unlocks'[r].pending => unlocks[r].pending
  BY <1>1, <1>3
<1>5. \A t \in Tabs : \A k \in view'[t].done : k \in done'
  BY <1>1, BeforeFacts DEF Marking
<1>6. QED
  BY <1>1, <1>2, <1>4, <1>5, WorksHere

-----------------------------------------------------------------------------
(* The steps of a page of its own, and the whole step.                     *)

LEMMA PageWork ==
    ASSUME OneCall, LInv, WInv, NEW t \in Tabs, Refetch(t) \/ CloseTab(t)
    PROVE  WInv'
<1> SUFFICES ASSUME unmarks' = 0 PROVE Work'
  BY DEF WInv
<1>1. /\ unmarks = 0 /\ Work /\ TypeOK
      /\ UNCHANGED <<done, finished, asked, unlocks, status>>
      /\ view' = [view EXCEPT ![t] = Fetched]
  BY DEF Refetch, CloseTab, rows, counters, clicks, WInv, LInv, TInv
<1>2. ASSUME NEW c \in Calls
      PROVE  /\ CallWork(c)'
             /\ Marking(c) => Marking(c)' /\ call'[c].task = call[c].task
  <2>1. CallWork(c) /\ call[c] \in Call
    BY <1>1 DEF Work, TypeOK
  <2>2. CASE pc'[c] = pc[c] /\ call'[c] = call[c]
    BY <1>1, <2>1, <2>2 DEF CallWork, Marking
  <2>3. CASE /\ pc'[c] = pc[c]
             /\ call'[c] = [call[c] EXCEPT !.tab = 0]
    <3>1. /\ call'[c].task = call[c].task /\ call'[c].before = call[c].before
          /\ call'[c].closes = call[c].closes /\ call'[c].opens = call[c].opens
          /\ call'[c].phase = call[c].phase /\ call'[c].unlock = call[c].unlock
      BY <2>1, <2>3 DEF Call
    <3>2. QED
      BY <1>1, <2>1, <2>3, <3>1 DEF CallWork, Marking
  <2>4. CASE /\ pc[c] \in PageLabels /\ pc'[c] = "idle"
             /\ call'[c] = NoCall
    BY <2>4 DEF CallWork, NoCall, AfterMark, PageLabels, Marking
  <2>5. QED
    BY <2>2, <2>3, <2>4 DEF Refetch, CloseTab
<1>3. ASSUME NEW s \in Tabs, NEW k \in view'[s].done
      PROVE  k \in done' \/ \E c \in Calls : Marking(c)' /\ k = call'[c].task
  <2>1. CASE s = t
    BY <1>1, <1>3, <2>1 DEF Fetched, TypeOK
  <2>2. CASE s # t
    <3>1. k \in view[s].done
      BY <1>1, <1>3, <2>2 DEF TypeOK
    <3>2. k \in done \/ \E c \in Calls : Marking(c) /\ k = call[c].task
      BY <1>1, <3>1 DEF Work
    <3>3. QED
      BY <1>1, <1>2, <3>2
  <2>3. QED
    BY <2>1, <2>2
<1>4. Earned' /\ \A r \in UnlockIds : unlocks'[r].pending => r <= asked'
  BY <1>1 DEF Work, Earned, AskedFor
<1>5. QED
  BY <1>2, <1>3, <1>4 DEF Work

LEMMA WorkStep ==
    ASSUME OneCall, MaxFaults = 0, MaxDeaths = 0
    PROVE  LInv /\ DInv /\ WInv /\ [Next]_vars => WInv'
<1> SUFFICES ASSUME LInv, DInv, WInv, [Next]_vars PROVE WInv'
  OBVIOUS
<1>1. TInv' /\ TypeOK
  BY TypeStep DEF LInv, TInv
<1>2. ASSUME NEW c \in Calls, Step(c) PROVE WInv'
  <2> SUFFICES ASSUME unmarks' = 0 PROVE Work'
    BY DEF WInv
  <2>1. unmarks = 0
    BY <1>2 DEF Step, Unmark, ReadTask, Mark, Earn, Award, ReadPhases, ReadTasks,
       CompletePhase, UnlockNext, CountDone, Answer, ClosePhase, OpenNext,
       FindLocked, InsertUnlock, Override, MarkApproved, counters, clicks
  <2>2. Before(c)
    BY <1>1, <2>1 DEF Before
  <2>3. ~Unmark(c)
    BY <2>2, BeforeFacts DEF CallWork, Unmark
  <2>4. Works(c)
    BY <1>2, <2>2, <2>3, ReadTaskWork, MarkWork, AnswersWork, ReadTasksWork,
       CompletePhaseWork, UnlockNextWork, ClosePhaseWork, OpenNextWork, AsksWork,
       InsertUnlockWork, OverrideWork, MarkApprovedWork
    DEF Step
  <2>5. QED
    BY <2>4, WorksKeeps
<1>3. ASSUME NEW c \in Calls, NEW t \in Tabs, NEW k \in Tasks, Click(c, t, k)
      PROVE  WInv'
  <2> SUFFICES ASSUME unmarks' = 0 PROVE Work'
    BY DEF WInv
  <2>1. unmarks = 0
    BY <1>1, <1>3 DEF Click, TypeOK
  <2>2. Works(c)
    BY <1>1, <1>3, <2>1, ClickWork DEF Before
  <2>3. QED
    BY <2>2, WorksKeeps
<1>4. ASSUME NEW c \in Calls, AskUnlock(c) \/ \E r \in UnlockIds : Approve(c, r)
      PROVE  WInv'
  <2> SUFFICES ASSUME unmarks' = 0 PROVE Work'
    BY DEF WInv
  <2>1. unmarks = 0
    BY <1>4 DEF AskUnlock, Approve, counters, clicks
  <2>2. Works(c)
    BY <1>1, <1>4, <2>1, AsksWork DEF Before
  <2>3. QED
    BY <2>2, WorksKeeps
<1>5. \A c \in Calls : ~Dies(c)
  BY <1>1 DEF Dies, TypeOK
<1>6. ASSUME NEW t \in Tabs, Refetch(t) \/ CloseTab(t) PROVE WInv'
  BY <1>6, PageWork
<1>7. CASE UNCHANGED vars
  BY <1>7 DEF WInv, Work, Earned, AskedFor, CallWork, Marking, vars, rows,
     counters, clicks
<1>8. QED
  BY <1>2, <1>3, <1>4, <1>5, <1>6, <1>7 DEF Next

(* Where one call runs at a time and nothing was taken back, a phase opens *)
(* only because the tasks of the one before it were complete at one moment *)
(* or its early unlock was asked for: for any number of pages, phases,     *)
(* tasks, early unlocks and closed tabs, as long as no function dies and   *)
(* no write fails.                                                         *)
THEOREM PhasesAreEarned ==
    ASSUME \A c, d \in Calls : c = d, MaxDeaths = 0, MaxFaults = 0
    PROVE  Spec => []OpenedByWork
<1>1. OneCall
  BY DEF OneCall
<1>2. LInv /\ DInv /\ WInv /\ [Next]_vars => WInv'
  BY <1>1, WorkStep
<1>3. Spec => [](LInv /\ DInv /\ WInv)
  BY <1>2, LadderInit, LadderStep, DoneInit, DoneStep, WorkInit, PTL DEF Spec
<1>4. WInv => OpenedByWork
  BY DEF WInv, Work, Earned, AskedFor, OpenedByWork
<1>5. QED
  BY <1>3, <1>4, PTL

-----------------------------------------------------------------------------
(* DoneOpensNext, where there are no early unlocks.  A call that completed *)
(* a task will read the phases, and then walk over them; it carries the    *)
(* duty to open the phase after p until it has passed p.  A call that      *)
(* passes p because its snapshot shows p completed leaves the duty with    *)
(* the call that completed p.                                              *)

Opening(p) == \E c \in Calls : pc[c] = "unlockNext" /\ call[c].phase = p

OpenOrOpening(p) == status[p + 1] # "locked" \/ Opening(p)

Fresh == {"earn", "award", "readPhases"}

Coming(c, p) == \/ pc[c] \in Fresh
                \/ /\ pc[c] \in LoopLabels
                   /\ call[c].phase <= p
                   /\ call[c].snap[p] = "active"

AllDone(p) == TasksOf(p) # {} /\ TasksOf(p) \subseteq done

Handed(p) == OpenOrOpening(p) \/ \E c \in Calls : Coming(c, p)

NoGaps(st) == \A p, q \in Phases : q < p /\ st[p] # "locked" => st[q] # "locked"

Plain(st) == \A p \in Phases : st[p] # "override_unlocked"

CompletedOpens(st) ==
    \A p \in 1..(PhaseCount - 1) : st[p] = "completed" => OpenOrOpening(p)

UnlockLabels == {"findLocked", "insertUnlock", "override", "approved"}

CallOpens(c) ==
    /\ NoGaps(call[c].snap) /\ Plain(call[c].snap) /\ CompletedOpens(call[c].snap)
    /\ pc[c] \notin UnlockLabels
    /\ Marking(c) => status[call[c].task[1]] # "locked"

OInv ==
    /\ NoGaps(status) /\ Plain(status) /\ CompletedOpens(status)
    /\ \A k \in done : status[k[1]] # "locked"
    /\ \A c \in Calls : CallOpens(c)
    /\ \A p \in 1..(PhaseCount - 1) : AllDone(p) => Handed(p)

LEMMA UnseenOpens == NoGaps(Unseen) /\ Plain(Unseen) /\ CompletedOpens(Unseen)
<1>1. \A p \in 1..(PhaseCount - 1) : p \in Phases
  BY ConstantTypes DEF Phases
<1>2. QED
  BY <1>1 DEF NoGaps, Plain, CompletedOpens, Unseen

LEMMA OpensInit == Init => OInv
<1> SUFFICES ASSUME Init PROVE OInv
  OBVIOUS
<1>1. \A p \in 1..(PhaseCount - 1) : p \in Phases
  BY ConstantTypes DEF Phases
<1>2. NoGaps(status)
  BY ConstantTypes DEF Init, NoGaps, Phases
<1>3. Plain(status) /\ CompletedOpens(status)
  BY <1>1 DEF Init, Plain, CompletedOpens
<1>4. \A c \in Calls : CallOpens(c)
  BY UnseenOpens DEF Init, CallOpens, NoCall, UnlockLabels, Marking
<1>5. \A p \in 1..(PhaseCount - 1) : ~AllDone(p)
  BY DEF Init, AllDone
<1>6. QED
  BY <1>2, <1>3, <1>4, <1>5 DEF OInv, Init

(* What the step of a call has to show.                                    *)
Moves(c) ==
    /\ Climbs /\ Notes(c)
    /\ \A p \in Phases : status'[p] = status[p]
                         \/ status'[p] \in {"active", "completed"}
    /\ \A p \in 1..(PhaseCount - 1) : status'[p] = "completed" =>
          \/ status[p] = "completed"
          \/ status'[p + 1] # "locked"
          \/ pc'[c] = "unlockNext" /\ call'[c].phase = p
    /\ call'[c].snap \in {call[c].snap, Unseen, status}
    /\ \A k \in done' : k \in done \/ status[k[1]] # "locked"
    /\ pc'[c] \notin UnlockLabels
    /\ Marking(c)' => status[call'[c].task[1]] # "locked"
    /\ pc[c] = "unlockNext" => status'[call[c].phase + 1] # "locked"
    /\ \A p \in 1..(PhaseCount - 1) : AllDone(p)' => AllDone(p) \/ Coming(c, p)'
    /\ \A p \in 1..(PhaseCount - 1) : AllDone(p)' /\ Coming(c, p) =>
          status'[p + 1] # "locked" \/ Coming(c, p)' \/ OpenOrOpening(p)

LEMMA MovesKeepOpening ==
    ASSUME NEW c \in Calls, Moves(c), NEW p \in 1..(PhaseCount - 1),
           OpenOrOpening(p)
    PROVE  OpenOrOpening(p)'
<1>1. p + 1 \in Phases
  BY ConstantTypes DEF Phases
<1>2. CASE status[p + 1] # "locked"
  BY <1>1, <1>2 DEF Moves, Climbs, OpenOrOpening
<1>3. CASE Opening(p)
  <2>1. PICK d \in Calls : pc[d] = "unlockNext" /\ call[d].phase = p
    BY <1>3 DEF Opening
  <2>2. CASE d = c
    BY <2>1, <2>2 DEF Moves, OpenOrOpening
  <2>3. CASE d # c
    BY <2>1, <2>3 DEF Moves, Notes, OpenOrOpening, Opening
  <2>4. QED
    BY <2>2, <2>3
<1>4. QED
  BY <1>2, <1>3 DEF OpenOrOpening

LEMMA ClimbingLeavesNoGaps ==
    ASSUME Climbs, NoGaps(status)
    PROVE  NoGaps(status)'
<1> SUFFICES ASSUME NEW p \in Phases, NEW q \in Phases, q < p,
                    status'[p] # "locked"
             PROVE  status'[q] # "locked"
  BY DEF NoGaps
<1>1. status[p] # "locked" \/ Reachable(p)
  BY DEF Climbs
<1>2. p # 1 /\ p - 1 \in Phases /\ (q = p - 1 \/ q < p - 1)
  BY ConstantTypes DEF Phases
<1>3. status[q] # "locked"
  BY <1>1, <1>2 DEF NoGaps, Reachable
<1>4. QED
  BY <1>3 DEF Climbs

LEMMA MovesKeep ==
    ASSUME LInv, TInv', OInv, NEW c \in Calls, Moves(c)
    PROVE  OInv'
<1>1. NoGaps(status)' /\ Plain(status)'
  BY ClimbingLeavesNoGaps DEF OInv, Moves, Plain
<1>2. \A p \in 1..(PhaseCount - 1) : OpenOrOpening(p) => OpenOrOpening(p)'
  BY MovesKeepOpening
<1>3. CompletedOpens(status)'
  BY <1>2 DEF OInv, Moves, CompletedOpens, OpenOrOpening, Opening
<1>4. \A k \in done' : status'[k[1]] # "locked"
  <2> SUFFICES ASSUME NEW k \in done' PROVE status'[k[1]] # "locked"
    OBVIOUS
  <2>1. status[k[1]] # "locked"
    BY DEF OInv, Moves
  <2>2. k[1] \in Phases
    <3>1. k \in Tasks
      BY DEF TInv, TypeOK, Tasks, Phases
    <3>2. QED
      BY <3>1, TaskFacts
  <2>3. QED
    BY <2>1, <2>2 DEF Moves, Climbs
<1>5. ASSUME NEW d \in Calls PROVE CallOpens(d)'
  <2>1. CallOpens(d) /\ CallOpens(c)
    BY DEF OInv
  <2>2. call'[d].snap \in {call[d].snap, Unseen, status}
    BY DEF Moves, Notes
  <2>3. NoGaps(call'[d].snap) /\ Plain(call'[d].snap)
        /\ CompletedOpens(call'[d].snap)
    BY <2>1, <2>2, UnseenOpens DEF CallOpens, OInv
  <2>4. NoGaps(call[d].snap)' /\ Plain(call[d].snap)'
        /\ CompletedOpens(call[d].snap)'
    BY <1>2, <2>3 DEF NoGaps, Plain, CompletedOpens, Phases
  <2>5. pc'[d] \notin UnlockLabels
        /\ (Marking(d)' => status[call'[d].task[1]] # "locked")
    BY <2>1 DEF CallOpens, Moves, Notes, Marking
  <2>6. Marking(d)' => call'[d].task[1] \in Phases
    <3>1. Marking(d)' => call'[d].task \in Tasks
      BY DEF TInv, CallTypes, Marking, TaskLabels, Tasks, Phases
    <3>2. QED
      BY <3>1, TaskFacts
  <2>7. QED
    BY <2>4, <2>5, <2>6 DEF CallOpens, Moves, Climbs
<1>6. ASSUME NEW p \in 1..(PhaseCount - 1), AllDone(p)' PROVE Handed(p)'
  <2>1. CASE Coming(c, p)'
    BY <2>1 DEF Handed
  <2>2. CASE OpenOrOpening(p)
    BY <1>2, <2>2 DEF Handed
  <2>3. CASE AllDone(p) /\ ~OpenOrOpening(p)
    <3>1. PICK d \in Calls : Coming(d, p)
      BY <2>3 DEF OInv, Handed
    <3>2. CASE d = c
      BY <1>6, <2>3, <3>1, <3>2 DEF Moves, Handed, OpenOrOpening
    <3>3. CASE d # c
      <4>1. Coming(d, p)'
        BY <3>1, <3>3 DEF Moves, Notes, Coming
      <4>2. QED
        BY <4>1 DEF Handed
    <3>4. QED
      BY <3>2, <3>3
  <2>4. QED
    BY <1>6, <2>1, <2>2, <2>3 DEF Moves
<1>7. QED
  BY <1>1, <1>3, <1>4, <1>5, <1>6 DEF OInv

Ready(c) == /\ MaxUnlocks = 0 /\ MaxFaults = 0 /\ MaxDeaths = 0
            /\ LInv /\ TInv' /\ OInv
            /\ c \in Calls

LEMMA ReadyFacts ==
    ASSUME NEW c, Ready(c)
    PROVE  /\ c \in Calls /\ LInv /\ TypeOK /\ CallTypes(c) /\ call[c] \in Call
           /\ CallOpens(c) /\ ~WriteLost
           /\ Seen(call[c].snap) /\ OInv
           /\ \A p \in 1..(PhaseCount - 1) : p \in Phases /\ p + 1 \in Phases
           /\ \A p \in 1..(PhaseCount - 1) : AllDone(p) => status[p] # "locked"
           /\ \A p \in Phases : TasksOf(p)' = TasksOf(p)
<1>1. TypeOK /\ CallTypes(c) /\ call[c] \in Call /\ CallOpens(c)
      /\ Seen(call[c].snap)
  BY DEF Ready, LInv, TInv, TypeOK, OInv, CallSaw
<1>2. ~WriteLost
  BY <1>1 DEF Ready, WriteLost, TypeOK
<1>3. \A p \in 1..(PhaseCount - 1) : p \in Phases /\ p + 1 \in Phases
  BY ConstantTypes DEF Phases
<1>4. \A p \in Phases : AllDone(p) => status[p] # "locked"
  BY DEF Ready, OInv, AllDone, TasksOf
<1>5. \A p \in Phases : TasksOf(p)' = TasksOf(p)
  BY DEF TasksOf, Tasks, Phases
<1>6. QED
  BY <1>1, <1>2, <1>3, <1>4, <1>5 DEF Ready

(* A step of a call that carries no duty and completes nothing.            *)
LEMMA IdleMoves ==
    ASSUME NEW c, Ready(c), Climbs, Notes(c),
           pc[c] \notin Fresh \cup LoopLabels, pc'[c] \notin UnlockLabels,
           done' \subseteq done,
           \A p \in Phases : status'[p] = status[p] \/ status'[p] = "active",
           call'[c].snap \in {call[c].snap, Unseen, status},
           Marking(c)' => status[call'[c].task[1]] # "locked"
    PROVE  Moves(c)
<1>1. \A p \in 1..(PhaseCount - 1) : AllDone(p)' => AllDone(p)
  BY ReadyFacts DEF AllDone
<1>2. \A p : ~Coming(c, p)
  BY DEF Coming
<1>3. pc[c] # "unlockNext"
  BY DEF LoopLabels
<1>4. \A p \in 1..(PhaseCount - 1) :
         status'[p] = "completed" => status[p] = "completed"
  BY ReadyFacts
<1>5. QED
  BY <1>1, <1>2, <1>3, <1>4 DEF Moves

LEMMA IdlesMove ==
    ASSUME NEW c, Ready(c)
    PROVE  /\ Unmark(c) => Moves(c)
           /\ ReadTask(c) => Moves(c)
           /\ CountDone(c) => Moves(c)
           /\ Answer(c) => Moves(c)
           /\ ClosePhase(c) => Moves(c)
           /\ OpenNext(c) => Moves(c)
<1>1. NoCall.snap = Unseen
  BY DEF NoCall
<1>2. ASSUME Unmark(c) PROVE Moves(c)
  <2>1. /\ pc[c] = "unmark" /\ pc'[c] = "idle" /\ done' \subseteq done
        /\ status' = status /\ call'[c] = NoCall
    BY <1>2, ReadyFacts DEF Unmark, Finishes, Goto, TypeOK
  <2>2. QED
    BY <1>1, <1>2, <2>1, ReadyFacts, UnmarkNotes, IdleMoves
    DEF Fresh, LoopLabels, UnlockLabels, Marking
<1>3. ASSUME ReadTask(c) PROVE Moves(c)
  <2>1. /\ pc[c] = "readTask" /\ done' = done /\ status' = status
        /\ pc'[c] \in {"mark", "closePhase", "idle"}
        /\ call'[c] \in {call[c], NoCall}
        /\ pc'[c] = "mark" => call'[c] = call[c]
    BY <1>3, ReadyFacts DEF ReadTask, Refuse, PageGoesOn, Goto, TypeOK, rows
  <2>2. Marking(c)' => status[call'[c].task[1]] # "locked"
    BY <2>1, ReadyFacts DEF Marking, CallOpens
  <2>3. QED
    BY <1>1, <1>3, <2>1, <2>2, ReadyFacts, ReadTaskNotes, IdleMoves
    DEF Fresh, LoopLabels, UnlockLabels
<1>4. ASSUME CountDone(c) PROVE Moves(c)
  <2>1. /\ pc[c] = "count" /\ pc'[c] = "percent" /\ done' = done
        /\ status' = status
    BY <1>4, ReadyFacts DEF CountDone, Goto, TypeOK, rows
  <2>2. call'[c].snap = call[c].snap
    BY <1>4, ReadyFacts DEF CountDone, TypeOK, Call
  <2>3. QED
    BY <1>4, <2>1, <2>2, ReadyFacts, CountDoneNotes, IdleMoves
    DEF Fresh, LoopLabels, UnlockLabels, Marking
<1>5. ASSUME Answer(c) PROVE Moves(c)
  <2>1. /\ pc[c] = "percent" /\ pc'[c] \in {"closePhase", "idle"} /\ done' = done
        /\ status' = status /\ call'[c] \in {call[c], NoCall}
    BY <1>5, ReadyFacts DEF Answer, PageGoesOn, Goto, TypeOK
  <2>2. QED
    BY <1>1, <1>5, <2>1, ReadyFacts, AnswerNotes, IdleMoves
    DEF Fresh, LoopLabels, UnlockLabels, Marking
<1>6. ASSUME ClosePhase(c) PROVE Moves(c)
  <2>1. /\ pc[c] = "closePhase" /\ pc'[c] \in {"openNext", "idle"} /\ done' = done
        /\ status' = status /\ call'[c] \in {call[c], NoCall}
    BY <1>6, ReadyFacts DEF ClosePhase, Finishes, Goto, TypeOK
  <2>2. QED
    BY <1>1, <1>6, <2>1, ReadyFacts, ClosePhaseNotes, IdleMoves
    DEF Fresh, LoopLabels, UnlockLabels, Marking
<1>7. ASSUME OpenNext(c) PROVE Moves(c)
  <2>1. /\ pc[c] = "openNext" /\ pc'[c] = "idle" /\ done' = done
        /\ status' = [status EXCEPT ![call[c].opens] = "active"]
        /\ call'[c] = NoCall
    BY <1>7, ReadyFacts DEF OpenNext, Finishes, Goto, TypeOK
  <2>2. \A p \in Phases : status'[p] = status[p] \/ status'[p] = "active"
    BY <2>1, ReadyFacts DEF TypeOK
  <2>3. QED
    BY <1>1, <1>7, <2>1, <2>2, ReadyFacts, OpenNextNotes, IdleMoves
    DEF Fresh, LoopLabels, UnlockLabels, Marking
<1>8. QED
  BY <1>2, <1>3, <1>4, <1>5, <1>6, <1>7

LEMMA ClickMoves ==
    ASSUME NEW c, Ready(c), NEW t \in Tabs, NEW k \in Tasks, Click(c, t, k)
    PROVE  Moves(c)
<1>1. /\ pc[c] = "idle" /\ pc'[c] \in {"unmark", "readTask"} /\ done' = done
      /\ status' = status
  BY ReadyFacts DEF Click, Goto, TypeOK, rows
<1>2. call'[c].task = k /\ call'[c].snap = Unseen
  <2>1. \/ call'[c] = [NoCall EXCEPT !.tab = t, !.task = k]
        \/ call'[c] = [NoCall EXCEPT !.tab = t, !.task = k, !.before = view[t],
                          !.closes = Closes(view[t], k), !.opens = Opens(view[t], k)]
    BY ReadyFacts DEF Click, TypeOK
  <2>2. QED
    BY <2>1 DEF NoCall
<1>3. status[k[1]] # "locked"
  <2>1. k[1] \in Phases /\ Seen(view[t].status) /\ status[1] # "locked"
    BY TaskFacts DEF Ready, LInv
  <2>2. Shown(view[t], k[1])
    BY DEF Click
  <2>3. QED
    BY <2>1, <2>2 DEF Shown, Seen
<1>4. Climbs /\ Notes(c)
  BY ReadyFacts, ClickNotes
<1>5. QED
  BY <1>1, <1>2, <1>3, <1>4, IdleMoves DEF Fresh, LoopLabels, UnlockLabels

(* A step that keeps all the call carries.                                 *)
LEMMA CarryingMoves ==
    ASSUME NEW c, Ready(c), Climbs, Notes(c), status' = status,
           pc[c] # "unlockNext", pc'[c] \notin UnlockLabels, ~Marking(c)',
           call'[c].snap \in {call[c].snap, Unseen, status},
           done' = done,
           \A p \in 1..(PhaseCount - 1) : AllDone(p) /\ Coming(c, p) =>
              Coming(c, p)' \/ OpenOrOpening(p)
    PROVE  Moves(c)
<1>1. \A p \in 1..(PhaseCount - 1) : AllDone(p)' = AllDone(p)
  BY ReadyFacts DEF AllDone
<1>2. QED
  BY <1>1 DEF Moves

LEMMA MarkMoves ==
    ASSUME NEW c, Ready(c), Mark(c)
    PROVE  Moves(c)
<1>1. /\ pc[c] = "mark" /\ pc'[c] = "earn" /\ status' = status
      /\ call'[c] = call[c] /\ done' = done \cup {call[c].task}
  BY ReadyFacts DEF Mark, Goto, TypeOK
<1>2. status[call[c].task[1]] # "locked"
  BY <1>1, ReadyFacts DEF CallOpens, Marking
<1>3. \A p : Coming(c, p)'
  BY <1>1 DEF Coming, Fresh
<1>4. Climbs /\ Notes(c)
  BY ReadyFacts, MarkNotes
<1>5. QED
  BY <1>1, <1>2, <1>3, <1>4, ReadyFacts DEF Moves, UnlockLabels, Marking

LEMMA BillingMoves ==
    ASSUME NEW c, Ready(c)
    PROVE  Earn(c) \/ Award(c) => Moves(c)
<1> SUFFICES ASSUME Earn(c) \/ Award(c) PROVE Moves(c)
  OBVIOUS
<1>1. /\ pc[c] \in {"earn", "award"} /\ pc'[c] \in {"award", "readPhases"}
      /\ UNCHANGED <<status, done, call>>
  BY ReadyFacts DEF Earn, Award, Goto, TypeOK, rows
<1>2. \A p : Coming(c, p)'
  BY <1>1 DEF Coming, Fresh
<1>3. Climbs /\ Notes(c)
  BY ReadyFacts, EarnNotes, AwardNotes
<1>4. QED
  BY <1>1, <1>2, <1>3, ReadyFacts, CarryingMoves DEF UnlockLabels, Marking

(* The loop gets to any active phase of a snapshot without gaps.           *)
LEMMA LoopReaches ==
    ASSUME NEW st \in [Phases -> Statuses], NoGaps(st), Plain(st),
           NEW p \in 1..(PhaseCount - 1), st[p] # "locked",
           NEW q \in Phases, q <= p
    PROVE  LoopGoesOn(st, q)
<1>1. p \in Phases /\ q < PhaseCount /\ (q = p \/ q < p)
  BY ConstantTypes DEF Phases
<1>2. st[q] # "locked"
  BY <1>1 DEF NoGaps
<1>3. QED
  BY <1>1, <1>2 DEF LoopGoesOn, Plain, Statuses

LEMMA ReadPhasesMoves ==
    ASSUME NEW c, Ready(c), ReadPhases(c)
    PROVE  Moves(c)
<1>1. /\ pc[c] = "readPhases" /\ status' = status /\ done' = done
      /\ pc'[c] = IF LoopGoesOn(status, 1) THEN "readTasks" ELSE "count"
  BY ReadyFacts DEF ReadPhases, LoopAt, Goto, TypeOK, rows
<1>2. call'[c].snap = status /\ call'[c].phase = 1
  BY ReadyFacts DEF ReadPhases, TypeOK, Call
<1>3. ASSUME NEW p \in 1..(PhaseCount - 1), AllDone(p)
      PROVE  Coming(c, p)' \/ OpenOrOpening(p)
  <2>1. status[p] \in {"active", "completed"}
    BY <1>3, ReadyFacts DEF OInv, Plain, TypeOK, Statuses
  <2>2. CASE status[p] = "completed"
    BY <2>2, ReadyFacts DEF OInv, CompletedOpens
  <2>3. CASE status[p] = "active"
    <3>1. 1 \in Phases /\ 1 <= p
      BY OneIsPhase
    <3>2. LoopGoesOn(status, 1)
      BY <2>3, <3>1, LoopReaches, ReadyFacts DEF OInv, TypeOK
    <3>3. QED
      BY <1>1, <1>2, <2>3, <3>1, <3>2 DEF Coming, LoopLabels
  <2>4. QED
    BY <2>1, <2>2, <2>3
<1>4. Climbs /\ Notes(c)
  BY ReadyFacts, ReadPhasesNotes
<1>5. QED
  BY <1>1, <1>2, <1>3, <1>4, CarryingMoves DEF UnlockLabels, Marking

(* The loop of a call advances past a phase before p, or reads on.         *)
LEMMA AdvanceCarries ==
    ASSUME NEW c, Ready(c), pc[c] \in LoopLabels,
           NEW p \in 1..(PhaseCount - 1), Coming(c, p), call[c].phase # p,
           call' = [call EXCEPT ![c].phase = call[c].phase + 1],
           LoopAt(c, call[c].snap, call[c].phase + 1)
    PROVE  Coming(c, p)'
<1>1. call[c].phase <= p /\ call[c].snap[p] = "active"
  BY DEF Coming, Fresh, LoopLabels
<1>2. call[c].phase \in Phases /\ call[c].phase + 1 \in Phases
  BY ReadyFacts, NextPhase DEF LInv
<1>3. call[c].phase + 1 <= p
  BY <1>1, <1>2, ConstantTypes DEF Phases
<1>4. /\ call[c].snap \in [Phases -> Statuses]
      /\ NoGaps(call[c].snap) /\ Plain(call[c].snap)
  BY ReadyFacts DEF Call, CallOpens
<1>5. LoopGoesOn(call[c].snap, call[c].phase + 1)
  BY <1>1, <1>2, <1>3, <1>4, LoopReaches
<1>6. pc'[c] = "readTasks"
  BY <1>5, ReadyFacts DEF LoopAt, Goto, TypeOK
<1>7. call'[c].phase = call[c].phase + 1 /\ call'[c].snap = call[c].snap
  BY ReadyFacts DEF TypeOK, Call
<1>8. QED
  BY <1>1, <1>3, <1>6, <1>7 DEF Coming, LoopLabels

LEMMA ReadTasksMoves ==
    ASSUME NEW c, Ready(c), ReadTasks(c)
    PROVE  Moves(c)
<1>1. /\ pc[c] = "readTasks" /\ status' = status /\ done' = done
      /\ pc'[c] \in {"readTasks", "complete", "count"}
  BY ReadyFacts DEF ReadTasks, LoopAt, Goto, TypeOK, rows
<1>2. call'[c].snap = call[c].snap
  BY ReadyFacts DEF ReadTasks, TypeOK, Call
<1>3. ASSUME NEW p \in 1..(PhaseCount - 1), AllDone(p), Coming(c, p)
      PROVE  Coming(c, p)'
  <2>1. CASE pc' = [pc EXCEPT ![c] = "complete"] /\ UNCHANGED call
    BY <1>1, <1>3, <2>1, ReadyFacts DEF Coming, Fresh, LoopLabels, TypeOK
  <2>2. CASE /\ call' = [call EXCEPT ![c].phase = call[c].phase + 1]
             /\ LoopAt(c, call[c].snap, call[c].phase + 1)
             /\ ~(/\ TasksOf(call[c].phase) \subseteq done
                  /\ call[c].snap[call[c].phase] # "completed")
    <3>1. call[c].phase # p
      BY <1>1, <1>3, <2>2 DEF Coming, Fresh, AllDone
    <3>2. QED
      BY <1>1, <1>3, <2>2, <3>1, AdvanceCarries DEF LoopLabels
  <2>3. QED
    BY <2>1, <2>2 DEF ReadTasks, Goto
<1>4. Climbs /\ Notes(c)
  BY ReadyFacts, ReadTasksNotes
<1>5. QED
  BY <1>1, <1>2, <1>3, <1>4, CarryingMoves DEF UnlockLabels, Marking

LEMMA CompletePhaseMoves ==
    ASSUME NEW c, Ready(c), CompletePhase(c)
    PROVE  Moves(c)
<1>1. /\ pc[c] = "complete" /\ done' = done
      /\ status' = [status EXCEPT ![call[c].phase] = "completed"]
      /\ pc'[c] \in {"readTasks", "unlockNext", "count"}
  BY ReadyFacts DEF CompletePhase, LoopAt, Goto, TypeOK
<1>2. call[c].phase \in Phases /\ call[c].phase + 1 \in Phases
  BY <1>1, ReadyFacts, NextPhase DEF LInv, LoopLabels
<1>3. Climbs /\ Notes(c)
  BY ReadyFacts, CompletePhaseNotes
<1>4. CASE call[c].snap[call[c].phase + 1] = "locked"
  <2>1. pc'[c] = "unlockNext" /\ call'[c] = call[c]
    BY <1>4, ReadyFacts DEF CompletePhase, Goto, TypeOK
  <2>2. \A p : Coming(c, p) => Coming(c, p)'
    BY <1>1, <2>1 DEF Coming, Fresh, LoopLabels
  <2>3. \A p \in Phases : status'[p] = status[p]
                          \/ (status'[p] = "completed" /\ p = call[c].phase)
    BY <1>1, ReadyFacts DEF TypeOK
  <2>4. \A p \in 1..(PhaseCount - 1) : AllDone(p)' = AllDone(p)
    BY <1>1, ReadyFacts DEF AllDone
  <2>5. \A p \in 1..(PhaseCount - 1) : status'[p] = "completed" =>
           status[p] = "completed" \/ call'[c].phase = p
    BY <2>1, <2>3, ReadyFacts
  <2>6. QED
    BY <1>1, <1>3, <2>1, <2>2, <2>3, <2>4, <2>5
    DEF Moves, UnlockLabels, Marking
<1>5. CASE call[c].snap[call[c].phase + 1] # "locked"
  <2>1. /\ call' = [call EXCEPT ![c].phase = call[c].phase + 1]
        /\ LoopAt(c, call[c].snap, call[c].phase + 1)
    BY <1>5 DEF CompletePhase
  <2>2. status'[call[c].phase + 1] # "locked"
    BY <1>2, <1>3, <1>5, ReadyFacts DEF Seen, Climbs
  <2>3. \A p \in Phases : status'[p] = status[p]
                          \/ (status'[p] = "completed" /\ p = call[c].phase)
    BY <1>1, ReadyFacts DEF TypeOK
  <2>4. \A p \in 1..(PhaseCount - 1) : AllDone(p)' = AllDone(p)
    BY <1>1, ReadyFacts DEF AllDone
  <2>5. \A p \in 1..(PhaseCount - 1) : status'[p] = "completed" =>
           status[p] = "completed" \/ status'[p + 1] # "locked"
    BY <2>2, <2>3, ReadyFacts
  <2>6. ASSUME NEW p \in 1..(PhaseCount - 1), Coming(c, p)
        PROVE  status'[p + 1] # "locked" \/ Coming(c, p)'
    <3>1. CASE call[c].phase = p
      BY <2>2, <3>1
    <3>2. CASE call[c].phase # p
      BY <1>1, <2>1, <2>6, <3>2, AdvanceCarries DEF LoopLabels
    <3>3. QED
      BY <3>1, <3>2
  <2>7. pc'[c] \in {"readTasks", "count"} /\ call'[c].snap = call[c].snap
    BY <2>1, ReadyFacts DEF LoopAt, Goto, TypeOK, Call
  <2>8. QED
    BY <1>1, <1>3, <2>3, <2>4, <2>5, <2>6, <2>7
    DEF Moves, UnlockLabels, Marking
<1>6. QED
  BY <1>4, <1>5

LEMMA UnlockNextMoves ==
    ASSUME NEW c, Ready(c), UnlockNext(c)
    PROVE  Moves(c)
<1>1. /\ pc[c] = "unlockNext" /\ done' = done
      /\ status' = [status EXCEPT ![call[c].phase + 1] = "active"]
      /\ call' = [call EXCEPT ![c].phase = call[c].phase + 1]
      /\ LoopAt(c, call[c].snap, call[c].phase + 1)
  BY ReadyFacts DEF UnlockNext
<1>2. call[c].phase \in Phases /\ call[c].phase + 1 \in Phases
  BY <1>1, ReadyFacts, NextPhase DEF LInv, LoopLabels
<1>3. Climbs /\ Notes(c)
  BY ReadyFacts, UnlockNextNotes
<1>4. pc'[c] \in {"readTasks", "count"} /\ call'[c].snap = call[c].snap
  BY <1>1, ReadyFacts DEF LoopAt, Goto, TypeOK, Call
<1>5. \A p \in Phases : status'[p] = status[p] \/ status'[p] = "active"
  BY <1>1, ReadyFacts DEF TypeOK
<1>6. \A p \in 1..(PhaseCount - 1) :
         status'[p] = "completed" => status[p] = "completed"
  BY <1>5, ReadyFacts
<1>7. status'[call[c].phase + 1] # "locked"
  BY <1>1, <1>2, ReadyFacts DEF TypeOK
<1>8. ASSUME NEW p \in 1..(PhaseCount - 1), Coming(c, p)
      PROVE  status'[p + 1] # "locked" \/ Coming(c, p)'
  <2>1. CASE call[c].phase = p
    BY <1>7, <2>1
  <2>2. CASE call[c].phase # p
    BY <1>1, <1>8, <2>2, AdvanceCarries DEF LoopLabels
  <2>3. QED
    BY <2>1, <2>2
<1>9. \A p \in 1..(PhaseCount - 1) : AllDone(p)' = AllDone(p)
  BY <1>1, ReadyFacts DEF AllDone
<1>10. QED
  BY <1>1, <1>3, <1>4, <1>5, <1>6, <1>7, <1>8, <1>9
  DEF Moves, UnlockLabels, Marking

-----------------------------------------------------------------------------
(* The steps of a page of its own, and the whole step.                     *)

LEMMA PageKeepsOpening ==
    ASSUME LInv, OInv, NEW t \in Tabs, Refetch(t) \/ CloseTab(t)
    PROVE  OInv'
<1>1. UNCHANGED <<status, done>> /\ TypeOK
  BY DEF Refetch, CloseTab, rows, LInv, TInv
<1>2. ASSUME NEW c \in Calls
      PROVE  /\ \/ call'[c].snap = call[c].snap
                \/ call'[c].snap = Unseen
             /\ pc'[c] # pc[c] =>
                   pc[c] \in PageLabels /\ pc'[c] = "idle"
             /\ pc[c] \notin PageLabels =>
                   /\ pc'[c] = pc[c]
                   /\ call'[c].snap = call[c].snap
                   /\ call'[c].phase = call[c].phase
                   /\ call'[c].task = call[c].task
  <2>1. call[c] \in Call
    BY <1>1 DEF TypeOK
  <2>2. CASE pc'[c] = pc[c] /\ call'[c] = call[c]
    BY <2>2
  <2>3. CASE pc'[c] = pc[c] /\ call'[c] = [call[c] EXCEPT !.tab = 0]
    <3>1. /\ call'[c].snap = call[c].snap /\ call'[c].phase = call[c].phase
          /\ call'[c].task = call[c].task
      BY <2>1, <2>3 DEF Call
    <3>2. QED
      BY <2>3, <3>1
  <2>4. CASE pc[c] \in PageLabels /\ pc'[c] = "idle" /\ call'[c] = NoCall
    BY <2>4 DEF NoCall
  <2>5. QED
    BY <2>2, <2>3, <2>4 DEF Refetch, CloseTab
<1>3. \A c \in Calls : /\ pc[c] = "unlockNext" => pc'[c] = "unlockNext"
                                                  /\ call'[c].phase = call[c].phase
                       /\ \A p : Coming(c, p) => Coming(c, p)'
  BY <1>2 DEF PageLabels, Coming, Fresh, LoopLabels
<1>4. \A p : OpenOrOpening(p) => OpenOrOpening(p)'
  BY <1>1, <1>3 DEF OpenOrOpening, Opening
<1>5. ASSUME NEW c \in Calls PROVE CallOpens(c)'
  <2>1. CallOpens(c)
    BY DEF OInv
  <2>2. NoGaps(call'[c].snap) /\ Plain(call'[c].snap)
        /\ CompletedOpens(call'[c].snap)
    BY <1>2, <2>1, UnseenOpens DEF CallOpens
  <2>3. NoGaps(call[c].snap)' /\ Plain(call[c].snap)'
        /\ CompletedOpens(call[c].snap)'
    BY <1>4, <2>2 DEF NoGaps, Plain, CompletedOpens, Phases
  <2>4. pc'[c] \notin UnlockLabels
    BY <1>2, <2>1 DEF CallOpens, UnlockLabels
  <2>5. Marking(c)' => Marking(c) /\ call'[c].task = call[c].task
    BY <1>2 DEF Marking, PageLabels
  <2>6. QED
    BY <1>1, <2>1, <2>3, <2>4, <2>5 DEF CallOpens
<1>6. \A p \in 1..(PhaseCount - 1) : AllDone(p)' => Handed(p)'
  <2> SUFFICES ASSUME NEW p \in 1..(PhaseCount - 1), AllDone(p)' PROVE Handed(p)'
    OBVIOUS
  <2>1. AllDone(p)
    BY <1>1 DEF AllDone, TasksOf, Tasks, Phases
  <2>2. Handed(p)
    BY <2>1 DEF OInv
  <2>3. QED
    BY <1>3, <1>4, <2>2 DEF Handed
<1>7. CompletedOpens(status)' /\ NoGaps(status)' /\ Plain(status)'
  BY <1>1, <1>4 DEF OInv, CompletedOpens, NoGaps, Plain, Phases
<1>8. QED
  BY <1>1, <1>5, <1>6, <1>7 DEF OInv

LEMMA OpensStep ==
    ASSUME MaxUnlocks = 0, MaxFaults = 0, MaxDeaths = 0
    PROVE  LInv /\ OInv /\ [Next]_vars => OInv'
<1> SUFFICES ASSUME LInv, OInv, [Next]_vars PROVE OInv'
  OBVIOUS
<1>1. TInv' /\ TypeOK
  BY TypeStep DEF LInv, TInv
<1>2. \A c \in Calls : Ready(c)
  BY <1>1 DEF Ready
<1>3. ASSUME NEW c \in Calls, Step(c) PROVE OInv'
  <2>1. ~FindLocked(c) /\ ~InsertUnlock(c) /\ ~Override(c) /\ ~MarkApproved(c)
    BY <1>2, ReadyFacts
    DEF CallOpens, UnlockLabels, FindLocked, InsertUnlock, Override, MarkApproved
  <2>2. Moves(c)
    BY <1>2, <1>3, <2>1, IdlesMove, MarkMoves, BillingMoves, ReadPhasesMoves,
       ReadTasksMoves, CompletePhaseMoves, UnlockNextMoves
    DEF Step
  <2>3. QED
    BY <1>1, <2>2, MovesKeep
<1>4. ASSUME NEW c \in Calls, NEW t \in Tabs, NEW k \in Tasks, Click(c, t, k)
      PROVE  OInv'
  BY <1>1, <1>2, <1>4, ClickMoves, MovesKeep
<1>5. \A c \in Calls : ~Dies(c) /\ ~AskUnlock(c)
  BY <1>1 DEF Dies, AskUnlock, TypeOK
<1>6. UnlockIds = {}
  BY DEF UnlockIds
<1>7. ASSUME NEW t \in Tabs, Refetch(t) \/ CloseTab(t) PROVE OInv'
  BY <1>7, PageKeepsOpening
<1>8. CASE UNCHANGED vars
  BY <1>8 DEF OInv, NoGaps, Plain, CompletedOpens, OpenOrOpening, Opening,
     CallOpens, Marking, AllDone, Handed, Coming, TasksOf, Tasks, Phases, vars, rows
<1>9. QED
  BY <1>3, <1>4, <1>5, <1>6, <1>7, <1>8 DEF Next

(* Once every call has ended, a phase whose tasks are all complete is      *)
(* followed by an open one: whichever of any number of overlapping         *)
(* completions was the last to be written, with completions taken back and *)
(* tabs closed in between, as long as no function dies, no write fails and *)
(* no early unlock gets in the way of the loop.                            *)
THEOREM DoneOpens ==
    ASSUME MaxUnlocks = 0, MaxDeaths = 0, MaxFaults = 0
    PROVE  Spec => []DoneOpensNext
<1>1. LInv /\ OInv /\ [Next]_vars => OInv'
  BY OpensStep
<1>2. Spec => [](LInv /\ OInv)
  BY <1>1, LadderInit, LadderStep, OpensInit, PTL DEF Spec
<1>3. OInv => DoneOpensNext
  <2> SUFFICES ASSUME OInv, Quiet, NEW p \in 1..(PhaseCount - 1), AllDone(p)
               PROVE  status[p + 1] # "locked"
    BY DEF DoneOpensNext, AllDone
  <2>1. Handed(p)
    BY DEF OInv
  <2>2. QED
    BY <2>1 DEF Handed, OpenOrOpening, Opening, Coming, Fresh, LoopLabels, Quiet
<1>4. QED
  BY <1>2, <1>3, PTL

-----------------------------------------------------------------------------
(* CompletedStays, with one page and one call at a time.  What could open a *)
(* completed phase again is a page that still shows it locked, or a loop    *)
(* whose snapshot does: the page shows every phase with a complete task,    *)
(* and nobody but the loop itself moves the phases ahead of it.             *)

OnePage == \A s, t \in Tabs : s = t

TasksBeforeLast == \A p \in 1..(PhaseCount - 1) : TasksOf(p) # {}

InCall(c) == pc[c] \notin {"idle", "unmark"}

Shows(st) ==
    /\ st[1] # "locked"
    /\ \A p \in Phases : status[p] = "completed" => st[p] # "locked"
    /\ \A k \in done : st[k[1]] # "locked"

CallStays(c) ==
    /\ pc[c] \notin UnlockLabels
    /\ InCall(c) => /\ Shows(call[c].before.status)
                    /\ call[c].before.status[call[c].task[1]] # "locked"
    /\ Marking(c) => \A t \in Tabs : view[t].status[call[c].task[1]] # "locked"
    /\ call[c].opens # 0 => call[c].before.status[call[c].opens] = "locked"
    /\ pc[c] = "complete" => TasksOf(call[c].phase) \subseteq done
    /\ pc[c] \in LoopLabels =>
          \A q \in Phases : q > call[c].phase => status[q] = call[c].snap[q]
    /\ pc[c] = "unlockNext" => call[c].snap[call[c].phase + 1] = "locked"

SInv == /\ \A t \in Tabs : Shows(view[t].status)
        /\ \A c \in Calls : CallStays(c)

LEMMA StaysInit == Init => SInv
<1> SUFFICES ASSUME Init PROVE SInv
  OBVIOUS
<1>1. \A t \in Tabs : view[t].status = status
  BY DEF Init, Fetched
<1>2. Shows(status)
  BY OneIsPhase DEF Init, Shows
<1>3. \A c \in Calls : CallStays(c)
  BY DEF Init, CallStays, NoCall, InCall, Marking, UnlockLabels, LoopLabels
<1>4. QED
  BY <1>1, <1>2, <1>3 DEF SInv, Shows

(* A step that marks or completes only what a page with these statuses     *)
(* shows.                                                                  *)
Steady(st) ==
    /\ \A p \in Phases : status'[p] = "completed" =>
          status[p] = "completed" \/ st[p] # "locked"
    /\ \A k \in done' : k \in done \/ st[k[1]] # "locked"

LEMMA SteadyShows ==
    ASSUME NEW st, Shows(st), Steady(st)
    PROVE  /\ st[1] # "locked"
           /\ \A p \in Phases : status'[p] = "completed" => st[p] # "locked"
           /\ \A k \in done' : st[k[1]] # "locked"
BY DEF Shows, Steady

(* What holds before the step of a call, and what the step has to show.    *)
Set(c) == /\ OneCall /\ OnePage /\ TasksBeforeLast /\ MaxUnlocks = 0
          /\ LInv /\ TInv' /\ DInv /\ SInv
          /\ c \in Calls

Lasts(c) ==
    /\ \A p \in Phases : status[p] = "completed" => status'[p] = "completed"
    /\ CallStays(c)'
    /\ \A t \in Tabs : Shows(view[t].status)'

LEMMA SetFacts ==
    ASSUME NEW c, Set(c)
    PROVE  /\ c \in Calls /\ LInv /\ DInv /\ TypeOK /\ CallTypes(c)
           /\ call[c] \in Call /\ CallStays(c)
           /\ \A t \in Tabs : Shows(view[t].status)
           /\ \A p \in Phases : TasksOf(p)' = TasksOf(p)
           /\ Phases' = Phases /\ Tabs' = Tabs
BY DEF Set, LInv, TInv, TypeOK, SInv, TasksOf, Tasks, Phases, Tabs

(* A step that marks and completes nothing, and leaves the view's statuses *)
(* alone or sets them to those before the click.                           *)
LEMMA AsideSteady ==
    ASSUME NEW c, Aside(c), NEW st
    PROVE  Steady(st)
BY DEF Aside, Steady

LEMMA SteadyViews ==
    ASSUME NEW c, Set(c),
           \A t \in Tabs : Steady(view[t].status),
           Steady(call[c].before.status),
           \A t \in Tabs : \/ view'[t].status = view[t].status
                           \/ InCall(c) /\ view'[t].status = call[c].before.status
    PROVE  \A t \in Tabs : Shows(view[t].status)'
<1> SUFFICES ASSUME NEW t \in Tabs PROVE Shows(view[t].status)'
  OBVIOUS
<1>1. CASE view'[t].status = view[t].status
  BY <1>1, SetFacts, SteadyShows DEF Shows
<1>2. CASE InCall(c) /\ view'[t].status = call[c].before.status
  <2>1. Shows(call[c].before.status)
    BY <1>2, SetFacts DEF CallStays
  <2>2. QED
    BY <1>2, <2>1, SetFacts, SteadyShows DEF Shows
<1>3. QED
  BY <1>1, <1>2

(* The call goes on with what it held, outside the loop.                   *)
LEMMA GoesOn ==
    ASSUME NEW c, Set(c), InCall(c), Steady(call[c].before.status),
           call'[c].before = call[c].before /\ call'[c].task = call[c].task,
           call'[c].opens = call[c].opens,
           pc'[c] \notin UnlockLabels \cup {"readTask", "mark"} \cup LoopLabels
    PROVE  CallStays(c)'
<1>1. CallStays(c)
  BY SetFacts
<1>2. Shows(call[c].before.status)'
  BY <1>1, SteadyShows DEF CallStays, Shows
<1>3. QED
  BY <1>1, <1>2 DEF CallStays, Marking, LoopLabels, Shows

LEMMA IdleStays ==
    ASSUME NEW c, pc'[c] = "idle", call'[c].opens = 0
    PROVE  CallStays(c)'
BY DEF CallStays, InCall, Marking, LoopLabels, UnlockLabels

(* A step outside the loop that opens no phase.                            *)
LEMMA OutsideLasts ==
    ASSUME NEW c, Set(c), Aside(c), status' = status,
           CallStays(c)',
           \A t \in Tabs : \/ view'[t].status = view[t].status
                           \/ InCall(c) /\ view'[t].status = call[c].before.status
    PROVE  Lasts(c)
BY AsideSteady, SteadyViews DEF Lasts

LEMMA RefusalLasts ==
    ASSUME NEW c, Set(c), Refuse(c), InCall(c), Aside(c), status' = status
    PROVE  Lasts(c)
<1>1. /\ pc'[c] \in {"closePhase", "idle"}
      /\ call'[c] = call[c] \/ (call'[c] = NoCall /\ pc'[c] = "idle")
  BY SetFacts DEF Refuse, PageGoesOn, Goto, TypeOK
<1>2. CallStays(c)'
  BY <1>1, AsideSteady, GoesOn, IdleStays DEF UnlockLabels, LoopLabels, NoCall
<1>3. \A t \in Tabs : \/ view'[t].status = view[t].status
                      \/ view'[t].status = call[c].before.status
  <2>1. view' = view \/ view' = [view EXCEPT ![call[c].tab] = call[c].before]
    BY DEF Refuse
  <2>2. QED
    BY <2>1, SetFacts DEF TypeOK
<1>4. QED
  BY <1>2, <1>3, OutsideLasts

LEMMA SimpleLasts ==
    ASSUME NEW c, Set(c)
    PROVE  /\ Unmark(c) => Lasts(c)
           /\ Earn(c) => Lasts(c)
           /\ Award(c) => Lasts(c)
           /\ CountDone(c) => Lasts(c)
           /\ Answer(c) => Lasts(c)
           /\ ClosePhase(c) => Lasts(c)
           /\ Dies(c) => Lasts(c)
<1>1. NoCall.opens = 0
  BY DEF NoCall
<1>2. ASSUME Unmark(c) PROVE Lasts(c)
  <2>1. /\ pc'[c] = "idle" /\ call'[c] = NoCall
        /\ UNCHANGED <<view, status>> /\ Aside(c)
    BY <1>2, SetFacts, StepsAside DEF Unmark, Finishes, Goto, TypeOK
  <2>2. QED
    BY <1>1, <2>1, IdleStays, OutsideLasts
<1>3. ASSUME Earn(c) \/ Award(c) PROVE Lasts(c)
  <2>1. /\ pc[c] \in {"earn", "award"} /\ pc'[c] \in {"award", "readPhases"}
        /\ UNCHANGED <<view, status, call>> /\ Aside(c)
    BY <1>3, SetFacts, StepsAside DEF Earn, Award, Goto, TypeOK, rows
  <2>2. QED
    BY <2>1, AsideSteady, GoesOn, OutsideLasts DEF InCall, UnlockLabels, LoopLabels
<1>4. ASSUME CountDone(c) PROVE Lasts(c)
  <2>1. /\ pc[c] = "count" /\ pc'[c] = "percent"
        /\ UNCHANGED <<view, status>> /\ Aside(c)
    BY <1>4, SetFacts, StepsAside DEF CountDone, Goto, TypeOK, rows
  <2>2. /\ call'[c].before = call[c].before /\ call'[c].task = call[c].task
        /\ call'[c].opens = call[c].opens
    BY <1>4, SetFacts DEF CountDone, TypeOK, Call
  <2>3. QED
    BY <2>1, <2>2, AsideSteady, GoesOn, OutsideLasts
    DEF InCall, UnlockLabels, LoopLabels
<1>5. ASSUME Answer(c) \/ ClosePhase(c) PROVE Lasts(c)
  <2>1. /\ pc[c] \in {"percent", "closePhase"}
        /\ pc'[c] \in {"closePhase", "openNext", "idle"}
        /\ UNCHANGED <<view, status>> /\ Aside(c)
        /\ call'[c] = call[c] \/ (call'[c] = NoCall /\ pc'[c] = "idle")
    BY <1>5, SetFacts, StepsAside
    DEF Answer, ClosePhase, PageGoesOn, Finishes, Goto, TypeOK
  <2>2. CallStays(c)'
    BY <1>1, <2>1, AsideSteady, GoesOn, IdleStays DEF InCall, UnlockLabels, LoopLabels
  <2>3. QED
    BY <2>1, <2>2, OutsideLasts
<1>6. ASSUME Dies(c) PROVE Lasts(c)
  <2>1. InCall(c) /\ Refuse(c) /\ status' = status /\ Aside(c)
    BY <1>6, SetFacts, StepsAside DEF Dies, InCall, FunctionLabels, rows
  <2>2. QED
    BY <2>1, RefusalLasts
<1>7. QED
  BY <1>2, <1>3, <1>4, <1>5, <1>6

LEMMA ReadTaskLasts ==
    ASSUME NEW c, Set(c), ReadTask(c)
    PROVE  Lasts(c)
<1>1. /\ pc[c] = "readTask" /\ InCall(c) /\ UNCHANGED <<done, status>> /\ Aside(c)
  BY SetFacts, StepsAside DEF ReadTask, InCall, rows
<1>2. CASE call[c].task \in done
  BY <1>1, <1>2, RefusalLasts DEF ReadTask
<1>3. CASE call[c].task \notin done
  <2>1. pc'[c] = "mark" /\ UNCHANGED <<view, call>>
    BY <1>3, SetFacts DEF ReadTask, Goto, TypeOK
  <2>2. CallStays(c)'
    BY <1>1, <2>1, SetFacts
    DEF CallStays, InCall, Marking, Shows, LoopLabels, UnlockLabels
  <2>3. QED
    BY <1>1, <2>1, <2>2, OutsideLasts
<1>4. QED
  BY <1>2, <1>3

LEMMA MarkLasts ==
    ASSUME NEW c, Set(c), Mark(c)
    PROVE  Lasts(c)
<1>1. /\ pc[c] = "mark" /\ pc'[c] = "earn" /\ UNCHANGED <<status, view, call>>
      /\ done' \subseteq done \cup {call[c].task}
  BY SetFacts DEF Mark, Goto, TypeOK
<1>2. CallStays(c)
  BY SetFacts
<1>3. Steady(call[c].before.status) /\ \A t \in Tabs : Steady(view[t].status)
  BY <1>1, <1>2 DEF Steady, CallStays, InCall, Marking
<1>4. CallStays(c)'
  BY <1>1, <1>3, GoesOn DEF InCall, UnlockLabels, LoopLabels
<1>5. QED
  BY <1>1, <1>3, <1>4, SteadyViews DEF Lasts

LEMMA ClickLasts ==
    ASSUME NEW c, Set(c), NEW t \in Tabs, NEW k \in Tasks, Click(c, t, k)
    PROVE  Lasts(c)
<1>1. /\ UNCHANGED <<done, status>> /\ Aside(c)
      /\ pc'[c] \in {"unmark", "readTask"}
  BY SetFacts, StepsAside DEF Click, Goto, TypeOK, rows
<1>2. \A s \in Tabs : view'[s].status = view[s].status
  <2>1. \/ view' = [view EXCEPT ![t].done = view[t].done \ {k}]
        \/ view' = [view EXCEPT ![t].done = view[t].done \cup {k}]
    BY DEF Click
  <2>2. \A s \in Tabs : view[s] \in View
    BY SetFacts DEF TypeOK
  <2>3. QED
    BY <2>1, <2>2, SetFacts DEF TypeOK, View
<1>3. Shows(view[t].status) /\ view[t].status[k[1]] # "locked"
  BY SetFacts DEF Shows, Shown, Click
<1>4. CASE k \in view[t].done
  <2>1. pc'[c] = "unmark" /\ call'[c].opens = 0
    <3>1. /\ pc'[c] = "unmark"
          /\ call'[c] = [NoCall EXCEPT !.tab = t, !.task = k]
      BY <1>4, SetFacts DEF Click, Goto, TypeOK
    <3>2. QED
      BY <3>1 DEF NoCall
  <2>2. CallStays(c)'
    BY <2>1 DEF CallStays, InCall, Marking, LoopLabels, UnlockLabels
  <2>3. QED
    BY <1>1, <1>2, <2>2, OutsideLasts
<1>5. CASE k \notin view[t].done
  <2>1. /\ pc'[c] = "readTask"
        /\ call'[c] = [NoCall EXCEPT !.tab = t, !.task = k, !.before = view[t],
                          !.closes = Closes(view[t], k), !.opens = Opens(view[t], k)]
    BY <1>5, SetFacts DEF Click, Goto, TypeOK
  <2>2. /\ call'[c].task = k /\ call'[c].before = view[t]
        /\ call'[c].opens = Opens(view[t], k)
    BY <2>1 DEF NoCall
  <2>3. Opens(view[t], k) # 0 => view[t].status[Opens(view[t], k)] = "locked"
    BY DEF Opens
  <2>4. \A s \in Tabs : view'[s].status[k[1]] # "locked"
    BY <1>2, <1>3 DEF Set, OnePage
  <2>5. Shows(view[t].status)'
    BY <1>1, <1>2, <1>3 DEF Shows, Phases
  <2>6. CallStays(c)'
    <3>1. Shows(call[c].before.status)'
      BY <1>1, <1>3, <2>2 DEF Shows, Phases
    <3>2. QED
      BY <1>3, <2>1, <2>2, <2>3, <2>4, <3>1, SetFacts
      DEF CallStays, InCall, Marking, LoopLabels, UnlockLabels
  <2>7. QED
    BY <1>1, <1>2, <2>6, OutsideLasts
<1>6. QED
  BY <1>4, <1>5

LEMMA OpenNextLasts ==
    ASSUME NEW c, Set(c), OpenNext(c)
    PROVE  Lasts(c)
<1>1. /\ pc[c] = "openNext" /\ pc'[c] = "idle" /\ call'[c] = NoCall
      /\ UNCHANGED view /\ Aside(c)
      /\ status' = status \/ status' = [status EXCEPT ![call[c].opens] = "active"]
  BY SetFacts, StepsAside DEF OpenNext, Finishes, Goto, TypeOK
<1>2. call[c].opens \in Phases /\ call[c].opens # 0 /\ CallStays(c)
  BY <1>1, SetFacts, ConstantTypes DEF CallTypes, Phases, PageLabels
<1>3. status[call[c].opens] # "completed"
  BY <1>1, <1>2 DEF CallStays, InCall, Shows
<1>4. \A p \in Phases : status[p] = "completed" => status'[p] = "completed"
  BY <1>1, <1>3, SetFacts DEF TypeOK
<1>5. CallStays(c)'
  BY <1>1, IdleStays DEF NoCall
<1>6. QED
  BY <1>1, <1>4, <1>5, AsideSteady, SteadyViews DEF Lasts

-----------------------------------------------------------------------------
(* The loop                                                                *)

(* The call stays in the loop, or leaves it to count.                      *)
LEMMA LoopStays ==
    ASSUME NEW c, Set(c), InCall(c), Steady(call[c].before.status),
           call'[c].before = call[c].before /\ call'[c].task = call[c].task,
           call'[c].opens = call[c].opens,
           pc'[c] \in {"readTasks", "complete", "unlockNext", "count"},
           pc'[c] = "complete" => TasksOf(call'[c].phase) \subseteq done',
           \A q \in Phases : q > call'[c].phase => status'[q] = call'[c].snap[q],
           pc'[c] = "unlockNext" => call'[c].snap[call'[c].phase + 1] = "locked"
    PROVE  CallStays(c)'
<1>1. CallStays(c)
  BY SetFacts
<1>2. Shows(call[c].before.status)'
  BY <1>1, SteadyShows DEF CallStays, Shows
<1>3. TasksOf(call[c].phase)' = {k \in Tasks : k[1] = call'[c].phase}
      /\ TasksOf(call'[c].phase) = {k \in Tasks : k[1] = call'[c].phase}
  BY DEF TasksOf, Tasks, Phases
<1>4. QED
  BY <1>1, <1>2, <1>3, SetFacts DEF CallStays, Marking, Shows, UnlockLabels

LEMMA ReadPhasesLasts ==
    ASSUME NEW c, Set(c), ReadPhases(c)
    PROVE  Lasts(c)
<1>1. /\ pc[c] = "readPhases" /\ pc'[c] \in {"readTasks", "count"}
      /\ UNCHANGED <<view, status>> /\ Aside(c)
  BY SetFacts, StepsAside DEF ReadPhases, LoopAt, Goto, TypeOK, rows
<1>2. /\ call'[c].before = call[c].before /\ call'[c].task = call[c].task
      /\ call'[c].opens = call[c].opens
      /\ call'[c].snap = status
  BY SetFacts DEF ReadPhases, TypeOK, Call
<1>3. CallStays(c)'
  BY <1>1, <1>2, AsideSteady, LoopStays DEF InCall
<1>4. QED
  BY <1>1, <1>3, OutsideLasts

LEMMA ReadTasksLasts ==
    ASSUME NEW c, Set(c), ReadTasks(c)
    PROVE  Lasts(c)
<1>1. /\ pc[c] = "readTasks" /\ UNCHANGED <<view, status, done>>
      /\ pc'[c] \in {"readTasks", "complete", "count"}
  BY SetFacts DEF ReadTasks, LoopAt, Goto, TypeOK, rows
<1>2. /\ call'[c].before = call[c].before /\ call'[c].task = call[c].task
      /\ call'[c].opens = call[c].opens /\ call'[c].snap = call[c].snap
      /\ call'[c].phase \in {call[c].phase, call[c].phase + 1}
  BY SetFacts DEF ReadTasks, TypeOK, Call
<1>3. pc'[c] = "complete" => TasksOf(call'[c].phase) \subseteq done'
  <2>1. CASE TasksOf(call[c].phase) \subseteq done /\ UNCHANGED call
    BY <1>1, <2>1
  <2>2. CASE LoopAt(c, call[c].snap, call[c].phase + 1)
    BY <2>2, SetFacts DEF LoopAt, Goto, TypeOK
  <2>3. QED
    BY <2>1, <2>2 DEF ReadTasks
<1>4. \A q \in Phases : q > call'[c].phase => status'[q] = call'[c].snap[q]
  <2>1. call[c].phase \in Int
    BY SetFacts, ConstantTypes DEF Call
  <2>2. \A q \in Phases : q > call'[c].phase => q > call[c].phase
    BY <1>2, <2>1, ConstantTypes DEF Phases
  <2>3. QED
    BY <1>1, <1>2, <2>2, SetFacts DEF CallStays, LoopLabels
<1>5. \A st : Steady(st)
  BY <1>1 DEF Steady
<1>6. CallStays(c)'
  BY <1>1, <1>2, <1>3, <1>4, <1>5, LoopStays DEF InCall
<1>7. QED
  BY <1>1, <1>5, <1>6, SteadyViews DEF Lasts

LEMMA CompletePhaseLasts ==
    ASSUME NEW c, Set(c), CompletePhase(c)
    PROVE  Lasts(c)
<1>1. /\ pc[c] = "complete" /\ UNCHANGED <<view, done>>
      /\ pc'[c] \in {"readTasks", "unlockNext", "count"}
      /\ status' = status \/ status' = [status EXCEPT ![call[c].phase] = "completed"]
  BY SetFacts DEF CompletePhase, LoopAt, Goto, TypeOK
<1>2. /\ call[c].phase \in Phases /\ call[c].phase \in 1..(PhaseCount - 1)
      /\ TasksOf(call[c].phase) \subseteq done
  <2>1. call[c].phase \in Phases /\ call[c].phase + 1 \in Phases
    BY <1>1, NextPhase, SetFacts DEF LInv, LoopLabels
  <2>2. QED
    BY <1>1, <2>1, SetFacts, ConstantTypes DEF CallStays, Phases
<1>3. ASSUME NEW st, Shows(st) PROVE Steady(st)
  <2>1. PICK k \in TasksOf(call[c].phase) : TRUE
    BY <1>2 DEF Set, TasksBeforeLast
  <2>2. k \in done /\ k[1] = call[c].phase
    BY <1>2, <2>1 DEF TasksOf
  <2>3. st[call[c].phase] # "locked"
    BY <1>3, <2>2 DEF Shows
  <2>4. \A p \in Phases : status'[p] = "completed" =>
           status[p] = "completed" \/ p = call[c].phase
    BY <1>1, SetFacts DEF TypeOK
  <2>5. QED
    BY <1>1, <2>3, <2>4 DEF Steady
<1>4. Steady(call[c].before.status) /\ \A t \in Tabs : Steady(view[t].status)
  BY <1>1, <1>3, SetFacts DEF CallStays, InCall
<1>5. CASE UNCHANGED call /\ call[c].snap[call[c].phase + 1] = "locked"
  <2>1. \A q \in Phases : q > call[c].phase => status'[q] = call[c].snap[q]
    <3>1. \A q \in Phases : q > call[c].phase => q # call[c].phase
      BY <1>2, ConstantTypes DEF Phases
    <3>2. QED
      BY <1>1, <3>1, SetFacts DEF CallStays, LoopLabels, TypeOK
  <2>2. CallStays(c)'
    BY <1>1, <1>4, <1>5, <2>1, LoopStays DEF InCall
  <2>3. QED
    BY <1>1, <1>4, <2>2, SetFacts, SteadyViews DEF Lasts, TypeOK
<1>6. CASE /\ call' = [call EXCEPT ![c].phase = call[c].phase + 1]
           /\ LoopAt(c, call[c].snap, call[c].phase + 1)
  <2>1. /\ call'[c].before = call[c].before /\ call'[c].task = call[c].task
        /\ call'[c].opens = call[c].opens /\ call'[c].snap = call[c].snap
        /\ call'[c].phase = call[c].phase + 1
        /\ pc'[c] \in {"readTasks", "count"}
    BY <1>6, SetFacts DEF LoopAt, Goto, TypeOK, Call
  <2>2. \A q \in Phases : q > call'[c].phase => status'[q] = call'[c].snap[q]
    <3>1. \A q \in Phases : q > call[c].phase + 1 =>
             q # call[c].phase /\ q > call[c].phase
      BY <1>2, ConstantTypes DEF Phases
    <3>2. QED
      BY <1>1, <2>1, <3>1, SetFacts DEF CallStays, LoopLabels, TypeOK
  <2>3. CallStays(c)'
    BY <1>1, <1>4, <2>1, <2>2, LoopStays DEF InCall
  <2>4. QED
    BY <1>1, <1>4, <2>3, SetFacts, SteadyViews DEF Lasts, TypeOK
<1>7. QED
  BY <1>5, <1>6 DEF CompletePhase

LEMMA UnlockNextLasts ==
    ASSUME NEW c, Set(c), UnlockNext(c)
    PROVE  Lasts(c)
<1>1. /\ pc[c] = "unlockNext" /\ pc'[c] \in {"readTasks", "count"}
      /\ UNCHANGED view /\ Aside(c)
      /\ \/ status' = status
         \/ status' = [status EXCEPT ![call[c].phase + 1] = "active"]
  BY SetFacts, StepsAside DEF UnlockNext, LoopAt, Goto, TypeOK
<1>2. call[c].phase \in Phases /\ call[c].phase + 1 \in Phases
  BY <1>1, NextPhase, SetFacts DEF LInv, LoopLabels
<1>3. status[call[c].phase + 1] = "locked"
  <2>1. call[c].phase + 1 > call[c].phase
    BY <1>2, ConstantTypes DEF Phases
  <2>2. QED
    BY <1>1, <1>2, <2>1, SetFacts DEF CallStays, LoopLabels
<1>4. /\ call'[c].before = call[c].before /\ call'[c].task = call[c].task
      /\ call'[c].opens = call[c].opens /\ call'[c].snap = call[c].snap
      /\ call'[c].phase = call[c].phase + 1
  BY SetFacts DEF UnlockNext, TypeOK, Call
<1>5. \A q \in Phases : q > call'[c].phase => status'[q] = call'[c].snap[q]
  <2>1. \A q \in Phases : q > call[c].phase + 1 =>
           q # call[c].phase + 1 /\ q > call[c].phase
    BY <1>2, ConstantTypes DEF Phases
  <2>2. QED
    BY <1>1, <1>4, <2>1, SetFacts DEF CallStays, LoopLabels, TypeOK
<1>6. CallStays(c)'
  BY <1>1, <1>4, <1>5, AsideSteady, LoopStays DEF InCall
<1>7. \A p \in Phases : status[p] = "completed" => status'[p] = "completed"
  BY <1>1, <1>3, SetFacts DEF TypeOK
<1>8. QED
  BY <1>1, <1>6, <1>7, AsideSteady, SteadyViews DEF Lasts

-----------------------------------------------------------------------------
(* The steps of a page of its own, and the whole step.                     *)

LEMMA PageStays ==
    ASSUME LInv, SInv, NEW t \in Tabs, Refetch(t) \/ CloseTab(t)
    PROVE  SInv'
<1>1. /\ UNCHANGED <<status, done>> /\ TypeOK
      /\ view' = [view EXCEPT ![t] = Fetched]
  BY DEF Refetch, CloseTab, rows, LInv, TInv
<1>2. \A k \in Tasks, s \in Tabs : view[s].status[k[1]] # "locked" =>
         view'[s].status[k[1]] # "locked"
  <2>1. \A k \in Tasks, s \in Tabs :
           view[s].status[k[1]] # "locked" => status[k[1]] # "locked"
    BY TaskFacts DEF LInv, Seen
  <2>2. QED
    BY <1>1, <2>1 DEF Fetched, TypeOK
<1>3. \A s \in Tabs : Shows(view[s].status)'
  <2> SUFFICES ASSUME NEW s \in Tabs PROVE Shows(view[s].status)'
    BY DEF Tabs
  <2>1. Shows(view[s].status)
    BY DEF SInv
  <2>2. \A k \in done : view'[s].status[k[1]] # "locked"
    BY <1>1, <1>2, <2>1 DEF Shows, TypeOK
  <2>3. CASE s = t
    <3>1. view'[s].status = status /\ status[1] # "locked"
      BY <1>1, <2>3 DEF Fetched, TypeOK, LInv
    <3>2. QED
      BY <1>1, <2>2, <3>1 DEF Shows, Phases
  <2>4. CASE s # t
    BY <1>1, <2>1, <2>4 DEF Shows, Phases, TypeOK
  <2>5. QED
    BY <2>3, <2>4
<1>4. ASSUME NEW c \in Calls PROVE CallStays(c)'
  <2>1. CallStays(c) /\ call[c] \in Call /\ CallTypes(c)
    BY <1>1 DEF SInv, TypeOK, LInv, TInv
  <2>2. CASE pc[c] \in PageLabels /\ pc'[c] = "idle" /\ call'[c] = NoCall
    BY <2>2, IdleStays DEF NoCall
  <2>3. ASSUME /\ pc'[c] = pc[c]
               /\ call'[c].task = call[c].task /\ call'[c].before = call[c].before
               /\ call'[c].opens = call[c].opens /\ call'[c].phase = call[c].phase
               /\ call'[c].snap = call[c].snap
        PROVE  CallStays(c)'
    <3>1. Marking(c)' => \A s \in Tabs : view'[s].status[call[c].task[1]] # "locked"
      <4>1. Marking(c) => call[c].task \in Tasks
        BY <2>1 DEF CallTypes, Marking, TaskLabels
      <4>2. QED
        BY <1>2, <2>1, <2>3, <4>1 DEF CallStays, Marking
    <3>2. TasksOf(call[c].phase)' = TasksOf(call[c].phase)
      BY <2>3 DEF TasksOf, Tasks, Phases
    <3>3. InCall(c)' = InCall(c)
      BY <2>3 DEF InCall
    <3>4. Shows(call[c].before.status)' = Shows(call[c].before.status)
      BY <1>1, <2>3 DEF Shows, Phases
    <3>5. QED
      BY <1>1, <2>1, <2>3, <3>1, <3>2, <3>3, <3>4
      DEF CallStays, Phases, Tabs, LoopLabels, UnlockLabels
  <2>4. CASE pc'[c] = pc[c] /\ call'[c] = call[c]
    BY <2>3, <2>4
  <2>5. CASE pc'[c] = pc[c] /\ call'[c] = [call[c] EXCEPT !.tab = 0]
    BY <2>1, <2>3, <2>5 DEF Call
  <2>6. QED
    BY <2>2, <2>4, <2>5 DEF Refetch, CloseTab
<1>5. QED
  BY <1>3, <1>4 DEF SInv

Lasting == \A p \in Phases : status[p] = "completed" => status'[p] = "completed"

LEMMA StaysStep ==
    ASSUME OneCall, OnePage, TasksBeforeLast, MaxUnlocks = 0
    PROVE  LInv /\ DInv /\ SInv /\ [Next]_vars => SInv' /\ Lasting
<1> SUFFICES ASSUME LInv, DInv, SInv, [Next]_vars PROVE SInv' /\ Lasting
  OBVIOUS
<1>1. TInv' /\ TypeOK
  BY TypeStep DEF LInv, TInv
<1>2. \A c \in Calls : Set(c)
  BY <1>1 DEF Set
<1>3. ASSUME NEW c \in Calls, Lasts(c) PROVE SInv' /\ Lasting
  BY <1>3 DEF Lasts, SInv, OneCall, Lasting
<1>4. ASSUME NEW c \in Calls, Step(c) \/ Dies(c) PROVE SInv' /\ Lasting
  <2>1. ~FindLocked(c) /\ ~InsertUnlock(c) /\ ~Override(c) /\ ~MarkApproved(c)
    BY <1>2, SetFacts
    DEF CallStays, UnlockLabels, FindLocked, InsertUnlock, Override, MarkApproved
  <2>2. Lasts(c)
    BY <1>2, <1>4, <2>1, SimpleLasts, ReadTaskLasts, MarkLasts, ReadPhasesLasts,
       ReadTasksLasts, CompletePhaseLasts, UnlockNextLasts, OpenNextLasts
    DEF Step
  <2>3. QED
    BY <1>3, <2>2
<1>5. ASSUME NEW c \in Calls, NEW t \in Tabs, NEW k \in Tasks, Click(c, t, k)
      PROVE  SInv' /\ Lasting
  BY <1>2, <1>3, <1>5, ClickLasts
<1>6. UnlockIds = {} /\ \A c \in Calls : ~AskUnlock(c)
  BY <1>1 DEF UnlockIds, AskUnlock, TypeOK
<1>7. ASSUME NEW t \in Tabs, Refetch(t) \/ CloseTab(t) PROVE SInv' /\ Lasting
  BY <1>7, PageStays DEF Lasting, Refetch, CloseTab, rows
<1>8. CASE UNCHANGED vars
  BY <1>8 DEF SInv, Shows, CallStays, InCall, Marking, TasksOf, Tasks, Phases, Tabs,
     Lasting, vars, rows
<1>9. QED
  BY <1>4, <1>5, <1>6, <1>7, <1>8 DEF Next

(* With one page that clicks one task at a time, in a roadmap where only   *)
(* the last phase may lack tasks and no early unlock is asked for, a       *)
(* completed phase is never opened again, whatever is taken back, closed,  *)
(* killed or lost.                                                         *)
THEOREM CompletedPhasesStay ==
    ASSUME \A c, d \in Calls : c = d, \A s, t \in Tabs : s = t,
           \A p \in 1..(PhaseCount - 1) : TasksOf(p) # {},
           MaxUnlocks = 0
    PROVE  Spec => CompletedStays
<1>1. OneCall /\ OnePage /\ TasksBeforeLast
  BY DEF OneCall, OnePage, TasksBeforeLast
<1>2. LInv /\ DInv /\ SInv /\ [Next]_vars => SInv' /\ Lasting
  BY <1>1, StaysStep
<1>3. Lasting => [\A p \in Phases :
                     status[p] = "completed" => status'[p] = "completed"]_vars
  BY DEF Lasting
<1>4. QED
  BY <1>2, <1>3, LadderInit, LadderStep, DoneInit, DoneStep, StaysInit, PTL
  DEF Spec, CompletedStays
=============================================================================
