---------------------------- MODULE RoadmapTasks ----------------------------
(***************************************************************************)
(* The phases and tasks of one active roadmap.  Roadmap.tsx toggles tasks: *)
(* it completes one through roadmap-generator's complete_task, takes a     *)
(* completion back by writing the row itself, and after its last task      *)
(* closes the phase and opens the next one on its own, from what the page  *)
(* shows.  complete_task does the same from what the database holds, and   *)
(* request_early_unlock / approve_early_unlock open a phase by hand.       *)
(*                                                                         *)
(* The page does not wait for one toggle before the next, so each toggle   *)
(* or unlock is a call of its own; one action is one round trip.  Apart    *)
(* from the read that starts a handler no result is checked: a write that  *)
(* fails is only logged.                                                   *)
(***************************************************************************)
EXTENDS Integers, FiniteSets

CONSTANTS
    TabCount,    \* Roadmap pages the user has open
    Calls,       \* toggles and unlocks in flight at once
    PhaseCount,  \* phases of the roadmap
    TaskCount,   \* tasks inserted per phase: 5, fewer if inserts failed
    MaxToggles,  \* bound: clicks that complete a task
    MaxUnmarks,  \* bound: clicks that take a completion back
    MaxUnlocks,  \* bound: early unlock requests
    MaxDeaths,   \* bound: functions that stop half way
    MaxClosings, \* bound: tabs that are closed
    MaxFaults    \* bound: writes that fail unnoticed

VARIABLES
    done,        \* tasks.is_completed
    status,      \* roadmap_phases.status
    closed,      \* roadmap_phases.is_completed
    percentage,  \* roadmaps.completion_percentage
    unlocks,     \* early_unlock_requests, by id
    asked,       \* how many of them were inserted
    paid,        \* how often billing's earn was paid for a task
    view,        \* the roadmap a page holds
    pc,          \* the next statement of the call
    call,        \* what the call holds
    toggles, unmarks, deaths, closings, faults,  \* bounded counters
    finished     \* history: phases whose tasks were all complete at once

rows == <<done, status, closed, percentage, unlocks, asked, paid>>
clicks == <<toggles, unmarks>>
stops == <<deaths, closings>>
counters == <<clicks, stops, faults>>
vars == <<rows, view, pc, call, counters, finished>>

Tabs == 1..TabCount
Phases == 1..PhaseCount
UnlockIds == 1..MaxUnlocks
Tasks == {k \in Phases \X (1..5) : k[2] <= TaskCount[k[1]]}
TasksOf(p) == {k \in Tasks : k[1] = p}

ASSUME PhaseCountType == PhaseCount \in Nat \ {0}
ASSUME TaskCountType == TaskCount \in [Phases -> 0..5]
ASSUME BoundsType == /\ TabCount \in Nat /\ MaxToggles \in Nat
                     /\ MaxUnmarks \in Nat /\ MaxUnlocks \in Nat
                     /\ MaxDeaths \in Nat /\ MaxClosings \in Nat
                     /\ MaxFaults \in Nat
ASSUME CallsFinite == IsFiniteSet(Calls)

Statuses == {"locked", "active", "completed", "override_unlocked"}

\* Math.round(completed / total * 100), 0 without tasks
Percent(n) ==
    LET total == Cardinality(Tasks)
    IN  IF total = 0 THEN 0 ELSE (200 * n + total) \div (2 * total)

Eligible == Percent(Cardinality(done)) >= 85

\* isPhaseUnlocked: the page shows the tasks of these phases only
Shown(v, p) == v.status[p] = "active" \/ p = 1

\* what fetchRoadmap builds
Fetched == [status |-> status,
            done |-> {k \in done : status[k[1]] = "active" \/ k[1] = 1}]

Unseen == [p \in Phases |-> "locked"]

\* tab = 0: no page waits for the call
NoCall == [tab |-> 0, task |-> <<0, 0>>, closes |-> FALSE, opens |-> 0,
           before |-> [status |-> Unseen, done |-> {}],
           phase |-> 0, snap |-> Unseen, count |-> 0, unlock |-> 0]

Init ==
    /\ done = {}
    /\ status = [p \in Phases |-> IF p = 1 THEN "active" ELSE "locked"]
    /\ closed = {}
    /\ percentage = 0
    /\ unlocks = [r \in UnlockIds |-> [phase |-> 0, pending |-> FALSE]]
    /\ asked = 0
    /\ paid = [k \in Tasks |-> 0]
    /\ view = [t \in Tabs |-> Fetched]
    /\ pc = [c \in Calls |-> "idle"]
    /\ call = [c \in Calls |-> NoCall]
    /\ toggles = 0 /\ unmarks = 0
    /\ deaths = 0 /\ closings = 0 /\ faults = 0
    /\ finished = {p \in Phases : TasksOf(p) = {}}

Goto(c, l) == pc' = [pc EXCEPT ![c] = l]

\* a write whose error nobody looks at
WriteLost == faults < MaxFaults /\ faults' = faults + 1

Finishes(c) == Goto(c, "idle") /\ call' = [call EXCEPT ![c] = NoCall]

-----------------------------------------------------------------------------
(* Roadmap.tsx: handleTaskToggle up to its request *)

\* what the page will write after completing task k: its phase closed, and
\* the next one opened if the page shows it locked
Closes(v, k) == TasksOf(k[1]) \subseteq v.done \cup {k}

\* seeded fault: the next phase is opened whatever state the page shows it in
OpensAnyway(v, k) ==
    IF Closes(v, k) /\ k[1] < PhaseCount THEN k[1] + 1 ELSE 0

\* seeded fault: takes the phase's order, from 1, for its index, from 0
OpensByIndex(v, k) ==
    IF Closes(v, k) /\ k[1] + 1 < PhaseCount /\ v.status[k[1] + 2] = "locked"
    THEN k[1] + 2 ELSE 0

Opens(v, k) ==
    IF Closes(v, k) /\ k[1] < PhaseCount /\ v.status[k[1] + 1] = "locked"
    THEN k[1] + 1 ELSE 0

Click(c, t, k) ==
    /\ pc[c] = "idle"
    /\ Shown(view[t], k[1])
    /\ IF k \in view[t].done
       THEN /\ unmarks < MaxUnmarks
            /\ unmarks' = unmarks + 1
            /\ view' = [view EXCEPT ![t].done = @ \ {k}]
            /\ call' = [call EXCEPT ![c] = [NoCall EXCEPT !.tab = t, !.task = k]]
            /\ Goto(c, "unmark")
            /\ UNCHANGED toggles
       ELSE /\ toggles < MaxToggles
            /\ toggles' = toggles + 1
            /\ view' = [view EXCEPT ![t].done = @ \cup {k}]
            /\ call' = [call EXCEPT ![c] =
                   [NoCall EXCEPT !.tab = t, !.task = k, !.before = view[t],
                                  !.closes = Closes(view[t], k),
                                  !.opens = Opens(view[t], k)]]
            /\ Goto(c, "readTask")
            /\ UNCHANGED unmarks
    /\ UNCHANGED <<rows, stops, faults, finished>>

\* taking a completion back is a write of the page's own; the phase stays
Unmark(c) ==
    /\ pc[c] = "unmark"
    /\ \/ done' = done \ {call[c].task} /\ UNCHANGED faults
       \/ WriteLost /\ UNCHANGED done
    /\ Finishes(c)
    /\ UNCHANGED <<status, closed, percentage, unlocks, asked, paid, view,
                   clicks, stops, finished>>

-----------------------------------------------------------------------------
(* complete_task *)

\* the page's part after the answer, if the page is still there
PageGoesOn(c, k) == Goto(c, IF k.tab # 0 /\ k.closes THEN "closePhase" ELSE "idle")

\* an error answer: the page shows what it showed before the click, and goes
\* on as if the task were complete
Refuse(c) ==
    LET k == call[c]
    IN  /\ PageGoesOn(c, k)
        /\ call' = [call EXCEPT ![c] = IF k.tab # 0 /\ k.closes THEN k ELSE NoCall]
        /\ view' = IF k.tab = 0 THEN view ELSE [view EXCEPT ![k.tab] = k.before]

ReadTask(c) ==
    /\ pc[c] = "readTask"
    /\ IF call[c].task \in done
       THEN Refuse(c)
       ELSE Goto(c, "mark") /\ UNCHANGED <<view, call>>
    /\ UNCHANGED <<rows, counters, finished>>

Mark(c) ==
    /\ pc[c] = "mark"
    /\ \/ /\ done' = done \cup {call[c].task}
          /\ finished' = finished \cup {p \in Phases : TasksOf(p) \subseteq done'}
          /\ UNCHANGED faults
       \/ WriteLost /\ UNCHANGED <<done, finished>>
    /\ Goto(c, "earn")
    /\ UNCHANGED <<status, closed, percentage, unlocks, asked, paid, view, call,
                   clicks, stops>>

\* seeded fault: billing does not look whether the task is complete
EarnUnasked(c) ==
    /\ pc[c] = "earn"
    /\ Goto(c, "award")
    /\ UNCHANGED <<rows, view, call, counters, finished>>

\* billing-manager's earn: refuses the task if it is complete
Earn(c) ==
    /\ pc[c] = "earn"
    /\ Goto(c, IF call[c].task \in done THEN "readPhases" ELSE "award")
    /\ UNCHANGED <<rows, view, call, counters, finished>>

Award(c) ==
    /\ pc[c] = "award"
    /\ paid' = [paid EXCEPT ![call[c].task] = @ + 1]
    /\ Goto(c, "readPhases")
    /\ UNCHANGED <<done, status, closed, percentage, unlocks, asked, view, call,
                   counters, finished>>

\* seeded fault: the loop does not stop before the last phase
LoopGoesOnToLast(snap, p) ==
    p <= PhaseCount /\ snap[p] \in {"active", "completed"}

\* checkAndAutoUnlockPhase: its loop ends before the last phase, or at the
\* first phase that was neither active nor completed in the one read of all
LoopGoesOn(snap, p) == p < PhaseCount /\ snap[p] \in {"active", "completed"}

LoopAt(c, snap, p) == Goto(c, IF LoopGoesOn(snap, p) THEN "readTasks" ELSE "count")

ReadPhases(c) ==
    /\ pc[c] = "readPhases"
    /\ call' = [call EXCEPT ![c] = [@ EXCEPT !.snap = status, !.phase = 1]]
    /\ LoopAt(c, status, 1)
    /\ UNCHANGED <<rows, view, counters, finished>>

\* seeded fault: a phase the loop passes is completed unasked
ReadTasksUnasked(c) ==
    /\ pc[c] = "readTasks"
    /\ IF call[c].snap[call[c].phase] # "completed"
       THEN Goto(c, "complete") /\ UNCHANGED call
       ELSE /\ call' = [call EXCEPT ![c].phase = @ + 1]
            /\ LoopAt(c, call[c].snap, call[c].phase + 1)
    /\ UNCHANGED <<rows, view, counters, finished>>

\* seeded fault: the loop does not advance past a completed phase
ReadTasksAgain(c) ==
    /\ pc[c] = "readTasks"
    /\ LET p == call[c].phase
       IN  IF TasksOf(p) \subseteq done /\ call[c].snap[p] # "completed"
           THEN Goto(c, "complete") /\ UNCHANGED call
           ELSE LoopAt(c, call[c].snap, p) /\ UNCHANGED call
    /\ UNCHANGED <<rows, view, counters, finished>>

ReadTasks(c) ==
    /\ pc[c] = "readTasks"
    /\ LET p == call[c].phase
       IN  IF TasksOf(p) \subseteq done /\ call[c].snap[p] # "completed"
           THEN Goto(c, "complete") /\ UNCHANGED call
           ELSE /\ call' = [call EXCEPT ![c].phase = p + 1]
                /\ LoopAt(c, call[c].snap, p + 1)
    /\ UNCHANGED <<rows, view, counters, finished>>

\* seeded fault: the next phase is left to the page
CompletePhaseOnly(c) ==
    /\ pc[c] = "complete"
    /\ status' = [status EXCEPT ![call[c].phase] = "completed"]
    /\ call' = [call EXCEPT ![c].phase = @ + 1]
    /\ LoopAt(c, call[c].snap, call[c].phase + 1)
    /\ UNCHANGED <<done, closed, percentage, unlocks, asked, paid, view, clicks,
                   faults, stops, finished>>

CompletePhase(c) ==
    /\ pc[c] = "complete"
    /\ LET p == call[c].phase
       IN  /\ \/ status' = [status EXCEPT ![p] = "completed"] /\ UNCHANGED faults
              \/ WriteLost /\ UNCHANGED status
           /\ IF call[c].snap[p + 1] = "locked"
              THEN Goto(c, "unlockNext") /\ UNCHANGED call
              ELSE /\ call' = [call EXCEPT ![c].phase = p + 1]
                   /\ LoopAt(c, call[c].snap, p + 1)
    /\ UNCHANGED <<done, closed, percentage, unlocks, asked, paid, view, clicks,
                   stops, finished>>

\* seeded fault: having opened a phase the loop reads all phases again
UnlockNextRereads(c) ==
    /\ pc[c] = "unlockNext"
    /\ status' = [status EXCEPT ![call[c].phase + 1] = "active"]
    /\ Goto(c, "readPhases")
    /\ UNCHANGED <<done, closed, percentage, unlocks, asked, paid, view, call,
                   counters, finished>>

UnlockNext(c) ==
    /\ pc[c] = "unlockNext"
    /\ LET p == call[c].phase + 1
       IN  /\ \/ status' = [status EXCEPT ![p] = "active"] /\ UNCHANGED faults
              \/ WriteLost /\ UNCHANGED status
           /\ call' = [call EXCEPT ![c].phase = p]
           /\ LoopAt(c, call[c].snap, p)
    /\ UNCHANGED <<done, closed, percentage, unlocks, asked, paid, view, clicks,
                   stops, finished>>

\* checkEarlyUnlockEligibility only shapes the answer, which the page ignores
CountDone(c) ==
    /\ pc[c] = "count"
    /\ call' = [call EXCEPT ![c].count = Cardinality(done)]
    /\ Goto(c, "percent")
    /\ UNCHANGED <<rows, view, counters, finished>>

Answer(c) ==
    /\ pc[c] = "percent"
    /\ \/ percentage' = Percent(call[c].count) /\ UNCHANGED faults
       \/ WriteLost /\ UNCHANGED percentage
    /\ PageGoesOn(c, call[c])
    /\ call' = [call EXCEPT ![c] = IF @.tab # 0 /\ @.closes THEN @ ELSE NoCall]
    /\ UNCHANGED <<done, status, closed, unlocks, asked, paid, view, clicks,
                   stops, finished>>

-----------------------------------------------------------------------------
(* Roadmap.tsx: the rest of handleTaskToggle, and its refreshes *)

ClosePhase(c) ==
    /\ pc[c] = "closePhase"
    /\ \/ closed' = closed \cup {call[c].task[1]} /\ UNCHANGED faults
       \/ WriteLost /\ UNCHANGED closed
    /\ IF call[c].opens # 0
       THEN Goto(c, "openNext") /\ UNCHANGED call
       ELSE Finishes(c)
    /\ UNCHANGED <<done, status, percentage, unlocks, asked, paid, view, clicks,
                   stops, finished>>

OpenNext(c) ==
    /\ pc[c] = "openNext"
    /\ \/ status' = [status EXCEPT ![call[c].opens] = "active"] /\ UNCHANGED faults
       \/ WriteLost /\ UNCHANGED status
    /\ Finishes(c)
    /\ UNCHANGED <<done, closed, percentage, unlocks, asked, paid, view, clicks,
                   stops, finished>>

\* the timer after a toggle, or the page mounted again
Refetch(t) ==
    /\ view[t] # Fetched
    /\ view' = [view EXCEPT ![t] = Fetched]
    /\ UNCHANGED <<rows, pc, call, counters, finished>>

PageLabels == {"closePhase", "openNext"}

\* The tab is closed, and a new one opened later: what it had not sent is
\* lost, what it had sent runs on without it.
CloseTab(t) ==
    /\ closings < MaxClosings
    /\ closings' = closings + 1
    /\ \E c \in Calls : call[c].tab = t
    /\ call' = [c \in Calls |->
                   IF call[c].tab # t THEN call[c]
                   ELSE IF pc[c] \in PageLabels THEN NoCall
                        ELSE [call[c] EXCEPT !.tab = 0]]
    /\ pc' = [c \in Calls |-> IF call[c].tab = t /\ pc[c] \in PageLabels
                              THEN "idle" ELSE pc[c]]
    /\ view' = [view EXCEPT ![t] = Fetched]
    /\ UNCHANGED <<rows, clicks, deaths, faults, finished>>

-----------------------------------------------------------------------------
(* request_early_unlock *)

\* a request that is not eligible reads and changes nothing else
AskUnlock(c) ==
    /\ pc[c] = "idle"
    /\ asked < MaxUnlocks
    /\ Eligible
    /\ Goto(c, "findLocked")
    /\ UNCHANGED <<rows, view, call, counters, finished>>

FirstLocked(p) ==
    status[p] = "locked" /\ \A q \in 1..(p - 1) : status[q] # "locked"

FindLocked(c) ==
    /\ pc[c] = "findLocked"
    /\ \/ /\ \A p \in Phases : status[p] # "locked"
          /\ Finishes(c)
       \/ \E p \in Phases :
             /\ FirstLocked(p)
             /\ call' = [call EXCEPT ![c].phase = p]
             /\ Goto(c, "insertUnlock")
    /\ UNCHANGED <<rows, view, counters, finished>>

InsertUnlock(c) ==
    /\ pc[c] = "insertUnlock"
    /\ \/ /\ asked < MaxUnlocks
          /\ asked' = asked + 1
          /\ unlocks' = [unlocks EXCEPT ![asked + 1] =
                            [phase |-> call[c].phase, pending |-> TRUE]]
          /\ UNCHANGED faults
       \/ WriteLost /\ UNCHANGED <<asked, unlocks>>
    /\ Finishes(c)
    /\ UNCHANGED <<done, status, closed, percentage, paid, view, clicks, stops,
                   finished>>

(* approve_early_unlock *)

Approve(c, r) ==
    /\ pc[c] = "idle"
    /\ unlocks[r].pending
    /\ call' = [call EXCEPT ![c] = [@ EXCEPT !.unlock = r,
                                             !.phase = unlocks[r].phase]]
    /\ Goto(c, "override")
    /\ UNCHANGED <<rows, view, counters, finished>>

Override(c) ==
    /\ pc[c] = "override"
    /\ \/ /\ status' = [status EXCEPT ![call[c].phase] = "override_unlocked"]
          /\ UNCHANGED faults
       \/ WriteLost /\ UNCHANGED status
    /\ Goto(c, "approved")
    /\ UNCHANGED <<done, closed, percentage, unlocks, asked, paid, view, call,
                   clicks, stops, finished>>

MarkApproved(c) ==
    /\ pc[c] = "approved"
    /\ \/ /\ unlocks' = [unlocks EXCEPT ![call[c].unlock].pending = FALSE]
          /\ UNCHANGED faults
       \/ WriteLost /\ UNCHANGED unlocks
    /\ Finishes(c)
    /\ UNCHANGED <<done, status, closed, percentage, asked, paid, view, clicks,
                   stops, finished>>

-----------------------------------------------------------------------------
\* The function is killed, or its request to billing throws: the page gets an
\* error; the early unlock's caller has nothing to do with it.
FunctionLabels == {"readTask", "mark", "earn", "award", "readPhases", "readTasks",
                   "complete", "unlockNext", "count", "percent", "findLocked",
                   "insertUnlock", "override", "approved"}

Dies(c) ==
    /\ pc[c] \in FunctionLabels
    /\ deaths < MaxDeaths
    /\ deaths' = deaths + 1
    /\ Refuse(c)
    /\ UNCHANGED <<rows, clicks, closings, faults, finished>>

Step(c) ==
    \/ Unmark(c) \/ ReadTask(c) \/ Mark(c) \/ Earn(c) \/ Award(c)
    \/ ReadPhases(c) \/ ReadTasks(c) \/ CompletePhase(c) \/ UnlockNext(c)
    \/ CountDone(c) \/ Answer(c) \/ ClosePhase(c) \/ OpenNext(c)
    \/ FindLocked(c) \/ InsertUnlock(c) \/ Override(c) \/ MarkApproved(c)

Next ==
    \/ \E c \in Calls : \/ Step(c)
                        \/ \E t \in Tabs, k \in Tasks : Click(c, t, k)
                        \/ AskUnlock(c)
                        \/ \E r \in UnlockIds : Approve(c, r)
                        \/ Dies(c)
    \/ \E t \in Tabs : Refetch(t) \/ CloseTab(t)

Spec == Init /\ [][Next]_vars

(* A call that has started is run to its end. *)
FairSpec == Spec /\ \A c \in Calls : WF_vars(Step(c))

-----------------------------------------------------------------------------
Labels == {"idle", "unmark"} \cup FunctionLabels \cup PageLabels

View == [status : [Phases -> Statuses], done : SUBSET Tasks]
Counts == 0..Cardinality(Tasks)
Call == [tab : 0..TabCount, task : Tasks \cup {<<0, 0>>}, closes : BOOLEAN,
         opens : 0..PhaseCount, before : View, phase : 0..PhaseCount,
         snap : [Phases -> Statuses], count : Counts, unlock : 0..MaxUnlocks]

TypeOK ==
    /\ done \subseteq Tasks
    /\ status \in [Phases -> Statuses]
    /\ closed \subseteq Phases
    /\ percentage \in 0..100      \* the CHECK of the column never refuses it
    /\ unlocks \in [UnlockIds -> [phase : 0..PhaseCount, pending : BOOLEAN]]
    /\ asked \in 0..MaxUnlocks
    /\ paid \in [Tasks -> Nat]
    /\ view \in [Tabs -> View]
    /\ pc \in [Calls -> Labels]
    /\ call \in [Calls -> Call]
    /\ toggles \in Nat /\ unmarks \in Nat
    /\ deaths \in Nat /\ closings \in Nat /\ faults \in Nat
    /\ finished \subseteq Phases

(* Whoever opens phases, from whatever stale view, snapshot or request, a  *)
(* phase is never open behind a locked one (ClimbsLadder implies it).      *)
Ladder == \A p \in 1..(PhaseCount - 1) :
              status[p + 1] # "locked" => status[p] # "locked"

(* A phase is only ever marked completed by the function, and only if all  *)
(* its tasks were complete at one moment (ClimbsLadder implies it).        *)
CompletedWasDone == \A p \in Phases : status[p] = "completed" => p \in finished

(* What is paid for a task at all is paid because its completion was       *)
(* missing when billing looked: each completion taken back is missed by at *)
(* most every other call in flight, each lost write by one.                *)
PaidIfMissed ==
    \A k \in Tasks :
        paid[k] <= unmarks * (Cardinality(Calls) - 1) + faults

(* What PhaseLadder calls open: both statuses that let a phase's tasks be  *)
(* clicked.                                                                *)
Phased(s) == IF s = "override_unlocked" \/ s = "active" THEN "open" ELSE s

PL == INSTANCE PhaseLadder WITH state <- [p \in Phases |-> Phased(status[p])]

(* The phases climb the ladder of PhaseLadder, one rung at a time: each    *)
(* step of a page or function opens at most the phase behind an open one,  *)
(* completes at most one whose tasks were all complete, and locks none.    *)
ClimbsLadder == PL!LadderSpec

Quiet == \A c \in Calls : pc[c] = "idle"

(* Once every call has ended, a phase whose tasks are all complete is      *)
(* followed by one that is open.                                           *)
DoneOpensNext ==
    Quiet => \A p \in 1..(PhaseCount - 1) :
                 /\ TasksOf(p) # {} /\ TasksOf(p) \subseteq done
                 => status[p + 1] # "locked"

(* The same as progress: the tasks of an open phase stay complete only if  *)
(* the next phase opens, whichever of several completions was the last.    *)
DoneLeadsToOpen ==
    \A p \in 1..(PhaseCount - 1) :
        (TasksOf(p) # {} /\ TasksOf(p) \subseteq done)
            ~> (status[p + 1] # "locked" \/ ~(TasksOf(p) \subseteq done))

(* Every call ends. *)
CallsEnd == \A c \in Calls : (pc[c] # "idle") ~> (pc[c] = "idle")

(* Round trips a call may still make: 3 for each phase that its loop has   *)
(* not reached yet, and what its statement leaves to do besides.           *)
LoopLabels == {"readTasks", "complete", "unlockNext"}
BeforeLoop == {"readTask", "mark", "earn", "award", "readPhases"}

PhasesAhead(c) == IF pc[c] \in LoopLabels THEN PhaseCount - call[c].phase
                  ELSE IF pc[c] \in BeforeLoop THEN PhaseCount - 1 ELSE 0

\* a function that dies early still leaves the page its two writes
Left == [readTask |-> 9, mark |-> 8, earn |-> 7, award |-> 6, readPhases |-> 5,
         readTasks |-> 4, complete |-> 3, unlockNext |-> 2,
         count |-> 4, percent |-> 3, closePhase |-> 2, openNext |-> 1,
         findLocked |-> 4, insertUnlock |-> 3, override |-> 4, approved |-> 3,
         unmark |-> 1, idle |-> 0]

Remaining(c) == 3 * PhasesAhead(c) + Left[pc[c]]

(* CallsEnd as a bound, for any calls and failures: no step of a call, of  *)
(* another or of a page adds to the round trips a call may still make, and *)
(* each of its own takes one off.  A loop over n phases makes at most 3    *)
(* per phase, so that a completion makes at most 3n + 6.                   *)
CallsRunOut ==
    [][\A c \in Calls : pc[c] # "idle" =>
           /\ Remaining(c)' <= Remaining(c)
           /\ Step(c) \/ Dies(c) => Remaining(c)' < Remaining(c)]_vars

(* With one page that clicks one task at a time, and as long as nothing was *)
(* taken back, a phase that is not the first is open only because all      *)
(* tasks of the one before it were complete at one moment, or its early    *)
(* unlock was asked for.  Checked and proved where no function dies and no *)
(* write is lost: after an error answer the page goes on to open the next  *)
(* phase although the task was never marked.                               *)
OpenedByWork ==
    unmarks = 0 =>
        \A p \in 1..(PhaseCount - 1) :
            status[p + 1] # "locked" =>
                p \in finished \/ \E r \in 1..asked : unlocks[r].phase = p + 1

(* With one page that clicks one task at a time, in a roadmap where only   *)
(* the last phase may lack tasks, a completed phase is not opened again.   *)
(* (An empty phase in between is completed while a page may still show it  *)
(* locked, and an early unlock approved late overrides any phase.)         *)
CompletedStays ==
    [][\A p \in Phases : status[p] = "completed" => status'[p] = "completed"]_vars

-----------------------------------------------------------------------------
(* roadmap-generator: a complete task is one that was paid.                *)
CompleteIsPaid == Quiet => \A k \in done : paid[k] > 0
=============================================================================
