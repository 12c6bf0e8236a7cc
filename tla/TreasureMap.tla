---------------------------- MODULE TreasureMap ----------------------------
(***************************************************************************)
(* The treasure map of one user: the maps, daily tasks and reward claims   *)
(* in the database, and the browser tabs that drive roadmap-generator's    *)
(* actions get_or_create_active_map, get_or_generate_daily_task and        *)
(* complete_daily_task.  A tab waits for one request before it sends the   *)
(* next; two tabs run concurrently.  One action is one round trip to the   *)
(* database: no statement of these handlers runs in a transaction with     *)
(* another, and the result of a write is never looked at, save for the two *)
(* inserts whose row the handler returns.                                  *)
(***************************************************************************)
EXTENDS Integers, FiniteSets

CONSTANTS
    Tabs,         \* browser tabs of the user
    NodeCount,    \* TREASURE_MAP_NODE_COUNT
    MaxMaps,      \* bound: maps ever inserted
    MaxDays,      \* bound: days that pass
    MaxRequests,  \* bound: page loads and completions
    MaxDeaths,    \* bound: requests that stop half way
    MaxFaults     \* bound: writes that fail without the handler noticing

VARIABLES
    today,
    maps,      \* treasure_maps, by id
    newest,    \* how many maps were ever inserted: the last id
    claims,    \* treasure_map_reward_claims: rows per map and node
    tasks,     \* treasure_map_daily_tasks, one per day (map = 0: no row)
    pc,        \* the next statement of the tab's request
    shown,     \* the map id and the task the page holds
    day,       \* the "today" the handler computed when it started
    overdue,   \* unresolved past tasks the handler has read
    job,       \* the resolveMovement that is running
    number,    \* the highest map_number the handler has read
    requests, deaths, faults,   \* bounded counters
    unclaimed  \* history: nodes whose claim was lost in a failed insert

vars == <<today, maps, newest, claims, tasks, pc, shown, day, overdue, job,
          number, requests, deaths, faults, unclaimed>>

counters == <<requests, deaths>>
losses == <<faults, unclaimed>>
rows == <<maps, newest, claims, tasks>>

MapIds == 1..MaxMaps
Nodes == 1..NodeCount
Days == 1..MaxDays

ASSUME NodeCountType == NodeCount \in Nat \ {0}
ASSUME MapBounds == /\ MaxMaps \in Nat /\ MaxDays \in Nat \ {0}
                    /\ MaxRequests \in Nat /\ MaxDeaths \in Nat
                    /\ MaxFaults \in Nat

Largest(S) == CHOOSE n \in S : \A k \in S : n >= k

NoMap == [pos |-> 0, active |-> FALSE, completed |-> FALSE, number |-> 0]
NoTask == [map |-> 0, is_completed |-> FALSE, resolved |-> FALSE]
NoJob == [task |-> 0, wasCompleted |-> FALSE, map |-> 0, at |-> 0, to |-> 0]

ActiveMaps == {m \in 1..newest : maps[m].active}

\* seeded fault: looks for the last number among active maps only
LastActiveNumber == Largest({0} \cup {maps[m].number : m \in ActiveMaps})

\* order by map_number desc limit 1, or 0
LastNumber == Largest({0} \cup {maps[m].number : m \in 1..newest})

Goto(t, l) == pc' = [pc EXCEPT ![t] = l]

Init ==
    /\ today = 1
    /\ maps = [m \in MapIds |-> NoMap]
    /\ newest = 0
    /\ claims = [m \in MapIds |-> [n \in Nodes |-> 0]]
    /\ tasks = [d \in Days |-> NoTask]
    /\ pc = [t \in Tabs |-> "idle"]
    /\ shown = [t \in Tabs |-> [map |-> 0, task |-> 0]]
    /\ day = [t \in Tabs |-> 1]
    /\ overdue = [t \in Tabs |-> {}]
    /\ job = [t \in Tabs |-> NoJob]
    /\ number = [t \in Tabs |-> 0]
    /\ requests = 0 /\ deaths = 0 /\ faults = 0
    /\ unclaimed = {}

-----------------------------------------------------------------------------
(* computeMovement *)

AutoSpaces == 1
CompletedSpaces == {2, 3}

\* seeded fault: the token runs past the last node
UnclampedPosition(old, spaces) == old + spaces

NewPosition(old, spaces) ==
    IF old + spaces <= NodeCount THEN old + spaces ELSE NodeCount

-----------------------------------------------------------------------------
(* The page loads: get_or_create_active_map, then the daily task. *)

OpenPage(t) ==
    /\ pc[t] = "idle"
    /\ requests < MaxRequests
    /\ requests' = requests + 1
    /\ Goto(t, "findMap")
    /\ UNCHANGED <<today, rows, shown, day, overdue, job, number, deaths,
                   losses>>

FindMap(t) ==
    /\ pc[t] = "findMap"
    /\ IF ActiveMaps # {}
       THEN /\ \E m \in ActiveMaps : shown' = [shown EXCEPT ![t].map = m]
            /\ Goto(t, "findOverdue")
       ELSE /\ Goto(t, "readNumber")
            /\ UNCHANGED shown
    /\ UNCHANGED <<today, rows, day, overdue, job, number, counters, losses>>

\* both here and at the end of resolveMovement
ReadNumber(t) ==
    /\ pc[t] = "readNumber"
    /\ number' = [number EXCEPT ![t] = LastNumber]
    /\ Goto(t, "insertMap")
    /\ UNCHANGED <<today, rows, shown, day, overdue, job, counters, losses>>

\* seeded fault: no unique index on the active map
InsertedBesideActive(t) ==
    /\ newest < MaxMaps
    /\ newest' = newest + 1
    /\ maps' = [maps EXCEPT ![newest + 1] =
                   [pos |-> 0, active |-> TRUE, completed |-> FALSE,
                    number |-> number[t] + 1]]

InsertedMap(t) ==
    /\ ActiveMaps = {}               \* idx_one_active_map_per_user
    /\ newest < MaxMaps
    /\ newest' = newest + 1
    /\ maps' = [maps EXCEPT ![newest + 1] =
                   [pos |-> 0, active |-> TRUE, completed |-> FALSE,
                    number |-> number[t] + 1]]

\* seeded fault: an overdue task stays in the list that is worked through
NextJobAgain(t) ==
    IF overdue[t] = {}
    THEN /\ Goto(t, IF job[t].wasCompleted THEN "findMap" ELSE "findToday")
         /\ job' = [job EXCEPT ![t] = NoJob]
         /\ UNCHANGED overdue
    ELSE /\ job' = [job EXCEPT ![t] = [NoJob EXCEPT
                       !.task = Largest(overdue[t])]]
         /\ Goto(t, "readMap")
         /\ UNCHANGED overdue

\* where a request goes when a resolveMovement has ended: the next overdue
\* task, today's task, or (after complete_daily_task) a new page load
NextJob(t) ==
    IF overdue[t] = {}
    THEN /\ Goto(t, IF job[t].wasCompleted THEN "findMap" ELSE "findToday")
         /\ job' = [job EXCEPT ![t] = NoJob]
         /\ UNCHANGED overdue
    ELSE LET d == Largest(overdue[t])
         IN  /\ job' = [job EXCEPT ![t] = [NoJob EXCEPT !.task = d]]
             /\ overdue' = [overdue EXCEPT ![t] = @ \ {d}]
             /\ Goto(t, "readMap")

\* a page load shows the new map or an error; resolveMovement goes on
InsertMap(t) ==
    /\ pc[t] = "insertMap"
    /\ ActiveMaps = {} => newest < MaxMaps
    /\ \/ InsertedMap(t) /\ UNCHANGED faults
       \/ ActiveMaps # {} /\ UNCHANGED <<maps, newest, faults>>
       \/ faults < MaxFaults /\ faults' = faults + 1 /\ UNCHANGED <<maps, newest>>
    /\ IF job[t].task = 0
       THEN /\ IF newest' # newest
               THEN /\ shown' = [shown EXCEPT ![t].map = newest']
                    /\ Goto(t, "findOverdue")
               ELSE Goto(t, "idle") /\ UNCHANGED shown
            /\ UNCHANGED <<overdue, job>>
       ELSE NextJob(t) /\ UNCHANGED shown
    /\ number' = [number EXCEPT ![t] = 0]
    /\ UNCHANGED <<today, claims, tasks, day, counters, unclaimed>>

-----------------------------------------------------------------------------
(* get_or_generate_daily_task *)

FindOverdue(t) ==
    /\ pc[t] = "findOverdue"
    /\ day' = [day EXCEPT ![t] = today]
    /\ LET past == {d \in 1..(today - 1) : /\ tasks[d].map # 0
                                           /\ ~tasks[d].is_completed
                                           /\ ~tasks[d].resolved}
       IN  IF past = {}
           THEN Goto(t, "findToday") /\ UNCHANGED <<overdue, job>>
           ELSE LET d == Largest(past)
                IN  /\ job' = [job EXCEPT ![t] = [NoJob EXCEPT !.task = d]]
                    /\ overdue' = [overdue EXCEPT ![t] = past \ {d}]
                    /\ Goto(t, "readMap")
    /\ UNCHANGED <<today, rows, shown, number, counters, losses>>

FindToday(t) ==
    /\ pc[t] = "findToday"
    /\ IF tasks[day[t]].map # 0
       THEN /\ shown' = [shown EXCEPT ![t].task = day[t]]
            /\ Goto(t, "idle")
       ELSE Goto(t, "insertTask") /\ UNCHANGED shown
    /\ UNCHANGED <<today, rows, day, overdue, job, number, counters, losses>>

\* UNIQUE (user_id, task_date): the second of two inserts is an error
InsertTask(t) ==
    /\ pc[t] = "insertTask"
    /\ IF tasks[day[t]].map = 0
       THEN /\ tasks' = [tasks EXCEPT ![day[t]] =
                            [NoTask EXCEPT !.map = shown[t].map]]
            /\ shown' = [shown EXCEPT ![t].task = day[t]]
       ELSE UNCHANGED <<tasks, shown>>
    /\ Goto(t, "idle")
    /\ UNCHANGED <<today, maps, newest, claims, day, overdue, job, number,
                   counters, losses>>

-----------------------------------------------------------------------------
(* complete_daily_task *)

AskComplete(t) ==
    /\ pc[t] = "idle"
    /\ shown[t].task # 0
    /\ requests < MaxRequests
    /\ requests' = requests + 1
    /\ Goto(t, "readTask")
    /\ UNCHANGED <<today, rows, shown, day, overdue, job, number, deaths,
                   losses>>

ReadTask(t) ==
    /\ pc[t] = "readTask"
    /\ IF tasks[shown[t].task].is_completed
       THEN Goto(t, "idle") /\ UNCHANGED job
       ELSE /\ job' = [job EXCEPT ![t] = [NoJob EXCEPT
                          !.task = shown[t].task, !.wasCompleted = TRUE]]
            /\ Goto(t, "readMap")
    /\ UNCHANGED <<today, rows, shown, day, overdue, number, counters, losses>>

-----------------------------------------------------------------------------
(* resolveMovement *)

\* seeded fault: the loop over the crossed nodes stops one short
ClaimOrMoveEarly(next, to) == IF next < to THEN "claim" ELSE "move"

\* where a movement goes once its claims from node `next` on are to be made
ClaimOrMove(next, to) == IF next <= to THEN "claim" ELSE "move"

\* seeded fault: the crossed nodes include the one the token stands on
ReadMapInclusive(t, spaces) ==
    /\ pc[t] = "readMap"
    /\ spaces \in IF job[t].wasCompleted THEN CompletedSpaces ELSE {AutoSpaces}
    /\ LET m == tasks[job[t].task].map
           old == maps[m].pos
           first == IF old = 0 THEN 1 ELSE old
       IN  /\ job' = [job EXCEPT ![t] =
                         [@ EXCEPT !.map = m, !.at = first,
                                   !.to = NewPosition(old, spaces)]]
           /\ Goto(t, ClaimOrMove(first, NewPosition(old, spaces)))
    /\ UNCHANGED <<today, rows, shown, day, overdue, number, counters, losses>>

ReadMap(t, spaces) ==
    /\ pc[t] = "readMap"
    /\ spaces \in IF job[t].wasCompleted THEN CompletedSpaces ELSE {AutoSpaces}
    /\ LET m == tasks[job[t].task].map
           old == maps[m].pos
       IN  /\ job' = [job EXCEPT ![t] =
                         [@ EXCEPT !.map = m, !.at = old + 1,
                                   !.to = NewPosition(old, spaces)]]
           /\ Goto(t, ClaimOrMove(old + 1, NewPosition(old, spaces)))
    /\ UNCHANGED <<today, rows, shown, day, overdue, number, counters, losses>>

\* applyReward: the claim's row, then the effects of the reward
ClaimNode(t) ==
    /\ pc[t] = "claim"
    /\ \/ /\ claims' = [claims EXCEPT ![job[t].map][job[t].at] = @ + 1]
          /\ UNCHANGED losses
       \/ /\ faults < MaxFaults
          /\ faults' = faults + 1
          /\ unclaimed' = unclaimed \cup {<<job[t].map, job[t].at>>}
          /\ UNCHANGED claims
    /\ job' = [job EXCEPT ![t].at = @ + 1]
    /\ Goto(t, ClaimOrMove(job[t].at + 1, job[t].to))
    /\ UNCHANGED <<today, maps, newest, tasks, shown, day, overdue, number,
                   counters>>

\* seeded fault: the update is not refused beside another active map
MoveTokenBeside(t) ==
    /\ pc[t] = "move"
    /\ LET done == job[t].to >= NodeCount
       IN  maps' = [maps EXCEPT ![job[t].map].pos = job[t].to,
                                ![job[t].map].active = ~done,
                                ![job[t].map].completed = done]
    /\ Goto(t, "resolve")
    /\ UNCHANGED <<today, newest, claims, tasks, shown, day, overdue, job,
                   number, counters, losses>>

\* the index refuses to make a map active beside another active one
MoveToken(t) ==
    /\ pc[t] = "move"
    /\ LET done == job[t].to >= NodeCount
           refused == ~done /\ ActiveMaps \ {job[t].map} # {}
       IN  \/ /\ IF refused THEN UNCHANGED maps
                 ELSE maps' = [maps EXCEPT ![job[t].map].pos = job[t].to,
                                           ![job[t].map].active = ~done,
                                           ![job[t].map].completed = done]
              /\ UNCHANGED faults
           \/ faults < MaxFaults /\ faults' = faults + 1 /\ UNCHANGED maps
    /\ Goto(t, "resolve")
    /\ UNCHANGED <<today, newest, claims, tasks, shown, day, overdue, job,
                   number, counters, unclaimed>>

\* seeded fault: no next map after the last node
ResolveTaskOnly(t) ==
    /\ pc[t] = "resolve"
    /\ tasks' = [tasks EXCEPT
                    ![job[t].task].is_completed = job[t].wasCompleted,
                    ![job[t].task].resolved = TRUE]
    /\ NextJob(t)
    /\ UNCHANGED <<today, maps, newest, claims, shown, day, number, counters,
                   losses>>

ResolveTask(t) ==
    /\ pc[t] = "resolve"
    /\ \/ /\ tasks' = [tasks EXCEPT
                          ![job[t].task].is_completed = job[t].wasCompleted,
                          ![job[t].task].resolved = TRUE]
          /\ UNCHANGED faults
       \/ faults < MaxFaults /\ faults' = faults + 1 /\ UNCHANGED tasks
    /\ IF job[t].to >= NodeCount
       THEN Goto(t, "readNumber") /\ UNCHANGED <<overdue, job>>
       ELSE NextJob(t)
    /\ UNCHANGED <<today, maps, newest, claims, shown, day, number, counters,
                   unclaimed>>

-----------------------------------------------------------------------------
(* The function is killed or a call to another one throws: the rest of the *)
(* request is not run, and the page keeps what it showed.                  *)
Dies(t) ==
    /\ pc[t] # "idle"
    /\ deaths < MaxDeaths
    /\ deaths' = deaths + 1
    /\ Goto(t, "idle")
    /\ overdue' = [overdue EXCEPT ![t] = {}]
    /\ job' = [job EXCEPT ![t] = NoJob]
    /\ number' = [number EXCEPT ![t] = 0]
    /\ UNCHANGED <<today, rows, shown, day, requests, losses>>

Midnight ==
    /\ today < MaxDays
    /\ today' = today + 1
    /\ UNCHANGED <<rows, pc, shown, day, overdue, job, number, counters,
                   losses>>

Request(t) ==
    \/ FindMap(t) \/ ReadNumber(t) \/ InsertMap(t) \/ FindOverdue(t)
    \/ FindToday(t) \/ InsertTask(t) \/ ReadTask(t)
    \/ (\E s \in CompletedSpaces \cup {AutoSpaces} : ReadMap(t, s))
    \/ ClaimNode(t) \/ MoveToken(t) \/ ResolveTask(t)

Next ==
    \/ \E t \in Tabs : Request(t) \/ OpenPage(t) \/ AskComplete(t) \/ Dies(t)
    \/ Midnight

Spec == Init /\ [][Next]_vars

(* The function runs a request it has started to its end. *)
FairSpec == Spec /\ \A t \in Tabs : WF_vars(Request(t))

-----------------------------------------------------------------------------
LabelSet == {"idle", "findMap", "readNumber", "insertMap", "findOverdue",
             "findToday", "insertTask", "readTask", "readMap", "claim",
             "move", "resolve"}

Map == [pos : 0..NodeCount, active : BOOLEAN, completed : BOOLEAN,
        number : 0..MaxMaps]
Task == [map : 0..MaxMaps, is_completed : BOOLEAN, resolved : BOOLEAN]
Job == [task : 0..MaxDays, wasCompleted : BOOLEAN, map : 0..MaxMaps,
        at : 0..(NodeCount + 1), to : 0..NodeCount]

TypeOK ==
    /\ today \in Days
    /\ maps \in [MapIds -> Map]
    /\ newest \in 0..MaxMaps
    /\ claims \in [MapIds -> [Nodes -> Nat]]
    /\ tasks \in [Days -> Task]
    /\ pc \in [Tabs -> LabelSet]
    /\ shown \in [Tabs -> [map : 0..MaxMaps, task : 0..MaxDays]]
    /\ day \in [Tabs -> Days]
    /\ overdue \in [Tabs -> SUBSET Days]
    /\ job \in [Tabs -> Job]
    /\ number \in [Tabs -> 0..MaxMaps]
    /\ requests \in Nat /\ deaths \in Nat /\ faults \in Nat
    /\ unclaimed \subseteq MapIds \X Nodes

(* The token never passes a node without its reward: wherever requests     *)
(* overlap, repeat, die or fail, every node up to the token's position has *)
(* been claimed, unless the very insert of its claim was the failed write. *)
CrossedAreClaimed ==
    \A m \in 1..newest :
        \A n \in 1..maps[m].pos :
            claims[m][n] > 0 \/ <<m, n>> \in unclaimed

(* A user never has two active maps, whoever deactivates, re-activates or  *)
(* inserts one in between.                                                 *)
OneActiveMap == \A m, k \in ActiveMaps : m = k

(* Nodes whose reward was claimed, or whose claim was lost.                *)
SettledNodes == {k \in MapIds \X Nodes : claims[k[1]][k[2]] > 0} \cup unclaimed

TW == INSTANCE TreasureWalk WITH
          token <- [m \in MapIds |-> maps[m].pos],
          laid <- newest,
          settled <- SettledNodes

(* The three handlers keep the promise of TreasureWalk, step by step: a    *)
(* map is inserted only when none is unfinished, and the token moves only  *)
(* over settled nodes and, short of the last, on the only unfinished map.  *)
WalksTreasure == TW!WalkSpec

(* A reward is claimed once, and between two requests exactly the nodes    *)
(* the token has crossed are claimed.  True only while requests take turns.*)
ClaimedExactly ==
    \A m \in 1..newest, n \in Nodes :
        /\ claims[m][n] <= 1
        /\ (\A t \in Tabs : pc[t] = "idle") =>
               (claims[m][n] = 1 <=> n <= maps[m].pos)

(* Maps are numbered in order, and every map but the newest has been       *)
(* walked to its end and stays closed.  True only while requests take turns.*)
MapsInOrder ==
    \A m \in 1..newest :
        /\ maps[m].number = m
        /\ m < newest => /\ maps[m].completed /\ ~maps[m].active
                         /\ maps[m].pos = NodeCount

Alone == \A t, u \in Tabs : pc[t] # "idle" /\ pc[u] # "idle" => t = u
OneAtATime == []Alone

(* As long as no two requests overlap, whatever outdated view a tab acts   *)
(* on: claims and position agree after each request (resolveMovement).     *)
AloneClaimsExactly == OneAtATime => []ClaimedExactly

(* As long as no two requests overlap, a map is opened only when the one   *)
(* before has been walked to its end, and never re-opened.                 *)
AloneMapsInOrder == OneAtATime => []MapsInOrder

(* A user whose map has ended gets another without asking, as long as      *)
(* requests run to their end.                                              *)
MapReturns == (newest > 0 /\ ActiveMaps = {}) ~> (ActiveMaps # {})

(* A request that is about to insert a map, or to write the end of one.    *)
BringsMap(t) == \/ pc[t] = "resolve" /\ job[t].to >= NodeCount
                \/ pc[t] \in {"readNumber", "insertMap"}

(* The state in which a map has to return: as long as nothing dies and no  *)
(* write fails, a user whose maps have all ended has a request under way   *)
(* that will insert the next, whichever of the overlapping requests ended  *)
(* the last map and whatever the others read meanwhile.                    *)
EndedIsReplaced ==
    newest > 0 /\ ActiveMaps = {} /\ deaths = 0 /\ faults = 0 =>
        \E t \in Tabs : BringsMap(t)

(* Round trips a request may still make, by what it has yet to resolve.    *)
PerMovement == NodeCount + 5
PageLoad == MaxDays * PerMovement + 6

AfterJob(t) ==
    PerMovement * Cardinality(overdue[t])
        + IF job[t].wasCompleted THEN PageLoad ELSE 2

Remaining(t) ==
    CASE pc[t] = "idle" -> 0
      [] pc[t] = "insertTask" -> 1
      [] pc[t] = "findToday" -> 2
      [] pc[t] = "findOverdue" -> PageLoad - 3
      [] pc[t] = "insertMap" -> IF job[t].task = 0 THEN PageLoad - 2 ELSE AfterJob(t) + 1
      [] pc[t] = "readNumber" -> IF job[t].task = 0 THEN PageLoad - 1 ELSE AfterJob(t) + 2
      [] pc[t] = "findMap" -> PageLoad
      [] pc[t] = "resolve" -> AfterJob(t) + 3
      [] pc[t] = "move" -> AfterJob(t) + 4
      [] pc[t] = "claim" -> AfterJob(t) + 5 + job[t].to - job[t].at
      [] pc[t] = "readMap" -> AfterJob(t) + PerMovement
      [] pc[t] = "readTask" ->
             PerMovement * (Cardinality(overdue[t]) + 1) + PageLoad + 1

(* RequestEnds as a bound, for requests that die and writes that fail too: *)
(* no step of a request, of another tab or of the clock adds to the round  *)
(* trips it may still make, and each of its own takes one off.  A movement *)
(* makes at most one per node and 5 more, a page load one movement per     *)
(* past day and 6 more, a completion one movement before a page load.      *)
RequestsRunOut ==
    [][\A t \in Tabs : pc[t] # "idle" =>
           /\ Remaining(t)' <= Remaining(t)
           /\ Request(t) \/ Dies(t) => Remaining(t)' < Remaining(t)]_vars

(* Every request ends, however many overdue tasks it has to resolve.       *)
RequestEnds == \A t \in Tabs : (pc[t] # "idle") ~> (pc[t] = "idle")
=============================================================================
