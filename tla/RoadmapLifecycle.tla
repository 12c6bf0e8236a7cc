-------------------------- MODULE RoadmapLifecycle --------------------------
(***************************************************************************)
(* The roadmaps of one user: how they come into being, are replaced,       *)
(* modified and deleted.  Two ways lead to each end: the function          *)
(* roadmap-generator with its service role, statement by statement, and    *)
(* the functions create_roadmap and delete_roadmap of the schema, each one *)
(* transaction.  A unique index allows one active roadmap, a trigger none  *)
(* within thirty days of a deletion, and generate counts the roadmaps of   *)
(* the billing cycle and reads a flag before it starts.                    *)
(*                                                                         *)
(* One action is one round trip, but the insert of a roadmap is two: the   *)
(* trigger looks for a deletion without taking a lock, and the index then  *)
(* waits for whoever is changing the active roadmap.  No write's error is  *)
(* looked at but that of the insert.  A roadmap is named after the call    *)
(* that makes it.                                                          *)
(***************************************************************************)
EXTENDS Integers, FiniteSets

CONSTANTS
    Generates,  \* calls of generate
    Creates,    \* calls of create_roadmap
    Deletes,    \* calls of delete_roadmap of roadmap-generator
    Drops,      \* calls of delete_roadmap of the schema
    Requests,   \* calls of request_modification
    Confirms,   \* calls of confirm_modification
    PaidLimit,  \* MAX_ROADMAPS_PER_CYCLE of the user's tier, if it is paid
    FreeMods,   \* modifications of a free roadmap
    Updates,    \* task_updates and phase_updates of a request
    MaxOpen,    \* bound: calls that run at the same time
    MaxCalls,   \* bound: calls ever started
    MaxCycles,  \* bound: billing cycles begun
    MaxFailures \* bound: functions that stop half way and statements that
                \* fail unnoticed

Calls == Generates \cup Creates \cup Deletes \cup Drops \cup Requests
         \cup Confirms
Roadmaps == Generates \cup Creates

ASSUME CallsFinite == IsFiniteSet(Calls)
ASSUME KindsDisjoint ==
    /\ Generates \cap (Creates \cup Deletes \cup Drops \cup Requests
                       \cup Confirms) = {}
    /\ Confirms \cap (Creates \cup Deletes \cup Drops \cup Requests) = {}
ASSUME LimitsType ==
    /\ PaidLimit \in Nat \ {0} /\ FreeMods \in Nat /\ Updates \in Nat
    /\ MaxOpen \in Nat \ {0} /\ MaxCalls \in Nat /\ MaxCycles \in Nat
    /\ MaxFailures \in Nat

VARIABLES
    free,        \* users.tier = 'free'
    freeUsed,    \* users.free_roadmap_used
    cycle,       \* user_xp.cycle_started_at, counted
    status,      \* roadmaps.status, "none" before the insert
    born,        \* the cycle in which roadmaps.created_at falls
    locked,      \* roadmaps with reconfiguration_eligible_at > now()
    used,        \* roadmaps.free_modifications_used
    request,     \* modification_requests.status
    written,     \* the last of a request's updates that has been written
    on, of,      \* the roadmap of a request, the request of a confirm
    pc,          \* the next statement of a call
    flag, since, \* what a generate has read of users and user_xp
    next,        \* the update a confirm writes next
    deaths, faults,  \* bounded counters
    slipped,     \* history: roadmaps the trigger let pass before a deletion
                 \* that came before the index did
    dropped,     \* history: the active roadmap was deleted; none has been
                 \* inserted outside the delay or outlived it since
    lost,        \* history: a generate was lost before its insert, none since
    cleared,     \* history: a delete has reset free_roadmap_used
    before       \* history: generates over when this one read the user

args == <<free, on, of>>
roadmaps == <<status, born, locked, slipped, dropped, lost>>
mods == <<used, request, written, next>>
reads == <<flag, since, before>>
counters == <<deaths, faults>>
vars == <<args, roadmaps, mods, reads, counters, freeUsed, cycle, cleared, pc>>

Limit == IF free THEN 1 ELSE PaidLimit
Exists(r) == status[r] # "none"
Active == {r \in Roadmaps : status[r] = "active"}

Init ==
    /\ free \in BOOLEAN
    /\ on \in [Requests -> Generates]
    /\ of \in [Confirms -> Requests]
    /\ freeUsed = FALSE /\ cycle = 0
    /\ status = [r \in Roadmaps |-> "none"]
    /\ born = [r \in Roadmaps |-> 0]
    /\ locked = {} /\ slipped = {}
    /\ used = [g \in Generates |-> 0]
    /\ request = [q \in Requests |-> "none"]
    /\ written = [q \in Requests |-> 0]
    /\ pc = [c \in Calls |-> "idle"]
    /\ flag = [g \in Generates |-> FALSE]
    /\ since = [g \in Generates |-> 0]
    /\ next = [c \in Confirms |-> 1]
    /\ deaths = 0 /\ faults = 0
    /\ dropped = FALSE /\ lost = FALSE /\ cleared = FALSE
    /\ before = [g \in Generates |-> {}]

Goto(c, l) == pc' = [pc EXCEPT ![c] = l]
Over(c) == pc[c] \in {"done", "dead"}
Open == {c \in Calls : pc[c] # "idle" /\ ~Over(c)}
Starts(c) ==
    /\ pc[c] = "idle"
    /\ Cardinality(Open) < MaxOpen
    /\ Cardinality({d \in Calls : pc[d] # "idle"}) < MaxCalls

\* a statement whose error nobody looks at
Lost == deaths + faults < MaxFailures /\ faults' = faults + 1

-----------------------------------------------------------------------------
(* generate *)

\* a user that cannot be read is not found
ReadUser(g) ==
    /\ Starts(g)
    /\ \/ /\ flag' = [flag EXCEPT ![g] = freeUsed]
          /\ Goto(g, "cycle")
          /\ UNCHANGED faults
       \/ Lost /\ Goto(g, "done") /\ UNCHANGED flag
    /\ before' = [before EXCEPT ![g] = {f \in Generates : Over(f) /\ Exists(f)}]
    /\ UNCHANGED <<args, roadmaps, mods, since, deaths, freeUsed, cycle, cleared>>

\* without a start of the cycle it counts from the year 1970
ReadCycle(g) ==
    /\ pc[g] = "cycle"
    /\ \/ since' = [since EXCEPT ![g] = cycle] /\ UNCHANGED faults
       \/ Lost /\ UNCHANGED since
    /\ Goto(g, "count")
    /\ UNCHANGED <<args, roadmaps, mods, flag, before, deaths, freeUsed, cycle,
                   cleared>>

RoadmapsSince(n) == {r \in Roadmaps : Exists(r) /\ born[r] >= n}

\* seeded fault: the limit itself is still allowed
WithinOrAt(g) ==
    /\ Cardinality(RoadmapsSince(since[g])) <= Limit
    /\ ~(free /\ flag[g])

\* roadmapsThisCycle < planLimit, and the free roadmap is not used
Within(g) ==
    /\ Cardinality(RoadmapsSince(since[g])) < Limit
    /\ ~(free /\ flag[g])

\* a count that fails is 0
CountRoadmaps(g) ==
    /\ pc[g] = "count"
    /\ \/ Goto(g, IF Within(g) THEN "compute" ELSE "done") /\ UNCHANGED faults
       \/ Lost /\ Goto(g, IF free /\ flag[g] THEN "done" ELSE "compute")
    /\ UNCHANGED <<args, roadmaps, mods, reads, deaths, freeUsed, cycle, cleared>>

\* seeded fault: the old roadmap is archived before the models are asked
ArchiveAndCompute(g) ==
    /\ pc[g] = "compute"
    /\ status' = [r \in Roadmaps |-> IF r \in Active THEN "archived" ELSE status[r]]
    /\ Goto(g, "insert") \/ Goto(g, "done")
    /\ UNCHANGED <<args, born, locked, slipped, dropped, lost, mods, reads,
                   counters, freeUsed, cycle, cleared>>

\* eligibility, preflight and the models: any of them may refuse
Compute(g) ==
    /\ pc[g] = "compute"
    /\ Goto(g, "archive") \/ Goto(g, "done")
    /\ UNCHANGED <<args, roadmaps, mods, reads, counters, freeUsed, cycle, cleared>>

ArchiveOld(g) ==
    /\ pc[g] = "archive"
    /\ \/ /\ status' = [r \in Roadmaps |->
                           IF r \in Active THEN "archived" ELSE status[r]]
          /\ UNCHANGED faults
       \/ Lost /\ UNCHANGED status
    /\ Goto(g, "insert")
    /\ UNCHANGED <<args, born, locked, slipped, dropped, lost, mods, reads,
                   deaths, freeUsed, cycle, cleared>>

\* seeded fault: the trigger looks for the delay of an active roadmap
NoActiveDelayed == locked \cap Active = {}

\* what the trigger finds
NoDelay == locked = {}

(* The insert of r as far as its trigger.  created_at is the time at which *)
(* the insert began.                                                       *)
PassTrigger(r) ==
    /\ NoDelay
    /\ born' = [born EXCEPT ![r] = cycle]
    /\ Goto(r, "index")
    /\ UNCHANGED <<status, locked, slipped, dropped, lost>>

\* the unique index lets r in, whatever was deleted since the trigger
InsertRow(r) ==
    /\ Active = {}
    /\ status' = [status EXCEPT ![r] = "active"]
    /\ dropped' = (locked # {}) /\ lost' = FALSE
    /\ UNCHANGED <<born, locked, slipped>>

InsertNew(g) ==
    /\ pc[g] = "insert"
    /\ \/ PassTrigger(g)
       \/ ~NoDelay /\ Goto(g, "done") /\ UNCHANGED roadmaps
    /\ UNCHANGED <<args, mods, reads, counters, freeUsed, cycle, cleared>>

\* a statement that fails, fails here
FinishInsert(g) ==
    /\ pc[g] = "index"
    /\ \/ InsertRow(g) /\ Goto(g, "tail") /\ UNCHANGED faults
       \/ Active # {} /\ Goto(g, "done") /\ UNCHANGED <<roadmaps, faults>>
       \/ /\ Lost
          /\ Goto(g, "done")
          /\ lost' = TRUE
          /\ UNCHANGED <<status, born, locked, slipped, dropped>>
    /\ UNCHANGED <<args, mods, reads, deaths, freeUsed, cycle, cleared>>

\* seeded fault: the flag read is written back on the free tier too
FlagRead(g) == flag[g]

FlagAfter(g) == IF free THEN TRUE ELSE flag[g]

\* the phases, the tasks and the memory first, then the flag
FinishGenerate(g) ==
    /\ pc[g] = "tail"
    /\ \/ freeUsed' = FlagAfter(g) /\ UNCHANGED faults
       \/ Lost /\ UNCHANGED freeUsed
    /\ Goto(g, "done")
    /\ UNCHANGED <<args, roadmaps, mods, reads, deaths, cycle, cleared>>

-----------------------------------------------------------------------------
(* create_roadmap and the two delete_roadmap *)

(* An onboarding that is complete is one of the inputs; a call refused by  *)
(* the trigger changes nothing.                                            *)
CreateRoadmap(c) ==
    /\ Starts(c)
    /\ PassTrigger(c)
    /\ UNCHANGED <<args, mods, reads, counters, freeUsed, cycle, cleared>>

FinishCreate(c) ==
    /\ pc[c] = "index"
    /\ \/ InsertRow(c)
       \/ Active # {} /\ UNCHANGED roadmaps
    /\ Goto(c, "done")
    /\ UNCHANGED <<args, mods, reads, counters, freeUsed, cycle, cleared>>

DropRoadmap(d) ==
    /\ Starts(d)
    /\ \E r \in Active :
          /\ status' = [status EXCEPT ![r] = "deleted"]
          /\ locked' = locked \cup {r}
    /\ dropped' = TRUE
    /\ slipped' = slipped \cup {r \in Roadmaps : pc[r] = "index"}
    /\ Goto(d, "done")
    /\ UNCHANGED <<args, born, lost, mods, reads, counters, freeUsed, cycle,
                   cleared>>

\* whatever its status was; an archived roadmap has no delay
DeleteRoadmap(d) ==
    /\ Starts(d)
    /\ \E r \in Roadmaps :
          /\ Exists(r)
          /\ \/ /\ status' = [status EXCEPT ![r] = "archived"]
                /\ locked' = locked \ {r}
                /\ dropped' = (dropped \/ r \in Active)
                /\ UNCHANGED faults
             \/ Lost /\ UNCHANGED <<status, locked, dropped>>
    /\ Goto(d, "unflag")
    /\ UNCHANGED <<args, born, slipped, lost, mods, reads, deaths, freeUsed,
                   cycle, cleared>>

FinishDelete(d) ==
    /\ pc[d] = "unflag"
    /\ \/ freeUsed' = FALSE /\ cleared' = TRUE /\ UNCHANGED faults
       \/ Lost /\ UNCHANGED <<freeUsed, cleared>>
    /\ Goto(d, "done")
    /\ UNCHANGED <<args, roadmaps, mods, reads, deaths, cycle>>

-----------------------------------------------------------------------------
(* request_modification and confirm_modification *)

ReadCounter(q) ==
    /\ Starts(q)
    /\ Exists(on[q])
    /\ \/ /\ Goto(q, IF free /\ used[on[q]] >= FreeMods THEN "done" ELSE "file")
          /\ UNCHANGED faults
       \/ Lost /\ Goto(q, "done")
    /\ UNCHANGED <<args, roadmaps, mods, reads, deaths, freeUsed, cycle, cleared>>

FileRequest(q) ==
    /\ pc[q] = "file"
    /\ \/ request' = [request EXCEPT ![q] = "pending"] /\ UNCHANGED faults
       \/ Lost /\ UNCHANGED request
    /\ Goto(q, "done")
    /\ UNCHANGED <<args, roadmaps, used, written, next, reads, deaths, freeUsed,
                   cycle, cleared>>

ReadRequest(c) ==
    /\ Starts(c)
    /\ \/ /\ Goto(c, IF request[of[c]] = "pending" THEN "apply" ELSE "done")
          /\ UNCHANGED faults
       \/ Lost /\ Goto(c, "done")
    /\ UNCHANGED <<args, roadmaps, mods, reads, deaths, freeUsed, cycle, cleared>>

\* seeded fault: one update too many
ApplyPastEnd(c) ==
    /\ pc[c] = "apply"
    /\ next[c] <= Updates + 1
    /\ written' = [written EXCEPT ![of[c]] = next[c]]
    /\ next' = [next EXCEPT ![c] = @ + 1]
    /\ UNCHANGED <<args, roadmaps, used, request, reads, counters, freeUsed,
                   cycle, cleared, pc>>

\* the updates one by one, in their order
ApplyUpdate(c) ==
    /\ pc[c] = "apply"
    /\ next[c] <= Updates
    /\ \/ /\ written' = [written EXCEPT ![of[c]] = 
                         IF @ < next[c] THEN next[c] ELSE @]
          /\ UNCHANGED faults
       \/ Lost /\ UNCHANGED written
    /\ next' = [next EXCEPT ![c] = @ + 1]
    /\ UNCHANGED <<args, roadmaps, used, request, reads, deaths, freeUsed, cycle,
                   cleared, pc>>

\* seeded fault: the request is marked before its updates are written
MarkFirst(c) ==
    /\ pc[c] = "apply"
    /\ request' = [request EXCEPT ![of[c]] = "applied"]
    /\ Goto(c, "increment")
    /\ UNCHANGED <<args, roadmaps, used, written, next, reads, counters, freeUsed,
                   cycle, cleared>>

MarkApplied(c) ==
    /\ pc[c] = "apply"
    /\ next[c] > Updates
    /\ \/ request' = [request EXCEPT ![of[c]] = "applied"] /\ UNCHANGED faults
       \/ Lost /\ UNCHANGED request
    /\ Goto(c, "increment")
    /\ UNCHANGED <<args, roadmaps, used, written, next, reads, deaths, freeUsed,
                   cycle, cleared>>

\* increment_modifications, which no migration defines
Increment(c) ==
    /\ pc[c] = "increment"
    /\ \/ used' = [used EXCEPT ![on[of[c]]] = @ + 1] /\ UNCHANGED faults
       \/ Lost /\ UNCHANGED used
    /\ Goto(c, "done")
    /\ UNCHANGED <<args, roadmaps, request, written, next, reads, deaths,
                   freeUsed, cycle, cleared>>

-----------------------------------------------------------------------------
\* billing-manager begins the next cycle on any of its calls
NextCycle ==
    /\ cycle < MaxCycles
    /\ cycle' = cycle + 1
    /\ UNCHANGED <<args, roadmaps, mods, reads, counters, freeUsed, cleared, pc>>

\* the thirty days of a deletion pass
DelayEnds ==
    /\ locked # {}
    /\ locked' = {}
    /\ dropped' = (dropped /\ Active = {})
    /\ UNCHANGED <<args, status, born, slipped, lost, mods, reads, counters,
                   freeUsed, cycle, cleared, pc>>

\* the function is killed, or a model call throws
Dies(c) ==
    /\ c \in Open
    /\ deaths + faults < MaxFailures
    /\ deaths' = deaths + 1
    /\ lost' = (lost \/ (c \in Generates /\ pc[c] \in {"insert", "index"}))
    /\ Goto(c, "dead")
    /\ UNCHANGED <<args, status, born, locked, slipped, dropped, mods, reads,
                   faults, freeUsed, cycle, cleared>>

Generate(g) == ReadUser(g) \/ ReadCycle(g) \/ CountRoadmaps(g) \/ Compute(g)
               \/ ArchiveOld(g) \/ InsertNew(g) \/ FinishInsert(g)
               \/ FinishGenerate(g)
Request(q) == ReadCounter(q) \/ FileRequest(q)
Confirm(c) == ReadRequest(c) \/ ApplyUpdate(c) \/ MarkApplied(c) \/ Increment(c)

Next ==
    \/ \E g \in Generates : Generate(g)
    \/ \E c \in Creates : CreateRoadmap(c) \/ FinishCreate(c)
    \/ \E d \in Drops : DropRoadmap(d)
    \/ \E d \in Deletes : DeleteRoadmap(d) \/ FinishDelete(d)
    \/ \E q \in Requests : Request(q)
    \/ \E c \in Confirms : Confirm(c)
    \/ \E c \in Calls : Dies(c)
    \/ NextCycle
    \/ DelayEnds

Spec == Init /\ [][Next]_vars

-----------------------------------------------------------------------------
Labels == {"idle", "cycle", "count", "compute", "archive", "insert", "index",
           "tail", "unflag", "file", "apply", "increment", "done", "dead"}

TypeOK ==
    /\ free \in BOOLEAN /\ freeUsed \in BOOLEAN /\ cycle \in Nat
    /\ on \in [Requests -> Generates]
    /\ of \in [Confirms -> Requests]
    /\ status \in [Roadmaps -> {"none", "active", "archived", "deleted"}]
    /\ born \in [Roadmaps -> Nat]
    /\ locked \subseteq Roadmaps /\ slipped \subseteq Roadmaps
    /\ used \in [Generates -> Nat]
    /\ request \in [Requests -> {"none", "pending", "applied"}]
    /\ written \in [Requests -> 0..Updates]
    /\ pc \in [Calls -> Labels]
    /\ flag \in [Generates -> BOOLEAN]
    /\ since \in [Generates -> Nat]
    /\ next \in [Confirms -> 1..(Updates + 1)]
    /\ deaths \in Nat /\ faults \in Nat
    /\ dropped \in BOOLEAN /\ lost \in BOOLEAN /\ cleared \in BOOLEAN
    /\ before \in [Generates -> SUBSET Generates]

\* generates that the count has let pass, with those of this cycle
Taken == {g \in Generates :
             \/ pc[g] \in {"compute", "archive", "insert", "index"}
             \/ Exists(g) /\ born[g] = cycle}

(* generate counts the roadmaps of the cycle long before it inserts its    *)
(* own.  Calls that overlap can all pass the count, but the limit is       *)
(* exceeded by no more than the calls that run at the same time.           *)
OvershootBounded ==
    Cardinality(Taken) <= Limit - 1 + MaxOpen + faults

(* free_roadmap_used is read first and written last.  A free user gets a   *)
(* second roadmap, in whatever cycle, only from a generate that overlapped *)
(* the first, unless a delete reset the flag or a generate was cut short.  *)
FreeOnce ==
    free /\ ~cleared /\ deaths = 0 /\ faults = 0 =>
        \A g \in Generates : Exists(g) => before[g] = {}

(* While the delay of a deletion runs the user has no active roadmap: the  *)
(* index, the trigger and the two ways to delete never let one in or leave *)
(* one behind, but for a roadmap that the trigger had let pass before the  *)
(* deletion and the index after it.                                        *)
LockedHasNone == locked # {} => Active \subseteq slipped

(* The followed roadmap of OneRoadmap is the active row; one is asked for  *)
(* by the trigger and taken up by the index.                               *)
OR == INSTANCE OneRoadmap WITH
          Plans <- Roadmaps,
          current <- Active,
          begun <- {r \in Roadmaps : Exists(r)},
          asked <- {r \in Roadmaps : pc[r] = "index"},
          delayed <- locked # {}

(* Function, transactions, index and trigger together keep the promise of  *)
(* OneRoadmap, step by step: one active roadmap at a time, a new one only  *)
(* where none is active and its insert began when no delay ran, and no way *)
(* back for an old one.                                                    *)
FollowsOne == OR!ShelfSpec

(* generate archives the old roadmap before the database has accepted the  *)
(* new one.  A user who had a roadmap is left without an active one only   *)
(* between these two statements, if the generate died or failed there, or  *)
(* on account of a deletion: when the roadmap was deleted, or when the one *)
(* that slipped past its delay was archived for another that the delay     *)
(* kept out.  Never because an insert was refused for another one.         *)
KeepsOneActive ==
    Active = {} /\ (\E r \in Roadmaps : Exists(r)) =>
        \/ dropped \/ lost
        \/ \E g \in Generates : pc[g] \in {"insert", "index"}

(* confirm_modification marks a request after its updates: one that counts *)
(* as applied is applied as a whole, however many confirms of it overlap,  *)
(* and is counted, once at least, against the free modifications.          *)
Applied(g) == {q \in Requests : on[q] = g /\ request[q] = "applied"}
Counting(g) == {c \in Confirms : on[of[c]] = g /\ pc[c] = "increment"}
AppliedAndCounted ==
    /\ faults = 0 => \A q \in Requests :
                        request[q] = "applied" => written[q] = Updates
    /\ \A g \in Generates :
          Cardinality(Applied(g))
              <= used[g] + Cardinality(Counting(g)) + deaths + faults
=============================================================================
