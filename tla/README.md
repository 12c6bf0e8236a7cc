# Opus Devia: TLA+ models of the back end

Opus Devia is a mentoring application.  A React page talks to a handful of
Supabase Edge Functions (Deno/TypeScript, `supabase/functions`), and these keep
all their state in Postgres tables defined by `supabase/migrations`.  There is
no process that lives longer than a request: whatever is hard about the system
happens between two requests that read and write the same rows.  Almost no
handler opens a transaction, almost every write is fire-and-forget (supabase-js
returns an error instead of throwing, and most handlers do not look at it), and
any request can stop half way.  The models below therefore cut every handler
into its database round trips and let them interleave.

Paths are relative to the repository root; `S` is
`supabase/migrations/20260530190000_opus_devia_initial_schema.sql`.

## 1. Inventory

| Part | State | Operations | What is hard | What makes it correct | Status |
|---|---|---|---|---|---|
| XP row and RPCs (`S`, `20260911120000_grind_economy.sql`) | `user_xp`: three pools, `reserved_xp`, monthly counter, cap, lock | `reserve_xp`, `release_xp_reservation`, `deduct_xp`, `credit_xp`, `award_grind_xp`, monthly rollover, idempotency log | constraints as the last line of defence; a retry key looked at after the change | constraints hold; each statement moves exactly its amount | `UserXP`, except `deduct_xp` and the log |
| billing-manager | none of its own | `preflight`, `finalize`, `cancel`, `earn`, cycle reset, eligibility, image and voice quotas | read, think, blind write; ignored errors; resets that race | reservations are conserved, held XP is backed, caps hold | `Billing`, except the media quotas |
| model-router | none | authenticate, gate, preflight, model call or stream, finalize/cancel, memory append; uploads, links | client leaves the stream; finalize lost | settles every reservation once | its billing protocol, in `Billing` |
| roadmap-generator, phases and tasks | `tasks`, `roadmap_phases`, `early_unlock_requests`, completion percentage | complete_task, phase completion and unlock, request and approve an early unlock; the page's own writes | page and function both finish phases, from stale views; several tabs; a function that stops half way; completing before paying | phases open in order and for work done; a finished phase opens the next; a task is paid once | `RoadmapTasks` |
| roadmap-generator, lifecycle | `roadmaps`, modifications | generate, request and confirm a modification, delete; `create_roadmap` and `delete_roadmap` of the schema | count, ask models, then insert; two ways to delete; writes without a transaction | one active roadmap; limits exceeded by overlap only; an applied modification is applied whole and counted | `RoadmapLifecycle` |
| roadmap-generator, treasure map | `treasure_maps`, `treasure_map_daily_tasks`, `treasure_map_reward_claims` | get or create map, get or generate daily task, complete task, movement | two tabs, dying requests, overdue tasks, stale position writes | crossed nodes are claimed; one active map; a map follows a map | `TreasureMap` |
| context-engine | `memory_live_window`, summaries, cached analysis | append, summarise, get context, wrap up | appends nobody waits for; summaries and wrap-ups that overlap or stop | messages in order; nothing leaves the window unkept; a summary keeps what the last one knew | `LiveWindow`, except what a prompt shows |
| governance | constant tables, columns of `sessions` | routing, tier gates, shelf, proposals | - | - | not modelled: tables, or without a caller |
| storage trigger (`S`) | `user_storage` | BEFORE trigger | concurrent inserts, updates counted twice | usage within the tier's limit | not modelled: no deployed writer |
| performance triggers (`S` 735-855) | `user_performance`, community metrics | AFTER triggers; those of `tasks` fire on every completed task | a trigger that fires itself | metrics follow the counters | not modelled: formulas inside one transaction, read by nothing that is modelled |
| RPCs for roadmaps and onboarding (`S`) | same tables | create, delete, propose, respond | beside the functions that write the same rows | see the lifecycle | create and delete, in `RoadmapLifecycle` |
| React frontend | page state | calls the functions above | several tabs | - | only the protocols of the treasure map page and of the roadmap page |
| ai-health, model-secrets | environment | probe | - | - | not modelled: no state |
| scripts, tests | - | deployment; unit tests of `logic.ts` | - | - | not modelled; the tests were read as documentation |
| `trypear-pearai-app-781356a`, mock-ups, PDFs | - | - | - | - | vendored or static: not this program |

How the parts interact: the page calls model-router and roadmap-generator over
HTTP; both call billing-manager over HTTP (preflight before a paid model call,
finalize or cancel after it, earn for a completed task or a claimed reward), and
model-router calls context-engine after a mentor message.  All of them share
the user's rows; nothing else is shared, and no call holds a lock across a round
trip.  Inside the database, `SELECT ... FOR UPDATE` makes each RPC atomic.

The hazards of the code, with their lines, are listed in `PROJECT.json`.

## 2. Modules

| Module | Models | Role |
|---|---|---|
| `UserXP` | the row `user_xp`, its CHECK constraints, and the SQL that updates it | operators on a row: `CanReserve`/`ReserveXp`, `CanRelease`/`ReleaseXp`, `Spend`, `CreditXp`, `AwardGrindXp`, `ResetGrind`, `RollOver` |
| `XPHolds` | what the XP economy promises | abstract specification: XP set aside for a call stays covered by the balance until the call lets go |
| `Billing` | billing-manager as its callers use it, with the other writers of the row | state machine; implements `XPHolds` |
| `MCBilling` | - | instances of `Billing` |
| `TreasureWalk` | what the treasure map promises | abstract specification: maps one after the other, the token over settled nodes only |
| `TreasureMap` | the three map actions of roadmap-generator and the page that calls them | state machine; implements `TreasureWalk` |
| `MCTreasureMap` | - | instances of `TreasureMap` |
| `PhaseLadder` | what a roadmap promises about its phases | abstract specification: phases open one behind the other, are completed only when done, and never locked again |
| `RoadmapTasks` | complete_task, the early unlock and the page that toggles tasks | state machine; implements `PhaseLadder` |
| `MCRoadmapTasks` | - | instances of `RoadmapTasks` |
| `LiveWindow` | the memory of a session: model-router's append, context-engine's append_message, get_context, wrap_up | state machine |
| `MCLiveWindow` | - | instances of `LiveWindow` |
| `OneRoadmap` | what making, replacing and deleting roadmaps promises | abstract specification: one roadmap at a time, a new one asked for where no delay runs and taken up when the last was left, no way back |
| `RoadmapLifecycle` | the roadmaps of a user: generate, modify, delete, by function and by RPC | state machine; implements `OneRoadmap` |
| `MCRoadmapLifecycle` | - | an instance of `RoadmapLifecycle` |
| `XPHoldsProofs`, `UserXPProofs`, `BillingProofs`, `TreasureMapProofs`, `RoadmapTasksProofs`, `RoadmapUnlockProofs`, `LiveWindowProofs`, `RoadmapLifecycleProofs` | - | theorems |

### Billing

One user, a set `Charges` of paid calls and a set `Earns` of earn calls.  `xp` is
the row; `pc[r]` says which statement call `r` runs next; `held[c]` is the
`reservedAmount` that call `c` owns; `seen[c]` is the pools `deductFromPools` has
read; `jobSeen` is the earned pool the rollover job's cursor has read.

| Code | Actions |
|---|---|
| `checkAndResetCycleIfNeeded` (billing-manager 132-169) | `CheckCycle` reads the date, `ResetCycle` writes blindly |
| `preflight` (295-351) | `ReadBalance`, `Reserve` |
| the model call in model-router (1364-1520) and roadmap-generator | `ModelAnswers`, `ModelFails` |
| `finalize` (356-384) | `FinalizeRelease`, then `deductFromPools`: `ReadPools`, `WritePools` |
| `cancel` (389-403) | `Cancel` |
| `earn` (557-631) | `Award` (one RPC), `RefuseEarn` for its early returns |
| `credit_xp`, `process_monthly_xp_rollover` | `Credit`, `JobReads`, `JobWrites` |
| the release of both, whose error is ignored (359-362, 390-393) | `Released`: done, refused by the RPC, or failed unseen |
| a client that leaves, a lost request, a killed function; a `reserve_xp` whose answer is lost | `Dies`, from any statement |

A release that fails for any reason leaves the XP reserved, and finalize goes on
to charge, cancel to answer; neither tries again.  `MaxFaults` bounds how often
this happens, `astray` names the calls it happened to.  `check_grind_eligibility` changes state only through the cycle reset, so to the
row it is an earn call that is refused.  `ReturnsAmount` is the set of charges whose caller
sends `reservedAmount` back with finalize: model-router's, not
roadmap-generator's (whose finalize body, 1604-1612, lacks it).  The rows of
`xp_transactions` are never read back and are left out.  `due`, `clobbered`,
`cycleAwards`, `resets` and `astray` are history variables: no action reads
them, but for the bound on `astray`.

### TreasureMap

One user, a set `Tabs` of browser tabs.  A tab has at most one request running:
the page awaits each call (`TreasureMap.tsx` 139-199).  `maps`, `tasks` and
`claims` are the three tables; `shown` is what the page displays (and sends);
`job` is the `resolveMovement` in progress, with the position it will write;
`overdue` is the list of unresolved tasks the handler has read.

| Code (roadmap-generator) | Actions |
|---|---|
| `fetchState` of the page | `OpenPage` |
| `get_or_create_active_map` (1028-1066) | `FindMap`, `ReadNumber`, `InsertMap` |
| `get_or_generate_daily_task` (1072-1177) | `FindOverdue`, the loop `NextJob`, `FindToday`, `InsertTask` |
| `complete_daily_task` (1183-1208) | `AskComplete`, `ReadTask` |
| `resolveMovement` (161-228) with `computeMovement` and `applyReward` | `ReadMap`, `ClaimNode` per node, `MoveToken`, `ResolveTask`, then `ReadNumber` and `InsertMap` for the next map |
| an exception or a killed function; a write that fails unseen | `Dies`; the fault alternatives of `ClaimNode`, `MoveToken`, `ResolveTask`, `InsertMap` |

In `TreasureWalk` a map is `laid` out by `InsertMap`, a node is `settled` by
`ClaimNode`, whether its claim was inserted or lost, and the `token` is the
stored position: `MoveToken` is its `Walk`, everything else stutters.  The token
may walk backwards, since of two overlapping movements the shorter may write
last; what the abstract map still promises then is that it stands on settled
nodes and that no other map was begun meanwhile.

The unique index on active maps and `UNIQUE (user_id, task_date)` are guards of
the inserts and of `MoveToken`.  What a reward is worth is left out: its XP
request is always refused by earn (no difficulty is sent), the multiplier and
the credits it writes are read by no code.  Reads are assumed not to fail; a
failed read of the active map would end in the refused insert that is modelled.

### RoadmapTasks

One active roadmap, its phases 1, 2, ... with a number of tasks each (possibly
none: the inserts are not checked), a set of open pages and a set `Calls` of
toggles and unlocks in flight.  `done` is `tasks.is_completed`; a phase has two
columns that the code writes independently, `status` (written by function and
page) and `is_completed`, here `closed` (written by the page alone).  `view` is
what a page holds, `call` what a toggle took from it at the click: whether its
phase will be closed and which one opened.

| Code | Actions |
|---|---|
| `handleTaskToggle` (Roadmap.tsx 390-572): click and optimistic update; taking back; closing and opening | `Click`, `Unmark`, `ClosePhase`, `OpenNext` |
| `fetchRoadmap` by its timers or on mount | `Refetch` |
| `complete_task` (1821-1907) | `ReadTask`, `Mark`, the two steps of billing's earn `Earn` and `Award`, `checkAndAutoUnlockPhase` (below), `CountDone`, `Answer` |
| `checkAndAutoUnlockPhase` (929-973) | `ReadPhases`, then per phase `ReadTasks`, `CompletePhase`, `UnlockNext` |
| `request_early_unlock`, `approve_early_unlock` (1915-2013) | `AskUnlock`, `FindLocked`, `InsertUnlock`; `Approve`, `Override`, `MarkApproved` |
| an error answer: the page restores its view and still goes on | `Refuse`, in `ReadTask` and `Dies` |
| a function killed or a fetch that throws; a tab closed | `Dies`, `CloseTab` |
| a write that fails unseen | the `WriteLost` alternative of each write |

In `PhaseLadder` a phase that is active or overridden is `open`.  The mapping
forgets who writes: the loop of the function, the page's `OpenNext` and a
mentor's `Override` are all an `Open` of the phase behind an open one, a
`Reopen` of a completed one, or a stutter; every step that adds to `finished` is its
`Work`.

`Refetch` may come at any time, which stands for the timers of 0.8 to 2.8
seconds after each toggle and for mounting the page.  Its reads and the moment it
lands are one step: the page takes no click while it loads, so an answer that
lands late shows what one that landed at its read would show.  Where several
fetches overlap, the first to land ends the loading and a later one may land
after a click with what it read before; that case is left out.  Reads are assumed
to succeed.  `finished` is a history variable.  A phase whose own insert failed
does not exist: with a gap, page (`phase_order + 1`) and function (next in the
list) disagree on the next phase; only roadmaps without a gap are modelled.

Left out: what an award is worth and its cap (modelled in `Billing`), who may
approve, the in-progress status a task may have, and the writes of a confirmed
modification, which change titles and difficulties but neither status nor
completion (`RoadmapLifecycle` has them).  `roadmap_phases.status`, which the
code reads and writes throughout, is taken from the code: no migration creates
it.

### LiveWindow

One mentor session.  `window` is `memory_live_window`; a message is named after
its exchange, its role and its `message_order`, its text is left out.  A summary
or archive is the set of messages it was made from: `summary` and `archived`
stand for the two rows that `UNIQUE (session_id)` allows.  `seen`, `known`,
`index` and `key` are the locals of the calls.

| Code | Actions |
|---|---|
| model-router after an answer (1397-1424 streaming, 1549-1576 not) | `ReadIndex` |
| `append_message` (context-engine 420-443) | `AppendUser`, `AppendAssistant` |
| `get_context` (363-415): the reads of `Promise.all`, in either order | `ReadWindow`, `ReadSummary` |
| `triggerSummarization` (118-185) | `Summarise`, `LookUp`, `WriteSummary` |
| `wrapUpSession` (242-319) | `ReadSession`, `ReadOldSummary`, `Extract`, `WriteKey` per key, `InsertArchive`, `EndSession`, `EmptyWindow` |
| a model call that throws, a killed function | `Dies` |
| a read or write whose error nobody sees | the `Lost` alternative of each |

A failed read has found nothing: an index starts at 0 again, a wrap-up sees an
empty window.  Two messages may share an index; `Tails` and `Heads` then allow
any order between them, as the database does.  An exchange whose page has gone
is one that dies.  The other reads of `get_context` (persistent memory, events,
cached analysis) feed the prompt only and are left out.  `digested`, `stored`,
`overtaken`, `unsaved`, `earlier` and `outdated` are history variables.  A
summary's `token_count` is an INTEGER and the code inserts a length divided by 4
(178), so three of four such inserts are refused: to the model each is a statement
that fails unseen, of which a run has one.  The sessions row is taken as given: the code updates `sessions` and never inserts
into it.  The repository's page does not yet call `get_context` or `wrap_up`;
they are modelled as the function offers them.

### RoadmapLifecycle

One user, with a tier that is free or paid, and the calls that make, replace,
modify and delete roadmaps.  A roadmap is named after the call that makes it;
`born` is the billing cycle of its `created_at`, `locked` the roadmaps whose
`reconfiguration_eligible_at` lies ahead.

| Code | Actions |
|---|---|
| `generate` (roadmap-generator 1214-1557) | `ReadUser`, `ReadCycle`, `CountRoadmaps`, `Compute`, `ArchiveOld`, `InsertNew` and `FinishInsert`, `FinishGenerate` |
| `enforce_roadmap_reconfiguration_delay` (`S` 591-620) | `PassTrigger`, the first half of every insert |
| `idx_roadmaps_one_active_per_user` (`S` 186-188) | `InsertRow`, the second half |
| `create_roadmap`, `delete_roadmap` of the schema (`S` 1268-1320) | `CreateRoadmap` and `FinishCreate`, `DropRoadmap` |
| `delete_roadmap` of roadmap-generator (2149-2171) | `DeleteRoadmap`, `FinishDelete` |
| `request_modification` (2021-2068) | `ReadCounter`, `FileRequest` |
| `confirm_modification` (2075-2142) | `ReadRequest`, `ApplyUpdate` per update, `MarkApplied`, `Increment` |
| the cycle reset of billing-manager; thirty days pass | `NextCycle`, `DelayEnds` |
| a killed function; a statement that fails unseen | `Dies`; the `Lost` alternatives |

An insert is two steps because the database takes two.  The BEFORE INSERT
trigger looks for a running delay without taking a lock; the unique index is
checked afterwards, and waits for a transaction that is about to take the
active row out of it.  A `delete_roadmap` that commits in between is not seen by
the trigger and makes room in the index, so a roadmap can become active while
its delay runs.  `slipped` names the roadmaps whose insert stood between the
two when a delay began.

`Compute` stands for eligibility, preflight and the models, any of which may
refuse; what preflight reserves is in `Billing`.  `FinishGenerate` is the write
of the user's row; the inserts of phases, tasks and memory before it
change nothing that this module looks at (`RoadmapTasks` starts from them).  As with
`roadmap_phases.status`, `modification_requests`, `free_modifications_used`,
`free_roadmap_used` and the RPC `increment_modifications` are in no migration;
the model takes them as the code uses them.  `slipped`, `dropped`, `lost`,
`cleared` and `before` are history variables.  `dropped` says that the user's
active roadmap was deleted, or one became active during a delay, and that since
then none has been inserted outside a delay or outlived one.

In `OneRoadmap` the roadmap followed is the active row, those asked for are the
inserts between trigger and index, and a delay runs while `locked` is not
empty.  The trigger's half of an insert is its `Ask`, the index's half its `TakeUp` or
`Refuse` (a call that dies there is a `Refuse` too), `ArchiveOld` and the
deletes are its `Leave`, `DelayEnds` and the deletion of a locked roadmap its
`DelayPasses`; everything else stutters.

## 3. Runs

| Run | Instance | Shows |
|---|---|---|
| `billing_charges` | two charges (2 and 1 XP), one withholding its amount, 2 XP and a top-up of 1, one rollover at 50 %, one release that fails, weak fairness; 256,119 states | type invariant, `ReservationLedger`, `ReservationHasOwner`, `UndisturbedBalance`, refinement `KeepsPromise`, `ReservationReturned` |
| `billing_earn` | two earns of 2 under a cap of 3, one charge, two cycles | `GrindLockExact`, `CycleAwardsBounded` |
| `map_tabs` | two interchangeable tabs, three days, maps of 3 nodes, one death, one lost write | `TypeOK`, `CrossedAreClaimed`, `OneActiveMap`, `EndedIsReplaced`, `RequestsRunOut`, refinement `WalksTreasure` |
| `map_live` | two tabs, weak fairness, no deaths or faults | `MapReturns`, `RequestEnds`; where no two requests overlap, `AloneClaimsExactly`, `AloneMapsInOrder` |
| `tasks_onepage` | one page, one click at a time, phases of 2, 5 and 0 tasks, an early unlock, a completion taken back | `OpenedByWork`, `CompletedStays` |
| `tasks_failures` | two overlapping calls, phases of 1, 1 and 0 tasks, an early unlock; a death, a closed tab, a lost write, a completion taken back | `PaidIfMissed`, `CallsRunOut`, refinement `ClimbsLadder` (which implies `Ladder` and `CompletedWasDone`) |
| `tasks_live` | two overlapping toggles, a completion taken back, weak fairness, no failures | `TypeOK`, `DoneOpensNext`, `CallsEnd`, `DoneLeadsToOpen` |
| `window_session` | two exchanges, two get_contexts, two wrap-ups, any two at a time, one memory key, one statement that fails unseen | `TypeOK`, `MessagesInOrder`, `SummaryHandedOn` |
| `window_wrapups` | two exchanges, one get_context, two wrap-ups, two memory keys, one death, weak fairness | `EmptiedWasKept`, `WrapUpEmpties`, `WrapUpGoesOn` |
| `lifecycle` | three generates, one create, one delete of each kind, one request with two confirms; up to five of them, two at a time, two cycles, one death or lost statement; 3,510,013 states | `TypeOK`, `OvershootBounded`, `FreeOnce`, `LockedHasNone`, `KeepsOneActive`, `AppliedAndCounted`, refinement `FollowsOne` |
| `billing_generator` | violation | roadmap-generator's finalize leaves its reservation in place |
| `tasks_unpaid` | violation | a completed task is not paid |

Deadlock is not checked: every instance is bounded and stops when its calls,
requests and days are used up.

Why the bounds are enough.  The errors of `deductFromPools` need one writer
between its read and its write; those of finalize need one competing preflight;
those of the reset need two calls and a cycle end.  Two charges, two earns, one
job run and two cycles contain each of these.  The balance of 2, or 3
after the top-up, with estimates 2 and 1 lets both calls in, or only one, depending
on the order; one failed release, before a charge or at a cancel, leaves a
reservation that every later call has to live with; a cap of 3 with rewards of 2 makes the second award be clipped to 1 and lock the
row.  In the map instances, moves of 1, 2 or 3 spaces on 3 nodes finish a
map in one to three moves; four maps and two tabs suffice to finish a map twice, to
re-activate a finished map by a stale write, to claim a grand reward twice and to give
two maps one number: each of these states was confirmed to be reached in `map_tabs`,
so the invariants hold in spite of them.  The real map has 15 nodes; the proofs do not depend
on the number.

Three days let a request find two overdue tasks, so that the loop over them
goes round (`RequestsRunOut`).

For the tasks, two overlapping toggles contain each lost update: two last tasks
marked at once, a snapshot older than another call's write, a view older than
either.  Three phases are needed for a snapshot to skip one.  A generated
roadmap has three phases of five tasks; fewer appear when inserts failed, which
nobody checks.  Phases of one and two tasks tell "the last task" from "a
task", and the empty phase is the one `every()` holds of.
One failure of each kind meets in `tasks_failures`, at any moments.
`OpenedByWork` and `CompletedStays` are stated for one page that clicks one
task at a time: an overlapping toggle acts on optimistic marks, and two
pages on each other's stale views.  `CompletedStays` also needs tasks in every
phase but the last, and an early unlock that cannot come after its phase was
completed; in `tasks_onepage` it cannot, because the phase that is still
locked when an early unlock may be asked for is the last one, which the loop
never completes.

For the live window, `WindowSize` 1 and `Threshold` 2 stand for the code's 6 and
10: what matters is that a summary leaves some messages out and that the window
reaches the threshold by ordinary exchanges, which two messages do.  Two memory
keys let a wrap-up stop between them; the code writes ten.  Every hazard of the
window is a race of two calls, and with two at a time (`MaxOpen`) a third can
still follow either of them.  For the lifecycle, a paid limit of 1 (the code's
are 2, 3 and 5) and one free modification (the code's are 3) make the limit the
matter of one earlier call; five calls (`MaxCalls`) are enough for a roadmap,
its deletion between the two halves of another's insert and a generate that
follows, or for a request and its two
confirms beside a generate.  `MaxFailures` counts deaths and lost statements
together, so that either may strike anywhere.

Symmetry is used only in runs of invariants and step properties, never of liveness: for the two tabs of `map_tabs`, the two
calls of `tasks_failures`, and the calls of each kind in `window_session` and
`lifecycle`.

Fairness.  `FairSpec` of `Billing` assumes that a charge that has been sent goes
on (weak fairness of its next statement; it may still die, and whether the model
answers or fails is not decided by fairness).  `FairSpec` of `TreasureMap`
assumes the same of a tab's request, that of `RoadmapTasks` of a toggle or
unlock that has started, and `tasks_live` has no deaths, closings or faults.
`FairSpec` of `LiveWindow` assumes it of a wrap-up that has started;
`window_wrapups` has a death, which `WrapUpEmpties` excuses for the wrap-up it
strikes.
This is what the runtime does with a
function it has not killed.  Nothing is assumed of users, of the clock, of
credits or of the rollover job.

Not kept as runs, but reachable in the models, and worth knowing when the code
is changed:

* A delete_roadmap between the trigger and the index of an insert lets a roadmap
  become active although its delay runs.  The next generate archives that one
  and is then refused by the trigger: the user has no active roadmap, and cannot
  have one until the delay is over.
* A release that fails, for whatever reason, is not tried again: its XP stays
  reserved behind a call that was charged or cancelled.
* A dead call's reservation stays for ever, although `20260606160000` announces
  an expiry after 15 minutes.
* Between finalize's release and its deduction another preflight can take the
  XP, so a call that cost no more than its estimate goes unpaid.
* Two calls that enter a new cycle together both reset it: the cap is paid
  once per reset (`CycleAwardsBounded` counts them).
* Of two overlapping map movements the shorter may write last and leave the
  token behind nodes whose rewards are claimed.
* A task whose completion is taken back between the mark and earn's check is
  paid, and each time again: complete_task marks the task, the page's taking
  back writes `is_completed = false`, earn sees an incomplete task and pays it,
  and the next click starts over.  `PaidIfMissed` says how far this goes: each
  completion taken back is missed by at most every other call in flight.
* A page that refreshes itself while a completion is being taken back shows the
  task complete again and opens the next phase at the next toggle.
* After an error answer the page restores its view and goes on with the
  optimistic one (Roadmap.tsx 462-468, then 499-537): it can open the next phase
  for a task that was never marked.  `OpenedByWork` is stated without deaths.
* A function that dies after its mark leaves a finished phase in front of a
  locked one if a refresh had made the page forget an earlier task:
  `DoneOpensNext` holds only without deaths, and no later call repairs it.
* An early unlock approved late overrides a phase that has opened, or was
  completed, meanwhile; the page then hides its tasks.
* A phase between two others that got no tasks is completed by the loop that
  finishes the one before it.  The page that asked for this still shows the empty
  phase locked, and sets it back to active in its own turn.
* A charge writes over an award or credit that came between its read and its
  write (`UndisturbedBalance` leaves these rows out; `clobbered` marks them).
* With phases that open in turn, eligibility for an early unlock (85 % of all
  tasks) can come when no locked phase is left: in a roadmap of three phases of
  five tasks the thirteenth completion has the last phase open already.
* Requests filed below the limit of free modifications can all be confirmed
  later, and one request confirmed twice at once counts twice.
* A generate at the end of a cycle is counted against the old one: the cycle is
  reset by billing, which generate asks only after its own check.  If the
  count fails it passes as 0.
* roadmap-generator's delete archives the roadmap that the schema's delete has
  marked deleted, and so ends its delay of thirty days; it also resets
  `free_roadmap_used` when the roadmap was an old one and another is active.
* A delete that runs beside the tail of a generate leaves a free user
  without a roadmap and with `free_roadmap_used` set.
* A generate whose insert is refused has been computed all the same, and on a
  paid tier its reservation is not cancelled (roadmap-generator 1447-1452).
* The archive of a second wrap-up is refused, its error is not looked at, and the
  window is emptied: those messages are in the memory keys but in no archive.
* A wrap-up whose read fails empties a window it has not seen, and one on an
  empty session writes the default of every memory key over what was there.
* Messages that arrive while a wrap-up runs are deleted with the rest.
* A get_context that has just made a summary shows none: `buildFinalPrompt`
  looks for `.summary` in the summary itself (context-engine 213).
* Two get_contexts that summarise at once replace each other's summary.
* Taking a completion back never resets `roadmap_phases.is_completed`, by which
  other pages pick the current phase.

## 4. Proofs

`tlapm` proves, for every set of calls or tabs and every value of the amounts
and bounds:

* `BillingProofs!TypeCorrect`, `LedgerExact`.  The inductive invariant joins
  `TypeOK`, the CHECK constraints on the row, `HolderOK` (a call holds nothing
  or its estimate, and only from its reservation on) and `ReservationLedger`.
  `HolderOK` is what lets a release be exact: without it a release could ask
  for more than the call owns.
* `BillingProofs!BillingKeepsPromise`: `Spec => H!HSpec` under the mapping
  `balance <- Total(xp)`.  A reservation maps to `Hold` because the guard of
  `reserve_xp` leaves room for it, a release or cancel to `LetGo`, every other
  change of the row to `Rebalance`, which is allowed because the constraint
  `reserved_xp <= total` refuses any write that would break the promise.
* `BillingProofs!ReservationsAreOwned`: nothing but a call that is on its way to
  release or cancel, has died, withholds the amount or had its own release fail
  holds anything, however many releases fail.  It
  follows from the ledger: as `reserved_xp` is the sum of what is held, the
  guard of `release_xp_reservation` cannot fail for a call that asks for its
  own share.
* `BillingProofs!LockMatchesCounter`, `AwardsBounded`: the second invariant
  relates the cap, the counter, the awards of the cycle and the resets that
  opened it, including calls between reading the date and writing the reset.
* `BillingProofs!BalanceExact`: while no writer has written over a row it had not
  read, what each pending writer has read is what it will find, or it will be
  counted as clobbering.
* `TreasureMapProofs!MapTypeCorrect`, `NoRewardSkipped`, `NeverTwoActive`.  The
  invariant behind the second says of every movement in progress that the
  nodes it has passed are claimed and that the rest will be before it writes
  its position; it survives other tabs because claims are only ever added.
* `TreasureMapProofs!TreasureIsWalked`: `Spec => TW!WalkSpec`.  `MoveToken` maps
  to `Walk` because of the invariant above.  That an insert finds every earlier
  map at its end needs `ActiveIsUnfinished`: a map is active exactly
  while it is short of its last node.  A stale write can take a finished map back, but then makes it active,
  which the index refuses beside another.
* `TreasureMapProofs!EndedMapIsReplaced`, the safety half of `MapReturns`: while
  nothing dies and no write fails, there is no state from which the map could
  not return, because whichever request wrote the last end has yet to insert.
* `TreasureMapProofs!RequestsRunOutHolds`, the variant behind `RequestEnds`:
  `Remaining` counts the round trips a request may still make, from the overdue tasks it
  has read and the nodes its job has to pass.  `Rests` says that a request
  between jobs holds no job, so that each overdue task is counted once.
* `TreasureMapProofs!TurnsClaimExactly`, `TurnsKeepMapsInOrder`, for requests
  that take turns, where `MaxDeaths` and `MaxFaults` are 0.  `TurnInv` says that the
  claims of a map reach exactly to its position, or to where the one request
  on its way has come, and that every map before the newest is at its end.
* `RoadmapTasksProofs!TypesHold`, `LadderHolds`, `CompletedWasDoneHolds`.  Types
  need `CallTypes`: what a call holds fits the statement it is at, in
  particular that the loop of `checkAndAutoUnlockPhase` never reaches past the last phase,
  and that the count a percentage is computed from is one of the roadmap's tasks,
  so that the CHECK on `completion_percentage` (`S` 333) never refuses it.
  For `Ladder`, every opener relies on something read earlier (a page's view, the
  snapshot of all phases, a request's phase).  Since no action ever locks a
  phase, whatever was seen open is open still: the invariant says this of
  each view, snapshot and request, so that what is opened is always next to
  something open.  For `CompletedWasDone`, a call about to complete a phase has
  seen it finished; that history is never taken back, though tasks may be.
* `RoadmapTasksProofs!PhasesClimb`: `Spec => PL!LadderSpec`, from the invariants
  behind the two before it: what is opened lies behind something open, and what
  is completed was done and is not locked.  One write changes one phase.
* `RoadmapTasksProofs!PaidIfMissedHolds`.  Earn pays a task it finds incomplete.
  The call asking has marked it, so a taking back has come since, or its
  write was lost.  `PayInv` gives every call that could still pay a credit in
  advance, and charges it to the taking back (at most one per other call) or to
  the lost write; a payment uses it up.
* `RoadmapTasksProofs!CallsRunOutHolds`, the variant behind `CallsEnd`: at most
  three round trips for each phase that the loop has ahead, and what the statement has left.
* `RoadmapUnlockProofs!PhasesAreEarned`, where one call runs at a time and
  `MaxDeaths` and `MaxFaults` are 0.  `Work` says that what any page shows as done
  is done, or is the task about to be marked; a page that decided to open the
  next phase had, with that one, the whole phase.
* `RoadmapUnlockProofs!DoneOpens`, for overlapping toggles on any pages, where
  `MaxUnlocks`, `MaxDeaths` and `MaxFaults` are 0.  A call that has marked a task and
  not yet passed phase p in its loop carries the duty to open what follows p
  (`Coming`).  It passes p for one of two reasons: p's tasks are not all
  complete, and then the call that completes them has yet to read the phases; or its
  snapshot has p completed, and then the call that completed p has opened the
  next phase or is about to (`CompletedOpens`).  Snapshots have no gaps, so
  the loop never stops short of an active phase.
* `RoadmapUnlockProofs!CompletedPhasesStay`, for one page, one call at a time,
  tasks in every phase but the last, and `MaxUnlocks` 0, but any deaths, closed tabs, lost writes
  and completions taken back.  `Shows` says that the page, and what it showed
  before the click, shows no completed phase as locked: the loop completes only
  phases with a complete task, and such a task has been clicked on the page.
* `LiveWindowProofs!TypesKept`, `OrderOfMessages`, `EmptiedAfterKept`,
  `SummariesHandOn`.  For the order, `OrderInv` says of an exchange that has read
  its index that every message of an exchange over before then, if still in the window,
  lies below that index; it survives other appends because an exchange that
  is over appends no more.  For emptying, `KeepInv` (by `WrapInv`) says of a wrap-up at each of
  its statements that what is in the window was read by it, came since
  (`overtaken`) or was missed by a failed read (`unsaved`), and which keys have been
  written from what it read: the loop has to be carried along key by key.  For the summary,
  `KnownInv`: a get_context not in `outdated` that has read the summary knows all of it.
* `LiveWindowProofs!WrapUpsGoOn`, the variant behind `WrapUpEmpties`: no other
  call adds to the statements of a wrap-up that has its facts, and it ends only
  by a delete that empties the window or fails.
* `RoadmapLifecycleProofs!TypesKept`, `LimitExceededByOverlapOnly`,
  `FreeRoadmapIsOne`, `NoActiveDuringDelay`, `OneStaysActive`, `AppliedOnceWhole`.
  The count needs cardinalities: a generate passes it only when the inserted
  roadmaps it counts are below the limit, and the generates that have passed but
  not inserted are among the open calls, so `CountInv` joins the bound on the
  open calls to the bound on the roadmaps; neither start of a cycle nor row
  lies in the future.  `FlagInv` says that a free user's roadmap is either flagged or its generate
  is still in its tail.  `DelayInv` is `LockedHasNone` with `KeepsOneActive`,
  and with `Judged`: an insert between trigger and index that no deletion has
  overtaken (`slipped`) still meets no delay, so that a row let in
  during one has slipped.  An insert is refused by the index, and then another
  roadmap is active, or by a delay, and then a roadmap was deleted and none
  inserted outside a delay since (`LockedIsDropped`).  `ModInv` relates the updates
  written to the next one of each confirm, and the applied requests to the
  counter and to the confirms about to raise it.
* `RoadmapLifecycleProofs!OneRoadmapFollowed`: `Spec => OR!ShelfSpec`.  The
  trigger's half of an insert is an `Ask`, the index's half a `TakeUp`, since
  the index lets a row in only where none is active; that its roadmap was never followed before
  needs `CreatesLate` beside the types: a create or generate that has not
  inserted has no row.
* `UserXPProofs`: facts about the row operators (`SpendIsExact`,
  `CoveredMeansAffordable`, `GuardsKeepChecks`) and the lemmas the above cite;
  `XPHoldsProofs!HoldsAreBacked` proves the promise in the abstract
  specification itself.

The assumptions are those named in the modules: the kinds of
calls are disjoint, the charges and the calls of the lifecycle are finitely many, the
window is shorter than its threshold, limits are positive, amounts are naturals (rewards and credits
positive), the map has at least one node, the roadmap at least one phase, and a
phase at most five tasks (no more are generated).  The bound of `PaidIfMissed`
counts calls, so `Calls` of `RoadmapTasks` is finite.

Theorems that need more say so in their ASSUME: the four properties that hold
only where certain things do not happen (`AloneClaimsExactly`,
`AloneMapsInOrder`, `OpenedByWork`, `DoneOpensNext`) are proved for constants
that exclude just these, and `CompletedStays` for the pages and roadmaps it is
stated about.  Every other theorem holds for all deaths, closed tabs and lost writes.

Only model-checked: the liveness properties, because fairness is out of the
prover's reach.  For most of them the part that is about steps is proved instead:
`CallsRunOut` and `RequestsRunOut` are variants from which, with weak fairness
of each call, `CallsEnd` and `RequestEnds` follow; `EndedIsReplaced` is the
state `MapReturns` starts from, `DoneOpensNext` the one `DoneLeadsToOpen` ends
in, `ReservationHasOwner` the one `ReservationReturned` starts from; and
`WrapUpGoesOn` bounds `WrapUpEmpties`.  Also only model-checked:
`CompletedStays` with an early unlock, which depends on the numbers of tasks.

## 5. Not modelled, and what is left

Modelled and proved: `UserXP`, `XPHolds`, `Billing`, `TreasureWalk`,
`TreasureMap`, `PhaseLadder`, `RoadmapTasks`, `LiveWindow`, `OneRoadmap`,
`RoadmapLifecycle`.

Not modelled, because no deployed code reaches it:

* `deduct_xp` and `log_xp_transaction` with its idempotency keys;
* the storage trigger on `user_storage` (nothing writes the table), and
  `authorize_image` and `record_voice_usage` of billing-manager;
* change proposals and `complete_onboarding` of the schema, and the proposals of
  `roadmap-modifier.ts` and the shelf, which no handler imports.

Each would be a module of its own (`XPRpc`, `StorageLimit`, `MediaQuota`) once
something calls it.  What to look at then: `log_xp_transaction` recognises a
repeated key only after the balance has changed (`S` 901); the storage trigger
sums without the concurrent row (`S` 672) and on UPDATE subtracts the old size
twice (`S` 677); `authorize_image` increments counters it read earlier
(billing-manager 497).

Not modelled, because there is no state or no order to get wrong: routing and
tier gates (fixed tables), ai-health and model-secrets, prompts, providers,
document extraction, the page beyond the protocols above, deployment scripts,
and the vendored editor, mock-ups and documents that make up most of the
repository's files.

Three hazards in `PROJECT.json` are covered in part or not at all: a function
that dies between the writes that finish a phase (roadmap-generator 955), after which
the next phase stays locked, how many
modifications beyond the free ones overlapping requests can have confirmed
(2038), and what a prompt shows after a new summary
(context-engine 213).

Worth doing next: a bound on those modifications and its proof; a composition of
`RoadmapLifecycle` with `Billing` in which the reservation of a refused generate
is followed to its end; an abstract memory that `LiveWindow` implements; the
trigger that invalidates the cached analysis.
