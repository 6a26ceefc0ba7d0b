# Kerenzikov: a TLA+ model of the daemon's queue, dispatch, catalogue and event streams

Kerenzikov (the crates are named `waku`) runs coding agents. A *daemon* owns tasks ("sessions"),
their SQLite store and the provider processes; *clients* (desktop, web, mobile) connect over
WebSockets, send requests and follow a stream of events. This directory holds TLA+ models of the
daemon's concurrent core and of how its clients follow it, TLC runs on small instances, and TLAPS
proofs for instances of any size. Paths and `path:line` references are relative to the repository root (`src/` here).

## 1. The system

| Component | Where | State | Operations | Correct when |
|---|---|---|---|---|
| Follow-up queue, queue drain | `crates/waku-core/src/daemon.rs` | a row's queue and live state, `drain_suppressed`, drain channel, runtime map | Start, Prompt, Cancel, CloseSession, SaveTaskState, RemoveQueuedMessage, HydrateSession, event thread, drain worker | an entry runs once per queueing, in order, after the turn before it; none is lost; Stop stops |
| Session rows | `crates/waku-core/src/persistence.rs` | dirty set, resident rows, database rows | save, trim, hydrate, load | a clean row is on disk |
| Provider driver | `crates/waku-core/src/driver/claude.rs` (others alongside) | command channel, `turn_active`, `parked` | prompt, interrupt, result, wake, exit | every turn is settled once, in event order |
| Request dispatcher | `crates/waku-core/src/server.rs` | runtime mailboxes, response cache, the hub's active runtime | dispatch, worker, retire, cache, supervise | a task's requests are served one at a time in order; none is left behind; a retry is answered, not executed again |
| Task catalogue | `daemon.rs`, `src/app/runtime.rs`, `src/app/sidebar.rs` | rows, tombstones, the hub's revision, each client's list | SaveTaskState, RemoveSession, SetSessionArchived, HydrateSession, sync thread | no stale projection wins, removed tasks stay removed, only commands archive |
| Event hub and connections | `server.rs` | numbering, journal, subscribers | begin/end_runtime, emit, broadcast, subscribe | order, no duplicates, no hole the journal could fill, bounded memory |
| Client, supervisor, session adapter | `crates/waku-client/src/{client,process}.rs`, `src/driver/mod.rs` | cursors, subscriptions, pre-subscription buffer, current client | run_client, subscribe, monitor_daemon, connect_remote's thread | same, across the death of a client or of the daemon |
| Transcript projection | `src/app/streaming.rs`, `packages/waku-client/src/event-reducer.ts` | turns, messages, status, pending request, stream phase | one handler per driver event | well-formed in any order of events; both reducers agree |
| Checkpoints, rewind, fork; model-fallback retry; push; terminals; attachments; Git; catalogues, usage, settings; user interfaces; updater | see `PROJECT.json` | files, caches, views | | not modelled, see section 6 |

**How they interact.** A client's request goes through a connection thread to the
dispatcher, which puts it in the session's *runtime mailbox* (Start, Prompt, Cancel,
CloseSession, RemoveSession, ...: one thread per session, in order) or starts an *independent
worker* (SaveTaskState, RemoveQueuedMessage, HydrateSession, LoadTaskState: concurrently). All of
them, each runtime's *event thread* and the one *drain worker* share the task state
under one lock, which they take and release several times per operation. A driver
sends events to its event thread, which records the live state, posts a
drain request when a turn finished, and hands the event to the hub. The hub numbers and
journals it and puts it in every subscriber's queue; connection threads write the
queues to sockets; a client's thread filters by cursor and feeds session adapters, and the
client folds what they forward into its own copy of the transcript, which it saves back as a whole row.
When the catalogue changed, the hub tells every client but the one that changed it, and each loads the list again.

**What is hard.** Event threads of an old and a new runtime of a session run
together. A client's save carries a snapshot of any age. Stop, settle and
drain race. A mailbox retires while a request is being put into it; its worker may die. Saves fail,
the daemon crashes, rows are trimmed to skeletons and hydrated again. Connections stall, die and are
replaced; numbering restarts with every runtime and with the daemon. Two reducers in two languages must compute the
same transcript from events of ten providers. `PROJECT.json` lists these as hazards, each at its line.

## 2. Modules

| Module | Models | Code |
|---|---|---|
| `FollowUpQueue` | the queue as a value: `Merges`, `Without`, `KeepsOrder` | `merge_queued_messages`, the `retain` of RemoveQueuedMessage |
| `QueueMerge` | the merge loop, one iteration a step | `merge_queued_messages` |
| `QueueDrain` | one session: row, clients, mailbox, event threads, drain worker, drivers | `daemon.rs`, `persistence.rs`, `driver/claude.rs` |
| `RequestOrder` | abstract: numbered requests are served one at a time, in order; none is skipped unless threads may die | |
| `RequestDispatcher` | dispatcher, mailboxes, workers, response cache, active runtime of one task | `server.rs`, the runtime map of `daemon.rs` |
| `TaskCatalog` | one task as the daemon and its clients list it | `daemon.rs`, `persistence.rs`, `server.rs`, `src/app/runtime.rs`, `sidebar.rs` |
| `SessionProjection` | two clients folding the same events | `src/app/streaming.rs`, `event-reducer.ts`, `model.rs` |
| `EventLog` | abstract: an adapter gets some of the events, each at most once, in order | |
| `EventStream` | hub, connection, client, supervisor, adapters | `server.rs`, `client.rs`, `process.rs`, `src/driver/mod.rs` |
| `MCQueueDrain`, `MCRequestDispatcher`, `MCTaskCatalog` | values and symmetry sets for TLC | |
| `FollowUpQueueProofs`, `QueueDrainProofs`, `QueueMergeProofs`, `RequestDispatcherProofs`, `TaskCatalogProofs`, `SessionProjectionProofs`, `EventStreamProofs` | theorems | |
| `NaturalLemmas` | the induction the proofs about sequences share | |

Definitions keep the source's names where TLA+ allows; definitions headed "Mutant"
are plausible bugs that no specification uses.

### QueueDrain

*One action is one critical section*: what happens between two acquisitions of
the task-state lock is one step, and an operation that takes the lock twice is two
actions.

- **Row.** `liveState`, `queue`, `dirty` (member of `dirty_sessions`), and `detail`, what the row has of its transcript:
  no row, a skeleton (`~detail_loaded`), a *blank* row (counts as loaded, has no transcript and no cursor) or all of it.
  `onDisk` and `stored` are the committed `session_details` row and its queue.
  `Flush` is `StateStore::save`: a dirty row with its transcript is written, a skeleton's detail row is
  left alone, the database row of a session that has not started (`~has_started`: a blank one) is deleted, dirty or not,
  and the dirty set is cleared after the commit. `ok` is the outcome; a commit that failed before may have taken the session out
  of `persisted_sessions`, and the row then stays.
- **Independent workers.** `SaveTaskState` (projection adopted or stale; both
  paths merge the queue; the trailing trim is part of it; `saved` is the row's transcript after the
  adoption: that of a stale save's row, or what the client shows, which is the whole row or the skeleton of a task it has only listed and arrives as
  a blank row then, because `detail_loaded` is not on the wire). Which of two projections is
  stale is an open choice here, so that the save's sample of the runtimes is from before the lock makes no difference; `TaskCatalog` has the decision. `RemoveQueuedMessage`,
  `HydrateSession`, and `OtherTaskServed`: a save for another task commits this row and
  may trim it.
- **Mailbox.** Start is `StartBegin` (drop the old handle, record Starting), then `StartRejected`
  (options do not decode), `StartFailed`, or `StartSpawn` and `StartInsert`: driver
  and event thread run before the handle is in the map. `Prompt` and `Cancel` touch the
  suppression before the runtime is looked up. Closing does not end the
  old driver, because its event thread owns a clone of the handle.
- **Event thread.** `EventRecord`, `EventPersist` when the value changed,
  `EventSettle` after a finished turn (the suppression is read then).
- **Drain worker.** `DrainSkip`, `DrainTake` (check, dequeue and save under one lock),
  `DrainRollback`, `DrainSubmit` outside the lock.
- **Driver.** Writer, reader and process of `claude.rs`, the driver that emits every
  liveness event: a prompt opens a turn, a `result` ends or parks it (`ReaderResult` clears
  `turn_active`, `ReaderSettle` sends TurnFinished), a new resume cursor sends
  Connected first, output without a prompt opens or wakes a turn, a broken pipe
  fails it, an exit is announced. Transcript content is left out.
- **Clients** have a projection `view`: queue, reload, observe a drained prompt, save, remove.
- **Crash** loses everything but the database; the successor loads an Idle skeleton of a row that is there.

`queued` and `handed` count what happened and steer only bounds and properties.

### RequestDispatcher

An *item* is one sending of a request: `pc` follows it from the connection's thread through the
mailbox and `handle_request` to its answer.

- **Dispatcher**, under the `runtime_mailboxes` lock: `Enqueue` (the mailbox's worker still owns the
  receiver), `CreateMailbox` (there is none, or its worker died), `DispatchIndependent`, `SpawnFails` with
  `send_dispatch_error` (the error is answered and cached).
- **handle_request**: `Lookup` (the cache is asked; a Start that will run calls `begin_runtime`), `Handle`
  (the backend, whose effect on the runtime map is `Effect`: Start puts a runtime in, CloseSession
  takes the one it names out, RemoveSession and RewindSessionToMessage whichever is there), `Record` (cache; a failed Start calls `end_runtime`), `Answer`.
- **run_runtime_mailbox**: `Receive`, `Supervise` (the worker's `active_runtime_id` and the hub follow the
  outcome), `Retire` (`take_queued_request_or_retire`: the last look and the removal are one step under the lock dispatchers send with).
- **Panics.** A thread may die in the backend (`WorkerPanics`, `IndependentPanics`): what waits in its channel is lost, the stale mailbox stays registered until the next request.

`ended` is a history: the runtime that a rewind dropped since the last Start. `Answer` always gets through: a connection's outgoing channel is
bounded, so a worker may wait in `send` (`server.rs:1211`, `:1266`) for the connection's thread, which takes from it or ends and closes it.

The commands of one task are modelled; `SetSessionArchived` stands for every runtime command that succeeds
without a runtime, `SaveTaskState` for every independent one. Terminals use sessions of their own and are
left out. The cache's bound on bytes counts as an eviction that comes early. The shipped clients draw a new id
for every request (`crates/waku-client/src/client.rs:183`, `packages/waku-client/src/client.ts:344`), so a second sending is a client that retries, which is
what the cache is for.

### TaskCatalog

One action is one critical section of the daemon, or one step of a client's UI thread or sync thread.

- **Daemon.** `row` and `stored` are the task in memory and in the database, `removed` its tombstone. A
  SaveTaskState worker takes its sample of the live runtimes first (`SampleRuntimes`, kept in the save's `live`; `daemon.rs:466-471` under the runtime
  map's own lock), then the task-state lock: `ApplySave` (tombstone, `session_projection_precedes` and trim by the sample, adoption, write).
  Any other step may come in between. `TellSaved` is its broadcast after the
  lock is gone; `ApplyRemove`, `ApplyArchive` and `TellCommand` are the task's mailbox. `Written` is what the store does with a
  skeleton and with a row that counts as not started.
- **Clients.** `CreateTask`, `Observe`, `Save` (any time: the sidebar's rename saves a row that was never opened),
  `persist_archived`, `remove_session`, `HydrateSession`, `Drain` of the sync thread's result.
- **Sync thread.** `LoadTaskState` drains the revisions that wait and takes a snapshot, `LoadReply` or `SyncFails` ends it.
- **Restart** loses tombstone, mailboxes and workers; every client then loads anew.

`best` is a history: the highest sequence a save has brought while the runtime lives. It starts again at a save without a
cursor that was decided without the runtime (`Brought`).

A transcript is there or not; a cursor is its sequence. Titles and `updated_at` are left out: every client stamps
`updated_at` with its own clock in whole seconds, so which of two rows is older by it (`older`), and whether a stored status counts as busy,
is an open choice. A save that fails in the daemon and the project table are not modelled.

### SessionProjection

One step is one driver event, folded by two watchers: the desktop (`handle_driver_event`) and the phone (`event-reducer.ts` with
the steering case of `runtime-context.tsx`). A view is the status, the turns and the messages with their turn, role and streaming flag.
The desktop also has its `stream_phase`, both have a pending permission or question. Any event may come at any
time, from the three kinds of provider the code tells apart. `aligned` turns false at each case that the
two reducers are seen to handle differently (the third argument of `Fold`), and `SameTranscript` says that there is no other case. The
client's own submissions, cancels and answers, activity blocks, usage, goals and background work are left out.

### EventStream

One task of one desktop. `begin_runtime` and `end_runtime` forget the numbering and journal of every
runtime of the task, so one counter and one journal stand for the maps. A runtime id is
drawn once per Start. `OtherReplay` stands for the journals of other tasks, which a new
subscription replays through the same bounded queue, in any amount, before this
task's. `Replay` keeps of the journal the positions in `Missing`, those the cursors do not cover. `Restart` is a new daemon process (new hub, new epoch); `ConnectionLost` loses queue
and socket; `Reconnect` carries the cursors over, as the supervisor does for a
remote daemon and for a live local one. Deviations: ephemeral (terminal) events, `replay_cursor` of an
attach, web and mobile clients and responses on the same queue are not
modelled, and an empty replacement after a daemon restart (no cursors) is covered by the
epoch, which makes old cursors mean nothing.

## 3. Runs

Every property of a passing run has a mutant in `PROJECT.json`, a change a plausible bug
would make, under which TLC finds it violated. Deadlock checking is off throughout: with their
bounds used up the models stop, and an idle daemon stops too.

| Run | Bounds | Shows |
|---|---|---|
| `QueueClients` | 1 runtime, 2 entries, 2 clients with whole rows | `OneSubmissionPerQueueing`, `QueueOrderStable`, `FollowUpsKept`: no save, removal or drain submits a queued copy twice, reorders the queue or loses an entry |
| `QueueDurable` | 1 runtime, 1 entry queued twice, whole and blank projections, failing saves, 1 crash | `CleanRowIsDurable` and, across crash, deleted rows and re-queueing, `OneSubmissionPerQueueing` |
| `QueueRuntimes` | 2 runtimes, 1 entry, 1 prompt | `TypeOK`; `StopHoldsQueue` with an old runtime still talking |
| `QueueLive` | 1 runtime, 1 entry, 1 prompt, 1 wake (so turns park), whole and blank projections, fairness | `FollowUpRuns` |
| `MergeLoop` | every pair of queues over 3 ids | `LoopMerges`, `LoopIsOnlyMerge`: the operator `Merges` is exactly what the loop computes |
| `Dispatch` | 2 requests of any of the commands, the first sent twice, 2 runtime ids, 2 mailboxes, a cache of 1, 1 panic, 1 failed thread start, fairness | `NoneLeftBehind`, `ServedInOrder` (the refinement of `RequestOrder`), `RetriedOnce`, `HubFollowsBackend`, `RequestAnswered`, `TypeOK` with the cache's bound |
| `Catalog` | 2 clients, 2 events, 2 of saves, commands and restarts together, any number of failed loads | `RemovedStaysRemoved`, `ArchiveIsCommanded`, `NewestProjectionKept`, `OthersDropRemoved` |
| `Projection` | 3 kinds of provider, 2 turns, 5 messages, 2 prompts, every order of events | `SameTranscript`, `TurnsInOrder`, `NothingOutlivesItsTurn`, `SettledStaysSettled` |
| `StreamOrder` | 2 runtimes, 2 events, 2 clients, 1 restart, fairness; journal 1, queue 2, buffer 1, so that each bound is met | `TypeOK` (with the three buffer bounds), `ReplayComplete`, `ImplementsEventLog`, `EventsArrive` |

`ReplayComplete` holds where `OtherReplay + JournalBound <= QueueBound`, as in the code for up to eight
replaying tasks (8 x 2048 = 16384); see section 5 for what happens beyond.

**Why these bounds.** A hazard of the queue needs one settle, one save and one drain per entry, a
second entry for order, a second client for a stale snapshot and a second runtime for
a late event; each run has the combination its properties can tell apart. In the dispatcher the races are between
one request being put into a mailbox and one leaving it; three items give a queue behind a request in service, and two mailboxes
a replacement. In the catalogue a stale save needs one client that acts and one that is late, and two events, so that
two positive cursors are compared; a task that is in the database from the start needs no save before them. In the projection a late event needs one
settled turn and one after it. In the stream the two events may come from one runtime (journal, queue and buffer
overflow) or from two (old events on their way while the next runtime numbers from one). The combinations that multiply (two of
everything) are left to the proofs, which have no bounds. `MaxQueueings`, `MaxPrompts`, `MaxWakes`, `MaxCrashes`, `MaxEvents`,
`MaxClients`, `MaxRestarts`, `MaxMailboxes`, `MaxPanics`, `MaxSpawnFailures`, `Sends`, `MaxSaves`, `MaxSeq`, `Budget`, `MaxTurns`, `MaxRows`
cap counters. `ChannelBound` makes a driver wait where the
code's channel is unbounded; it delays events only.

**Fairness.** `QueueDrain!Fairness`: the drain worker, event threads and writer threads are
OS threads that run when they can; a provider ends each turn it is running and wakes a parked
one (if it never does, nothing is owed). The wake is strongly fair because `ChannelBound` may block it again and again where the code's
channel cannot; a result that arrives for a parked turn is not owed. Clients, requests, the process's exit and crashes are
not fair. `EventStream!Fairness`: connection, client and adapter threads
run, the supervisor's poll retries; runtimes, the network, the user and daemon restarts are not fair.
`RequestDispatcher!Fairness`: a thread of the daemon that can take a step takes it, and the backend returns or panics; clients send when they like.

## 4. Proofs

Checked by TLAPS for all values of the constants that satisfy the `ConstantsAssumption` of each module (distinct
"none" values, bounds that are natural numbers, commands and providers of the known kinds, for the queue finitely many entries and save outcomes
that include success), `EntriesAssumption`, and `NoRowAssumption` and `ResultsAssumption` (no row, a failed load and no load are three
values and none of them a row). One theorem, `ReplayLeavesNoHole`, has a hypothesis of its own.

| Theorem | Says |
|---|---|
| `QueueDrainProofs!TypeCorrect` | `Spec => []TypeOK`; no queue, stored queue or view holds an id twice |
| `SubmittedOncePerQueueing` | `Spec => []OneSubmissionPerQueueing` |
| `AcknowledgedIsDurable` | `Spec => []CleanRowIsDurable` |
| `QueueIsFifo`, `NoFollowUpLost`, `StopIsHeld` | `Spec =>` `QueueOrderStable`, `FollowUpsKept`, `StopHoldsQueue` |
| `LoopIsMerge`, `OnlyOneMerge` | `QueueMerge!Spec => []` `LoopMerges`, `LoopIsOnlyMerge` |
| `RequestDispatcherProofs!TypeCorrect`, `NobodyLeftBehind` | `Spec => []` `TypeOK`, `NoneLeftBehind` |
| `ServiceIsOrdered` | `Spec => Order!Spec`: the dispatcher implements `RequestOrder` |
| `RetryIsAnswered`, `HubIsCurrent` | `Spec => []` `RetriedOnce`, `HubFollowsBackend` |
| `TaskCatalogProofs!TypeCorrect`, `NoResurrection`, `RemovalReachesOthers`, `ArchivedByCommand`, `EventsAreKept` | `Spec => []` `TypeOK`, `RemovedStaysRemoved`, `OthersDropRemoved`, `ArchiveIsCommanded`, `NewestProjectionKept` |
| `SessionProjectionProofs!TypeCorrect`, `TurnsStayInOrder`, `TurnsEndCleanly`, `ReducersAgree` | `Spec => []` `TypeOK`, `TurnsInOrder`, `NothingOutlivesItsTurn`, `SameTranscript` |
| `SettledIsFinal` | `Spec => SettledStaysSettled` |
| `EventStreamProofs!TypeCorrect` | `Spec => []TypeOK`, with the bounds of the three buffers |
| `ReplayLeavesNoHole` | `Spec => []ReplayComplete` where `OtherReplay + JournalBound <= QueueBound` |
| `StreamImplementsLog` | `Spec => Log!Spec`: the stream implements `EventLog` |

**Queue.** `FollowUpQueueProofs` shows that merging, dequeueing, appending and removing keep
a sequence free of duplicates and what they do to its set and its order. `TypeOK`, which
includes freedom from duplicates, is inductive by itself; `TypeStep` has one lemma per thread.
`StepKinds` reduces any step to one that changes the row (`RowStep`), to `DrainSubmit` or to neither, so
that each safety proof looks at a dozen actions only. `OneSubmissionPerQueueing` and
`CleanRowIsDurable` are then inductive together with `TypeOK`: an entry moves
queue -> hand -> handed without being copied, because the dequeue happens under the lock and every merge
that brings it in is counted. A clean row with its transcript was written by the save that made it so, and since then only the drain, which marks nothing
dirty, has taken from its queue; a trim needs a row without changes, so a skeleton always has its database row. The action
properties follow step by step from `TypeOK`. The loop invariant of `QueueMerge` (`IInv`) says that
after `next - 1` iterations the vector is the merge of the existing queue with that
prefix of the client's; at the end this is `Merges`. That it is the only member (`OneMerge`): at the least index where two merges
differ the daemon's entries do not stand, so each holds there an entry that the other holds later, and the client's order would have
to put each of the two before the other.

**Dispatcher.** None of the properties is inductive. `IInv` adds to `TypeOK` that there is at most one live worker, that its
mailbox is the registered one and that the one runtime request being handled is its current one (`Serial`); that the requests
waiting in its channel carry the last numbers given out, in order (`Numbered`); and where the last served number stands (`Served`).
`NoneLeftBehind` and each step of the refinement follow. `RetryInv` says that an outcome is in the
cache, or forgotten, from the moment its execution was recorded (`Remembered`), which two copies that are served one after the other cannot miss. `HubInv`
says for each place a request can be in how hub, backend and the worker's own `active_runtime_id` differ, between `begin_runtime` and `Supervise`, and
that where the backend has nothing and the hub something, a rewind has dropped it.

**Catalogue.** `TypeInv` adds that a save in service carries a row. `CatalogInv`: a removed task has no row, a task without a row has nothing stored,
and row and stored row are archived as chosen; the last two are what lets a hydration or a skeleton's save keep the archive stamp.
`SeqInv` bounds every sequence in the system: none before the runtime starts, none in a snapshot; while it lives the stored row has the sequence of the
row (`LiveSeq`), so that a row trimmed on an old sample comes back from the database without loss, and a save that looked for runtimes in vain has no
cursor (`SampleSeq`): it was sent before the Start. `NewerIsKept` is the heart: of two projections
the one `session_projection_precedes` keeps is never behind while the runtime lives, whatever the stamps say, or it is that save.
`OthersDropRemoved` speaks of clients at rest only and is far from inductive. `RemovalInv` follows the news of a removal instead: for every client but the
remover it is still to be broadcast, or a revision waits, or a load begun after the removal is in service, or its answer waits for the UI thread,
or nothing is left to take away (`Told`). One load in flight at a time and a mailbox that tells before it serves the next command
keep the chain unbroken, and `BehindInv` marks the clients for which a failed load broke it.

**Projection.** One relation, `Evolves(v, w)`, holds of every handler on every well-formed view: well-formedness (`ViewInv`) is kept and settled
turns are `Frozen`. Each handler is shown to evolve the view (`PromptEvolves`, `SettleEvolves`, ...), for both reducers by the same
lemmas, and both properties of views follow from `EvolvesKeeps`. `AskingInv` covers pending requests. For the agreement,
`AlignedInv` adds that while no differing case has come up the views are equal, text streams in the last message only, and only while the
desktop's phase is "text": the two different rules for continuing a message then decide alike.

**Streams.** `ReplayComplete` and the refinement rest on how events are numbered. `Numbered`: what is in the socket, the subscriber
queue or the journal carries a number that was given out to its runtime, no cursor is beyond the last one, and the active runtime's counter stands there.
`OneEpoch`: what speaks of one runtime (events, its cursor, the hub while it is active) names one epoch, because a runtime is started once; without it a
cursor from before a daemon restart would not compare with a new event. `ReplayComplete` is then inductive: an event the client reads
advances the cursor over no other event of the journal that is still owed, and the replay puts every journal event beyond
the cursor in the queue. That they fit, and none is cut off, is the theorem's hypothesis.

For the refinement, `Ordered` lines up, for each runtime, everything that may still be forwarded: the numbers already forwarded, then the adapter's
channel, then the buffers of the clients it may yet subscribe on, an earlier client's before a later one's, all of it at or below the cursor.
Each part rises and lies below the next. `AdapterOK` ties the channel to the adapter's place in the code: it is empty unless the adapter streams. An
accepted event is above the cursor, so it may go to the end of any part. A step then forwards nothing, or one
number above all that were forwarded and at most the last one sent, which is a step of `EventLog`. What `Kept` returns for every journal is
proved by induction on the prefix length; since the library's induction principle takes a predicate, `NaturalLemmas` states
it for a set of naturals.

**Only model-checked:** the liveness properties `FollowUpRuns`, `EventsArrive` and `RequestAnswered`: fairness and ENABLED are beyond the prover. Every
safety property that a passing run checks is also a theorem.

## 5. Where code and documentation disagree

Each of these runs ends in a counterexample and stands for one finding in `PROJECT.json`.

| Run | What happens |
|---|---|
| `VSubmittedOnce` | a client saves a snapshot that still holds a drained entry; the merge appends it, the next settle submits it again |
| `VStranded` | a follow-up's save arrives after the settle's drain found nothing; neither the save nor a prompt posts another drain request |
| `VSkeleton` | a client renames a task it has not opened; the save carries the skeleton, the daemon takes it for the whole row and deletes the stored transcript |

Also met while modelling. The model allows each of these steps (unless it says otherwise), and the properties are worded around them.

*Queue, drain and driver*

- An event of a superseded runtime still moves the row's live state (`daemon.rs:1053`): its event thread goes on after Close or a second
  Start, and records whatever its driver sends, though ADR 0004 (lines 157-158) says it "cannot move a newer one's state".
- A failed turn drains the queue like a successful one (`daemon.rs:1100`), though `model.rs:876-877` says
  "once the current turn settles successfully".
- Connected in mid-turn (`claude.rs:1650`) makes the session Idle, so a drain request still queued from an
  earlier settle prompts a provider in the middle of a turn (`daemon.rs:2391`: "Only a settled session drains").
  The reader also clears `turn_active` before it sends TurnFinished, so that a prompt taken in between starts a turn which the old end then settles.
- An entry one client removed returns with the next save of another that still shows it (`src/app/runtime.rs:3279`:
  "out of the queue for good").
- An entry merged into a skeleton row is overwritten when the row is hydrated (`daemon.rs:627`).
- The drain does not mark its row dirty (`daemon.rs:2397`), so `stored` keeps the drained entry; after a restart and a
  hydration it is queued again. `OneSubmissionPerQueueing` counts that as a new queueing.
- A Start whose options do not decode leaves the row Starting (`daemon.rs:988`). A Prompt for a runtime that is gone is rejected after it has
  lifted the Stop (`daemon.rs:297`). An entry dequeued for a driver that has just ended is in no queue any more (`daemon.rs:2439`).
- `ADR 0004` lists `Cancel -> Parked`; no code does it.
- Only drivers' own PromptSubmitted events arm the model-fallback retry (`daemon.rs:1070`); the daemon's two submit
  paths publish theirs on the hub instead. (The retry is not modelled.)

- A save of a listed task leaves a blank row: it counts as not started, so its database row is deleted and the queue merged into it is in memory
  only, though nothing marks it dirty (`persistence.rs:1387-1391`, `:1435-1457`). `CleanRowIsDurable` is about rows with their transcript; `VSkeleton` shows
  the loss of the transcript.
- A drain request posted before a Stop carries the suppression it read then and drains after the Stop (`daemon.rs:1100`). `StopHoldsQueue` is about
  requests posted after it.

*Dispatcher*

- A rewind drops the task's runtime from the backend (`daemon.rs:1570`) but is no command that closes a runtime (`server.rs:1033-1036`): the hub
  keeps its entry until the next Start or close. The runtime's event thread owns a clone of the driver's handle, so late events of it still pass the hub,
  though `daemon.rs:1568-1569` says that dropping the driver "prevents its late events from racing the rewound transcript". `HubFollowsBackend` allows
  the entry of a dropped runtime, and no other.
- After a worker died its successor starts without a runtime id, and a CloseSession then ends the backend's
  runtime but not the hub's entry (`server.rs:1062`); `HubFollowsBackend` is weaker after a panic.
- A thread that cannot be started is answered by an error that is cached like an answer (`server.rs:1268`): the retry gets it too.
- Commands a client sends without waiting carry a nil id, and the desktop's also a nil runtime id: a
  SetSessionArchived of an idle task makes the nil id the worker's active runtime, and its thread does not retire (`server.rs:1080`).

*Catalogue*

- A save samples the live runtimes before it takes the task-state lock (`daemon.rs:466-472`). One without a cursor that samples before the Start, and is
  applied after another client's save brought the new runtime's events, is decided by stamps and takes the events back when the row does not count as busy
  (`daemon.rs:1239`). `NewestProjectionKept` counts anew from such a save; a save that saw the runtime never does this. On the same sample a trim releases the
  transcript of a row whose runtime has just started, which costs a read and no events.
- The load that ends an outage clears the banner and returns before the snapshot is applied (`src/app/runtime.rs:1065-1067`), and a load that failed is
  repeated only by the next revision: the list stays as it was. `OthersDropRemoved` excludes clients whose last load failed.
- The broadcast skips the client that sent the command, so a load of its own that was under way brings the removed task back into its
  list; `OthersDropRemoved` is about the other clients. A load that overtakes the first save of a new task drops it (`src/app/runtime.rs:194-199`), until the next revision.
- `merge_remote_session_catalog` does not copy the archive stamp, so an open client does not see an archive command of another.
  A SetSessionArchived that overtakes the first save is an error that nobody reads.
- The hub's own list is changed after the task-state lock was released (`server.rs:275`): two saves may reach it in the other order, and a change is then taken
  for none. `TellSaved` may therefore always stay silent.
- Tombstones are in memory (`daemon.rs:544`): after a restart a late save creates a removed task again.
- A task that lost its transcript counts as a draft and stays in the list of a client after its removal.
- RemoveSession whose save fails has dropped the row and set the tombstone, and leaves the runtime running (`daemon.rs:565`; a failing save is not modelled here).

*Streams*

- An event that waits in the pre-subscription buffer dies with its client, but the cursor that covers it is handed to the
  replacement (`client.rs:373`), which therefore never gets it; `server.rs:461-462` says "no event stream is lost permanently". `ImplementsEventLog` allows gaps.
- An adapter that subscribes on a client whose thread has just ended waits on a channel that nobody closes (`client.rs:139`), though
  `client.rs:421-422` drops the senders "so runtime adapters can hand off". `EventsArrive` is about adapters on the live client.
- A replay larger than the subscriber queue drops the newest events and stays connected (`server.rs:437`), though
  `server.rs:50-53` says the connection closes.

*Reducers* (ADR 0002, line 36: "one protocol with two presenters"). The views part ways, and `aligned` turns false, when

- OpenCode starts a turn on its own: the desktop opens it, web and mobile ignore it (`event-reducer.ts:170`);
- output comes before its TurnStarted: only the desktop repairs the status;
- a steer or prompt arrives while text streams: the desktop goes on above it, the phone opens a new message below;
- a steer is accepted after the last turn settled: no turn on the desktop, the last one on the phone;
- a provider that fails to connect sends Error and then ProcessExited (`acp.rs`, `codex.rs`): the status is no longer busy, the desktop leaves the turn
  running for ever (`streaming.rs:875`), and takes the next prompt of another client for an echo, against `model.rs:1690-1698`.

Other differences lie outside the views: the web client drops other clients' steers
(`apps/web/src/lib/runtime-context.tsx:474-498`), and the desktop keeps showing a permission prompt that another client has answered.

## 6. Not modelled, and why

- **Checkpoints, rewind and fork**: Git refs through the git command, in the repository outside the daemon. What a rewind
  does to the runtime map is in `RequestDispatcher`. Its rewrite of the row is not modelled: it clones the row under the task-state lock, releases the lock for
  the Git and provider work, and writes the clone back over whatever came in between (`daemon.rs:1473-1606`): events, archive stamps and follow-ups merged
  meanwhile are lost, drained ones return. `FollowUpsKept`, `OneSubmissionPerQueueing`, `ArchiveIsCommanded` and `NewestProjectionKept` are therefore about
  tasks that are not being rewound.
- **Model-fallback retry**: reached only when a driver itself sends PromptSubmitted, which none on the modelled path does.
- **Steers that a provider rejects** and that re-queue at the head of the client's queue; **failing saves in the catalogue** (they are in `QueueDrain`), so that `ArchiveIsCommanded` and the stored
  half of `RemovedStaysRemoved` are about saves that succeed;
  the **project table** of the store.
- **Other provider drivers**: each is a protocol of its own with an external program; they emit subsets of the event orders that the Claude driver
  (`QueueDrain`) and `SessionProjection` (any order) cover.
- **Wire protocol, handshake, authentication**: types and encodings; what the models need of them is in the modules that use them.
- **Git, attachments, terminals, model catalogues, skills, usage, settings, push**: I/O and caches that no modelled state depends on.
- **User interfaces, markdown, updater**: rendering, input, downloads; by far the largest part of the repository's lines. `PROJECT.json` has the full list.
