----------------------------- MODULE QueueDrain -----------------------------
(***************************************************************************)
(* The follow-up queue of one task and the daemon threads that empty it:   *)
(* the session's runtime mailbox (Start, Prompt, Cancel, CloseSession),    *)
(* the independent request workers (SaveTaskState, RemoveQueuedMessage,    *)
(* HydrateSession), one event thread per provider runtime, the single      *)
(* queue-drain worker, and a provider driver whose event order is the one  *)
(* of driver/claude.rs (the driver that emits every liveness event).       *)
(*                                                                         *)
(* Every action is one critical section of daemon.rs: what happens between *)
(* two acquisitions of the task-state lock is one step.                    *)
(***************************************************************************)
EXTENDS FollowUpQueue

CONSTANTS
  Runtimes,      \* provider runtimes that Start may create, one id each
  Clients,       \* desktop, web and mobile clients holding a projection
  NoRuntime,     \* "no runtime", not a member of Runtimes
  NoEntry,       \* "no queue entry", not a member of Entries
  Projections,   \* what a client's save may carry: {"full"} or {"full", "blank"}
  SaveOutcomes,  \* what StateStore::save may report: {TRUE} or {TRUE, FALSE}
  MaxQueueings,  \* bound: times one entry may enter the daemon's queue
  MaxPrompts,    \* bound: explicit Prompt requests
  MaxWakes,      \* bound: turns a provider opens without a prompt
  MaxCrashes,    \* bound: daemon crashes
  ChannelBound   \* bound: events waiting in one driver channel

ASSUME ConstantsAssumption ==
  /\ NoRuntime \notin Runtimes
  /\ NoEntry \notin Entries
  /\ IsFiniteSet(Entries)
  /\ Projections \subseteq {"full", "blank"}
  /\ SaveOutcomes \subseteq BOOLEAN
  /\ TRUE \in SaveOutcomes
  /\ MaxQueueings \in Nat
  /\ MaxPrompts \in Nat
  /\ MaxWakes \in Nat
  /\ MaxCrashes \in Nat
  /\ ChannelBound \in Nat

VARIABLES
  \* The session row in PersistedState, guarded by the task-state lock.
  liveState,      \* AgentSession.live_state
  queue,          \* AgentSession.queued_messages
  detail,         \* what the row holds of the transcript, see Details
  dirty,          \* the session is in PersistedState.dirty_sessions
  onDisk,         \* the session has a committed session_details row ...
  stored,         \* ... and these are its queued_messages
  \* The rest of WakuBackend.
  sessions,       \* the runtime in WakuBackend.sessions, or NoRuntime
  mailbox,        \* progress of a Start in the session's runtime mailbox
  suppressed,     \* the session is in drain_suppressed
  drainRequests,  \* channel to the queue-drain worker
  inHand,         \* dequeued entry the worker has not submitted yet
  \* One event thread and one driver per runtime.
  channel,        \* driver events not yet received by the event thread
  threadPc,       \* where the event thread is in its loop body
  threadEv,       \* the event it is handling
  cmds,           \* CommandMessages the driver's writer has not taken
  writer,         \* the writer thread still receives
  proc,           \* the provider process
  turn,           \* turn_active
  parked,         \* ClaudeStreamState.parked
  settling,       \* a turn the reader closed but has not announced yet
  \* Clients and history.
  view,           \* queued_messages of each client's own projection
  queued,         \* history: times an entry entered the daemon's queue
  handed,         \* history: times an entry was submitted to a driver
  prompts,        \* explicit prompts so far
  wakes,          \* turns opened without a prompt so far
  crashes         \* crashes so far

rowVars    == <<liveState, queue, detail, dirty, onDisk, stored>>
daemonVars == <<sessions, mailbox, suppressed, drainRequests, inHand>>
threadVars == <<threadPc, threadEv>>
driverVars == <<channel, cmds, writer, proc, turn, parked, settling>>
histVars   == <<queued, handed, prompts, wakes, crashes>>
vars == <<rowVars, daemonVars, threadVars, driverVars, view, histVars>>

-----------------------------------------------------------------------------
(* Values.                                                                 *)

\* No row in PersistedState; a row whose transcript was not fetched or was
\* released (~detail_loaded); one that arrived without transcript and cursor,
\* as a listed task does when a client saves it; one with its transcript.
Details    == {"absent", "skeleton", "blank", "full"}
LiveStates == {"Idle", "Starting", "Running", "Parked", "Failed"}
Finishes   == {"FinishedOk", "FinishedFail"}
Events     == {"Connected", "TurnStarted", "TurnParked", "Exited"} \cup Finishes
ThreadPcs  == {"recv", "save", "settle"}
ProcStates == {"unused", "up", "exited", "failed"}
MailboxPcs == {"idle", "spawn", "insert"}

\* An explicit prompt carries no queue entry.
Commands == {[kind |-> "prompt", entry |-> e] : e \in Entries \cup {NoEntry}}
              \cup {[kind |-> "cancel", entry |-> NoEntry]}

DrainRequest == [rt : Runtimes, suppressed : BOOLEAN]

IdleMailbox == [pc |-> "idle", rt |-> NoRuntime]
EmptyHand   == [rt |-> NoRuntime, entry |-> NoEntry]

-----------------------------------------------------------------------------
(* The queue and the database row.                                         *)

\* Entries that a step brings into the daemon's queue.
Entering(q, next) == Range(next) \ Range(q)

CountEntering(q, next) ==
  /\ \A e \in Entering(q, next) : queued[e] < MaxQueueings
  /\ queued' = [e \in Entries |-> IF e \in Entering(q, next) THEN queued[e] + 1
                                                             ELSE queued[e]]

\* A skeleton came from a stored row, so it counts as started.
has_started(d) == d \in {"skeleton", "full"}

\* Mutant: the dirty set is cleared before the commit is known.
FlushForgets(q, isDirty, d, ok) ==
  /\ ok \in SaveOutcomes
  /\ dirty' = FALSE
  /\ \/ ok /\ d = "full" /\ isDirty /\ onDisk' = TRUE /\ stored' = q
     \/ ok /\ ~has_started(d) /\ onDisk' = FALSE /\ stored' = <<>>
     \/ ~(ok /\ d = "full" /\ isDirty) /\ UNCHANGED <<onDisk, stored>>

\* StateStore::save.  A dirty row with its transcript is written; a skeleton's
\* detail row, where the queue lives, is left alone; the database row of a
\* session that has not started is deleted, dirty or not, unless a commit that
\* failed took it from persisted_sessions before.
Flush(q, isDirty, d, ok) ==
  /\ ok \in SaveOutcomes
  /\ dirty' = (isDirty /\ ~ok)
  /\ \/ ok /\ d = "full" /\ isDirty /\ onDisk' = TRUE /\ stored' = q
     \/ ok /\ ~has_started(d) /\ onDisk' = FALSE /\ stored' = <<>>
     \/ /\ ok => \/ has_started(d) /\ ~(d = "full" /\ isDirty)
                 \/ ~has_started(d) /\ FALSE \in SaveOutcomes
        /\ UNCHANGED <<onDisk, stored>>

-----------------------------------------------------------------------------
(* Clients.                                                                *)

\* A client queues a follow-up in its own projection; the save that carries
\* it to the daemon is SaveTaskState.
ClientQueue(c, e) ==
  /\ queued[e] = 0
  /\ \A d \in Clients : e \notin Range(view[d])
  /\ view' = [view EXCEPT ![c] = Append(@, e)]
  /\ UNCHANGED <<rowVars, daemonVars, threadVars, driverVars, histVars>>

\* A client reloads the task catalogue and takes the daemon's queue.
ClientReload(c) ==
  /\ detail # "absent"
  /\ view' = [view EXCEPT ![c] = queue]
  /\ UNCHANGED <<rowVars, daemonVars, threadVars, driverVars, histVars>>

\* A client receives the PromptSubmitted of a drained entry, whose turn id is
\* the entry's own id, and drops it: adopt_submitted_prompt.
ClientObserves(c, e) ==
  /\ handed[e] > 0
  /\ e \in Range(view[c])
  /\ view' = [view EXCEPT ![c] = Without(@, e)]
  /\ UNCHANGED <<rowVars, daemonVars, threadVars, driverVars, histVars>>

-----------------------------------------------------------------------------
(* Requests served by independent workers.                                 *)

\* The trailing trim_resident_transcripts may turn a clean row into a skeleton
\* that keeps its queue.  The set of pinned rows is read before the lock is
\* taken, so a row whose runtime started since then is no exception.
MayTrim(isDirty, d) == ~isDirty /\ d = "full"

\* A client's projection is whole, or the skeleton of a listed task, which the
\* daemon takes for a blank row: detail_loaded is not on the wire.  Where there
\* is no row it is pushed as it is, live state included; a stale one (by cursors,
\* stamps and a sample of the runtimes from before the lock) leaves the row's
\* transcript alone.  saved is the transcript the row has before the trim.
SaveTaskState(c, saved, ok, trim) ==
  /\ saved \in Projections \cup ({detail} \ {"absent"})
  /\ ok \in SaveOutcomes
  /\ trim => ok /\ MayTrim(FALSE, saved)
  /\ detail' = IF trim THEN "skeleton" ELSE saved
  /\ liveState' \in IF detail = "absent" THEN LiveStates ELSE {liveState}
  /\ \E merged \in Merges(queue, view[c]) :
       /\ queue' = merged
       /\ CountEntering(queue, merged)
       /\ Flush(merged, TRUE, saved, ok)
  /\ UNCHANGED <<daemonVars, threadVars, driverVars, view,
                 handed, prompts, wakes, crashes>>

\* The client drops the entry from its projection and tells the daemon.
RemoveQueuedMessage(c, e, ok) ==
  /\ e \in Range(view[c]) /\ ok \in SaveOutcomes
  /\ view' = [view EXCEPT ![c] = Without(@, e)]
  /\ queue' = Without(queue, e)
  /\ IF e \in Range(queue) THEN Flush(Without(queue, e), TRUE, detail, ok)
                           ELSE UNCHANGED <<stored, onDisk, dirty>>
  /\ UNCHANGED <<liveState, detail, daemonVars, threadVars, driverVars,
                 queued, handed, prompts, wakes, crashes>>

\* Only a skeleton is read from the database; without a row there it counts
\* as whole and keeps its queue.
HydrateSession(trim) ==
  LET fetched == detail = "skeleton" /\ onDisk
      filled  == IF fetched THEN "full"
                 ELSE IF detail = "skeleton" THEN "blank" ELSE detail
  IN
  /\ queue' = IF fetched THEN stored ELSE queue
  /\ CountEntering(queue, queue')
  /\ trim => MayTrim(dirty, filled)
  /\ detail' = IF trim THEN "skeleton" ELSE filled
  /\ UNCHANGED <<liveState, dirty, onDisk, stored, daemonVars, threadVars,
                 driverVars, view, handed, prompts, wakes, crashes>>

\* A request about another task: its save commits every dirty row, this one
\* included, and its trailing trim may release this one.
OtherTaskServed(ok, trim) ==
  /\ Flush(queue, dirty, detail, ok)
  /\ trim => ok /\ MayTrim(FALSE, detail)
  /\ detail' = IF trim THEN "skeleton" ELSE detail
  /\ UNCHANGED <<liveState, queue, daemonVars, threadVars, driverVars, view,
                 histVars>>

-----------------------------------------------------------------------------
(* Requests served in order by the session's runtime mailbox.              *)

MailboxIdle == mailbox = IdleMailbox

\* set_live_state changes a row that there is.
Changes(next) == detail # "absent" /\ liveState # next

\* set_live_state followed by a best-effort save when the value changed.
RecordAndSave(next, ok) ==
  IF Changes(next)
  THEN liveState' = next /\ Flush(queue, TRUE, detail, ok)
  ELSE ok /\ UNCHANGED <<liveState, dirty, onDisk, stored>>

\* Start drops the previous handle and marks the row Starting.
StartBegin(r, ok) ==
  /\ MailboxIdle
  /\ proc[r] = "unused"
  /\ sessions' = NoRuntime
  /\ RecordAndSave("Starting", ok)
  /\ mailbox' = [pc |-> "spawn", rt |-> r]
  /\ UNCHANGED <<queue, detail, suppressed, drainRequests, inHand, threadVars,
                 driverVars, view, histVars>>

\* Options that do not decode end the request before a driver exists.
StartRejected ==
  /\ mailbox.pc = "spawn"
  /\ proc' = [proc EXCEPT ![mailbox.rt] = "failed"]
  /\ mailbox' = IdleMailbox
  /\ UNCHANGED <<rowVars, sessions, suppressed, drainRequests, inHand, threadVars,
                 channel, cmds, writer, turn, parked, settling, view, histVars>>

\* start_local reports an error.
StartFailed(ok) ==
  /\ mailbox.pc = "spawn"
  /\ RecordAndSave("Failed", ok)
  /\ proc' = [proc EXCEPT ![mailbox.rt] = "failed"]
  /\ mailbox' = IdleMailbox
  /\ UNCHANGED <<queue, detail, sessions, suppressed, drainRequests, inHand,
                 threadVars, channel, cmds, writer, turn, parked, settling,
                 view, histVars>>

\* The driver is up, has announced Connected, and its event thread runs; the
\* handle is not in the session map yet.
StartSpawn ==
  /\ mailbox.pc = "spawn"
  /\ proc' = [proc EXCEPT ![mailbox.rt] = "up"]
  /\ writer' = [writer EXCEPT ![mailbox.rt] = TRUE]
  /\ channel' = [channel EXCEPT ![mailbox.rt] = <<"Connected">>]
  /\ mailbox' = [mailbox EXCEPT !.pc = "insert"]
  /\ UNCHANGED <<rowVars, sessions, suppressed, drainRequests, inHand, threadVars,
                 cmds, turn, parked, settling, view, histVars>>

StartInsert ==
  /\ mailbox.pc = "insert"
  /\ sessions' = mailbox.rt
  /\ mailbox' = IdleMailbox
  /\ UNCHANGED <<rowVars, suppressed, drainRequests, inHand, threadVars, driverVars,
                 view, histVars>>

\* The driver's command channel: a send to a writer that returned is lost.
Send(r, cmd) ==
  cmds' = IF writer[r] THEN [cmds EXCEPT ![r] = Append(@, cmd)] ELSE cmds

\* A Prompt clears the suppression before its runtime is looked up, so a
\* prompt for a runtime that is not the session's clears it too.
Prompt(r) ==
  /\ MailboxIdle
  /\ prompts < MaxPrompts
  /\ proc[r] # "unused"
  /\ suppressed' = FALSE
  /\ prompts' = prompts + 1
  /\ IF sessions = r THEN Send(r, [kind |-> "prompt", entry |-> NoEntry])
                     ELSE UNCHANGED cmds
  /\ UNCHANGED <<rowVars, sessions, mailbox, drainRequests, inHand, threadVars,
                 channel, writer, proc, turn, parked, settling, view,
                 queued, handed, wakes, crashes>>

Cancel(r) ==
  /\ MailboxIdle
  /\ ~suppressed
  /\ proc[r] # "unused"
  /\ suppressed' = TRUE
  /\ IF sessions = r THEN Send(r, [kind |-> "cancel", entry |-> NoEntry])
                     ELSE UNCHANGED cmds
  /\ UNCHANGED <<rowVars, sessions, mailbox, drainRequests, inHand, threadVars,
                 channel, writer, proc, turn, parked, settling, view, histVars>>

\* The event thread owns a clone of the handle, so dropping the map's handle
\* does not run the driver's Drop: driver and event thread carry on.
CloseSession ==
  /\ MailboxIdle
  /\ sessions # NoRuntime
  /\ sessions' = NoRuntime
  /\ UNCHANGED <<rowVars, mailbox, suppressed, drainRequests, inHand, threadVars,
                 driverVars, view, histVars>>

-----------------------------------------------------------------------------
(* The event thread of runtime r.                                          *)

live_state_for_event(ev) ==
  CASE ev = "Connected"   -> "Idle"
    [] ev = "TurnStarted" -> "Running"
    [] ev = "TurnParked"  -> "Parked"
    [] ev = "Exited"      -> "Failed"
    [] OTHER              -> "Idle"

\* Mutant: only a successful turn settles.
AfterSaveOfSuccess(ev) == IF ev = "FinishedOk" THEN "settle" ELSE "recv"

AfterSave(ev) == IF ev \in Finishes THEN "settle" ELSE "recv"

\* Receive an event and record the liveness it implies.
EventRecord(r) ==
  /\ threadPc[r] = "recv"
  /\ channel[r] # <<>>
  /\ LET ev   == Head(channel[r])
         next == live_state_for_event(ev)
     IN  /\ channel' = [channel EXCEPT ![r] = Tail(@)]
         /\ threadEv' = [threadEv EXCEPT ![r] = ev]
         /\ IF Changes(next)
            THEN /\ liveState' = next /\ dirty' = TRUE
                 /\ threadPc' = [threadPc EXCEPT ![r] = "save"]
            ELSE /\ UNCHANGED <<liveState, dirty>>
                 /\ threadPc' = [threadPc EXCEPT ![r] = AfterSave(ev)]
  /\ UNCHANGED <<queue, detail, onDisk, stored, daemonVars, cmds, writer, proc, turn,
                 parked, settling, view, histVars>>

\* Take the lock again and persist the row.
EventPersist(r, ok) ==
  /\ threadPc[r] = "save"
  /\ Flush(queue, dirty, detail, ok)
  /\ threadPc' = [threadPc EXCEPT ![r] = AfterSave(threadEv[r])]
  /\ UNCHANGED <<liveState, queue, detail, daemonVars, threadEv, driverVars,
                 view, histVars>>

\* Mutant: the suppression read when the runtime started.
EventSettleStale(r) ==
  /\ threadPc[r] = "settle"
  /\ drainRequests' = Append(drainRequests, [rt |-> r, suppressed |-> FALSE])
  /\ threadPc' = [threadPc EXCEPT ![r] = "recv"]
  /\ UNCHANGED <<rowVars, sessions, mailbox, suppressed, inHand, threadEv,
                 driverVars, view, histVars>>

\* A finished turn posts a drain request with the suppression read now.
EventSettle(r) ==
  /\ threadPc[r] = "settle"
  /\ drainRequests' = Append(drainRequests, [rt |-> r, suppressed |-> suppressed])
  /\ threadPc' = [threadPc EXCEPT ![r] = "recv"]
  /\ UNCHANGED <<rowVars, sessions, mailbox, suppressed, inHand, threadEv,
                 driverVars, view, histVars>>

-----------------------------------------------------------------------------
(* The queue-drain worker.                                                 *)

WorkerReady == inHand = EmptyHand /\ drainRequests # <<>>

Drainable(req) == liveState = "Idle" /\ queue # <<>> /\ ~req.suppressed

DrainSkip ==
  /\ WorkerReady
  /\ ~Drainable(Head(drainRequests))
  /\ drainRequests' = Tail(drainRequests)
  /\ UNCHANGED <<rowVars, sessions, mailbox, suppressed, inHand, threadVars,
                 driverVars, view, histVars>>

\* Mutant: the head is read, not removed.
DrainTakeKeeps ==
  /\ WorkerReady
  /\ Drainable(Head(drainRequests))
  /\ Flush(queue, dirty, detail, TRUE)
  /\ inHand' = [rt |-> Head(drainRequests).rt, entry |-> Head(queue)]
  /\ drainRequests' = Tail(drainRequests)
  /\ UNCHANGED <<liveState, queue, detail, sessions, mailbox, suppressed,
                 threadVars, driverVars, view, histVars>>

\* remove(0) and the save happen under one lock; the row is not marked
\* dirty, so the save writes the shorter queue only if it already was.
DrainTake ==
  /\ WorkerReady
  /\ Drainable(Head(drainRequests))
  /\ queue' = Tail(queue)
  /\ Flush(Tail(queue), dirty, detail, TRUE)
  /\ inHand' = [rt |-> Head(drainRequests).rt, entry |-> Head(queue)]
  /\ drainRequests' = Tail(drainRequests)
  /\ UNCHANGED <<liveState, detail, sessions, mailbox, suppressed, threadVars,
                 driverVars, view, histVars>>

\* The save fails: the message goes back to the head of the queue.
DrainRollback ==
  /\ WorkerReady
  /\ Drainable(Head(drainRequests))
  /\ FALSE \in SaveOutcomes
  /\ drainRequests' = Tail(drainRequests)
  /\ UNCHANGED <<rowVars, sessions, mailbox, suppressed, inHand, threadVars,
                 driverVars, view, histVars>>

\* Outside the lock: publish PromptSubmitted, then prompt the driver of the
\* settled runtime.
DrainSubmit ==
  /\ inHand # EmptyHand
  /\ handed' = [handed EXCEPT ![inHand.entry] = @ + 1]
  /\ Send(inHand.rt, [kind |-> "prompt", entry |-> inHand.entry])
  /\ inHand' = EmptyHand
  /\ UNCHANGED <<rowVars, sessions, mailbox, suppressed, drainRequests, threadVars,
                 channel, writer, proc, turn, parked, settling, view,
                 queued, prompts, wakes, crashes>>

-----------------------------------------------------------------------------
(* The driver of runtime r: a writer thread taking commands, a reader       *)
(* thread following the provider process, and the process itself.          *)

Emit(r, evs) ==
  /\ Len(channel[r]) + Len(evs) <= ChannelBound
  /\ channel' = [channel EXCEPT ![r] = @ \o evs]

\* The process took the prompt: a turn is running.
WriterPrompt(r) ==
  /\ writer[r] /\ proc[r] = "up"
  /\ cmds[r] # <<>> /\ Head(cmds[r]).kind = "prompt"
  /\ cmds' = [cmds EXCEPT ![r] = Tail(@)]
  /\ turn' = [turn EXCEPT ![r] = TRUE]
  /\ Emit(r, <<"TurnStarted">>)
  /\ UNCHANGED <<rowVars, daemonVars, threadVars, writer, proc, parked, settling,
                 view, histVars>>

\* An interrupt request; the process answers with a result of its own.
WriterCancel(r) ==
  /\ writer[r] /\ proc[r] = "up"
  /\ cmds[r] # <<>> /\ Head(cmds[r]).kind = "cancel"
  /\ cmds' = [cmds EXCEPT ![r] = Tail(@)]
  /\ UNCHANGED <<rowVars, daemonVars, threadVars, channel, writer, proc, turn,
                 parked, settling, view, histVars>>

\* Stdin is gone: the write fails, an open turn is settled as failed and the
\* writer returns, dropping whatever is still in its channel.
WriterBroken(r) ==
  /\ writer[r] /\ proc[r] = "exited"
  /\ cmds[r] # <<>>
  /\ LET prompted == Head(cmds[r]).kind = "prompt" IN
       Emit(r, (IF prompted THEN <<"TurnStarted">> ELSE <<>>)
               \o (IF prompted \/ turn[r] THEN <<"FinishedFail">> ELSE <<>>))
  /\ turn' = [turn EXCEPT ![r] = FALSE]
  /\ writer' = [writer EXCEPT ![r] = FALSE]
  /\ cmds' = [cmds EXCEPT ![r] = <<>>]
  /\ UNCHANGED <<rowVars, daemonVars, threadVars, proc, parked, settling, view,
                 histVars>>

\* `result` with detached work still live: the turn stays open, parked.  The
\* native transcript may yield a fresh cursor, announced as Connected.
ReaderPark(r, cursor) ==
  /\ proc[r] = "up" /\ turn[r] /\ settling[r] = "no"
  /\ wakes < MaxWakes
  /\ parked' = [parked EXCEPT ![r] = TRUE]
  /\ Emit(r, IF cursor THEN <<"Connected", "TurnParked">> ELSE <<"TurnParked">>)
  /\ UNCHANGED <<rowVars, daemonVars, threadVars, cmds, writer, proc, turn,
                 settling, view, histVars>>

\* `result` that ends the turn: turn_active is cleared first ...
ReaderResult(r, cursor, outcome) ==
  /\ proc[r] = "up" /\ turn[r] /\ settling[r] = "no"
  /\ Emit(r, IF cursor THEN <<"Connected">> ELSE <<>>)
  /\ turn' = [turn EXCEPT ![r] = FALSE]
  /\ parked' = [parked EXCEPT ![r] = FALSE]
  /\ settling' = [settling EXCEPT ![r] = outcome]
  /\ UNCHANGED <<rowVars, daemonVars, threadVars, cmds, writer, proc,
                 view, histVars>>

\* ... and TurnFinished is sent afterwards, outside that lock.
ReaderSettle(r) ==
  /\ settling[r] # "no"
  /\ Emit(r, <<settling[r]>>)
  /\ settling' = [settling EXCEPT ![r] = "no"]
  /\ UNCHANGED <<rowVars, daemonVars, threadVars, cmds, writer, proc, turn, parked,
                 view, histVars>>

\* Model output without a prompt: begin_unprompted_turn.
ReaderWake(r) ==
  /\ proc[r] = "up" /\ settling[r] = "no"
  /\ ~turn[r] \/ parked[r]
  /\ wakes < MaxWakes
  /\ wakes' = wakes + 1
  /\ turn' = [turn EXCEPT ![r] = TRUE]
  /\ parked' = [parked EXCEPT ![r] = FALSE]
  /\ Emit(r, <<"TurnStarted">>)
  /\ UNCHANGED <<rowVars, daemonVars, threadVars, cmds, writer, proc, settling,
                 view, queued, handed, prompts, crashes>>

\* The process exits; its watcher joins the reader and announces it.  No
\* TurnFinished is sent for a turn that was open.
ProcExit(r) ==
  /\ proc[r] = "up" /\ settling[r] = "no"
  /\ proc' = [proc EXCEPT ![r] = "exited"]
  /\ Emit(r, <<"Exited">>)
  /\ UNCHANGED <<rowVars, daemonVars, threadVars, cmds, writer, turn, parked,
                 settling, view, histVars>>

-----------------------------------------------------------------------------
(* The daemon stops without warning and its successor loads the database:  *)
(* every stored row comes back as an Idle skeleton, all else is gone.       *)
Crash ==
  /\ crashes < MaxCrashes
  /\ crashes' = crashes + 1
  /\ liveState' = "Idle" /\ queue' = <<>> /\ dirty' = FALSE
  /\ detail' = IF onDisk THEN "skeleton" ELSE "absent"
  /\ sessions' = NoRuntime /\ mailbox' = IdleMailbox /\ suppressed' = FALSE
  /\ drainRequests' = <<>> /\ inHand' = EmptyHand
  /\ channel' = [r \in Runtimes |-> <<>>] /\ cmds' = [r \in Runtimes |-> <<>>]
  /\ threadPc' = [r \in Runtimes |-> "recv"]
  /\ writer' = [r \in Runtimes |-> FALSE] /\ turn' = [r \in Runtimes |-> FALSE]
  /\ parked' = [r \in Runtimes |-> FALSE]
  /\ settling' = [r \in Runtimes |-> "no"]
  /\ proc' = [r \in Runtimes |-> IF proc[r] = "unused" THEN "unused" ELSE "exited"]
  /\ UNCHANGED <<onDisk, stored, threadEv, view, queued, handed,
                 prompts, wakes>>

-----------------------------------------------------------------------------
Init ==
  /\ liveState = "Idle" /\ queue = <<>> /\ detail = "full" /\ dirty = FALSE
  /\ onDisk = TRUE /\ stored = <<>>
  /\ sessions = NoRuntime /\ mailbox = IdleMailbox /\ suppressed = FALSE
  /\ drainRequests = <<>> /\ inHand = EmptyHand
  /\ channel = [r \in Runtimes |-> <<>>] /\ cmds = [r \in Runtimes |-> <<>>]
  /\ threadPc = [r \in Runtimes |-> "recv"]
  /\ threadEv = [r \in Runtimes |-> "Connected"]
  /\ writer = [r \in Runtimes |-> FALSE] /\ turn = [r \in Runtimes |-> FALSE]
  /\ parked = [r \in Runtimes |-> FALSE]
  /\ settling = [r \in Runtimes |-> "no"]
  /\ proc = [r \in Runtimes |-> "unused"]
  /\ view = [c \in Clients |-> <<>>]
  /\ queued = [e \in Entries |-> 0] /\ handed = [e \in Entries |-> 0]
  /\ prompts = 0 /\ wakes = 0 /\ crashes = 0

ClientNext(c) ==
  \/ \E e \in Entries : ClientQueue(c, e) \/ ClientObserves(c, e)
  \/ ClientReload(c)
  \/ \E saved \in Details, ok, trim \in BOOLEAN : SaveTaskState(c, saved, ok, trim)
  \/ \E e \in Entries, ok \in BOOLEAN : RemoveQueuedMessage(c, e, ok)

MailboxNext ==
  \/ \E r \in Runtimes : Prompt(r) \/ Cancel(r)
  \/ \E r \in Runtimes, ok \in BOOLEAN : StartBegin(r, ok)
  \/ StartRejected \/ StartSpawn \/ StartInsert
  \/ \E ok \in BOOLEAN : StartFailed(ok)
  \/ CloseSession

EventThread(r) ==
  \/ EventRecord(r)
  \/ \E ok \in BOOLEAN : EventPersist(r, ok)
  \/ EventSettle(r)

DrainWorker == DrainSkip \/ DrainTake \/ DrainRollback \/ DrainSubmit

Driver(r) ==
  \/ WriterPrompt(r) \/ WriterCancel(r) \/ WriterBroken(r)
  \/ \E cursor \in BOOLEAN : ReaderPark(r, cursor)
  \/ \E cursor \in BOOLEAN, outcome \in Finishes : ReaderResult(r, cursor, outcome)
  \/ ReaderSettle(r) \/ ReaderWake(r) \/ ProcExit(r)

Next ==
  \/ \E c \in Clients : ClientNext(c)
  \/ \E trim \in BOOLEAN : HydrateSession(trim)
  \/ \E ok, trim \in BOOLEAN : OtherTaskServed(ok, trim)
  \/ MailboxNext
  \/ \E r \in Runtimes : EventThread(r) \/ Driver(r)
  \/ DrainWorker
  \/ Crash

Spec == Init /\ [][Next]_vars

\* The daemon's and the driver's threads are scheduled, and a provider ends
\* the turns it runs: each turn gets its result and a parked one wakes up.
\* (Strongly, for only ChannelBound, not the code's channel, can block a wake.)
\* Clients, the process's death and the daemon's death are free.
Fairness ==
  /\ WF_vars(DrainWorker)
  /\ \A r \in Runtimes :
       /\ WF_vars(EventThread(r))
       /\ WF_vars(WriterPrompt(r) \/ WriterCancel(r) \/ WriterBroken(r))
       /\ WF_vars(~parked[r] /\ \E cursor \in BOOLEAN, outcome \in Finishes :
                                    ReaderResult(r, cursor, outcome))
       /\ WF_vars(ReaderSettle(r))
       /\ SF_vars(parked[r] /\ ReaderWake(r))

LiveSpec == Spec /\ Fairness

-----------------------------------------------------------------------------
(* Properties.                                                             *)

\* Every variable has its type; no queue holds an id twice.
TypeOK ==
  /\ liveState \in LiveStates
  /\ queue \in Seq(Entries) /\ UniqueIds(queue)
  /\ stored \in Seq(Entries) /\ UniqueIds(stored)
  /\ detail \in Details
  /\ onDisk \in BOOLEAN /\ dirty \in BOOLEAN /\ suppressed \in BOOLEAN
  /\ sessions \in Runtimes \cup {NoRuntime}
  /\ mailbox \in {IdleMailbox} \cup [pc : {"spawn", "insert"}, rt : Runtimes]
  /\ drainRequests \in Seq(DrainRequest)
  /\ inHand \in {EmptyHand} \cup [rt : Runtimes, entry : Entries]
  /\ channel \in [Runtimes -> Seq(Events)]
  /\ threadPc \in [Runtimes -> ThreadPcs]
  /\ threadEv \in [Runtimes -> Events]
  /\ cmds \in [Runtimes -> Seq(Commands)]
  /\ writer \in [Runtimes -> BOOLEAN]
  /\ proc \in [Runtimes -> ProcStates]
  /\ turn \in [Runtimes -> BOOLEAN]
  /\ parked \in [Runtimes -> BOOLEAN]
  /\ settling \in [Runtimes -> Finishes \cup {"no"}]
  /\ view \in [Clients -> Seq(Entries)]
  /\ \A c \in Clients : UniqueIds(view[c])
  /\ queued \in [Entries -> Nat]
  /\ handed \in [Entries -> Nat]
  /\ prompts \in 0..MaxPrompts
  /\ wakes \in 0..MaxWakes
  /\ crashes \in 0..MaxCrashes

-----------------------------------------------------------------------------
\* Each time an entry enters the daemon's queue it is submitted at most once:
\* what was submitted, is in the worker's hand or still waits never exceeds
\* what entered.  drain_queued_prompt takes the head under the lock, so no
\* number of drain requests, saves or clients can submit one copy twice.
InHand(e) == IF inHand # EmptyHand /\ inHand.entry = e THEN 1 ELSE 0
Waiting(e) == IF e \in Range(queue) THEN 1 ELSE 0
OneSubmissionPerQueueing ==
  \A e \in Entries : handed[e] + InHand(e) + Waiting(e) <= queued[e]

\* A row with its transcript that nobody marked dirty is on disk with every
\* follow-up it queues, and what the disk queues beyond it was drained: a crash
\* loses no follow-up whose save was reported as done and brings back no other.
\* And the row of a released or unread transcript is there to be read, whichever
\* save, of a client's skeleton too, or trim came in between.
Drained == {e \in Entries : handed[e] > 0} \cup {inHand.entry}
CleanRowIsDurable ==
  /\ detail = "full" /\ ~dirty =>
       /\ onDisk
       /\ Range(queue) \subseteq Range(stored)
       /\ Range(stored) \ Range(queue) \subseteq Drained
  /\ detail = "skeleton" => onDisk

\* The queue is first in, first out: no step of a loaded row changes the order
\* of two entries it keeps, whichever client saves or removes what.
Loaded == detail \in {"blank", "full"}
QueueOrderStable == [][Loaded => KeepsOrder(queue, queue')]_queue

\* No save of any client, nor any other request, loses a follow-up of a loaded
\* row: it leaves the queue in the step of a client that drops it too, or into
\* the drain worker's hand.
DroppedByClient(e) == \E c \in Clients : e \in Range(view[c]) \ Range(view'[c])
FollowUpsKept ==
  [][Loaded /\ crashes' = crashes =>
       \A e \in Range(queue) \ Range(queue') :
         DroppedByClient(e) \/ e = inHand'.entry]_queue

\* After a Stop, once the settles that came before it are worked off, no
\* follow-up is taken until a prompt or a restart of the daemon lifts the Stop.
StopInForce ==
  suppressed /\ \A i \in DOMAIN drainRequests : drainRequests[i].suppressed
StopHoldsQueue ==
  [][StopInForce => /\ StopInForce' \/ ~suppressed'
                    /\ inHand' \in {inHand, EmptyHand}]_vars

\* A follow-up that waits behind a running turn leaves the queue after that
\* turn, whatever its outcome, unless a Stop or the provider's exit comes
\* first; and this with no help from any client.
FollowUpRuns ==
  \A e \in Entries, r \in Runtimes :
    (e \in Range(queue) /\ turn[r] /\ proc[r] = "up")
      ~> (e \notin Range(queue) \/ suppressed \/ proc[r] # "up")

-----------------------------------------------------------------------------
(* What the repository says and the code does not do.                      *)

\* An entry is submitted once, racing client saves or not.
SubmittedOnce == \A e \in Entries : handed[e] <= 1

\* A follow-up that a client queues while a turn runs, and whose save reaches
\* the daemon (the row stays loaded, so no hydration can drop it), is taken from
\* the queue as long as the daemon and its provider are alive.
QueuedBehindTurn(c, e, r) ==
  e \in Range(view[c]) /\ queued[e] = 0 /\ sessions = r /\ turn[r]
FollowUpExecutes ==
  \A c \in Clients, e \in Entries, r \in Runtimes :
    [](QueuedBehindTurn(c, e, r) /\ []Loaded /\ <>(queued[e] > 0)
         => <>(\/ queued[e] > 0 /\ e \notin Range(queue)
               \/ suppressed \/ proc[r] # "up" \/ sessions # r))
=============================================================================
