----------------------------- MODULE TaskCatalog -----------------------------
(***************************************************************************)
(* One task as the daemon and its clients list it.  The daemon owns the    *)
(* row and its copy in the database; each client shows a row of its own.   *)
(* Clients change the task by saving their whole row (SaveTaskState, an    *)
(* independent worker each) or by a command of the task's mailbox          *)
(* (RemoveSession, SetSessionArchived).  The hub tells the other clients   *)
(* when the list changed, and each client's sync thread then loads it.     *)
(*                                                                         *)
(* An action is one critical section of the daemon, or one step of a       *)
(* client's UI thread or sync thread.  A transcript is either there or     *)
(* not; a runtime_event_cursor is its sequence, 0 when there is none, and  *)
(* the task has one runtime at most.  The title and the other metadata of  *)
(* the list are left out, and with them updated_at, which every client     *)
(* stamps with its own clock: which of two rows is newer by it, and        *)
(* whether a saved entry differs from the hub's, is left open.             *)
(***************************************************************************)
EXTENDS Naturals, Sequences

CONSTANTS
  Clients,      \* desktop clients
  NoRow,        \* "no such task"
  NoClient,     \* "nobody"
  Failure,      \* a load that failed
  NoResult,     \* no load to drain
  MaxSaves,     \* bound: SaveTaskState requests
  MaxSeq,       \* bound: events of the runtime
  Budget        \* bound: saves, commands and daemon restarts together

ASSUME ConstantsAssumption ==
  {MaxSaves, MaxSeq, Budget} \subseteq Nat

VARIABLES
  \* The daemon, under the task-state lock.
  row,      \* the task in PersistedState
  stored,   \* its committed database row
  removed,  \* it is in removed_session_ids
  runtime,  \* its runtime: none yet, in WakuBackend.sessions, or closed
  \* Requests in service.
  saves,    \* one SaveTaskState worker each
  mailbox,  \* the task's runtime mailbox
  telling,  \* its worker has applied the head and not told the hub
  \* Clients: the UI thread.
  local,    \* the task in the client's own PersistedState
  degraded, \* daemon_degraded
  \* Clients: the task-state sync thread.
  sync,     \* where it is
  snapshot, \* what its load returned
  revision, \* a TaskStateChanged waits for it
  result,   \* the newest load the UI thread has not drained
  \* History and bounds.
  chosen,   \* the archive stamp the last executed command asked for
  best,     \* the highest sequence a save has brought while the runtime lives
  remover,  \* the client whose RemoveSession was executed
  behind,   \* a load failed, and no later one was applied
  spent     \* of the budget

daemonVars  == <<row, stored, removed, runtime>>
requestVars == <<saves, mailbox, telling>>
clientVars  == <<local, degraded>>
syncVars    == <<sync, snapshot, revision, result>>
historyVars == <<chosen, best, remover, behind>>
vars == <<daemonVars, requestVars, clientVars, syncVars, historyVars, spent>>

-----------------------------------------------------------------------------
(* Values.                                                                 *)

\* A row that is not loaded shows no transcript.
Rows == {r \in [archived : BOOLEAN, seq : 0..MaxSeq, history : BOOLEAN, loaded : BOOLEAN] :
           r.loaded \/ ~r.history}

ASSUME NoRowAssumption == NoRow \notin Rows

\* The outcomes of a load that are no list are none of the lists.
ASSUME ResultsAssumption ==
  /\ Failure \notin Rows \cup {NoRow}
  /\ NoResult \notin Rows \cup {NoRow, Failure}

SaveIds  == 1..MaxSaves
SavePcs  == {"unsent", "sample", "apply", "tell", "done"}
\* live: the sample of the live runtimes that the worker took had the task's.
NoSave   == [pc |-> "unsent", from |-> NoClient, row |-> NoRow, live |-> FALSE]
Ended    == [NoSave EXCEPT !.pc = "done"]
Requests == [pc : SavePcs, from : Clients \cup {NoClient}, row : Rows \cup {NoRow}, live : BOOLEAN]
Commands == [archive : BOOLEAN, remove : BOOLEAN, from : Clients]
SyncPcs  == {"wait", "reply"}

has_started(r) == ~r.loaded \/ r.history

\* Mutant: the transcript stays.
KeepsTranscript(r) == IF r = NoRow THEN NoRow ELSE [r EXCEPT !.loaded = FALSE]

\* list_projection, with the flag that restore_task_state_skeletons clears; a
\* row read from the list columns looks the same.
Skeleton(r) == IF r = NoRow THEN NoRow
               ELSE [r EXCEPT !.loaded = FALSE, !.history = FALSE, !.seq = 0]

\* detail_loaded is not serialized: a row counts as loaded where it is read.
OnWire(r) == [r EXCEPT !.loaded = TRUE]

\* broadcast_task_state_changed: everyone but the source.
Broadcast(c) == revision' = [d \in Clients |-> revision[d] \/ d # c]

Newest(a, b) == IF a > b THEN a ELSE b

-----------------------------------------------------------------------------
(* The daemon's row.                                                       *)

\* StateStore::save of a dirty row r: a skeleton updates its list columns
\* only, and a row that counts as not started loses its database row.
Written(r) ==
  IF ~has_started(r) THEN NoRow
  ELSE IF r.loaded \/ stored = NoRow THEN OnWire(r)
  ELSE [stored EXCEPT !.archived = r.archived]

\* trim_resident_transcripts, which keeps the row's cursor and every row whose
\* runtime is in the sample; whether it is among the newest rows is left open.
Trimmed(r, live) ==
  IF live \/ ~r.history THEN {r}
  ELSE {r, [r EXCEPT !.loaded = FALSE, !.history = FALSE]}

\* StateStore::hydrate.
Hydrated(r) ==
  IF r.loaded THEN r
  ELSE IF stored = NoRow THEN [r EXCEPT !.loaded = TRUE]
  ELSE [stored EXCEPT !.archived = r.archived]

\* Mutant: the cursors are not looked at.
PrecedesByStamp(existing, incoming, live, busy, older) == older

\* Whether the stored status is busy, and which stamp is older, is left open.
session_projection_precedes(existing, incoming, live, busy, older) ==
  IF live /\ (existing.seq > 0) # (incoming.seq > 0) THEN existing.seq > 0
  ELSE IF existing.seq > 0 /\ incoming.seq > 0 THEN incoming.seq < existing.seq
  ELSE (existing.seq > 0 /\ incoming.seq = 0 /\ busy) \/ older

\* Mutant: the client's archive stamp is taken.
AdoptEverything(existing, incoming) == incoming

adopt_client_projection(existing, incoming) ==
  [incoming EXCEPT !.archived = existing.archived]

\* The row after a SaveTaskState that carried r: of a stale one only the title
\* is merged.
Saved(r, live, busy, older) ==
  IF row = NoRow THEN r
  ELSE IF session_projection_precedes(row, r, live, busy, older) THEN row
  ELSE adopt_client_projection(row, r)

\* A save without a cursor may take the row's events back if its worker saw no
\* runtime; what was brought counts anew from there.
Brought(r, live) ==
  IF runtime # "live" \/ (r.seq = 0 /\ ~live /\ row'.seq = 0) THEN 0
  ELSE Newest(best, r.seq)

\* A worker applies a save, writes the row and keeps it for the echo.
Apply(s, r) ==
  LET live == saves[s].live IN
  /\ \E busy, older \in BOOLEAN :
       LET new == Saved(r, live, busy, older) IN
       /\ stored' = Written(new)
       /\ row' \in Trimmed(new, live)
  /\ saves' = [saves EXCEPT ![s].pc = "tell", ![s].row = NoRow, ![s].live = FALSE]
  /\ best' = Brought(r, live)
  /\ chosen' = IF row = NoRow THEN r.archived ELSE chosen

\* The worker takes its sample before it takes the task-state lock.
SampleRuntimes(s) ==
  /\ saves[s].pc = "sample"
  /\ saves' = [saves EXCEPT ![s].pc = "apply", ![s].live = (runtime = "live")]
  /\ UNCHANGED <<daemonVars, mailbox, telling, clientVars, syncVars, historyVars, spent>>

\* Mutant: the tombstone is not looked at.
Resurrect(s) ==
  /\ saves[s].pc = "apply"
  /\ Apply(s, OnWire(saves[s].row))
  /\ UNCHANGED <<removed, runtime, mailbox, telling, clientVars, syncVars, remover,
                 behind, spent>>

ApplySave(s) ==
  /\ saves[s].pc = "apply"
  /\ \/ ~removed /\ Apply(s, OnWire(saves[s].row))
     \/ /\ removed
        /\ saves' = [saves EXCEPT ![s] = Ended]
        /\ UNCHANGED <<row, stored, chosen, best>>
  /\ UNCHANGED <<removed, runtime, mailbox, telling, clientVars, syncVars, remover,
                 behind, spent>>

\* task_state_saved: the others are told if the hub's entry was another one.
TellSaved(s) ==
  /\ saves[s].pc = "tell"
  /\ saves' = [saves EXCEPT ![s] = Ended]
  /\ Broadcast(saves[s].from) \/ UNCHANGED revision
  /\ UNCHANGED <<daemonVars, mailbox, telling, clientVars, sync, snapshot, result, historyVars,
                 spent>>

\* The mailbox serves RemoveSession: the row and its database row go, and the
\* tombstone keeps saves away from then on.
ApplyRemove ==
  /\ mailbox # <<>> /\ ~telling /\ Head(mailbox).remove
  /\ row' = NoRow /\ stored' = NoRow
  /\ removed' = TRUE
  /\ runtime' = IF runtime = "live" THEN "closed" ELSE runtime
  /\ telling' = TRUE
  /\ remover' = Head(mailbox).from
  /\ best' = 0
  /\ UNCHANGED <<saves, mailbox, clientVars, syncVars, chosen, behind, spent>>

\* ... and SetSessionArchived: an error, which nobody reads, without the row.
ApplyArchive ==
  /\ mailbox # <<>> /\ ~telling /\ ~Head(mailbox).remove
  /\ IF row = NoRow
     THEN /\ mailbox' = Tail(mailbox)
          /\ UNCHANGED <<row, stored, telling, chosen>>
     ELSE /\ row' = [row EXCEPT !.archived = Head(mailbox).archive]
          /\ stored' = IF row' = row THEN stored ELSE Written(row')
          /\ chosen' = Head(mailbox).archive
          /\ telling' = TRUE
          /\ UNCHANGED mailbox
  /\ UNCHANGED <<removed, runtime, saves, clientVars, syncVars, best, remover, behind,
                 spent>>

\* Mutant: the client that sent the command is the one that is told.
TellSource ==
  /\ telling
  /\ telling' = FALSE
  /\ mailbox' = Tail(mailbox)
  /\ revision' = [revision EXCEPT ![Head(mailbox).from] = TRUE]
  /\ UNCHANGED <<daemonVars, saves, clientVars, sync, snapshot, result, historyVars,
                 spent>>

\* task_state_changed.
TellCommand ==
  /\ telling
  /\ telling' = FALSE
  /\ mailbox' = Tail(mailbox)
  /\ Broadcast(Head(mailbox).from)
  /\ UNCHANGED <<daemonVars, saves, clientVars, sync, snapshot, result, historyVars,
                 spent>>

StartRuntime ==
  /\ runtime = "none" /\ row # NoRow
  /\ runtime' = "live"
  /\ UNCHANGED <<row, stored, removed, requestVars, clientVars, syncVars, historyVars,
                 spent>>

CloseRuntime ==
  /\ runtime = "live"
  /\ runtime' = "closed"
  /\ best' = 0
  /\ UNCHANGED <<row, stored, removed, requestVars, clientVars, syncVars, chosen, remover, behind,
                 spent>>

-----------------------------------------------------------------------------
(* A client's UI thread.                                                   *)

Spend == spent < Budget /\ spent' = spent + 1

\* SaveTaskState with the row r as it is now, a skeleton too.
Send(c, r) ==
  /\ Spend
  /\ \E s \in SaveIds :
       /\ saves[s].pc = "unsent"
       /\ \A u \in 1..(s - 1) : saves[u].pc # "unsent"
       /\ saves' = [saves EXCEPT ![s] = [NoSave EXCEPT !.pc = "sample", !.from = c, !.row = r]]

\* A first submission stores a task nobody knows yet.
CreateTask(c) ==
  LET r == [archived |-> FALSE, seq |-> 0, history |-> TRUE, loaded |-> TRUE] IN
  /\ row = NoRow /\ ~removed /\ \A d \in Clients : local[d] = NoRow
  /\ \A s \in SaveIds : saves[s].pc = "unsent"
  /\ local' = [local EXCEPT ![c] = r]
  /\ Send(c, r)
  /\ UNCHANGED <<daemonVars, mailbox, telling, degraded, syncVars, historyVars>>

\* An event of the runtime.
Observe(c) ==
  /\ runtime = "live" /\ local[c] # NoRow
  /\ local[c].loaded /\ local[c].seq < MaxSeq
  /\ local' = [local EXCEPT ![c] = [local[c] EXCEPT !.seq = local[c].seq + 1, !.history = TRUE]]
  /\ UNCHANGED <<daemonVars, requestVars, degraded, syncVars, historyVars, spent>>

\* A client saves a row some time after an event and at once when its user
\* renames it in the list, opened or not: at any time.
Save(c) ==
  /\ local[c] # NoRow
  /\ Send(c, local[c])
  /\ UNCHANGED <<daemonVars, mailbox, telling, clientVars, syncVars, historyVars>>

Post(c, remove, archive) ==
  /\ Spend
  /\ mailbox' = Append(mailbox, [remove |-> remove, archive |-> archive, from |-> c])

\* archive_session and unarchive_session; what cannot be sent is taken back.
persist_archived(c) ==
  /\ local[c] # NoRow
  /\ local' = [local EXCEPT ![c] = [local[c] EXCEPT !.archived = ~local[c].archived]]
  /\ Post(c, FALSE, ~local[c].archived)
  /\ UNCHANGED <<daemonVars, saves, telling, degraded, syncVars, historyVars>>

\* The row goes whether or not the command can be sent.
remove_session(c) ==
  /\ local[c] # NoRow
  /\ local' = [local EXCEPT ![c] = NoRow]
  /\ Post(c, TRUE, FALSE) \/ (Spend /\ UNCHANGED mailbox)
  /\ UNCHANGED <<daemonVars, saves, telling, degraded, syncVars, historyVars>>

\* ensure_session_loaded: the daemon hydrates its row and answers with it.  The
\* client keeps its skeleton until the answer is there, so the step is the answer.
\* The worker's sample of the runtimes may be from before the task's was there.
HydrateSession(c) ==
  /\ local[c] # NoRow /\ row # NoRow
  /\ ~local[c].loaded
  /\ row' \in Trimmed(Hydrated(row), FALSE)
  /\ local' = [local EXCEPT ![c] = Hydrated(row)]
  /\ UNCHANGED <<stored, removed, runtime, requestVars, degraded, syncVars, historyVars,
                 spent>>

\* Mutant: a row that is gone from the daemon stays.
MergesOnly(mine, remote) == IF mine = NoRow THEN remote ELSE mine

\* merge_remote_session_catalog: a started row the snapshot lacks goes, a new
\* one comes, and a known one keeps all but list metadata.
Merged(mine, remote) ==
  IF mine = NoRow \/ (remote = NoRow /\ has_started(mine)) THEN remote ELSE mine

\* drain_task_state_sync_events.  The load that ends an outage clears the
\* banner, and that is all it does.
Drain(c) ==
  /\ result[c] # NoResult
  /\ result' = [result EXCEPT ![c] = NoResult]
  /\ degraded' = [degraded EXCEPT ![c] = result[c] = Failure]
  /\ IF result[c] = Failure \/ degraded[c] THEN UNCHANGED <<local, behind>>
     ELSE /\ local' = [local EXCEPT ![c] = Merged(@, result[c])]
          /\ behind' = [behind EXCEPT ![c] = FALSE]
  /\ UNCHANGED <<daemonVars, requestVars, sync, snapshot, revision,
                 chosen, best, remover, spent>>

-----------------------------------------------------------------------------
(* A client's sync thread, and the worker that serves its LoadTaskState.   *)

\* The thread takes every revision that waits and asks for the list.  A revision
\* that overtakes the request only means one load more.
LoadTaskState(c) ==
  /\ sync[c] = "wait" /\ revision[c]
  /\ revision' = [revision EXCEPT ![c] = FALSE]
  /\ snapshot' = [snapshot EXCEPT ![c] = Skeleton(row)]
  /\ sync' = [sync EXCEPT ![c] = "reply"]
  /\ UNCHANGED <<daemonVars, requestVars, clientVars, result, historyVars, spent>>

\* The answer, with which the hub's entries were replaced.
LoadReply(c) ==
  /\ sync[c] = "reply"
  /\ result' = [result EXCEPT ![c] = snapshot[c]]
  /\ snapshot' = [snapshot EXCEPT ![c] = NoRow]
  /\ sync' = [sync EXCEPT ![c] = "wait"]
  /\ UNCHANGED <<daemonVars, requestVars, clientVars, revision, historyVars, spent>>

\* The request times out.  The thread then waits for the next revision.
SyncFails(c) ==
  /\ sync[c] = "reply"
  /\ result' = [result EXCEPT ![c] = Failure]
  /\ behind' = [behind EXCEPT ![c] = TRUE]
  /\ snapshot' = [snapshot EXCEPT ![c] = NoRow]
  /\ sync' = [sync EXCEPT ![c] = "wait"]
  /\ UNCHANGED <<daemonVars, requestVars, clientVars, revision, chosen, best,
                 remover, spent>>

-----------------------------------------------------------------------------
\* The daemon dies and its successor reads the list columns.  Requests in
\* service are lost; a load in service fails, and every client loads anew.
Restart ==
  LET loading == {c \in Clients : sync[c] # "wait"} IN
  /\ Spend
  /\ row' = Skeleton(stored)
  /\ removed' = FALSE
  /\ runtime' = IF runtime = "live" THEN "closed" ELSE runtime
  /\ saves' = [s \in SaveIds |->
                 IF saves[s].pc = "unsent" THEN saves[s] ELSE Ended]
  /\ mailbox' = <<>> /\ telling' = FALSE
  /\ sync' = [c \in Clients |-> "wait"]
  /\ snapshot' = [c \in Clients |-> NoRow]
  /\ revision' = [c \in Clients |-> TRUE]
  /\ result' = [c \in Clients |-> IF c \in loading THEN Failure ELSE result[c]]
  /\ behind' = [c \in Clients |-> behind[c] \/ c \in loading]
  /\ remover' = NoClient
  /\ best' = 0
  /\ UNCHANGED <<stored, local, degraded, chosen>>

\* The daemon has just started: the task is in its database, or there is none.
Init ==
  /\ stored \in {NoRow} \cup [archived : {FALSE}, seq : {0}, history : {TRUE}, loaded : {TRUE}]
  /\ row = Skeleton(stored)
  /\ removed = FALSE
  /\ runtime = "none"
  /\ saves = [s \in SaveIds |-> NoSave]
  /\ mailbox = <<>>
  /\ telling = FALSE
  /\ local = [c \in Clients |-> NoRow]
  /\ degraded = [c \in Clients |-> FALSE]
  /\ sync = [c \in Clients |-> "wait"]
  /\ snapshot = [c \in Clients |-> NoRow]
  /\ revision = [c \in Clients |-> TRUE]
  /\ result = [c \in Clients |-> NoResult]
  /\ chosen = FALSE
  /\ best = 0
  /\ remover = NoClient
  /\ behind = [c \in Clients |-> FALSE]
  /\ spent = 0

Next ==
  \/ \E s \in SaveIds : SampleRuntimes(s) \/ ApplySave(s) \/ TellSaved(s)
  \/ ApplyRemove \/ ApplyArchive \/ TellCommand
  \/ StartRuntime \/ CloseRuntime
  \/ \E c \in Clients :
       \/ CreateTask(c) \/ Observe(c) \/ Save(c)
       \/ persist_archived(c) \/ remove_session(c)
       \/ HydrateSession(c) \/ Drain(c)
       \/ LoadTaskState(c) \/ LoadReply(c) \/ SyncFails(c)
  \/ Restart

Spec == Init /\ [][Next]_vars

-----------------------------------------------------------------------------
(* Properties.                                                             *)

TypeOK ==
  /\ row \in Rows \cup {NoRow} /\ stored \in Rows \cup {NoRow}
  /\ removed \in BOOLEAN /\ runtime \in {"none", "live", "closed"}
  /\ saves \in [SaveIds -> Requests]
  /\ mailbox \in Seq(Commands) /\ telling \in BOOLEAN /\ (telling => mailbox # <<>>)
  /\ local \in [Clients -> Rows \cup {NoRow}]
  /\ degraded \in [Clients -> BOOLEAN]
  /\ sync \in [Clients -> SyncPcs] /\ revision \in [Clients -> BOOLEAN]
  /\ snapshot \in [Clients -> Rows \cup {NoRow}]
  /\ result \in [Clients -> Rows \cup {NoRow, Failure, NoResult}]
  /\ chosen \in BOOLEAN /\ best \in Nat
  /\ remover \in Clients \cup {NoClient} /\ behind \in [Clients -> BOOLEAN]
  /\ spent \in Nat

\* Once a RemoveSession was executed no save of any age, from any client,
\* brings the task back while the daemon runs, in memory or in the database.
RemovedStaysRemoved == removed => row = NoRow /\ stored = NoRow

\* A task is archived exactly if the last executed SetSessionArchived said so,
\* whatever saves, catalogue loads and daemon restarts came in between.
ArchiveIsCommanded == row # NoRow => row.archived = chosen

\* While its runtime lives the daemon's row is never behind a projection it
\* was given: late saves of slower clients do not take events back, but for a save
\* without a cursor whose worker looked for runtimes before this one was there.
NewestProjectionKept == runtime = "live" /\ row # NoRow => row.seq >= best

\* Nothing that concerns client c's list is under way.
Settled(c) ==
  /\ ~telling /\ sync[c] = "wait" /\ ~revision[c] /\ result[c] = NoResult

\* Once the daemon and a client are at rest a removed task is gone from the
\* client's list, unless the client itself removed it, a load failed or the
\* client takes it for a draft: no order of saves, loads and broadcasts leaves
\* it there.
OthersDropRemoved ==
  \A c \in Clients :
    removed /\ c # remover /\ Settled(c) /\ ~behind[c] /\ local[c] # NoRow
      => ~has_started(local[c])

-----------------------------------------------------------------------------
(* What the repository says and the code does not do.                      *)

\* A save never erases a stored transcript.
HistoryKept ==
  [][stored # NoRow /\ stored.history => (stored' # NoRow /\ stored'.history) \/ removed']_vars
=============================================================================
