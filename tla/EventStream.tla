---------------------------- MODULE EventStream ----------------------------
(***************************************************************************)
(* The event stream of one task, from the daemon's hub to the session      *)
(* adapters of one desktop: Hub (server.rs) numbers, journals and          *)
(* broadcasts the events of the active runtime; a connection thread writes *)
(* a bounded queue to a socket; the client thread (client.rs) drops what   *)
(* its cursor covers and hands the rest to the adapter of the runtime, or  *)
(* buffers it until that adapter subscribes; the supervisor (process.rs)   *)
(* replaces a dead client by one that resumes from its cursors; and each   *)
(* adapter (src/driver/mod.rs) follows its runtime across the replacement. *)
(*                                                                         *)
(* begin_runtime and end_runtime forget the numbering and the journal of   *)
(* every runtime of the task, so one counter and one journal, both of the  *)
(* active runtime, stand for the maps keyed by runtime.                     *)
(***************************************************************************)
EXTENDS Naturals, Sequences, Functions

CONSTANTS
  Runtimes,       \* runtime ids a client draws for Start, each drawn once
  NoRuntime,      \* "no runtime"
  JournalBound,   \* MAX_REPLAY_EVENTS_PER_SESSION
  QueueBound,     \* MAX_QUEUED_MESSAGES_PER_SUBSCRIBER
  PendingBound,   \* MAX_BUFFERED_EVENTS_PER_RUNTIME
  OtherReplay,    \* how many events of other tasks a replay may hold
  MaxEvents,      \* bound: events the runtimes send between them
  MaxClients,     \* bound: clients the supervisor ever connects
  MaxRestarts     \* bound: daemon restarts

ASSUME ConstantsAssumption ==
  /\ NoRuntime \notin Runtimes
  /\ {JournalBound, QueueBound, PendingBound, MaxClients} \subseteq Nat \ {0}
  /\ {OtherReplay, MaxEvents, MaxRestarts} \subseteq Nat

VARIABLES
  \* Hub, guarded by its lock.
  epoch,      \* Hub.epoch, drawn anew by each daemon process
  active,     \* active_runtimes of the task
  next,       \* next_sequences of the active runtime
  journal,    \* journal of the active runtime
  registered, \* the current connection's subscriber is in the hub
  \* The current connection.
  open,       \* the daemon's end of the socket is open
  out,        \* the subscriber's bounded message queue
  wire,       \* written to the socket, not read by the client
  \* The supervisor's client.
  client,     \* its number: replacements count up
  up,         \* its thread still runs
  cursor,     \* last_sequences, carried over to a replacement
  pending,    \* pending_events of every client so far
  \* Session adapters, one per runtime.
  pc,         \* where the adapter is
  on,         \* the client it uses
  inbox,      \* its event channel
  fed,        \* the channel still has a sender in that client
  \* History.
  sent,       \* events each runtime handed to emit while active
  forwarded   \* events each adapter passed to the session

hubVars     == <<epoch, active, next, journal, registered>>
socketVars  == <<open, out, wire>>
clientVars  == <<client, up, cursor, pending>>
adapterVars == <<pc, on, inbox, fed>>
histVars    == <<sent, forwarded>>
vars == <<hubVars, socketVars, clientVars, adapterVars, histVars>>

Clients == 1..MaxClients
Event == [rt : Runtimes, epoch : Nat, seq : Nat, exit : BOOLEAN]
AdapterPcs ==
  {"none", "subscribe", "stream", "wait", "attach", "done"}
NoCursor == [epoch |-> 0, seq |-> 0]

\* An event of another task, which shares the connection.
OtherEvent == [rt |-> NoRuntime, epoch |-> 0, seq |-> 0, exit |-> FALSE]

\* last_sequences says the client has already accepted the event.
Covers(cursors, e) == cursors[e.rt].epoch = e.epoch /\ e.seq <= cursors[e.rt].seq

-----------------------------------------------------------------------------
(* The hub.                                                                *)

\* Start of a runtime nobody used before.
begin_runtime(r) ==
  /\ sent[r] = 0 /\ pc[r] = "none" /\ active # r
  /\ active' = r
  /\ next' = 0
  /\ journal' = <<>>
  /\ UNCHANGED <<epoch, registered, socketVars, clientVars, adapterVars, histVars>>

\* A failed Start, CloseSession or RemoveSession.
end_runtime(r) ==
  /\ active = r
  /\ active' = NoRuntime
  /\ next' = 0
  /\ journal' = <<>>
  /\ UNCHANGED <<epoch, registered, socketVars, clientVars, adapterVars, histVars>>

\* A subscriber whose queue is full is dropped from the hub, and kicked.
broadcast(e) ==
  IF registered /\ Len(out) < QueueBound
  THEN out' = Append(out, e) /\ UNCHANGED registered
  ELSE registered' = FALSE /\ UNCHANGED out

\* Mutant: push_back alone.
Unbounded(s, bound) == s

\* After a push_back, pop_front while over the bound.
Bounded(s, bound) == SubSeq(s, 1 + (IF Len(s) > bound THEN Len(s) - bound ELSE 0), Len(s))

\* Events of a runtime that is not the active one are dropped on entry.
emit(r, exit) ==
  /\ active = r
  /\ FoldFunction(+, 0, sent) < MaxEvents
  /\ next' = next + 1
  /\ LET e == [rt |-> r, epoch |-> epoch, seq |-> next + 1, exit |-> exit]
     IN  journal' = Bounded(Append(journal, e), JournalBound) /\ broadcast(e)
  /\ sent' = [sent EXCEPT ![r] = @ + 1]
  /\ UNCHANGED <<epoch, active, open, wire, clientVars, adapterVars, forwarded>>

Cut(s) == SubSeq(s, 1, IF Len(s) < QueueBound THEN Len(s) ELSE QueueBound)
Others(n) == [i \in 1..n |-> OtherEvent]

\* The elements of s at the positions in K, in their order.
Kept(s, K) ==
  LET F[k \in 0..Len(s)] ==
        IF k = 0 THEN <<>>
        ELSE IF k \in K THEN Append(F[k - 1], s[k]) ELSE F[k - 1]
  IN  F[Len(s)]

\* The positions of the journal that the resuming client lacks.
Missing(cursors) == {i \in DOMAIN journal : ~Covers(cursors, journal[i])}

\* Mutant: the resuming client is taken to have the event after its cursor.
ReplaySkipsOne(cursors, n) ==
  Cut(Others(n) \o Kept(journal,
        {i \in Missing(cursors) : journal[i].seq # cursors[journal[i].rt].seq + 1}))

\* The subscriber's queue after the replay: the events of n others, then this
\* task's journal beyond the client's cursor, cut off where the queue is full.
Replay(cursors, n) == Cut(Others(n) \o Kept(journal, Missing(cursors)))

\* The daemon process dies and a new one listens: a new hub, a new epoch, and
\* no provider runtime survives.
Restart ==
  /\ epoch <= MaxRestarts
  /\ epoch' = epoch + 1
  /\ active' = NoRuntime /\ next' = 0 /\ journal' = <<>>
  /\ registered' = FALSE /\ open' = FALSE /\ out' = <<>>
  /\ UNCHANGED <<wire, clientVars, adapterVars, histVars>>

-----------------------------------------------------------------------------
(* The connection thread.                                                  *)

\* It drains its queue to the socket, kicked or not ...
ConnectionWrite ==
  /\ open /\ out # <<>>
  /\ wire' = Append(wire, Head(out))
  /\ out' = Tail(out)
  /\ UNCHANGED <<hubVars, open, clientVars, adapterVars, histVars>>

\* ... and closes when it sees the kick, with what is queued unsent.
ConnectionKicked ==
  /\ open /\ ~registered
  /\ open' = FALSE /\ out' = <<>>
  /\ UNCHANGED <<hubVars, wire, clientVars, adapterVars, histVars>>

-----------------------------------------------------------------------------
(* The client thread.                                                      *)

Subscribed(r) == fed[r] /\ on[r] = client

Buffer(e) ==
  /\ pending' = [pending EXCEPT ![client][e.rt] = Bounded(Append(@, e), PendingBound)]
  /\ UNCHANGED inbox

\* Mutant: every event is buffered, subscribed to or not.
DeliverLater(e) == Buffer(e)

\* To the runtime's subscription, or to the buffer while it has none.
Deliver(e) ==
  IF Subscribed(e.rt)
  THEN inbox' = [inbox EXCEPT ![e.rt] = Append(@, e)] /\ UNCHANGED pending
  ELSE Buffer(e)

\* Mutant: a buffered event does not move the cursor.
AcceptLazily(e) ==
  cursor' = IF Subscribed(e.rt)
            THEN [cursor EXCEPT ![e.rt] = [epoch |-> e.epoch, seq |-> e.seq]]
            ELSE cursor

\* Accepting an event moves the cursor, whether or not an adapter takes it.
Accept(e) == cursor' = [cursor EXCEPT ![e.rt] = [epoch |-> e.epoch, seq |-> e.seq]]

ClientRead ==
  /\ up /\ wire # <<>>
  /\ wire' = Tail(wire)
  /\ LET e == Head(wire)
     IN  IF e = OtherEvent \/ Covers(cursor, e)
         THEN UNCHANGED <<cursor, inbox, pending>>
         ELSE Accept(e) /\ Deliver(e)
  /\ UNCHANGED <<hubVars, open, out, client, up, pc, on, fed, histVars>>

\* run_client ends: every subscription's sender is dropped.
DropSubscriptions == fed' = [r \in Runtimes |-> fed[r] /\ on[r] # client]

\* The daemon closed the socket and everything written before was read.
ClientClosed ==
  /\ up /\ ~open /\ wire = <<>>
  /\ up' = FALSE
  /\ DropSubscriptions
  /\ UNCHANGED <<hubVars, socketVars, client, cursor, pending, pc, on, inbox, histVars>>

\* The network goes: what is in the socket or queued for it is lost.
ConnectionLost ==
  /\ up
  /\ up' = FALSE
  /\ DropSubscriptions
  /\ registered' = FALSE /\ open' = FALSE /\ out' = <<>> /\ wire' = <<>>
  /\ UNCHANGED <<epoch, active, next, journal, client, cursor, pending, pc, on, inbox,
                 histVars>>

\* monitor_daemon: a new connection resumes from the dead client's cursors,
\* which the new client starts with, and is published to every adapter.
Reconnect(others) ==
  /\ ~up /\ client < MaxClients
  /\ client' = client + 1
  /\ up' = TRUE
  /\ registered' = TRUE /\ open' = TRUE /\ wire' = <<>>
  /\ out' = Replay(cursor, others)
  /\ UNCHANGED <<epoch, active, next, journal, cursor, pending, adapterVars, histVars>>

-----------------------------------------------------------------------------
(* A session adapter.                                                      *)

\* The answer to Start, or to the AttachSession of a task found in the
\* catalogue, is in; the adapter's thread is being spawned.
connect_remote(r) ==
  /\ pc[r] = "none" /\ active = r /\ up
  /\ pc' = [pc EXCEPT ![r] = "subscribe"]
  /\ on' = [on EXCEPT ![r] = client]
  /\ UNCHANGED <<hubVars, socketVars, clientVars, inbox, fed, histVars>>

\* DaemonClient::subscribe registers a new channel and drains the buffer into
\* it, whether or not that client's thread is still there to feed it.
subscribe(r) ==
  /\ pc[r] = "subscribe"
  /\ pc' = [pc EXCEPT ![r] = "stream"]
  /\ fed' = [fed EXCEPT ![r] = TRUE]
  /\ inbox' = [inbox EXCEPT ![r] = pending[on[r]][r]]
  /\ pending' = [pending EXCEPT ![on[r]][r] = <<>>]
  /\ UNCHANGED <<hubVars, socketVars, client, up, cursor, on, histVars>>

\* An event goes to the session; a ProcessExited is the last one.
Forward(r) ==
  /\ pc[r] = "stream" /\ inbox[r] # <<>>
  /\ LET e == Head(inbox[r]) IN
       /\ forwarded' = [forwarded EXCEPT ![r] = Append(@, e.seq)]
       /\ IF e.exit
          THEN /\ pc' = [pc EXCEPT ![r] = "done"]
               /\ fed' = [fed EXCEPT ![r] = FALSE]
               /\ inbox' = [inbox EXCEPT ![r] = <<>>]
          ELSE /\ inbox' = [inbox EXCEPT ![r] = Tail(@)]
               /\ UNCHANGED <<pc, fed>>
  /\ UNCHANGED <<hubVars, socketVars, clientVars, on, sent>>

\* The channel is empty and its sender gone: wait for a replacement client.
Disconnected(r) ==
  /\ pc[r] = "stream" /\ inbox[r] = <<>> /\ ~fed[r]
  /\ pc' = [pc EXCEPT ![r] = "wait"]
  /\ UNCHANGED <<hubVars, socketVars, clientVars, on, inbox, fed, histVars>>

\* Take the next published client and send AttachSession through it, which
\* fails at once when that client is already dead.
TakeReplacement(r) ==
  /\ pc[r] = "wait" /\ on[r] < client
  /\ on' = [on EXCEPT ![r] = @ + 1]
  /\ pc' = [pc EXCEPT ![r] = IF on[r] + 1 = client /\ up THEN "attach" ELSE "wait"]
  /\ UNCHANGED <<hubVars, socketVars, clientVars, inbox, fed, histVars>>

\* The daemon answers: this runtime survived, or it did not.
Attached(r) ==
  /\ pc[r] = "attach" /\ on[r] = client /\ up /\ open
  /\ pc' = [pc EXCEPT ![r] = IF active = r THEN "subscribe" ELSE "done"]
  /\ UNCHANGED <<hubVars, socketVars, clientVars, on, inbox, fed, histVars>>

\* The connection goes before the answer comes.
AttachFailed(r) ==
  /\ pc[r] = "attach" /\ (on[r] # client \/ ~up)
  /\ pc' = [pc EXCEPT ![r] = "wait"]
  /\ UNCHANGED <<hubVars, socketVars, clientVars, on, inbox, fed, histVars>>

\* The session drops its driver handle; the thread sees it in its select.
Shutdown(r) ==
  /\ pc[r] \in {"stream", "wait"}
  /\ pc' = [pc EXCEPT ![r] = "done"]
  /\ fed' = [fed EXCEPT ![r] = FALSE]
  /\ inbox' = [inbox EXCEPT ![r] = <<>>]
  /\ UNCHANGED <<hubVars, socketVars, clientVars, on, histVars>>

-----------------------------------------------------------------------------
Init ==
  /\ epoch = 1 /\ active = NoRuntime /\ next = 0 /\ journal = <<>>
  /\ registered = TRUE /\ open = TRUE /\ out = <<>> /\ wire = <<>>
  /\ client = 1 /\ up = TRUE
  /\ cursor = [r \in Runtimes |-> NoCursor]
  /\ pending = [c \in Clients |-> [r \in Runtimes |-> <<>>]]
  /\ pc = [r \in Runtimes |-> "none"]
  /\ on = [r \in Runtimes |-> 1]
  /\ inbox = [r \in Runtimes |-> <<>>]
  /\ fed = [r \in Runtimes |-> FALSE]
  /\ sent = [r \in Runtimes |-> 0]
  /\ forwarded = [r \in Runtimes |-> <<>>]

Adapter(r) ==
  \/ subscribe(r) \/ Forward(r) \/ Disconnected(r)
  \/ TakeReplacement(r) \/ Attached(r) \/ AttachFailed(r)

Next ==
  \/ \E r \in Runtimes :
       \/ begin_runtime(r) \/ end_runtime(r)
       \/ \E exit \in BOOLEAN : emit(r, exit)
       \/ connect_remote(r) \/ Adapter(r) \/ Shutdown(r)
  \/ ConnectionWrite \/ ConnectionKicked
  \/ ClientRead \/ ClientClosed \/ ConnectionLost
  \/ \E others \in 0..OtherReplay : Reconnect(others)
  \/ Restart

Spec == Init /\ [][Next]_vars

\* Threads are scheduled and the supervisor retries; runtimes, the network
\* and the user are free.
Fairness ==
  /\ WF_vars(ConnectionWrite) /\ WF_vars(ConnectionKicked)
  /\ WF_vars(ClientRead) /\ WF_vars(ClientClosed)
  /\ WF_vars(\E others \in 0..OtherReplay : Reconnect(others))
  /\ \A r \in Runtimes : WF_vars(Adapter(r))

LiveSpec == Spec /\ Fairness

-----------------------------------------------------------------------------
(* Properties.                                                             *)

HubType ==
  /\ epoch \in Nat /\ next \in Nat
  /\ active \in Runtimes \cup {NoRuntime}
  /\ journal \in Seq(Event) /\ Len(journal) <= JournalBound
  /\ registered \in BOOLEAN
SocketType ==
  /\ open \in BOOLEAN
  /\ out \in Seq(Event \cup {OtherEvent}) /\ Len(out) <= QueueBound
  /\ wire \in Seq(Event \cup {OtherEvent})
ClientType ==
  /\ client \in Clients /\ up \in BOOLEAN
  /\ cursor \in [Runtimes -> [epoch : Nat, seq : Nat]]
  /\ pending \in [Clients -> [Runtimes -> Seq(Event)]]
  /\ \A c \in Clients, r \in Runtimes : Len(pending[c][r]) <= PendingBound
AdapterType ==
  /\ pc \in [Runtimes -> AdapterPcs]
  /\ on \in [Runtimes -> Clients]
  /\ inbox \in [Runtimes -> Seq(Event)]
  /\ fed \in [Runtimes -> BOOLEAN]
HistType ==
  /\ sent \in [Runtimes -> Nat]
  /\ forwarded \in [Runtimes -> Seq(Nat)]

\* Every variable has its type, and the three buffers keep their bounds.
TypeOK == HubType /\ SocketType /\ ClientType /\ AdapterType /\ HistType

\* Through kicks, lost connections, replays and replacement clients, an adapter
\* forwards each event at most once and in the order they were emitted.
Log == INSTANCE EventLog WITH got <- forwarded
ImplementsEventLog == Log!Spec

\* A subscriber of the hub lacks nothing that the hub could still give: every
\* journal event the client has not accepted is on its way.
InFlight == Range(wire) \cup Range(out)
ReplayComplete ==
  registered => \A e \in Range(journal) : Covers(cursor, e) \/ e \in InFlight

\* An event on its way to an adapter that streams from the current client is
\* forwarded, unless the connection or the adapter ends first.
Streaming(r) == pc[r] = "stream" /\ Subscribed(r) /\ up
EventsArrive ==
  \A r \in Runtimes, n \in 1..MaxEvents :
    (Streaming(r) /\ \E e \in InFlight : e.rt = r /\ e.seq = n)
      ~> (n \in Range(forwarded[r]) \/ ~up \/ pc[r] = "done")
=============================================================================
