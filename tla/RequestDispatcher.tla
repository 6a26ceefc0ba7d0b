------------------------- MODULE RequestDispatcher -------------------------
(***************************************************************************)
(* How the daemon serves requests (server.rs).  The dispatcher puts a      *)
(* command that targets a task's runtime into the task's mailbox, which    *)
(* one worker thread empties in order and which retires with it; any other *)
(* command gets a thread of its own.  Both go through handle_request: a    *)
(* request whose outcome is cached is answered from the cache, any other   *)
(* is executed by the backend.  One task is modelled, with the commands    *)
(* that the dispatcher, the worker or the hub tell apart.                  *)
(***************************************************************************)
EXTENDS Naturals, Sequences, FiniteSets, Functions

CONSTANTS
  Requests,          \* request ids
  Runtimes,          \* runtime ids the requests name
  NoRuntime,         \* "no runtime"
  Commands,          \* the commands clients send, with the runtimes they name and
                     \* whether the id is nil, so that nobody waits for an answer
  CacheBound,        \* MAX_CACHED_RESPONSES
  Sends,             \* bound: times each request is sent
  MaxMailboxes,      \* bound: mailboxes created
  MaxPanics,         \* bound: worker threads that die in the backend
  MaxSpawnFailures   \* bound: worker threads that cannot be started

\* RuntimeKinds go through the mailbox: SetSessionArchived stands for the
\* commands of command_targets_runtime that succeed without a runtime.
RuntimeKinds ==
  {"Start", "CloseSession", "RemoveSession", "RewindSessionToMessage", "AttachSession",
   "Prompt", "SetSessionArchived"}
AllKinds == RuntimeKinds \cup {"SaveTaskState"}

ASSUME ConstantsAssumption ==
  /\ NoRuntime \notin Runtimes
  /\ Commands \subseteq [kind : AllKinds, rt : Runtimes, nil : BOOLEAN]
  /\ Sends \in [Requests -> Nat]
  /\ CacheBound \in Nat \ {0}
  /\ {MaxMailboxes, MaxPanics, MaxSpawnFailures} \subseteq Nat

VARIABLES
  command,     \* the command of each request
  pc,          \* where each copy of a request is
  outcome,     \* its outcome
  executed,    \* the backend ran it: HandledRequest.executed
  \* RequestDispatcher, guarded by the runtime_mailboxes lock.
  registered,  \* the task's mailbox in runtime_mailboxes
  created,     \* mailboxes created so far: their ids count up
  inbox,       \* channel of each mailbox
  \* run_runtime_mailbox, one worker a mailbox.
  worker,      \* where it is
  current,     \* what it serves
  active,      \* active_runtime_id
  \* The backend and the hub.
  running,     \* the task's runtime in WakuBackend.sessions
  hub,         \* the task's entry in active_runtimes
  cache,       \* Hub.responses
  \* History.
  runs,        \* times the backend ran a request
  forgotten,   \* requests whose outcome left the cache or never reached it
  ended,       \* the runtime that a rewind dropped since the last Start
  arrived,     \* runtime requests put into a mailbox
  number,      \* the number of each of them
  served,      \* number of the last one a worker took
  panics, failures

itemVars    == <<pc, outcome, executed>>
mailboxVars == <<registered, created, inbox>>
workerVars  == <<worker, current, active>>
orderVars   == <<arrived, number, served>>
faultVars   == <<panics, failures>>
vars == <<command, itemVars, mailboxVars, workerVars, running, hub, cache, runs, forgotten,
          ended, orderVars, faultVars>>

-----------------------------------------------------------------------------
(* Values.                                                                 *)

\* A request may be sent again: a copy is the request and which sending it is.
Items     == UNION {{q} \X (1..Sends[q]) : q \in Requests}
NoItem    == <<>>
Mailboxes == 1..MaxMailboxes
NoMailbox == 0

\* What the worker reads from an outcome: whether it is Ok, and the runtime of
\* a SessionRuntime payload.
Outcomes == [ok : BOOLEAN, rt : Runtimes \cup {NoRuntime}]
Ok       == [ok |-> TRUE, rt |-> NoRuntime]
Error    == [ok |-> FALSE, rt |-> NoRuntime]
Cached   == [req : Requests, outcome : Outcomes]

ItemPcs   == {"unsent", "refused", "queued", "lookup", "handle", "record", "answer",
              "supervise", "done", "lost"}
WorkerPcs == {"none", "recv", "busy", "retire", "gone", "dead"}

Kind(i) == command[i[1]].kind
Rt(i)   == command[i[1]].rt
Silent(i) == command[i[1]].nil
targets_runtime(i) == Kind(i) \in RuntimeKinds

\* The worker still owns the receiver of its mailbox.
Live(m) == worker[m] \in {"recv", "busy", "retire"}

-----------------------------------------------------------------------------
(* The hub.                                                                *)

Entries(q) == {k \in DOMAIN cache : cache[k].req = q}
IsCached(i) == ~Silent(i) /\ Entries(i[1]) # {}

\* cached_response: the newest entry.
cached_response(i) ==
  LET k == CHOOSE k \in Entries(i[1]) : \A l \in Entries(i[1]) : l <= k
  IN  cache[k].outcome

\* Mutant: nothing is evicted.
CacheEverything(i, o) ==
  /\ cache' = Append(cache, [req |-> i[1], outcome |-> o])
  /\ UNCHANGED forgotten

\* cache_response: bounded, the oldest entry leaves first.
cache_response(i, o) ==
  LET all == Append(cache, [req |-> i[1], outcome |-> o])
      new == IF Len(all) > CacheBound THEN Tail(all) ELSE all
      left == {q \in Requests : \A k \in DOMAIN new : new[k].req # q}
  IN  /\ cache' = new
      /\ forgotten' = forgotten \cup {q \in left : \E k \in DOMAIN all : all[k].req = q}

-----------------------------------------------------------------------------
(* The dispatcher: a connection's thread, under the runtime_mailboxes lock.*)

Sendable(i) ==
  /\ pc[i] = "unsent"
  /\ i[2] > 1 => ~Silent(i) /\ pc[<<i[1], i[2] - 1>>] # "unsent"

Number(i) ==
  /\ arrived' = arrived + 1
  /\ number' = [number EXCEPT ![i] = arrived + 1]

\* The task's mailbox has a worker: the request joins its channel.
Enqueue(i) ==
  /\ Sendable(i) /\ targets_runtime(i)
  /\ registered # NoMailbox /\ Live(registered)
  /\ inbox' = [inbox EXCEPT ![registered] = Append(@, i)]
  /\ pc' = [pc EXCEPT ![i] = "queued"]
  /\ Number(i)
  /\ UNCHANGED <<command, outcome, executed, registered, created, workerVars, running, ended, hub,
                 cache, runs, forgotten, served, faultVars>>

\* There is none, or its worker died: a new mailbox and a new worker.
Deserted == registered # NoMailbox => ~Live(registered)

CreateMailbox(i) ==
  /\ Sendable(i) /\ targets_runtime(i) /\ Deserted
  /\ created < MaxMailboxes
  /\ created' = created + 1
  /\ registered' = created'
  /\ inbox' = [inbox EXCEPT ![created'] = <<i>>]
  /\ worker' = [worker EXCEPT ![created'] = "recv"]
  /\ pc' = [pc EXCEPT ![i] = "queued"]
  /\ Number(i)
  /\ UNCHANGED <<command, outcome, executed, current, active, running, ended, hub, cache, runs,
                 forgotten, served, faultVars>>

\* A command that targets no runtime gets its own thread.
DispatchIndependent(i) ==
  /\ Sendable(i) /\ ~targets_runtime(i)
  /\ pc' = [pc EXCEPT ![i] = "lookup"]
  /\ UNCHANGED <<command, outcome, executed, mailboxVars, workerVars, running, ended, hub, cache,
                 runs, forgotten, orderVars, faultVars>>

\* The thread for either cannot be started; a mailbox made for it is removed
\* before anything else could join.
SpawnFails(i) ==
  /\ Sendable(i)
  /\ targets_runtime(i) => Deserted
  /\ failures < MaxSpawnFailures
  /\ failures' = failures + 1
  /\ registered' = IF targets_runtime(i) THEN NoMailbox ELSE registered
  /\ pc' = [pc EXCEPT ![i] = "refused"]
  /\ UNCHANGED <<command, outcome, executed, created, inbox, workerVars, running, ended, hub, cache,
                 runs, forgotten, orderVars, panics>>

send_dispatch_error(i) ==
  LET o == IF IsCached(i) THEN cached_response(i) ELSE Error IN
  /\ pc[i] = "refused"
  /\ pc' = [pc EXCEPT ![i] = "done"]
  /\ IF Silent(i) THEN UNCHANGED <<outcome, cache, forgotten>>
     ELSE outcome' = [outcome EXCEPT ![i] = o] /\ cache_response(i, o)
  /\ UNCHANGED <<command, executed, mailboxVars, workerVars, running, ended, hub, runs, orderVars,
                 faultVars>>

-----------------------------------------------------------------------------
(* handle_request.                                                         *)

\* Mutant: the cache is not asked.
LookupSkipsCache(i) ==
  /\ pc[i] = "lookup"
  /\ pc' = [pc EXCEPT ![i] = "handle"]
  /\ hub' = IF Kind(i) = "Start" THEN Rt(i) ELSE hub
  /\ UNCHANGED <<command, outcome, executed, mailboxVars, workerVars, running, ended, cache, runs,
                 forgotten, orderVars, faultVars>>

\* The cache is asked first; a Start that will run makes its runtime the one
\* whose events the hub forwards.
Lookup(i) ==
  /\ pc[i] = "lookup"
  /\ IF IsCached(i)
     THEN /\ pc' = [pc EXCEPT ![i] = "answer"]
          /\ outcome' = [outcome EXCEPT ![i] = cached_response(i)]
          /\ UNCHANGED hub
     ELSE /\ pc' = [pc EXCEPT ![i] = "handle"]
          /\ hub' = IF Kind(i) = "Start" THEN Rt(i) ELSE hub
          /\ UNCHANGED outcome
  /\ UNCHANGED <<command, executed, mailboxVars, workerVars, running, ended, cache, runs, forgotten,
                 orderVars, faultVars>>

\* Backend::handle.  Start drops the previous runtime first and may then fail;
\* CloseSession of a runtime that is not the task's succeeds and does nothing;
\* RemoveSession fails before it drops the runtime; RewindSessionToMessage drops
\* it, whichever runtime the request names, and may fail before or after that.
Effect(i, o) ==
  CASE Kind(i) = "Start" ->
         o \in {Ok, Error} /\ running' = IF o.ok THEN Rt(i) ELSE NoRuntime
    [] Kind(i) = "CloseSession" ->
         o = Ok /\ running' = IF running = Rt(i) THEN NoRuntime ELSE running
    [] Kind(i) = "RemoveSession" ->
         o \in {Ok, Error} /\ running' = IF o.ok THEN NoRuntime ELSE running
    [] Kind(i) = "RewindSessionToMessage" ->
         o \in {Ok, Error} /\ running' \in IF o.ok THEN {NoRuntime} ELSE {running, NoRuntime}
    [] Kind(i) = "AttachSession" ->
         o = [ok |-> TRUE, rt |-> running] /\ UNCHANGED running
    [] Kind(i) = "Prompt" ->
         o = (IF running = Rt(i) THEN Ok ELSE Error) /\ UNCHANGED running
    [] OTHER -> o \in {Ok, Error} /\ UNCHANGED running

\* What the history keeps of it.
Ended(i) ==
  IF Kind(i) = "Start" THEN NoRuntime
  ELSE IF Kind(i) = "RewindSessionToMessage" /\ running # NoRuntime /\ running' = NoRuntime
       THEN running ELSE ended

Handle(i) ==
  /\ pc[i] = "handle"
  /\ \E o \in Outcomes :
       /\ Effect(i, o)
       /\ outcome' = [outcome EXCEPT ![i] = o]
  /\ ended' = Ended(i)
  /\ executed' = [executed EXCEPT ![i] = TRUE]
  /\ runs' = [runs EXCEPT ![i[1]] = @ + 1]
  /\ pc' = [pc EXCEPT ![i] = "record"]
  /\ UNCHANGED <<command, mailboxVars, workerVars, hub, cache, forgotten, orderVars, faultVars>>

\* The outcome is cached, and a Start that failed gives the hub's entry back.
Record(i) ==
  /\ pc[i] = "record"
  /\ IF Silent(i) THEN UNCHANGED <<cache, forgotten>> ELSE cache_response(i, outcome[i])
  /\ hub' = IF Kind(i) = "Start" /\ ~outcome[i].ok /\ hub = Rt(i) THEN NoRuntime ELSE hub
  /\ pc' = [pc EXCEPT ![i] = "answer"]
  /\ UNCHANGED <<command, outcome, executed, mailboxVars, workerVars, running, ended, runs,
                 orderVars, faultVars>>

\* The response goes to the connection, unless the id is nil.
Answer(i) ==
  /\ pc[i] = "answer"
  /\ pc' = [pc EXCEPT ![i] = IF targets_runtime(i) THEN "supervise" ELSE "done"]
  /\ UNCHANGED <<command, outcome, executed, mailboxVars, workerVars, running, ended, hub, cache,
                 runs, forgotten, orderVars, faultVars>>

-----------------------------------------------------------------------------
(* run_runtime_mailbox.                                                    *)

\* The worker begins the request at the head of its channel.
Begin(m) ==
  /\ current' = [current EXCEPT ![m] = Head(inbox[m])]
  /\ inbox' = [inbox EXCEPT ![m] = Tail(@)]
  /\ worker' = [worker EXCEPT ![m] = "busy"]
  /\ pc' = [pc EXCEPT ![Head(inbox[m])] = "lookup"]
  /\ served' = number[Head(inbox[m])]

Receive(m) ==
  /\ worker[m] = "recv" /\ inbox[m] # <<>>
  /\ Begin(m)
  /\ UNCHANGED <<command, outcome, executed, registered, created, active, running, ended, hub,
                 cache, runs, forgotten, arrived, number, faultVars>>

\* active_runtime_id after a request was handled.
NextActive(i, a) ==
  LET o == outcome[i] IN
  IF ~executed[i] THEN a
  ELSE IF Kind(i) = "Start" THEN (IF o.ok THEN Rt(i) ELSE NoRuntime)
  ELSE IF o.ok /\ o.rt # NoRuntime THEN o.rt
  ELSE IF Kind(i) \in {"CloseSession", "RemoveSession"}
       THEN (IF o.ok /\ (Kind(i) = "RemoveSession" \/ a = Rt(i)) THEN NoRuntime ELSE a)
  ELSE IF a = NoRuntime /\ Kind(i) # "AttachSession" /\ o.ok THEN Rt(i) ELSE a

\* Mutant: any close ends the hub's runtime.
EndAnyRuntime(i, a) ==
  IF executed[i] /\ outcome[i].ok /\ Kind(i) \in {"CloseSession", "RemoveSession"}
  THEN NoRuntime ELSE hub

\* end_runtime of a command that closed the supervised runtime.
EndRuntime(i, a) ==
  IF executed[i] /\ outcome[i].ok
     /\ (Kind(i) = "RemoveSession" \/ (Kind(i) = "CloseSession" /\ a = Rt(i) /\ hub = Rt(i)))
  THEN NoRuntime ELSE hub

Supervise(m) ==
  LET i == current[m] IN
  /\ worker[m] = "busy" /\ pc[i] = "supervise"
  /\ active' = [active EXCEPT ![m] = NextActive(i, @)]
  /\ hub' = EndRuntime(i, active[m])
  /\ worker' = [worker EXCEPT ![m] = IF active'[m] = NoRuntime THEN "retire" ELSE "recv"]
  /\ pc' = [pc EXCEPT ![i] = "done"]
  /\ UNCHANGED <<command, outcome, executed, mailboxVars, current, running, ended, cache, runs,
                 forgotten, orderVars, faultVars>>

\* Mutant: the mailbox is removed without a last look into its channel.
RetireBlind(m) ==
  /\ worker[m] = "retire"
  /\ worker' = [worker EXCEPT ![m] = "gone"]
  /\ registered' = IF registered = m THEN NoMailbox ELSE registered
  /\ UNCHANGED <<command, itemVars, created, inbox, current, active, running, ended, hub, cache,
                 runs, forgotten, orderVars, faultVars>>

\* Mutant: the last look takes the newest request.
RetireNewest(m) ==
  LET i == inbox[m][Len(inbox[m])] IN
  /\ worker[m] = "retire"
  /\ \/ /\ inbox[m] # <<>>
        /\ current' = [current EXCEPT ![m] = i]
        /\ inbox' = [inbox EXCEPT ![m] = SubSeq(@, 1, Len(@) - 1)]
        /\ worker' = [worker EXCEPT ![m] = "busy"]
        /\ pc' = [pc EXCEPT ![i] = "lookup"]
        /\ served' = number[i]
        /\ UNCHANGED registered
     \/ /\ inbox[m] = <<>>
        /\ worker' = [worker EXCEPT ![m] = "gone"]
        /\ registered' = IF registered = m THEN NoMailbox ELSE registered
        /\ UNCHANGED <<current, inbox, pc, served>>
  /\ UNCHANGED <<command, outcome, executed, created, active, running, ended, hub, cache, runs,
                 forgotten, arrived, number, faultVars>>

\* take_queued_request_or_retire: under the lock dispatchers send with.
Retire(m) ==
  /\ worker[m] = "retire"
  /\ \/ inbox[m] # <<>> /\ Begin(m) /\ UNCHANGED registered
     \/ /\ inbox[m] = <<>>
        /\ worker' = [worker EXCEPT ![m] = "gone"]
        /\ registered' = IF registered = m THEN NoMailbox ELSE registered
        /\ UNCHANGED <<current, inbox, pc, served>>
  /\ UNCHANGED <<command, outcome, executed, created, active, running, ended, hub, cache, runs,
                 forgotten, arrived, number, faultVars>>

-----------------------------------------------------------------------------
(* A thread dies in Backend::handle.                                       *)

\* What the backend may have done before: a Start has dropped the previous
\* runtime, a close or a rewind may have.
AfterPanic(i) ==
  CASE Kind(i) = "Start" -> {NoRuntime}
    [] Kind(i) = "CloseSession" -> {running, IF running = Rt(i) THEN NoRuntime ELSE running}
    [] Kind(i) \in {"RemoveSession", "RewindSessionToMessage"} -> {running, NoRuntime}
    [] OTHER -> {running}

Dying(i) ==
  /\ pc[i] = "handle"
  /\ panics < MaxPanics
  /\ panics' = panics + 1
  /\ running' \in AfterPanic(i) /\ UNCHANGED ended
  /\ runs' = [runs EXCEPT ![i[1]] = @ + 1]
  /\ forgotten' = forgotten \cup {i[1]}

\* The mailbox's channel dies with its worker, and what waits in it is lost.
WorkerPanics(m) ==
  LET i == current[m] IN
  /\ worker[m] = "busy"
  /\ Dying(i)
  /\ worker' = [worker EXCEPT ![m] = "dead"]
  /\ inbox' = [inbox EXCEPT ![m] = <<>>]
  /\ pc' = [j \in Items |-> IF j = i \/ j \in Range(inbox[m]) THEN "lost" ELSE pc[j]]
  /\ UNCHANGED <<command, outcome, executed, registered, created, current, active, hub, cache,
                 orderVars, failures>>

IndependentPanics(i) ==
  /\ ~targets_runtime(i)
  /\ Dying(i)
  /\ pc' = [pc EXCEPT ![i] = "lost"]
  /\ UNCHANGED <<command, outcome, executed, mailboxVars, workerVars, hub, cache, orderVars,
                 failures>>

-----------------------------------------------------------------------------
Init ==
  /\ command \in [Requests -> Commands]
  /\ pc = [i \in Items |-> "unsent"]
  /\ outcome = [i \in Items |-> Ok]
  /\ executed = [i \in Items |-> FALSE]
  /\ registered = NoMailbox
  /\ created = 0
  /\ inbox = [m \in Mailboxes |-> <<>>]
  /\ worker = [m \in Mailboxes |-> "none"]
  /\ current = [m \in Mailboxes |-> NoItem]
  /\ active = [m \in Mailboxes |-> NoRuntime]
  /\ running = NoRuntime
  /\ hub = NoRuntime
  /\ ended = NoRuntime
  /\ cache = <<>>
  /\ runs = [q \in Requests |-> 0]
  /\ forgotten = {}
  /\ arrived = 0
  /\ number = [i \in Items |-> 0]
  /\ served = 0
  /\ panics = 0
  /\ failures = 0

dispatch(i) == Enqueue(i) \/ CreateMailbox(i) \/ DispatchIndependent(i) \/ SpawnFails(i)
handle_request(i) == Lookup(i) \/ Handle(i) \/ Record(i) \/ Answer(i)
run_runtime_mailbox(m) == Receive(m) \/ Supervise(m) \/ Retire(m)

Next ==
  \/ \E i \in Items :
       dispatch(i) \/ send_dispatch_error(i) \/ handle_request(i) \/ IndependentPanics(i)
  \/ \E m \in Mailboxes : run_runtime_mailbox(m) \/ WorkerPanics(m)

Spec == Init /\ [][Next]_vars

\* Threads that can run do; clients send when they like.
Fairness ==
  /\ \A i \in Items : WF_vars(send_dispatch_error(i)) /\ WF_vars(handle_request(i))
  /\ \A m \in Mailboxes : WF_vars(run_runtime_mailbox(m))

LiveSpec == Spec /\ Fairness

-----------------------------------------------------------------------------
(* Properties.                                                             *)

TypeOK ==
  /\ command \in [Requests -> Commands]
  /\ pc \in [Items -> ItemPcs]
  /\ outcome \in [Items -> Outcomes]
  /\ executed \in [Items -> BOOLEAN]
  /\ registered \in Mailboxes \cup {NoMailbox}
  /\ created \in 0..MaxMailboxes
  /\ inbox \in [Mailboxes -> Seq(Items)]
  /\ worker \in [Mailboxes -> WorkerPcs]
  /\ current \in [Mailboxes -> Items \cup {NoItem}]
  /\ active \in [Mailboxes -> Runtimes \cup {NoRuntime}]
  /\ running \in Runtimes \cup {NoRuntime}
  /\ hub \in Runtimes \cup {NoRuntime}
  /\ ended \in Runtimes \cup {NoRuntime}
  /\ cache \in Seq(Cached) /\ Len(cache) <= CacheBound
  /\ runs \in [Requests -> Nat]
  /\ forgotten \subseteq Requests
  /\ arrived \in Nat /\ number \in [Items -> Nat] /\ served \in Nat
  /\ panics \in Nat /\ failures \in Nat

Busy == \E m \in Mailboxes : worker[m] = "busy"

\* A request that waits in a mailbox waits for a worker that will look again,
\* and that worker's mailbox is the one later requests join: there is no
\* moment between the last look and the removal in which one is left behind.
NoneLeftBehind ==
  \A m \in Mailboxes :
    /\ inbox[m] # <<>> => Live(m)
    /\ Live(m) => registered = m

\* A request that is sent again runs again only when its first outcome never
\* reached the cache or has left it (runtime commands, which the mailbox puts
\* in order).
RetriedOnce ==
  \A q \in Requests :
    runs[q] > 1 /\ command[q].kind \in RuntimeKinds => q \in forgotten

\* Between requests the hub forwards the events of the runtime that the backend
\* runs.  Where it runs none the hub forwards none, or those of a runtime that a
\* rewind dropped, for a rewind closes no runtime of the hub, and no other, as
\* long as no worker died.
HubFollowsBackend ==
  ~Busy => /\ running # NoRuntime => hub = running
           /\ panics = 0 => hub = running \/ (running = NoRuntime /\ hub = ended)

\* The requests of a task are served one at a time, in the order they came.
Order == INSTANCE RequestOrder WITH busy <- Busy, Lossy <- MaxPanics > 0
ServedInOrder == Order!Spec

\* Every request that was sent is answered, or its thread died.
RequestAnswered ==
  \A i \in Items : pc[i] \notin {"unsent", "done", "lost"} ~> pc[i] \in {"done", "lost"}
=============================================================================
