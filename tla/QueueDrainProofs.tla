-------------------------- MODULE QueueDrainProofs --------------------------
(***************************************************************************)
(* What QueueDrain guarantees for every set of runtimes, entries and       *)
(* clients and every value of the bounds.                                  *)
(***************************************************************************)
EXTENDS QueueDrain, FollowUpQueueProofs

(***************************************************************************)
(* Every reachable state is of the right type.                             *)
(***************************************************************************)
LEMMA TypeInit == Init => TypeOK
<1>1. ASSUME Init PROVE TypeOK
  <2>1. <<>> \in Seq(Entries) /\ UniqueIds(<<>>) /\ <<>> \in Seq(DrainRequest)
    BY DEF UniqueIds
  <2>2. /\ channel \in [Runtimes -> Seq(Events)]
        /\ cmds \in [Runtimes -> Seq(Commands)]
        /\ view \in [Clients -> Seq(Entries)]
        /\ \A c \in Clients : UniqueIds(view[c])
    BY <1>1, <2>1 DEF Init
  <2>3. /\ threadPc \in [Runtimes -> ThreadPcs] /\ threadEv \in [Runtimes -> Events]
        /\ writer \in [Runtimes -> BOOLEAN] /\ turn \in [Runtimes -> BOOLEAN]
        /\ parked \in [Runtimes -> BOOLEAN] /\ proc \in [Runtimes -> ProcStates]
        /\ settling \in [Runtimes -> Finishes \cup {"no"}]
        /\ queued \in [Entries -> Nat] /\ handed \in [Entries -> Nat]
    BY <1>1 DEF Init, ThreadPcs, Events, ProcStates
  <2>4. prompts \in 0..MaxPrompts /\ wakes \in 0..MaxWakes /\ crashes \in 0..MaxCrashes
    BY <1>1, ConstantsAssumption DEF Init
  <2>5. liveState \in LiveStates /\ detail \in Details /\ onDisk \in BOOLEAN
    BY <1>1 DEF Init, LiveStates, Details
  <2> QED
    BY <1>1, <2>1, <2>2, <2>3, <2>4, <2>5 DEF Init, TypeOK
<1> QED
  BY <1>1

\* StateStore::save writes the queue it is given, deletes the row or does nothing.
LEMMA FlushTypes ==
  ASSUME NEW q \in Queue, NEW isDirty \in BOOLEAN, NEW d, NEW ok \in BOOLEAN,
         stored \in Queue, onDisk \in BOOLEAN, Flush(q, isDirty, d, ok)
  PROVE  stored' \in Queue /\ dirty' \in BOOLEAN /\ onDisk' \in BOOLEAN
<1>1. <<>> \in Queue
  BY DEF Queue, UniqueIds
<1> QED
  BY <1>1 DEF Flush

LEMMA CountTypes ==
  ASSUME NEW q, NEW next, queued \in [Entries -> Nat], CountEntering(q, next)
  PROVE  queued' \in [Entries -> Nat]
BY DEF CountEntering

\* Clients and independent requests.
LEMMA TypeRequests ==
  ASSUME TypeOK,
         \/ \E c \in Clients : ClientNext(c)
         \/ \E trim \in BOOLEAN : HydrateSession(trim)
         \/ \E ok, trim \in BOOLEAN : OtherTaskServed(ok, trim)
  PROVE  TypeOK'
<1> USE DEF TypeOK, rowVars, daemonVars, threadVars, driverVars, histVars
<1>0. queue \in Queue /\ stored \in Queue /\ \A c \in Clients : view[c] \in Queue
  BY DEF Queue
<1>1. ASSUME NEW c \in Clients, NEW e \in Entries, ClientQueue(c, e) PROVE TypeOK'
  <2>1. Append(view[c], e) \in Seq(Entries) /\ UniqueIds(Append(view[c], e))
    BY <1>0, <1>1, AppendIsQueue DEF ClientQueue
  <2> QED
    BY <1>1, <2>1 DEF ClientQueue
<1>2. ASSUME NEW c \in Clients, NEW e \in Entries, ClientObserves(c, e) PROVE TypeOK'
  <2>1. Without(view[c], e) \in Seq(Entries) /\ UniqueIds(Without(view[c], e))
    BY <1>0, WithoutIsQueue
  <2> QED
    BY <1>2, <2>1 DEF ClientObserves
<1>3. ASSUME NEW c \in Clients, ClientReload(c) PROVE TypeOK'
  BY <1>3 DEF ClientReload
<1>4. ASSUME NEW c \in Clients, NEW saved \in Details,
             NEW ok \in BOOLEAN, NEW trim \in BOOLEAN,
             SaveTaskState(c, saved, ok, trim)
      PROVE  TypeOK'
  <2>1. PICK merged \in Merges(queue, view[c]) :
          /\ queue' = merged
          /\ CountEntering(queue, merged)
          /\ Flush(merged, TRUE, saved, ok)
    BY <1>4 DEF SaveTaskState
  <2>2. merged \in Queue
    BY <1>0, MergesIsQueue DEF Queue
  <2>3. stored' \in Queue /\ dirty' \in BOOLEAN /\ onDisk' \in BOOLEAN
    BY <1>0, <2>1, <2>2, FlushTypes
  <2>4. queued' \in [Entries -> Nat]
    BY <2>1, CountTypes
  <2>5. liveState' \in LiveStates /\ detail' \in Details
    BY <1>4, ConstantsAssumption DEF SaveTaskState, Details
  <2>6. queue' \in Queue
    BY <2>1, <2>2
  <2>7. UNCHANGED <<daemonVars, threadVars, driverVars, view, handed,
                    prompts, wakes, crashes>>
    BY <1>4 DEF SaveTaskState
  <2> QED
    BY <2>3, <2>4, <2>5, <2>6, <2>7 DEF Queue
<1>5. ASSUME NEW c \in Clients, NEW e \in Entries, NEW ok \in BOOLEAN,
             RemoveQueuedMessage(c, e, ok)
      PROVE  TypeOK'
  <2>1. /\ Without(view[c], e) \in Seq(Entries) /\ UniqueIds(Without(view[c], e))
        /\ Without(queue, e) \in Queue
    BY <1>0, WithoutIsQueue DEF Queue
  <2>2. stored' \in Queue /\ dirty' \in BOOLEAN /\ onDisk' \in BOOLEAN
    <3>1. CASE e \in Range(queue)
      BY <1>0, <1>5, <2>1, <3>1, FlushTypes DEF RemoveQueuedMessage
    <3>2. CASE e \notin Range(queue)
      BY <1>0, <1>5, <3>2 DEF RemoveQueuedMessage
    <3> QED
      BY <3>1, <3>2
  <2> QED
    BY <1>5, <2>1, <2>2 DEF RemoveQueuedMessage, Queue
<1>6. ASSUME NEW trim \in BOOLEAN, HydrateSession(trim) PROVE TypeOK'
  <2>1. queued' \in [Entries -> Nat]
    BY <1>6, CountTypes DEF HydrateSession
  <2>2. queue' \in Queue /\ detail' \in Details
    BY <1>0, <1>6 DEF HydrateSession, Details
  <2> QED
    BY <1>6, <2>1, <2>2 DEF HydrateSession, Queue
<1>7. ASSUME NEW ok \in BOOLEAN, NEW trim \in BOOLEAN, OtherTaskServed(ok, trim)
      PROVE  TypeOK'
  <2>1. stored' \in Queue /\ dirty' \in BOOLEAN /\ onDisk' \in BOOLEAN
    BY <1>0, <1>7, FlushTypes DEF OtherTaskServed
  <2>2. detail' \in Details
    BY <1>7 DEF OtherTaskServed, Details
  <2> QED
    BY <1>7, <2>1, <2>2 DEF OtherTaskServed, Queue
<1> HIDE DEF TypeOK, rowVars, daemonVars, threadVars, driverVars, histVars
<1>8. ASSUME NEW c \in Clients, ClientNext(c) PROVE TypeOK'
  BY <1>1, <1>2, <1>3, <1>4, <1>5, <1>8 DEF ClientNext
<1> QED
  BY <1>6, <1>7, <1>8

\* The runtime mailbox.
LEMMA TypeMailbox == ASSUME TypeOK, MailboxNext PROVE TypeOK'
<1> USE DEF TypeOK, rowVars, daemonVars, threadVars, driverVars, histVars
<1>0. queue \in Queue /\ stored \in Queue
  BY DEF Queue
<1>1. ASSUME NEW next \in LiveStates, NEW ok \in BOOLEAN, RecordAndSave(next, ok)
      PROVE  /\ liveState' \in LiveStates /\ stored' \in Queue
             /\ dirty' \in BOOLEAN /\ onDisk' \in BOOLEAN
  <2>1. CASE ~Changes(next)
    BY <1>0, <1>1, <2>1 DEF RecordAndSave
  <2>2. CASE Changes(next)
    <3>1. liveState' = next /\ Flush(queue, TRUE, detail, ok)
      BY <1>1, <2>2 DEF RecordAndSave
    <3>2. stored' \in Queue /\ dirty' \in BOOLEAN /\ onDisk' \in BOOLEAN
      BY <1>0, <3>1, FlushTypes
    <3> QED
      BY <3>1, <3>2
  <2> QED
    BY <2>1, <2>2
<1>2. ASSUME NEW r \in Runtimes, NEW c \in Commands, Send(r, c)
      PROVE  cmds' \in [Runtimes -> Seq(Commands)]
  BY <1>2 DEF Send
<1>3. [kind |-> "prompt", entry |-> NoEntry] \in Commands
      /\ [kind |-> "cancel", entry |-> NoEntry] \in Commands
  BY DEF Commands
<1>4. mailbox.pc = "spawn" \/ mailbox.pc = "insert" => mailbox.rt \in Runtimes
  BY DEF IdleMailbox
<1>5. ASSUME NEW r \in Runtimes, Prompt(r) PROVE TypeOK'
  <2>1. cmds' \in [Runtimes -> Seq(Commands)]
    BY <1>2, <1>3, <1>5 DEF Prompt
  <2>2. prompts' \in 0..MaxPrompts
    BY <1>5, ConstantsAssumption DEF Prompt
  <2> QED
    BY <1>5, <2>1, <2>2 DEF Prompt
<1>6. ASSUME NEW r \in Runtimes, Cancel(r) PROVE TypeOK'
  <2>1. cmds' \in [Runtimes -> Seq(Commands)]
    BY <1>2, <1>3, <1>6 DEF Cancel
  <2> QED
    BY <1>6, <2>1 DEF Cancel
<1>7. ASSUME NEW r \in Runtimes, NEW ok \in BOOLEAN, StartBegin(r, ok) PROVE TypeOK'
  <2>1. /\ liveState' \in LiveStates /\ stored' \in Queue
        /\ dirty' \in BOOLEAN /\ onDisk' \in BOOLEAN
    BY <1>1, <1>7 DEF StartBegin, LiveStates
  <2>2. mailbox' \in [pc : {"spawn", "insert"}, rt : Runtimes]
    BY <1>7 DEF StartBegin
  <2> QED
    BY <1>7, <2>1, <2>2 DEF StartBegin, Queue
<1>8. ASSUME StartRejected PROVE TypeOK'
  BY <1>4, <1>8 DEF StartRejected, ProcStates
<1>9. ASSUME NEW ok \in BOOLEAN, StartFailed(ok) PROVE TypeOK'
  <2>1. /\ liveState' \in LiveStates /\ stored' \in Queue
        /\ dirty' \in BOOLEAN /\ onDisk' \in BOOLEAN
    BY <1>1, <1>9 DEF StartFailed, LiveStates
  <2> QED
    BY <1>4, <1>9, <2>1 DEF StartFailed, Queue, ProcStates
<1>10. ASSUME StartSpawn PROVE TypeOK'
  <2>1. <<"Connected">> \in Seq(Events)
    BY DEF Events
  <2>2. mailbox' \in [pc : {"spawn", "insert"}, rt : Runtimes]
    <3>1. mailbox \in [pc : {"spawn", "insert"}, rt : Runtimes]
      BY <1>10 DEF StartSpawn, IdleMailbox
    <3> QED
      BY <1>10, <3>1 DEF StartSpawn
  <2>3. channel' \in [Runtimes -> Seq(Events)] /\ proc' \in [Runtimes -> ProcStates]
        /\ writer' \in [Runtimes -> BOOLEAN]
    BY <1>4, <1>10, <2>1 DEF StartSpawn, ProcStates
  <2> QED
    BY <1>10, <2>2, <2>3 DEF StartSpawn
<1>11. ASSUME StartInsert PROVE TypeOK'
  BY <1>4, <1>11 DEF StartInsert
<1>12. ASSUME CloseSession PROVE TypeOK'
  BY <1>12 DEF CloseSession
<1> HIDE DEF TypeOK, rowVars, daemonVars, threadVars, driverVars, histVars
<1> QED
  BY <1>5, <1>6, <1>7, <1>8, <1>9, <1>10, <1>11, <1>12 DEF MailboxNext

\* The event threads.
LEMMA TypeEventThread ==
  ASSUME TypeOK, NEW r \in Runtimes, EventThread(r) PROVE TypeOK'
<1> USE DEF TypeOK, rowVars, daemonVars, threadVars, driverVars, histVars
<1>0. queue \in Queue /\ stored \in Queue
  BY DEF Queue
<1>1. ASSUME EventRecord(r) PROVE TypeOK'
  <2>1. channel[r] \in Seq(Events) /\ channel[r] # <<>>
    BY <1>1 DEF EventRecord
  <2>2. Head(channel[r]) \in Events /\ Tail(channel[r]) \in Seq(Events)
    BY <2>1
  <2>3. /\ live_state_for_event(Head(channel[r])) \in LiveStates
        /\ AfterSave(Head(channel[r])) \in ThreadPcs
    BY <2>2 DEF live_state_for_event, AfterSave, LiveStates, ThreadPcs, Events, Finishes
  <2>4. /\ threadPc' \in [Runtimes -> ThreadPcs] /\ dirty' \in BOOLEAN
        /\ channel' \in [Runtimes -> Seq(Events)]
        /\ threadEv' \in [Runtimes -> Events]
        /\ liveState' \in LiveStates
    BY <1>1, <2>2, <2>3 DEF EventRecord, ThreadPcs
  <2> QED
    BY <1>1, <2>4 DEF EventRecord
<1>2. ASSUME NEW ok \in BOOLEAN, EventPersist(r, ok) PROVE TypeOK'
  <2>1. stored' \in Queue /\ dirty' \in BOOLEAN /\ onDisk' \in BOOLEAN
    BY <1>0, <1>2, FlushTypes DEF EventPersist
  <2>2. threadPc' \in [Runtimes -> ThreadPcs]
    BY <1>2 DEF EventPersist, AfterSave, ThreadPcs
  <2> QED
    BY <1>2, <2>1, <2>2 DEF EventPersist, Queue
<1>3. ASSUME EventSettle(r) PROVE TypeOK'
  <2>1. drainRequests' \in Seq(DrainRequest)
    BY <1>3 DEF EventSettle, DrainRequest
  <2> QED
    BY <1>3, <2>1 DEF EventSettle, ThreadPcs
<1> HIDE DEF TypeOK, rowVars, daemonVars, threadVars, driverVars, histVars
<1> QED
  BY <1>1, <1>2, <1>3 DEF EventThread

\* The queue-drain worker.
LEMMA TypeDrainWorker == ASSUME TypeOK, DrainWorker PROVE TypeOK'
<1> USE DEF TypeOK, rowVars, daemonVars, threadVars, driverVars, histVars
<1>0. queue \in Queue /\ stored \in Queue
  BY DEF Queue
<1>1. ASSUME WorkerReady
      PROVE  /\ Head(drainRequests) \in DrainRequest
             /\ Tail(drainRequests) \in Seq(DrainRequest)
  BY <1>1 DEF WorkerReady
<1>2. CASE DrainSkip
  BY <1>1, <1>2 DEF DrainSkip
<1>3. CASE DrainTake
  <2>1. queue # <<>> /\ WorkerReady
    BY <1>3 DEF DrainTake, Drainable
  <2>2. Tail(queue) \in Queue /\ Head(queue) \in Entries
    BY <1>0, <2>1, TailIsQueue DEF Queue
  <2>3. stored' \in Queue /\ dirty' \in BOOLEAN /\ onDisk' \in BOOLEAN
    BY <1>0, <1>3, <2>2, FlushTypes DEF DrainTake
  <2>4. inHand' \in [rt : Runtimes, entry : Entries]
    BY <1>1, <1>3, <2>1, <2>2 DEF DrainTake, DrainRequest
  <2> QED
    BY <1>1, <1>3, <2>1, <2>2, <2>3, <2>4 DEF DrainTake, Queue
<1>4. CASE DrainRollback
  BY <1>1, <1>4 DEF DrainRollback
<1>5. CASE DrainSubmit
  <2>1. inHand \in [rt : Runtimes, entry : Entries]
    BY <1>5 DEF DrainSubmit
  <2>2. [kind |-> "prompt", entry |-> inHand.entry] \in Commands
    BY <2>1 DEF Commands
  <2>3. cmds' \in [Runtimes -> Seq(Commands)]
    BY <1>5, <2>1, <2>2 DEF DrainSubmit, Send
  <2>4. handed' \in [Entries -> Nat]
    BY <1>5, <2>1 DEF DrainSubmit
  <2> QED
    BY <1>5, <2>3, <2>4 DEF DrainSubmit
<1> HIDE DEF TypeOK, rowVars, daemonVars, threadVars, driverVars, histVars
<1> QED
  BY <1>2, <1>3, <1>4, <1>5 DEF DrainWorker

\* The drivers.
LEMMA TypeDriver == ASSUME TypeOK, NEW r \in Runtimes, Driver(r) PROVE TypeOK'
<1> USE DEF TypeOK, rowVars, daemonVars, threadVars, driverVars, histVars
<1>0. ASSUME NEW evs \in Seq(Events), Emit(r, evs)
      PROVE  channel' \in [Runtimes -> Seq(Events)]
  BY <1>0 DEF Emit
<1>1. /\ <<>> \in Seq(Events) /\ <<"TurnStarted">> \in Seq(Events)
      /\ <<"Connected">> \in Seq(Events) /\ <<"TurnParked">> \in Seq(Events)
      /\ <<"Connected", "TurnParked">> \in Seq(Events)
      /\ <<"FinishedFail">> \in Seq(Events) /\ <<"Exited">> \in Seq(Events)
  BY DEF Events, Finishes
<1>2. \A evs, more \in Seq(Events) : evs \o more \in Seq(Events)
  OBVIOUS
<1>3. cmds[r] # <<>> => Tail(cmds[r]) \in Seq(Commands)
  OBVIOUS
<1>4. CASE WriterPrompt(r)
  <2>1. channel' \in [Runtimes -> Seq(Events)]
    BY <1>0, <1>1, <1>4 DEF WriterPrompt
  <2> QED
    BY <1>3, <1>4, <2>1 DEF WriterPrompt
<1>5. CASE WriterCancel(r)
  BY <1>3, <1>5 DEF WriterCancel
<1>6. CASE WriterBroken(r)
  <2>1. channel' \in [Runtimes -> Seq(Events)]
    BY <1>0, <1>1, <1>2, <1>6 DEF WriterBroken
  <2>2. <<>> \in Seq(Commands)
    OBVIOUS
  <2> QED
    BY <1>6, <2>1, <2>2 DEF WriterBroken
<1>7. ASSUME NEW cursor \in BOOLEAN, ReaderPark(r, cursor) PROVE TypeOK'
  <2>1. channel' \in [Runtimes -> Seq(Events)]
    BY <1>0, <1>1, <1>7 DEF ReaderPark
  <2> QED
    BY <1>7, <2>1 DEF ReaderPark
<1>8. ASSUME NEW cursor \in BOOLEAN, NEW outcome \in Finishes,
             ReaderResult(r, cursor, outcome)
      PROVE  TypeOK'
  <2>1. channel' \in [Runtimes -> Seq(Events)]
    BY <1>0, <1>1, <1>8 DEF ReaderResult
  <2> QED
    BY <1>8, <2>1 DEF ReaderResult
<1>9. CASE ReaderSettle(r)
  <2>1. <<settling[r]>> \in Seq(Events)
    BY <1>9 DEF ReaderSettle, Events
  <2>2. channel' \in [Runtimes -> Seq(Events)]
    BY <1>0, <1>9, <2>1 DEF ReaderSettle
  <2> QED
    BY <1>9, <2>2 DEF ReaderSettle
<1>10. CASE ReaderWake(r)
  <2>1. channel' \in [Runtimes -> Seq(Events)]
    BY <1>0, <1>1, <1>10 DEF ReaderWake
  <2>2. wakes' \in 0..MaxWakes
    BY <1>10, ConstantsAssumption DEF ReaderWake
  <2> QED
    BY <1>10, <2>1, <2>2 DEF ReaderWake
<1>11. CASE ProcExit(r)
  <2>1. channel' \in [Runtimes -> Seq(Events)]
    BY <1>0, <1>1, <1>11 DEF ProcExit
  <2> QED
    BY <1>11, <2>1 DEF ProcExit, ProcStates
<1> HIDE DEF TypeOK, rowVars, daemonVars, threadVars, driverVars, histVars
<1> QED
  BY <1>4, <1>5, <1>6, <1>7, <1>8, <1>9, <1>10, <1>11 DEF Driver

LEMMA TypeStep == TypeOK /\ [Next]_vars => TypeOK'
<1> SUFFICES ASSUME TypeOK, [Next]_vars PROVE TypeOK'
  OBVIOUS
<1>1. CASE Crash
  <2>1. <<>> \in Seq(Entries) /\ UniqueIds(<<>>) /\ <<>> \in Seq(DrainRequest)
    BY DEF UniqueIds
  <2>2. /\ channel' \in [Runtimes -> Seq(Events)]
        /\ cmds' \in [Runtimes -> Seq(Commands)]
    BY <1>1 DEF Crash
  <2>3. /\ threadPc' \in [Runtimes -> ThreadPcs]
        /\ writer' \in [Runtimes -> BOOLEAN] /\ turn' \in [Runtimes -> BOOLEAN]
        /\ parked' \in [Runtimes -> BOOLEAN] /\ proc' \in [Runtimes -> ProcStates]
        /\ settling' \in [Runtimes -> Finishes \cup {"no"}]
    BY <1>1 DEF Crash, ThreadPcs, ProcStates
  <2>4. crashes' \in 0..MaxCrashes /\ liveState' \in LiveStates /\ detail' \in Details
    BY <1>1, ConstantsAssumption DEF Crash, TypeOK, LiveStates, Details
  <2> QED
    BY <1>1, <2>1, <2>2, <2>3, <2>4 DEF Crash, TypeOK
<1>2. CASE UNCHANGED vars
  BY <1>2 DEF vars, rowVars, daemonVars, threadVars, driverVars, histVars, TypeOK
<1> QED
  BY <1>1, <1>2, TypeRequests, TypeMailbox, TypeEventThread, TypeDrainWorker,
     TypeDriver DEF Next

\* Every reachable state has the declared types: in particular no queue, in
\* memory, on disk or at a client, ever holds an id twice.
THEOREM TypeCorrect == Spec => []TypeOK
BY TypeInit, TypeStep, PTL DEF Spec

(***************************************************************************)
(* The steps that concern the queue.                                       *)
(***************************************************************************)
RowStep ==
  \/ \E c \in Clients, saved \in Details, ok, trim \in BOOLEAN :
       SaveTaskState(c, saved, ok, trim)
  \/ \E c \in Clients, e \in Entries, ok \in BOOLEAN : RemoveQueuedMessage(c, e, ok)
  \/ \E trim \in BOOLEAN : HydrateSession(trim)
  \/ \E ok, trim \in BOOLEAN : OtherTaskServed(ok, trim)
  \/ \E r \in Runtimes, ok \in BOOLEAN : StartBegin(r, ok)
  \/ \E ok \in BOOLEAN : StartFailed(ok)
  \/ \E r \in Runtimes : EventRecord(r)
  \/ \E r \in Runtimes, ok \in BOOLEAN : EventPersist(r, ok)
  \/ DrainTake
  \/ Crash

\* Every other step leaves the row alone, and only DrainSubmit empties the
\* worker's hand.
LEMMA StepKinds ==
  ASSUME [Next]_vars
  PROVE  RowStep \/ DrainSubmit \/ UNCHANGED <<rowVars, inHand, queued, handed>>
<1> USE DEF daemonVars, histVars
<1>1. ASSUME NEW c \in Clients, ClientNext(c)
      PROVE  RowStep \/ UNCHANGED <<rowVars, inHand, queued, handed>>
  <2>1. CASE \E e \in Entries : ClientQueue(c, e) \/ ClientObserves(c, e)
    BY <2>1 DEF ClientQueue, ClientObserves
  <2>2. CASE ClientReload(c)
    BY <2>2 DEF ClientReload
  <2> QED
    BY <1>1, <2>1, <2>2 DEF ClientNext, RowStep
<1>2. ASSUME MailboxNext
      PROVE  RowStep \/ UNCHANGED <<rowVars, inHand, queued, handed>>
  <2>1. CASE \E r \in Runtimes : Prompt(r) \/ Cancel(r)
    BY <2>1 DEF Prompt, Cancel
  <2>2. CASE StartRejected \/ StartSpawn \/ StartInsert \/ CloseSession
    BY <2>2 DEF StartRejected, StartSpawn, StartInsert, CloseSession
  <2> QED
    BY <1>2, <2>1, <2>2 DEF MailboxNext, RowStep
<1>3. ASSUME NEW r \in Runtimes, EventThread(r)
      PROVE  RowStep \/ UNCHANGED <<rowVars, inHand, queued, handed>>
  <2>1. CASE EventSettle(r)
    BY <2>1 DEF EventSettle
  <2> QED
    BY <1>3, <2>1 DEF EventThread, RowStep
<1>4. ASSUME NEW r \in Runtimes, Driver(r)
      PROVE  UNCHANGED <<rowVars, inHand, queued, handed>>
  BY <1>4 DEF Driver, WriterPrompt, WriterCancel, WriterBroken, ReaderPark,
              ReaderResult, ReaderSettle, ReaderWake, ProcExit
<1>5. CASE DrainWorker
  BY <1>5 DEF DrainWorker, DrainSkip, DrainRollback, RowStep
<1>6. CASE UNCHANGED vars
  BY <1>6 DEF vars
<1> HIDE DEF daemonVars, histVars
<1> QED
  BY <1>1, <1>2, <1>3, <1>4, <1>5, <1>6 DEF Next, RowStep

(***************************************************************************)
(* What is acknowledged is on disk.                                        *)
(***************************************************************************)
LEMMA DurableInit == Init => CleanRowIsDurable
BY DEF Init, CleanRowIsDurable, Range

LEMMA DurableStep == TypeOK /\ CleanRowIsDurable /\ [Next]_vars => CleanRowIsDurable'
<1> SUFFICES ASSUME TypeOK, CleanRowIsDurable, [Next]_vars PROVE CleanRowIsDurable'
  OBVIOUS
<1> DEFINE OnDisk(d, isDirty, q, disk, committed, drained) ==
             /\ d = "full" /\ ~isDirty =>
                  /\ disk
                  /\ Range(q) \subseteq Range(committed)
                  /\ Range(committed) \ Range(q) \subseteq drained
             /\ d = "skeleton" => disk
<1>0. /\ queue \in Queue /\ stored \in Queue /\ dirty \in BOOLEAN /\ onDisk \in BOOLEAN
      /\ detail \in Details
      /\ inHand \in {EmptyHand} \cup [rt : Runtimes, entry : Entries]
      /\ handed \in [Entries -> Nat]
  BY DEF TypeOK, Queue
<1>a. CleanRowIsDurable <=> OnDisk(detail, dirty, queue, onDisk, stored, Drained)
  BY DEF CleanRowIsDurable
<1>b. CleanRowIsDurable' <=> OnDisk(detail', dirty', queue', onDisk', stored', Drained')
  BY DEF CleanRowIsDurable
<1>c. ASSUME UNCHANGED <<inHand, handed>> PROVE Drained' = Drained
  BY <1>c DEF Drained
\* A save under the lock leaves a row that is dirty, or a skeleton on disk, or
\* one that is stored with its queue.
<1>1. ASSUME NEW q, NEW isDirty \in BOOLEAN, NEW d, NEW ok \in BOOLEAN, NEW drained,
             Flush(q, isDirty, d, ok),
             OnDisk(d, isDirty, q, onDisk, stored, drained)
      PROVE  /\ OnDisk(d, dirty', q, onDisk', stored', drained)
             /\ d = "full" /\ ok => onDisk'
  <2>1. CASE ok /\ d = "full" /\ isDirty /\ onDisk' = TRUE /\ stored' = q
    BY <2>1
  <2>2. CASE ok /\ ~has_started(d) /\ onDisk' = FALSE /\ stored' = <<>>
    BY <2>2 DEF has_started
  <2>3. CASE /\ ok => \/ has_started(d) /\ ~(d = "full" /\ isDirty)
                      \/ ~has_started(d) /\ FALSE \in SaveOutcomes
             /\ UNCHANGED <<onDisk, stored>>
    BY <1>1, <2>3 DEF Flush, has_started
  <2> QED
    BY <1>1, <2>1, <2>2, <2>3 DEF Flush
<1>2. ASSUME NEW next, NEW ok \in BOOLEAN, RecordAndSave(next, ok),
             UNCHANGED <<queue, detail, inHand, handed>>
      PROVE  CleanRowIsDurable'
  <2>1. CASE ~Changes(next)
    BY <1>2, <1>a, <1>b, <1>c, <2>1 DEF RecordAndSave
  <2>2. CASE Changes(next)
    <3>1. Flush(queue, TRUE, detail, ok)
      BY <1>2, <2>2 DEF RecordAndSave
    <3>2. OnDisk(detail, TRUE, queue, onDisk, stored, Drained)
      BY <1>a
    <3>3. OnDisk(detail, dirty', queue, onDisk', stored', Drained)
      BY <1>1, <3>1, <3>2
    <3> QED
      BY <1>2, <1>b, <1>c, <3>3
  <2> QED
    BY <2>1, <2>2
<1>3. ASSUME NEW c \in Clients, NEW saved \in Details,
             NEW ok \in BOOLEAN, NEW trim \in BOOLEAN,
             SaveTaskState(c, saved, ok, trim)
      PROVE  CleanRowIsDurable'
  <2>1. /\ saved \in Projections \cup {detail}
        /\ Flush(queue', TRUE, saved, ok)
        /\ trim => ok /\ MayTrim(FALSE, saved)
        /\ detail' = IF trim THEN "skeleton" ELSE saved
    BY <1>3 DEF SaveTaskState
  <2>2. saved = "skeleton" => onDisk
    BY <1>a, <2>1, ConstantsAssumption
  <2>3. OnDisk(saved, TRUE, queue', onDisk, stored, Drained)
    BY <2>2
  <2>4. /\ OnDisk(saved, dirty', queue', onDisk', stored', Drained)
        /\ saved = "full" /\ ok => onDisk'
    BY <1>1, <2>1, <2>3
  <2>5. Drained' = Drained
    BY <1>3, <1>c DEF SaveTaskState, daemonVars
  <2>6. CASE trim
    BY <1>b, <2>1, <2>4, <2>6 DEF MayTrim
  <2>7. CASE ~trim
    BY <1>b, <2>1, <2>4, <2>5, <2>7
  <2> QED
    BY <2>6, <2>7
<1>4. ASSUME NEW c \in Clients, NEW e \in Entries, NEW ok \in BOOLEAN,
             RemoveQueuedMessage(c, e, ok)
      PROVE  CleanRowIsDurable'
  <2>0. detail' = detail /\ Drained' = Drained
    BY <1>4, <1>c DEF RemoveQueuedMessage, daemonVars
  <2>1. CASE e \in Range(queue)
    <3>1. Flush(queue', TRUE, detail, ok)
      BY <1>4, <2>1 DEF RemoveQueuedMessage
    <3>2. OnDisk(detail, TRUE, queue', onDisk, stored, Drained)
      BY <1>a
    <3>3. OnDisk(detail, dirty', queue', onDisk', stored', Drained)
      BY <1>1, <3>1, <3>2
    <3> QED
      BY <1>b, <2>0, <3>3
  <2>2. CASE e \notin Range(queue)
    <3>1. UNCHANGED <<queue, stored, onDisk, dirty>>
      BY <1>4, <2>2 DEF RemoveQueuedMessage, Without
    <3> QED
      BY <1>a, <1>b, <2>0, <3>1
  <2> QED
    BY <2>1, <2>2
<1>5. ASSUME NEW trim \in BOOLEAN, HydrateSession(trim) PROVE CleanRowIsDurable'
  <2>1. PICK filled : /\ filled = IF detail = "skeleton" /\ onDisk THEN "full"
                                  ELSE IF detail = "skeleton" THEN "blank" ELSE detail
                      /\ trim => MayTrim(dirty, filled)
                      /\ detail' = IF trim THEN "skeleton" ELSE filled
    BY <1>5 DEF HydrateSession
  <2>2. /\ queue' = IF detail = "skeleton" /\ onDisk THEN stored ELSE queue
        /\ UNCHANGED <<dirty, onDisk, stored, inHand, handed>>
    BY <1>5 DEF HydrateSession, daemonVars
  <2>3. OnDisk(filled, dirty, queue', onDisk, stored, Drained)
    <3>1. CASE detail = "skeleton" /\ onDisk
      BY <2>1, <2>2, <3>1
    <3>2. CASE ~(detail = "skeleton" /\ onDisk)
      BY <1>a, <2>1, <2>2, <3>2
    <3> QED
      BY <3>1, <3>2
  <2>4. CASE trim
    BY <1>b, <2>1, <2>2, <2>3, <2>4 DEF MayTrim
  <2>5. CASE ~trim
    BY <1>b, <1>c, <2>1, <2>2, <2>3, <2>5
  <2> QED
    BY <2>4, <2>5
<1>6. ASSUME NEW ok \in BOOLEAN, NEW trim \in BOOLEAN, OtherTaskServed(ok, trim)
      PROVE  CleanRowIsDurable'
  <2>1. /\ Flush(queue, dirty, detail, ok)
        /\ trim => ok /\ MayTrim(FALSE, detail)
        /\ detail' = IF trim THEN "skeleton" ELSE detail
        /\ UNCHANGED <<queue, inHand, handed>>
    BY <1>6 DEF OtherTaskServed, daemonVars, histVars
  <2>2. /\ OnDisk(detail, dirty', queue, onDisk', stored', Drained)
        /\ detail = "full" /\ ok => onDisk'
    BY <1>0, <1>1, <1>a, <2>1
  <2>3. CASE trim
    BY <1>b, <2>1, <2>2, <2>3 DEF MayTrim
  <2>4. CASE ~trim
    BY <1>b, <1>c, <2>1, <2>2, <2>4
  <2> QED
    BY <2>3, <2>4
<1>7. ASSUME NEW r \in Runtimes, NEW ok \in BOOLEAN, StartBegin(r, ok)
      PROVE  CleanRowIsDurable'
  BY <1>2, <1>7 DEF StartBegin, histVars
<1>8. ASSUME NEW ok \in BOOLEAN, StartFailed(ok) PROVE CleanRowIsDurable'
  BY <1>2, <1>8 DEF StartFailed, histVars
<1>9. ASSUME NEW r \in Runtimes, EventRecord(r) PROVE CleanRowIsDurable'
  <2>1. /\ UNCHANGED <<queue, detail, onDisk, stored, inHand, handed>>
        /\ dirty' = TRUE \/ dirty' = dirty
    BY <1>9 DEF EventRecord, daemonVars, histVars
  <2> QED
    BY <1>a, <1>b, <1>c, <2>1
<1>10. ASSUME NEW r \in Runtimes, NEW ok \in BOOLEAN, EventPersist(r, ok)
       PROVE  CleanRowIsDurable'
  <2>1. /\ Flush(queue, dirty, detail, ok)
        /\ UNCHANGED <<queue, detail, inHand, handed>>
    BY <1>10 DEF EventPersist, daemonVars, histVars
  <2>2. OnDisk(detail, dirty', queue, onDisk', stored', Drained)
    BY <1>0, <1>1, <1>a, <2>1
  <2> QED
    BY <1>b, <1>c, <2>1, <2>2
\* The head that leaves a clean row for the worker's hand is all that the disk
\* has beyond the new queue.
<1>11. CASE DrainTake
  <2>1. /\ queue # <<>> /\ inHand = EmptyHand /\ inHand'.entry = Head(queue)
        /\ handed' = handed /\ queue' = Tail(queue) /\ detail' = detail
        /\ Flush(Tail(queue), dirty, detail, TRUE)
    BY <1>11 DEF DrainTake, Drainable, WorkerReady, histVars
  <2>2. Range(Tail(queue)) = Range(queue) \ {Head(queue)} /\ Head(queue) \in Entries
    BY <1>0, <2>1, TailIsQueue
  <2>3. Drained' = {e \in Entries : handed[e] > 0} \cup {Head(queue)}
    BY <2>1 DEF Drained
  <2>4. stored \in Seq(Entries) /\ Range(stored) \subseteq Entries
    BY <1>0 DEF Queue, Range
  <2>5. Drained \subseteq Drained' \cup {NoEntry} /\ NoEntry \notin Entries
    BY <2>1, <2>3, ConstantsAssumption DEF Drained, EmptyHand
  <2>6. OnDisk(detail, dirty, Tail(queue), onDisk, stored, Drained')
    BY <1>a, <2>2, <2>3, <2>4, <2>5
  <2>7. OnDisk(detail, dirty', Tail(queue), onDisk', stored', Drained')
    BY <1>0, <1>1, <2>1, <2>6
  <2> QED
    BY <1>b, <2>1, <2>7
<1>12. CASE Crash
  <2>1. detail' # "full" /\ (detail' = "skeleton" => onDisk')
    BY <1>12 DEF Crash
  <2> QED
    BY <1>b, <2>1
<1>13. CASE DrainSubmit
  <2>1. /\ inHand # EmptyHand
        /\ handed' = [handed EXCEPT ![inHand.entry] = @ + 1]
        /\ UNCHANGED <<queue, detail, dirty, onDisk, stored>>
    BY <1>13 DEF DrainSubmit, rowVars
  <2>2. inHand.entry \in Entries
    BY <1>0, <2>1
  <2>3. \A e \in Entries : handed[e] > 0 \/ e = inHand.entry => handed'[e] > 0
    BY <1>0, <2>1, <2>2
  <2>4. Drained \subseteq Drained'
    BY <2>2, <2>3 DEF Drained
  <2> QED
    BY <1>a, <1>b, <2>1, <2>4
<1>14. CASE UNCHANGED <<rowVars, inHand, queued, handed>>
  BY <1>14, <1>a, <1>b, <1>c DEF rowVars
<1> HIDE DEF OnDisk
<1> QED
  BY <1>3, <1>4, <1>5, <1>6, <1>7, <1>8, <1>9, <1>10, <1>11, <1>12, <1>13, <1>14,
     StepKinds DEF RowStep

\* A crash cannot lose a follow-up of a row with its transcript whose save was
\* reported as done, nor bring back one that was not drained: the row is dirty
\* until its queue is part of a committed row.
THEOREM AcknowledgedIsDurable == Spec => []CleanRowIsDurable
<1>1. Init => TypeOK /\ CleanRowIsDurable
  BY TypeInit, DurableInit
<1>2. TypeOK /\ CleanRowIsDurable /\ [Next]_vars => TypeOK' /\ CleanRowIsDurable'
  BY TypeStep, DurableStep
<1> QED
  BY <1>1, <1>2, PTL DEF Spec

(***************************************************************************)
(* One submission per queueing.                                            *)
(***************************************************************************)
LEMMA SubmissionInit == Init => OneSubmissionPerQueueing
BY DEF Init, OneSubmissionPerQueueing, InHand, Waiting, Range

LEMMA SubmissionStep ==
  TypeOK /\ OneSubmissionPerQueueing /\ [Next]_vars => OneSubmissionPerQueueing'
<1> SUFFICES ASSUME TypeOK, OneSubmissionPerQueueing, [Next]_vars
             PROVE  OneSubmissionPerQueueing'
  OBVIOUS
<1>0. /\ queue \in Queue /\ NoEntry \notin Entries
      /\ inHand \in {EmptyHand} \cup [rt : Runtimes, entry : Entries]
      /\ \A e \in Entries : queued[e] \in Nat /\ handed[e] \in Nat
      /\ \A e \in Entries : InHand(e) \in {0, 1} /\ Waiting(e) \in {0, 1}
  BY ConstantsAssumption DEF TypeOK, Queue, InHand, Waiting
\* The queue only loses entries: nothing to count.
<1>1. ASSUME Range(queue') \subseteq Range(queue), inHand' \in {inHand, EmptyHand},
             queued' = queued, handed' = handed
      PROVE  OneSubmissionPerQueueing'
  <2> SUFFICES ASSUME NEW e \in Entries
               PROVE  handed'[e] + InHand(e)' + Waiting(e)' <= queued'[e]
    BY DEF OneSubmissionPerQueueing
  <2>1. Waiting(e)' <= Waiting(e) /\ InHand(e)' <= InHand(e)
        /\ Waiting(e)' \in {0, 1} /\ InHand(e)' \in {0, 1}
    BY <1>0, <1>1 DEF Waiting, InHand
  <2>2. handed[e] + InHand(e) + Waiting(e) <= queued[e]
    BY DEF OneSubmissionPerQueueing
  <2> QED
    BY <1>0, <1>1, <2>1, <2>2
\* The queue changes and what enters is counted.
<1>2. ASSUME CountEntering(queue, queue'), UNCHANGED <<inHand, handed>>
      PROVE  OneSubmissionPerQueueing'
  <2> SUFFICES ASSUME NEW e \in Entries
               PROVE  handed'[e] + InHand(e)' + Waiting(e)' <= queued'[e]
    BY DEF OneSubmissionPerQueueing
  <2>1. InHand(e)' = InHand(e) /\ Waiting(e)' \in {0, 1}
    BY <1>2 DEF InHand, Waiting
  <2>2. queued'[e] = queued[e] + (IF e \in Entering(queue, queue') THEN 1 ELSE 0)
    BY <1>0, <1>2 DEF CountEntering
  <2>3. Waiting(e)' <= Waiting(e) + (IF e \in Entering(queue, queue') THEN 1 ELSE 0)
    BY DEF Waiting, Entering
  <2>4. handed[e] + InHand(e) + Waiting(e) <= queued[e]
    BY DEF OneSubmissionPerQueueing
  <2> QED
    BY <1>0, <1>2, <2>1, <2>2, <2>3, <2>4
<1>3. ASSUME NEW c \in Clients, NEW saved \in Details,
             NEW ok \in BOOLEAN, NEW trim \in BOOLEAN,
             SaveTaskState(c, saved, ok, trim)
      PROVE  OneSubmissionPerQueueing'
  BY <1>2, <1>3 DEF SaveTaskState, daemonVars
<1>4. ASSUME NEW c \in Clients, NEW e \in Entries, NEW ok \in BOOLEAN,
             RemoveQueuedMessage(c, e, ok)
      PROVE  OneSubmissionPerQueueing'
  <2>1. Range(queue') \subseteq Range(queue)
    BY <1>0, <1>4, WithoutIsQueue DEF RemoveQueuedMessage
  <2> QED
    BY <1>1, <1>4, <2>1 DEF RemoveQueuedMessage, daemonVars
<1>5. ASSUME NEW trim \in BOOLEAN, HydrateSession(trim)
      PROVE  OneSubmissionPerQueueing'
  BY <1>2, <1>5 DEF HydrateSession, daemonVars
<1>6. CASE DrainTake
  <2>1. /\ queue # <<>> /\ queue' = Tail(queue) /\ inHand = EmptyHand
        /\ inHand'.entry = Head(queue) /\ queued' = queued /\ handed' = handed
    BY <1>6 DEF DrainTake, Drainable, WorkerReady, histVars
  <2>2. /\ Range(queue') = Range(queue) \ {Head(queue)}
        /\ Head(queue) \in Entries /\ Head(queue) \in Range(queue)
    BY <1>0, <2>1, TailIsQueue
  <2> SUFFICES ASSUME NEW e \in Entries
               PROVE  handed'[e] + InHand(e)' + Waiting(e)' <= queued'[e]
    BY DEF OneSubmissionPerQueueing
  <2>3. InHand(e) = 0 /\ InHand(e)' \in {0, 1} /\ Waiting(e)' \in {0, 1}
    BY <2>1 DEF InHand, Waiting
  <2>4. InHand(e)' + Waiting(e)' <= Waiting(e)
    <3>1. CASE e = Head(queue)
      BY <2>1, <2>2, <2>3, <3>1 DEF InHand, Waiting
    <3>2. CASE e # Head(queue)
      BY <2>1, <2>2, <2>3, <3>2 DEF InHand, Waiting
    <3> QED
      BY <3>1, <3>2
  <2>5. handed[e] + InHand(e) + Waiting(e) <= queued[e]
    BY DEF OneSubmissionPerQueueing
  <2> QED
    BY <1>0, <2>1, <2>3, <2>4, <2>5
<1>7. CASE DrainSubmit
  <2>1. /\ inHand # EmptyHand /\ inHand' = EmptyHand
        /\ handed' = [handed EXCEPT ![inHand.entry] = @ + 1]
        /\ queue' = queue /\ queued' = queued
    BY <1>7 DEF DrainSubmit, rowVars
  <2>2. handed \in [Entries -> Nat]
    BY DEF TypeOK
  <2> SUFFICES ASSUME NEW e \in Entries
               PROVE  handed'[e] + InHand(e)' + Waiting(e)' <= queued'[e]
    BY DEF OneSubmissionPerQueueing
  <2>3. handed'[e] + InHand(e)' = handed[e] + InHand(e) /\ Waiting(e)' = Waiting(e)
    BY <1>0, <2>1, <2>2 DEF InHand, Waiting
  <2>4. handed[e] + InHand(e) + Waiting(e) <= queued[e]
    BY DEF OneSubmissionPerQueueing
  <2>5. handed'[e] \in Nat /\ InHand(e)' \in {0, 1}
    BY <1>0, <2>1, <2>2 DEF InHand
  <2> QED
    BY <1>0, <2>1, <2>3, <2>4, <2>5
<1>8. CASE Crash
  <2>1. Range(queue') \subseteq Range(queue)
    BY <1>8 DEF Crash, Range
  <2> QED
    BY <1>1, <1>8, <2>1 DEF Crash
<1>9. CASE UNCHANGED <<queue, inHand, queued, handed>>
  BY <1>1, <1>9
<1>10. CASE RowStep
  <2>1. ASSUME \/ \E ok, trim \in BOOLEAN : OtherTaskServed(ok, trim)
               \/ \E r \in Runtimes, ok \in BOOLEAN : StartBegin(r, ok)
               \/ \E ok \in BOOLEAN : StartFailed(ok)
               \/ \E r \in Runtimes : EventRecord(r)
               \/ \E r \in Runtimes, ok \in BOOLEAN : EventPersist(r, ok)
        PROVE  UNCHANGED <<queue, inHand, queued, handed>>
    BY <2>1 DEF OtherTaskServed, StartBegin, StartFailed, EventRecord, EventPersist,
                daemonVars, histVars
  <2> QED
    BY <1>3, <1>4, <1>5, <1>6, <1>8, <1>9, <1>10, <2>1 DEF RowStep
<1> QED
  BY <1>7, <1>9, <1>10, StepKinds DEF rowVars

\* However many drain requests, saves, clients, crashes and restarts there
\* are, a copy of an entry in the daemon's queue is submitted at most once.
THEOREM SubmittedOncePerQueueing == Spec => []OneSubmissionPerQueueing
<1>1. Init => TypeOK /\ OneSubmissionPerQueueing
  BY TypeInit, SubmissionInit
<1>2. TypeOK /\ OneSubmissionPerQueueing /\ [Next]_vars
        => TypeOK' /\ OneSubmissionPerQueueing'
  BY TypeStep, SubmissionStep
<1> QED
  BY <1>1, <1>2, PTL DEF Spec

(***************************************************************************)
(* First in, first out.                                                    *)
(***************************************************************************)
LEMMA OrderStep == TypeOK /\ [Next]_vars => [Loaded => KeepsOrder(queue, queue')]_queue
<1> SUFFICES ASSUME TypeOK, [Next]_vars, Loaded, queue' # queue
             PROVE  KeepsOrder(queue, queue')
  OBVIOUS
<1>0. /\ queue \in Queue /\ \A c \in Clients : view[c] \in Queue
      /\ queue \in Seq(Entries) /\ Len(queue) \in Nat /\ DOMAIN queue = 1..Len(queue)
  BY DEF TypeOK, Queue
<1>1. ASSUME NEW c \in Clients, NEW saved \in Details,
             NEW ok \in BOOLEAN, NEW trim \in BOOLEAN,
             SaveTaskState(c, saved, ok, trim)
      PROVE  KeepsOrder(queue, queue')
  <2>1. queue' \in Merges(queue, view[c])
    BY <1>1 DEF SaveTaskState
  <2>2. /\ queue' \in Seq(Entries) /\ UniqueIds(queue') /\ Len(queue) <= Len(queue')
        /\ \A i \in DOMAIN queue : queue'[i] = queue[i]
    BY <1>0, <2>1, MergesIsQueue
  <2>3. \A i \in DOMAIN queue : i \in DOMAIN queue'
    BY <1>0, <2>2
  <2>4. \A i \in DOMAIN queue, k \in DOMAIN queue' : queue[i] = queue'[k] => i = k
    BY <2>2, <2>3 DEF UniqueIds
  <2> QED
    BY <2>4 DEF KeepsOrder
<1>2. ASSUME NEW c \in Clients, NEW e \in Entries, NEW ok \in BOOLEAN,
             RemoveQueuedMessage(c, e, ok)
      PROVE  KeepsOrder(queue, queue')
  BY <1>0, <1>2, WithoutIsQueue DEF RemoveQueuedMessage
<1>3. CASE DrainTake
  BY <1>0, <1>3, TailIsQueue DEF DrainTake, Drainable
<1>4. CASE Crash
  BY <1>4 DEF Crash, KeepsOrder
<1>5. CASE RowStep
  <2>1. ASSUME NEW trim \in BOOLEAN, HydrateSession(trim) PROVE queue' = queue
    BY <2>1 DEF HydrateSession, Loaded
  <2>2. ASSUME \/ \E ok, trim \in BOOLEAN : OtherTaskServed(ok, trim)
               \/ \E r \in Runtimes, ok \in BOOLEAN : StartBegin(r, ok)
               \/ \E ok \in BOOLEAN : StartFailed(ok)
               \/ \E r \in Runtimes : EventRecord(r)
               \/ \E r \in Runtimes, ok \in BOOLEAN : EventPersist(r, ok)
        PROVE  queue' = queue
    BY <2>2 DEF OtherTaskServed, StartBegin, StartFailed, EventRecord, EventPersist
  <2> QED
    BY <1>1, <1>2, <1>3, <1>4, <1>5, <2>1, <2>2 DEF RowStep
<1>6. CASE DrainSubmit
  BY <1>6 DEF DrainSubmit, rowVars
<1> QED
  BY <1>5, <1>6, StepKinds DEF rowVars

\* No step of a loaded row changes the order of two entries it keeps.
THEOREM QueueIsFifo == Spec => QueueOrderStable
<1>1. Spec => []TypeOK
  BY TypeCorrect
<1>2. TypeOK /\ [Next]_vars => [Loaded => KeepsOrder(queue, queue')]_queue
  BY OrderStep
<1> QED
  BY <1>1, <1>2, PTL DEF Spec, QueueOrderStable

(***************************************************************************)
(* No follow-up is lost.                                                   *)
(***************************************************************************)
Kept == \A e \in Range(queue) \ Range(queue') : DroppedByClient(e) \/ e = inHand'.entry

LEMMA KeptStep ==
  TypeOK /\ [Next]_vars => [Loaded /\ crashes' = crashes => Kept]_queue
<1> SUFFICES ASSUME TypeOK, [Next]_vars, Loaded, crashes' = crashes, queue' # queue
             PROVE  Kept
  OBVIOUS
<1>0. queue \in Queue
  BY DEF TypeOK, Queue
<1>1. ASSUME NEW c \in Clients, NEW saved \in Details,
             NEW ok \in BOOLEAN, NEW trim \in BOOLEAN,
             SaveTaskState(c, saved, ok, trim)
      PROVE  Kept
  <2>1. PICK m \in Merges(queue, view[c]) : queue' = m
    BY <1>1 DEF SaveTaskState
  <2>2. view[c] \in Queue
    BY DEF TypeOK, Queue
  <2>3. Range(m) = Range(queue) \cup Range(view[c])
    BY <1>0, <2>1, <2>2, MergesIsQueue
  <2> QED
    BY <2>1, <2>3 DEF Kept
<1>2. ASSUME NEW c \in Clients, NEW e \in Entries, NEW ok \in BOOLEAN,
             RemoveQueuedMessage(c, e, ok)
      PROVE  Kept
  <2>1. Range(Without(queue, e)) = Range(queue) \ {e}
    BY <1>0, WithoutIsQueue
  <2>2. e \in Range(view[c]) /\ e \notin Range(view'[c])
    <3>1. view[c] \in Queue /\ view' = [view EXCEPT ![c] = Without(view[c], e)]
      BY <1>2 DEF TypeOK, Queue, RemoveQueuedMessage
    <3>2. view'[c] = Without(view[c], e)
      BY <3>1 DEF TypeOK
    <3> QED
      BY <1>2, <3>1, <3>2, WithoutIsQueue DEF RemoveQueuedMessage
  <2> QED
    BY <1>2, <2>1, <2>2 DEF RemoveQueuedMessage, Kept, DroppedByClient
<1>3. CASE DrainTake
  <2>1. queue # <<>> /\ queue' = Tail(queue) /\ inHand'.entry = Head(queue)
    BY <1>3 DEF DrainTake, Drainable
  <2>2. Range(Tail(queue)) = Range(queue) \ {Head(queue)}
    BY <1>0, <2>1, TailIsQueue
  <2> QED
    BY <2>1, <2>2 DEF Kept
<1>4. CASE Crash
  BY <1>4 DEF Crash, TypeOK
<1>5. CASE RowStep
  <2>1. ASSUME NEW trim \in BOOLEAN, HydrateSession(trim) PROVE queue' = queue
    BY <2>1 DEF HydrateSession, Loaded
  <2>2. ASSUME \/ \E ok, trim \in BOOLEAN : OtherTaskServed(ok, trim)
               \/ \E r \in Runtimes, ok \in BOOLEAN : StartBegin(r, ok)
               \/ \E ok \in BOOLEAN : StartFailed(ok)
               \/ \E r \in Runtimes : EventRecord(r)
               \/ \E r \in Runtimes, ok \in BOOLEAN : EventPersist(r, ok)
        PROVE  queue' = queue
    BY <2>2 DEF OtherTaskServed, StartBegin, StartFailed, EventRecord, EventPersist
  <2> QED
    BY <1>1, <1>2, <1>3, <1>4, <1>5, <2>1, <2>2 DEF RowStep
<1>6. CASE DrainSubmit
  BY <1>6 DEF DrainSubmit, rowVars
<1> QED
  BY <1>5, <1>6, StepKinds DEF rowVars

\* The theorem about FollowUpsKept: whichever requests come, a follow-up leaves
\* the queue of a loaded row by a removal or a drain.
THEOREM NoFollowUpLost == Spec => FollowUpsKept
<1>1. Spec => []TypeOK
  BY TypeCorrect
<1>2. TypeOK /\ [Next]_vars => [Loaded /\ crashes' = crashes => Kept]_queue
  BY KeptStep
<1>3. [Loaded /\ crashes' = crashes => Kept]_queue
        => [Loaded /\ crashes' = crashes =>
              \A e \in Range(queue) \ Range(queue') :
                DroppedByClient(e) \/ e = inHand'.entry]_queue
  BY DEF Kept
<1> QED
  BY <1>1, <1>2, <1>3, PTL DEF Spec, FollowUpsKept

(***************************************************************************)
(* Stop.                                                                   *)
(***************************************************************************)
HoldStep == /\ StopInForce' \/ ~suppressed'
            /\ inHand' \in {inHand, EmptyHand}

LEMMA StopStep == TypeOK /\ StopInForce /\ [Next]_vars => HoldStep
<1> SUFFICES ASSUME TypeOK, StopInForce, [Next]_vars PROVE HoldStep
  OBVIOUS
<1>0. drainRequests \in Seq(DrainRequest) /\ suppressed
      /\ \A i \in DOMAIN drainRequests : drainRequests[i].suppressed
  BY DEF TypeOK, StopInForce
<1>1. ASSUME UNCHANGED <<drainRequests, inHand>> PROVE HoldStep
  BY <1>0, <1>1 DEF HoldStep, StopInForce
<1> USE DEF daemonVars
<1>2. ASSUME \/ \E c \in Clients : ClientNext(c)
             \/ \E trim \in BOOLEAN : HydrateSession(trim)
             \/ \E ok, trim \in BOOLEAN : OtherTaskServed(ok, trim)
      PROVE  HoldStep
  <2>1. UNCHANGED <<drainRequests, inHand>>
    BY <1>2 DEF ClientNext, ClientQueue, ClientObserves, ClientReload, SaveTaskState,
                RemoveQueuedMessage, HydrateSession, OtherTaskServed
  <2> QED
    BY <1>1, <2>1
<1>3. CASE MailboxNext
  <2>1. UNCHANGED <<drainRequests, inHand>>
    BY <1>3 DEF MailboxNext, Prompt, Cancel, StartBegin, StartRejected, StartSpawn,
                StartInsert, StartFailed, CloseSession
  <2> QED
    BY <1>1, <2>1
<1>4. ASSUME NEW r \in Runtimes, EventSettle(r) PROVE HoldStep
  <2>1. /\ drainRequests' = Append(drainRequests, [rt |-> r, suppressed |-> suppressed])
        /\ suppressed' = suppressed /\ inHand' = inHand
    BY <1>4 DEF EventSettle
  <2>2. [rt |-> r, suppressed |-> suppressed] \in DrainRequest
    BY DEF TypeOK, DrainRequest
  <2>3. \A i \in DOMAIN drainRequests' : drainRequests'[i].suppressed
    <3>1. TAKE i \in DOMAIN drainRequests'
    <3>2. i \in 1..(Len(drainRequests) + 1)
      BY <1>0, <2>1, <2>2, <3>1
    <3>3. CASE i = Len(drainRequests) + 1
      BY <1>0, <2>1, <2>2, <3>3
    <3>4. CASE i \in 1..Len(drainRequests)
      BY <1>0, <2>1, <2>2, <3>4
    <3> QED
      BY <1>0, <3>2, <3>3, <3>4
  <2> QED
    BY <1>0, <2>1, <2>3 DEF HoldStep, StopInForce
<1>5. ASSUME NEW r \in Runtimes, EventThread(r) \/ Driver(r) PROVE HoldStep
  <2>1. EventSettle(r) \/ UNCHANGED <<drainRequests, inHand>>
    BY <1>5 DEF EventThread, EventRecord, EventPersist, Driver, WriterPrompt,
                WriterCancel, WriterBroken, ReaderPark, ReaderResult, ReaderSettle,
                ReaderWake, ProcExit
  <2> QED
    BY <1>1, <1>4, <2>1
<1>6. ASSUME DrainSkip \/ DrainRollback \/ DrainTake PROVE HoldStep
  <2>1. WorkerReady /\ drainRequests # <<>>
    BY <1>6 DEF DrainSkip, DrainRollback, DrainTake, WorkerReady
  <2>2. Head(drainRequests).suppressed
    <3>1. 1 \in DOMAIN drainRequests /\ Head(drainRequests) = drainRequests[1]
      BY <1>0, <2>1
    <3> QED
      BY <1>0, <3>1
  <2>3. /\ drainRequests' = Tail(drainRequests)
        /\ suppressed' = suppressed /\ inHand' = inHand
    BY <1>6, <2>2 DEF DrainSkip, DrainRollback, DrainTake, Drainable
  <2>4. \A i \in DOMAIN drainRequests' : drainRequests'[i].suppressed
    <3>1. TAKE i \in DOMAIN drainRequests'
    <3>2. i + 1 \in DOMAIN drainRequests /\ drainRequests'[i] = drainRequests[i + 1]
      BY <1>0, <2>1, <2>3, <3>1
    <3> QED
      BY <1>0, <3>2
  <2> QED
    BY <1>0, <2>3, <2>4 DEF HoldStep, StopInForce
<1>7. CASE DrainSubmit
  BY <1>0, <1>7 DEF DrainSubmit, HoldStep, StopInForce
<1>8. CASE Crash
  BY <1>8 DEF Crash, HoldStep
<1>9. CASE UNCHANGED vars
  BY <1>1, <1>9 DEF vars
<1> QED
  BY <1>2, <1>3, <1>5, <1>6, <1>7, <1>8, <1>9 DEF Next, DrainWorker

\* Once a Stop is in force it stays so, and nothing is taken from the queue,
\* until a prompt or a restart lifts it.
THEOREM StopIsHeld == Spec => StopHoldsQueue
<1>1. Spec => []TypeOK
  BY TypeCorrect
<1>2. TypeOK /\ [Next]_vars => [StopInForce => HoldStep]_vars
  BY StopStep
<1>3. [StopInForce => HoldStep]_vars
        => [StopInForce => /\ StopInForce' \/ ~suppressed'
                           /\ inHand' \in {inHand, EmptyHand}]_vars
  BY DEF HoldStep
<1> QED
  BY <1>1, <1>2, <1>3, PTL DEF Spec, StopHoldsQueue
=============================================================================
