---------------------- MODULE RequestDispatcherProofs ----------------------
(***************************************************************************)
(* What RequestDispatcher guarantees for any requests, commands and        *)
(* runtimes and every value of the bounds.                                 *)
(***************************************************************************)
EXTENDS RequestDispatcher, WellFoundedInduction, TLAPS

-----------------------------------------------------------------------------
(* Values.                                                                 *)

LEMMA ItemParts ==
  ASSUME NEW i \in Items
  PROVE  i[1] \in Requests /\ i[2] \in 1..Sends[i[1]] /\ i = <<i[1], i[2]>>
BY DEF Items

LEMMA CommandTypes ==
  ASSUME command \in [Requests -> Commands], NEW i \in Items
  PROVE  Kind(i) \in AllKinds /\ Rt(i) \in Runtimes /\ Silent(i) \in BOOLEAN
BY ItemParts, ConstantsAssumption DEF Kind, Rt, Silent

\* A set of positions that is not empty has a last one.
LEMMA LastPosition ==
  ASSUME NEW n \in Nat, NEW S \in SUBSET (1..n), S # {}
  PROVE  \E k \in S : \A l \in S : l <= k
<1> DEFINE R == OpToRel(<, Nat)
           T == {m \in Nat : n - m \in S}
<1>1. PICK k \in S : TRUE
  OBVIOUS
<1>2. n - k \in T /\ T \subseteq Nat
  OBVIOUS
<1>3. PICK t \in T : \A u \in T : <<u, t>> \notin R
  <2>1. T # {}
    BY <1>2
  <2> HIDE DEF T
  <2> QED
    BY <1>2, <2>1, NatLessThanWellFounded, WFMin
<1>4. ASSUME NEW l \in S PROVE l <= n - t
  <2>1. l \in Nat /\ l <= n /\ n - (n - l) = l
    OBVIOUS
  <2>2. n - l \in T
    BY <2>1
  <2>3. ~(n - l < t)
    <3>1. <<n - l, t>> \notin R
      BY <1>3, <2>2
    <3> QED
      BY <1>2, <2>2, <3>1 DEF OpToRel
  <2> QED
    BY <1>2, <2>1, <2>3
<1>5. n - t \in S
  BY <1>3
<1> QED
  BY <1>4, <1>5

\* A lookup finds an outcome that was recorded for the request.
LEMMA LookupFinds ==
  ASSUME TypeOK, NEW i \in Items, IsCached(i)
  PROVE  cached_response(i) \in Outcomes
<1> DEFINE S == Entries(i[1])
           last == CHOOSE k \in S : \A l \in S : l <= k
<1>1. cache \in Seq(Cached) /\ Len(cache) \in Nat /\ DOMAIN cache = 1..Len(cache)
  BY DEF TypeOK
<1>2. S \in SUBSET (1..Len(cache)) /\ S # {}
  BY <1>1 DEF IsCached, Entries
<1>3. last \in S
  BY <1>1, <1>2, LastPosition
<1>4. cache[last] \in Cached
  BY <1>1, <1>2, <1>3
<1> QED
  BY <1>4 DEF cached_response, Cached

\* What recording an outcome does to the cache.
LEMMA CacheTypes ==
  ASSUME TypeOK, NEW i \in Items, NEW o \in Outcomes, cache_response(i, o)
  PROVE  cache' \in Seq(Cached) /\ Len(cache') <= CacheBound /\ forgotten' \subseteq Requests
<1> DEFINE e == [req |-> i[1], outcome |-> o]
           all == Append(cache, e)
<1>1. e \in Cached /\ cache \in Seq(Cached) /\ Len(cache) \in Nat /\ Len(cache) <= CacheBound
  BY ItemParts DEF TypeOK, Cached
<1>2. all \in Seq(Cached) /\ Len(all) = Len(cache) + 1 /\ all # <<>>
  BY <1>1
<1>3. Tail(all) \in Seq(Cached) /\ Len(Tail(all)) = Len(cache)
  BY <1>2
<1>4. cache' = IF Len(all) > CacheBound THEN Tail(all) ELSE all
  BY DEF cache_response
<1>5. cache' \in Seq(Cached) /\ Len(cache') <= CacheBound
  BY <1>1, <1>2, <1>3, <1>4, ConstantsAssumption
<1>6. forgotten' \subseteq Requests
  BY DEF cache_response, TypeOK
<1> QED
  BY <1>5, <1>6

-----------------------------------------------------------------------------
(* Every reachable state is of the right type.                             *)

LEMMA OutcomeTypes == Ok \in Outcomes /\ Error \in Outcomes
BY DEF Ok, Error, Outcomes

LEMMA TypeInit == Init => TypeOK
<1> SUFFICES ASSUME Init PROVE TypeOK
  OBVIOUS
<1>1. pc \in [Items -> ItemPcs] /\ worker \in [Mailboxes -> WorkerPcs]
  BY DEF Init, ItemPcs, WorkerPcs
<1>2. outcome \in [Items -> Outcomes]
  BY OutcomeTypes DEF Init
<1>3. created \in 0..MaxMailboxes /\ cache \in Seq(Cached) /\ Len(cache) <= CacheBound
  BY ConstantsAssumption DEF Init
<1>4. inbox \in [Mailboxes -> Seq(Items)]
  BY DEF Init
<1> QED
  BY <1>1, <1>2, <1>3, <1>4 DEF Init, TypeOK

\* The dispatcher.
LEMMA TypeDispatch ==
  ASSUME TypeOK, NEW i \in Items, dispatch(i) PROVE TypeOK'
<1> USE DEF TypeOK, workerVars, faultVars, orderVars, mailboxVars
<1>0. arrived + 1 \in Nat /\ "queued" \in ItemPcs /\ "lookup" \in ItemPcs
      /\ "refused" \in ItemPcs /\ "recv" \in WorkerPcs
  BY DEF ItemPcs, WorkerPcs
<1>1. CASE Enqueue(i)
  <2>1. registered \in Mailboxes /\ Append(inbox[registered], i) \in Seq(Items)
    BY <1>1 DEF Enqueue
  <2>2. inbox' \in [Mailboxes -> Seq(Items)] /\ number' \in [Items -> Nat]
        /\ arrived' \in Nat /\ pc' \in [Items -> ItemPcs]
    BY <1>0, <1>1, <2>1 DEF Enqueue, Number
  <2> QED
    BY <1>1, <2>2 DEF Enqueue
<1>2. CASE CreateMailbox(i)
  <2>1. created' \in Mailboxes /\ created' \in 0..MaxMailboxes /\ <<i>> \in Seq(Items)
    BY <1>2, ConstantsAssumption DEF CreateMailbox, Mailboxes
  <2>2. inbox' \in [Mailboxes -> Seq(Items)] /\ number' \in [Items -> Nat]
        /\ arrived' \in Nat /\ pc' \in [Items -> ItemPcs] /\ worker' \in [Mailboxes -> WorkerPcs]
    BY <1>0, <1>2, <2>1 DEF CreateMailbox, Number
  <2> QED
    BY <1>2, <2>1, <2>2 DEF CreateMailbox
<1>3. CASE DispatchIndependent(i)
  BY <1>0, <1>3 DEF DispatchIndependent
<1>4. CASE SpawnFails(i)
  BY <1>0, <1>4 DEF SpawnFails
<1> QED
  BY <1>1, <1>2, <1>3, <1>4 DEF dispatch

LEMMA TypeRefused ==
  ASSUME TypeOK, NEW i \in Items, send_dispatch_error(i) PROVE TypeOK'
<1> DEFINE o == IF IsCached(i) THEN cached_response(i) ELSE Error
<1>1. o \in Outcomes
  BY LookupFinds, OutcomeTypes
<1>2. pc' \in [Items -> ItemPcs] /\ outcome' \in [Items -> Outcomes]
  BY <1>1 DEF send_dispatch_error, TypeOK, ItemPcs
<1>3. cache' \in Seq(Cached) /\ Len(cache') <= CacheBound /\ forgotten' \subseteq Requests
  <2>1. CASE Silent(i)
    BY <2>1 DEF send_dispatch_error, TypeOK
  <2>2. CASE ~Silent(i)
    BY <1>1, <2>2, CacheTypes DEF send_dispatch_error
  <2> QED
    BY <2>1, <2>2
<1> QED
  BY <1>2, <1>3 DEF send_dispatch_error, TypeOK, mailboxVars, workerVars, orderVars, faultVars

\* handle_request.
LEMMA TypeHandle ==
  ASSUME TypeOK, NEW i \in Items, handle_request(i) PROVE TypeOK'
<1> USE DEF mailboxVars, workerVars, orderVars, faultVars
<1>0. Rt(i) \in Runtimes /\ i[1] \in Requests
  BY CommandTypes, ItemParts DEF TypeOK
<1>1. CASE Lookup(i)
  <2>1. pc' \in [Items -> ItemPcs] /\ outcome' \in [Items -> Outcomes]
        /\ hub' \in Runtimes \cup {NoRuntime}
    <3>1. CASE IsCached(i)
      BY <1>1, <3>1, LookupFinds DEF Lookup, TypeOK, ItemPcs
    <3>2. CASE ~IsCached(i)
      BY <1>0, <1>1, <3>2 DEF Lookup, TypeOK, ItemPcs
    <3> QED
      BY <3>1, <3>2
  <2> QED
    BY <1>1, <2>1 DEF Lookup, TypeOK
<1>2. CASE Handle(i)
  <2>1. PICK o \in Outcomes : Effect(i, o) /\ outcome' = [outcome EXCEPT ![i] = o]
    BY <1>2 DEF Handle
  <2>2. running' \in Runtimes \cup {NoRuntime} /\ ended' \in Runtimes \cup {NoRuntime}
    BY <1>0, <1>2, <2>1 DEF Handle, Effect, Ended, TypeOK
  <2>3. pc' \in [Items -> ItemPcs] /\ outcome' \in [Items -> Outcomes]
        /\ executed' \in [Items -> BOOLEAN] /\ runs' \in [Requests -> Nat]
    BY <1>0, <1>2, <2>1 DEF Handle, TypeOK, ItemPcs
  <2> QED
    BY <1>2, <2>2, <2>3 DEF Handle, TypeOK
<1>3. CASE Record(i)
  <2>1. outcome[i] \in Outcomes
    BY DEF TypeOK
  <2>2. cache' \in Seq(Cached) /\ Len(cache') <= CacheBound /\ forgotten' \subseteq Requests
    <3>1. CASE Silent(i)
      BY <1>3, <3>1 DEF Record, TypeOK
    <3>2. CASE ~Silent(i)
      BY <1>3, <2>1, <3>2, CacheTypes DEF Record
    <3> QED
      BY <3>1, <3>2
  <2>3. pc' \in [Items -> ItemPcs] /\ hub' \in Runtimes \cup {NoRuntime}
    BY <1>3 DEF Record, TypeOK, ItemPcs
  <2> QED
    BY <1>3, <2>2, <2>3 DEF Record, TypeOK
<1>4. CASE Answer(i)
  BY <1>4 DEF Answer, TypeOK, ItemPcs
<1> QED
  BY <1>1, <1>2, <1>3, <1>4 DEF handle_request

\* The worker begins a request.
LEMMA TypeBegin ==
  ASSUME TypeOK, NEW m \in Mailboxes, inbox[m] # <<>>, Begin(m)
  PROVE  /\ Head(inbox[m]) \in Items
         /\ current' \in [Mailboxes -> Items \cup {NoItem}]
         /\ inbox' \in [Mailboxes -> Seq(Items)] /\ worker' \in [Mailboxes -> WorkerPcs]
         /\ pc' \in [Items -> ItemPcs] /\ served' \in Nat
<1>1. Head(inbox[m]) \in Items /\ Tail(inbox[m]) \in Seq(Items)
  BY DEF TypeOK
<1> QED
  BY <1>1 DEF Begin, TypeOK, ItemPcs, WorkerPcs

LEMMA TypeWorker ==
  ASSUME TypeOK, NEW m \in Mailboxes,
         worker[m] = "busy" => current[m] \in Items, run_runtime_mailbox(m)
  PROVE  TypeOK'
<1> USE DEF mailboxVars, faultVars, orderVars
<1>1. CASE Receive(m)
  BY <1>1, TypeBegin DEF Receive, TypeOK
<1>2. CASE Supervise(m)
  <2> DEFINE i == current[m]
  <2>1. i \in Items /\ Rt(i) \in Runtimes /\ outcome[i] \in Outcomes
    BY <1>2, CommandTypes DEF Supervise, TypeOK
  <2>2. NextActive(i, active[m]) \in Runtimes \cup {NoRuntime}
        /\ EndRuntime(i, active[m]) \in Runtimes \cup {NoRuntime}
    BY <2>1 DEF NextActive, EndRuntime, Outcomes, TypeOK
  <2> QED
    BY <1>2, <2>1, <2>2 DEF Supervise, TypeOK, ItemPcs, WorkerPcs
<1>3. CASE Retire(m) /\ inbox[m] # <<>>
  BY <1>3, TypeBegin DEF Retire, TypeOK
<1>4. CASE Retire(m) /\ inbox[m] = <<>>
  BY <1>4 DEF Retire, TypeOK, WorkerPcs
<1> QED
  BY <1>1, <1>2, <1>3, <1>4 DEF run_runtime_mailbox

\* A thread that dies.
LEMMA TypeDying ==
  ASSUME TypeOK, NEW i \in Items, Dying(i)
  PROVE  /\ panics' \in Nat /\ running' \in Runtimes \cup {NoRuntime} /\ ended' = ended
         /\ runs' \in [Requests -> Nat] /\ forgotten' \subseteq Requests
BY ItemParts, CommandTypes DEF Dying, AfterPanic, TypeOK

LEMMA TypeWorkerPanics ==
  ASSUME TypeOK, NEW m \in Mailboxes,
         worker[m] = "busy" => current[m] \in Items, WorkerPanics(m)
  PROVE  TypeOK'
<1>1. current[m] \in Items
  BY DEF WorkerPanics
<1>2. pc' \in [Items -> ItemPcs] /\ worker' \in [Mailboxes -> WorkerPcs]
      /\ inbox' \in [Mailboxes -> Seq(Items)]
  BY DEF WorkerPanics, TypeOK, ItemPcs, WorkerPcs
<1> QED
  BY <1>1, <1>2, TypeDying DEF WorkerPanics, TypeOK, orderVars

LEMMA TypeIndependentPanics ==
  ASSUME TypeOK, NEW i \in Items, IndependentPanics(i) PROVE TypeOK'
BY TypeDying DEF IndependentPanics, TypeOK, ItemPcs, orderVars, workerVars, mailboxVars

-----------------------------------------------------------------------------
(* The inductive invariant.                                                *)

Working == {"lookup", "handle", "record", "answer", "supervise"}

\* At most one worker is live, its mailbox is the registered one, and what it
\* serves is the one runtime request that is being handled.
Serial ==
  /\ \A m \in Mailboxes : worker[m] = "none" <=> m > created
  /\ NoneLeftBehind
  /\ \A m \in Mailboxes : worker[m] = "busy" =>
       current[m] \in Items /\ targets_runtime(current[m]) /\ pc[current[m]] \in Working
  /\ \A i \in Items : targets_runtime(i) /\ pc[i] \in Working =>
       \E m \in Mailboxes : worker[m] = "busy" /\ current[m] = i

\* The requests in a mailbox are the last that arrived, in order.
Numbered ==
  \A m \in Mailboxes : \A k \in 1..Len(inbox[m]) :
    /\ pc[inbox[m][k]] = "queued"
    /\ targets_runtime(inbox[m][k])
    /\ number[inbox[m][k]] = arrived - Len(inbox[m]) + k

\* What was served came before all that wait, and directly before them as long
\* as no worker can die.
Served ==
  /\ served <= arrived
  /\ \A m \in Mailboxes : Live(m) => served <= arrived - Len(inbox[m])
  /\ panics <= MaxPanics
  /\ \A m \in Mailboxes : worker[m] = "dead" => panics > 0
  /\ registered # NoMailbox => Live(registered) \/ worker[registered] = "dead"
  /\ MaxPanics = 0 =>
       /\ registered = NoMailbox => served = arrived
       /\ \A m \in Mailboxes : Live(m) => served = arrived - Len(inbox[m])

IInv == TypeOK /\ Serial /\ Numbered /\ Served

LEMMA InvInit == Init => IInv
<1> SUFFICES ASSUME Init PROVE IInv
  OBVIOUS
<1>1. TypeOK
  BY TypeInit
<1>2. \A m \in Mailboxes : worker[m] = "none" /\ inbox[m] = <<>> /\ ~Live(m) /\ m > created
  BY ConstantsAssumption DEF Init, Live, Mailboxes
<1>3. \A i \in Items : pc[i] \notin Working
  BY DEF Init, Working
<1>4. Serial
  BY <1>2, <1>3 DEF Serial, NoneLeftBehind
<1>5. Numbered
  BY <1>2 DEF Numbered
<1>6. Served
  BY <1>2, ConstantsAssumption DEF Served, Init
<1> QED
  BY <1>1, <1>4, <1>5, <1>6 DEF IInv

\* The live worker is unique, and so is the busy one.
LEMMA OneLive ==
  ASSUME Serial, NEW m \in Mailboxes, NEW n \in Mailboxes, Live(m), Live(n)
  PROVE  m = n
BY DEF Serial, NoneLeftBehind

\* A step that moves one request that does not wait, between positions where no
\* worker has it or where its worker keeps it, and leaves the rest.
Moves(i, p) ==
  /\ pc[i] # "queued" /\ pc' = [pc EXCEPT ![i] = p]
  /\ targets_runtime(i) => (pc[i] \in Working <=> p \in Working)
  /\ UNCHANGED <<command, created, inbox, worker, current, arrived, number, served>>
  /\ panics' >= panics /\ panics' <= MaxPanics
  /\ registered' = registered \/ (registered' = NoMailbox /\ Deserted)

LEMMA MoveOne ==
  ASSUME IInv, TypeOK', NEW i \in Items, NEW p \in ItemPcs, Moves(i, p) PROVE IInv'
<1> USE DEF Moves
<1> USE DEF IInv
<1>1. \A m \in Mailboxes : Live(m)' <=> Live(m)
  BY DEF Live
<1>2. \A m \in Mailboxes : Live(m) => registered' = m
  BY DEF Serial, NoneLeftBehind, Deserted, Mailboxes, NoMailbox
<1>3. \A j \in Items : targets_runtime(j)' <=> targets_runtime(j)
  BY DEF targets_runtime, Kind
<1>4. \A j \in Items : targets_runtime(j) => (pc'[j] \in Working <=> pc[j] \in Working)
  BY DEF TypeOK
<1>5. Serial'
  BY <1>1, <1>2, <1>3, <1>4 DEF Serial, NoneLeftBehind
<1>6. \A m \in Mailboxes : \A k \in 1..Len(inbox[m]) : inbox[m][k] \in Items /\ inbox[m][k] # i
  BY DEF Numbered, TypeOK
<1>7. Numbered'
  BY <1>3, <1>6 DEF Numbered, TypeOK
<1>8. Served'
  <2>1. MaxPanics = 0 /\ registered' # registered => registered = NoMailbox
    BY DEF Served, Deserted, TypeOK
  <2>2. registered' # NoMailbox =>
          registered' = registered /\ (Live(registered)' <=> Live(registered))
    BY DEF Live
  <2>3. MaxPanics \in Nat /\ panics \in Nat /\ panics' \in Nat
    BY ConstantsAssumption DEF TypeOK
  <2> QED
    BY <1>1, <2>1, <2>2, <2>3 DEF Served
<1> QED
  BY <1>5, <1>7, <1>8

\* The dispatcher.
LEMMA EnqueueKeeps ==
  ASSUME IInv, TypeOK', NEW i \in Items, Enqueue(i) PROVE IInv'
<1> USE DEF IInv
<1> DEFINE r == registered
<1>1. r \in Mailboxes /\ Live(r) /\ pc[i] = "unsent" /\ inbox[r] \in Seq(Items)
      /\ arrived \in Nat /\ served \in Nat
  BY DEF Enqueue, Sendable, TypeOK
<1>2. \A m \in Mailboxes : m # r => inbox[m] = <<>> /\ inbox'[m] = <<>>
  BY <1>1, OneLive DEF Enqueue, Serial, NoneLeftBehind, TypeOK
<1>3. inbox'[r] = Append(inbox[r], i) /\ Len(inbox[r]) \in Nat
      /\ Len(inbox'[r]) = Len(inbox[r]) + 1
  BY <1>1 DEF Enqueue, TypeOK
<1>10. /\ arrived \in Nat /\ arrived' = arrived + 1
       /\ Len(inbox[r]) \in Nat /\ Len(inbox'[r]) = Len(inbox[r]) + 1
  BY <1>1, <1>3 DEF Enqueue, Number
<1>4. \A m \in Mailboxes : Live(m)' <=> Live(m)
  BY DEF Enqueue, workerVars, Live
<1>5. \A j \in Items : targets_runtime(j)' <=> targets_runtime(j)
  BY DEF Enqueue, targets_runtime, Kind
<1>6. \A j \in Items : pc'[j] \in Working <=> pc[j] \in Working
  BY <1>1 DEF Enqueue, TypeOK, Working
<1>7. Serial'
  BY <1>1, <1>2, <1>4, <1>5, <1>6 DEF Serial, NoneLeftBehind, Enqueue, workerVars
<1>8. Numbered'
  <2>0. command' = command /\ arrived' = arrived + 1 /\ number' = [number EXCEPT ![i] = arrived + 1]
        /\ pc' = [pc EXCEPT ![i] = "queued"]
    BY DEF Enqueue, Number
  <2>1. ASSUME NEW k \in 1..Len(inbox'[r])
        PROVE  /\ pc'[inbox'[r][k]] = "queued"
               /\ targets_runtime(inbox'[r][k])
               /\ number'[inbox'[r][k]] = arrived' - Len(inbox'[r]) + k
    <3>1. CASE k = Len(inbox'[r])
      <4>1. inbox'[r][k] = i
        BY <1>1, <1>3, <3>1
      <4>2. pc'[i] = "queued" /\ targets_runtime(i) /\ number'[i] = arrived'
        BY <2>0 DEF Enqueue, TypeOK
      <4>3. arrived' = arrived' - Len(inbox'[r]) + k
        <5>1. Len(inbox'[r]) \in Nat /\ arrived' \in Nat
          BY <1>10
        <5>2. \A a, b \in Nat : a = a - b + b
          OBVIOUS
        <5> QED
          BY <3>1, <5>1, <5>2
      <4> QED
        BY <4>1, <4>2, <4>3
    <3>2. CASE k # Len(inbox'[r])
      <4>1. k \in 1..Len(inbox[r]) /\ inbox'[r][k] = inbox[r][k] /\ inbox[r][k] \in Items
        BY <1>1, <1>3, <3>2
      <4>2. pc[inbox[r][k]] = "queued" /\ targets_runtime(inbox[r][k])
            /\ number[inbox[r][k]] = arrived - Len(inbox[r]) + k
        BY <1>1, <4>1 DEF Numbered
      <4>3. pc'[inbox[r][k]] = "queued" /\ number'[inbox[r][k]] = number[inbox[r][k]]
        BY <1>1, <2>0, <4>1, <4>2 DEF TypeOK
      <4>4. arrived - Len(inbox[r]) + k = arrived' - Len(inbox'[r]) + k
        BY <1>10, <4>1
      <4> QED
        BY <4>1, <4>2, <4>3, <4>4
    <3> QED
      BY <3>1, <3>2
  <2>2. \A m \in Mailboxes : \A k \in 1..Len(inbox'[m]) : m = r
    BY <1>2
  <2> QED
    BY <2>0, <2>1, <2>2 DEF Numbered, targets_runtime, Kind
<1>9. Served'
  <2>0. arrived' = arrived + 1
    BY DEF Enqueue, Number
  <2>1. arrived' - Len(inbox'[r]) = arrived - Len(inbox[r])
    BY <1>1, <1>3, <2>0
  <2>2. \A m \in Mailboxes : Live(m) => m = r
    BY <1>1, OneLive
  <2>3. served' = served /\ registered' = registered /\ panics' = panics /\ worker' = worker
    BY DEF Enqueue, workerVars, faultVars
  <2>4. registered # NoMailbox
    BY <1>1 DEF Mailboxes, NoMailbox
  <2>5. served' <= arrived'
    BY <1>1, <2>0, <2>3 DEF Served
  <2>6. \A m \in Mailboxes : Live(m)' => served' <= arrived' - Len(inbox'[m])
    BY <1>1, <1>4, <2>1, <2>2, <2>3 DEF Served
  <2>7. /\ panics' <= MaxPanics
        /\ \A m \in Mailboxes : worker'[m] = "dead" => panics' > 0
        /\ registered' # NoMailbox => Live(registered)' \/ worker'[registered'] = "dead"
    BY <1>1, <1>4, <2>3 DEF Served
  <2>8. MaxPanics = 0 => \A m \in Mailboxes : Live(m)' => served' = arrived' - Len(inbox'[m])
    BY <1>1, <1>4, <2>1, <2>2, <2>3 DEF Served
  <2> QED
    BY <2>3, <2>4, <2>5, <2>6, <2>7, <2>8 DEF Served
<1> QED
  BY <1>7, <1>8, <1>9

LEMMA CreateKeeps ==
  ASSUME IInv, TypeOK', NEW i \in Items, CreateMailbox(i) PROVE IInv'
<1> USE DEF IInv
<1> DEFINE r == created + 1
<1>1. r \in Mailboxes /\ created \in Nat /\ pc[i] = "unsent" /\ worker[r] = "none"
      /\ arrived \in Nat /\ served \in Nat /\ inbox'[r] = <<i>> /\ worker'[r] = "recv"
      /\ registered' = r /\ created' = r /\ Len(inbox'[r]) = 1 /\ r # NoMailbox
  BY ConstantsAssumption
     DEF CreateMailbox, Sendable, TypeOK, Serial, Mailboxes, NoMailbox
<1>2. \A m \in Mailboxes : ~Live(m) /\ inbox[m] = <<>>
  BY DEF CreateMailbox, Deserted, Serial, NoneLeftBehind, Mailboxes, NoMailbox
<1>3. \A m \in Mailboxes : m # r => worker'[m] = worker[m] /\ inbox'[m] = <<>>
  BY <1>2 DEF CreateMailbox, TypeOK
<1>4. \A m \in Mailboxes : Live(m)' <=> m = r
  BY <1>1, <1>2, <1>3 DEF Live
<1>5. \A j \in Items : targets_runtime(j)' <=> targets_runtime(j)
  BY DEF CreateMailbox, targets_runtime, Kind
<1>6. \A j \in Items : pc'[j] \in Working <=> pc[j] \in Working
  BY <1>1 DEF CreateMailbox, TypeOK, Working
<1>7. Serial'
  <2>1. \A m \in Mailboxes : worker'[m] = "none" <=> m > created'
    BY <1>1, <1>3 DEF Serial, Mailboxes
  <2>2. NoneLeftBehind'
    BY <1>1, <1>3, <1>4 DEF NoneLeftBehind
  <2>3. \A m \in Mailboxes : worker[m] # "busy" /\ worker'[m] # "busy"
    BY <1>1, <1>2, <1>3 DEF Live
  <2>4. \A j \in Items : ~(targets_runtime(j)' /\ pc'[j] \in Working)
    BY <1>5, <1>6, <2>3 DEF Serial
  <2> QED
    BY <2>1, <2>2, <2>3, <2>4 DEF Serial
<1>8. Numbered'
  <2>1. \A m \in Mailboxes : \A k \in 1..Len(inbox'[m]) : m = r
    BY <1>3
  <2>2. \A k \in 1..Len(inbox'[r]) : k = 1 /\ inbox'[r][k] = i
    <3>1. inbox'[r] = <<i>> /\ 1..Len(inbox'[r]) = {1}
      BY <1>1
    <3> QED
      BY <3>1
  <2>3. pc'[i] = "queued" /\ targets_runtime(i) /\ command' = command
        /\ number'[i] = arrived' /\ arrived' = arrived + 1
    BY <1>1 DEF CreateMailbox, Number, TypeOK
  <2>4. number'[i] = arrived' - Len(inbox'[r]) + 1
    BY <1>1, <2>3
  <2> QED
    BY <2>1, <2>2, <2>3, <2>4 DEF Numbered, targets_runtime, Kind
<1>9. Served'
  <2>1. arrived' = arrived + 1 /\ served' = served /\ panics' = panics
    BY DEF CreateMailbox, Number, faultVars
  <2>2. MaxPanics = 0 => served = arrived
    BY <1>2, ConstantsAssumption DEF Served, TypeOK
  <2>3. \A m \in Mailboxes : worker'[m] = "dead" => worker[m] = "dead"
    BY <1>1, <1>3
  <2>4. \A m \in Mailboxes :
          Live(m)' => Len(inbox'[m]) = 1 /\ arrived' - Len(inbox'[m]) = arrived
    <3>1. \A m \in Mailboxes : Live(m)' => inbox'[m] = inbox'[r]
      BY <1>4
    <3>2. Len(inbox'[r]) = 1 /\ arrived' - 1 = arrived
      BY <1>1, <2>1
    <3> QED
      BY <3>1, <3>2
  <2>5. Live(registered)' /\ registered' # NoMailbox
    <3>1. worker'[registered'] = "recv"
      BY <1>1
    <3> QED
      BY <1>1, <3>1 DEF Live
  <2>6. served <= arrived /\ panics <= MaxPanics
        /\ \A m \in Mailboxes : worker[m] = "dead" => panics > 0
    BY DEF Served
  <2>7. served' <= arrived' /\ \A m \in Mailboxes : Live(m)' => served' <= arrived' - Len(inbox'[m])
    BY <1>1, <2>1, <2>4, <2>6
  <2>8. MaxPanics = 0 => \A m \in Mailboxes : Live(m)' => served' = arrived' - Len(inbox'[m])
    BY <1>1, <2>1, <2>2, <2>4
  <2> QED
    BY <2>1, <2>3, <2>5, <2>6, <2>7, <2>8 DEF Served
<1> QED
  BY <1>7, <1>8, <1>9

LEMMA DispatchKeeps ==
  ASSUME IInv, NEW i \in Items, dispatch(i) \/ send_dispatch_error(i) PROVE IInv'
<1>1. TypeOK'
  BY TypeDispatch, TypeRefused DEF IInv
<1>2. panics' = panics /\ panics <= MaxPanics /\ panics \in Nat
  BY DEF dispatch, Enqueue, CreateMailbox, DispatchIndependent, SpawnFails,
         send_dispatch_error, faultVars, IInv, TypeOK, Served
<1> USE DEF Working, ItemPcs, mailboxVars, workerVars, orderVars, Sendable
<1>3. CASE DispatchIndependent(i)
  <2>1. Moves(i, "lookup")
    BY <1>2, <1>3 DEF DispatchIndependent, Moves
  <2> QED
    BY <1>1, <2>1, MoveOne
<1>4. CASE SpawnFails(i)
  <2>1. Moves(i, "refused")
    BY <1>2, <1>4 DEF SpawnFails, Moves
  <2> QED
    BY <1>1, <2>1, MoveOne
<1>5. CASE send_dispatch_error(i)
  <2>1. Moves(i, "done")
    BY <1>2, <1>5 DEF send_dispatch_error, Moves
  <2> QED
    BY <1>1, <2>1, MoveOne
<1> QED
  BY <1>1, <1>3, <1>4, <1>5, EnqueueKeeps, CreateKeeps DEF dispatch

\* handle_request, and a panic of an independent one.
LEMMA HandleKeeps ==
  ASSUME IInv, NEW i \in Items, handle_request(i) \/ IndependentPanics(i) PROVE IInv'
<1>1. TypeOK'
  BY TypeHandle, TypeIndependentPanics DEF IInv
<1>2. panics <= MaxPanics /\ panics \in Nat /\ MaxPanics \in Nat
  BY ConstantsAssumption DEF IInv, TypeOK, Served
<1> USE DEF Working, ItemPcs, mailboxVars, workerVars, orderVars, faultVars
<1>3. CASE Lookup(i)
  <2>1. Moves(i, "answer") \/ Moves(i, "handle")
    BY <1>2, <1>3 DEF Lookup, Moves
  <2> QED
    BY <1>1, <2>1, MoveOne
<1>4. CASE Handle(i)
  <2>1. Moves(i, "record")
    BY <1>2, <1>4 DEF Handle, Moves
  <2> QED
    BY <1>1, <2>1, MoveOne
<1>5. CASE Record(i)
  <2>1. Moves(i, "answer")
    BY <1>2, <1>5 DEF Record, Moves
  <2> QED
    BY <1>1, <2>1, MoveOne
<1>6. CASE Answer(i)
  <2>1. CASE targets_runtime(i)
    <3>1. Moves(i, "supervise")
      BY <1>2, <1>6, <2>1 DEF Answer, Moves
    <3> QED
      BY <1>1, <3>1, MoveOne
  <2>2. CASE ~targets_runtime(i)
    <3>1. Moves(i, "done")
      BY <1>2, <1>6, <2>2 DEF Answer, Moves
    <3> QED
      BY <1>1, <3>1, MoveOne
  <2> QED
    BY <2>1, <2>2
<1>7. CASE IndependentPanics(i)
  <2>1. Moves(i, "lost")
    BY <1>2, <1>7 DEF IndependentPanics, Dying, Moves
  <2> QED
    BY <1>1, <2>1, MoveOne
<1> QED
  BY <1>3, <1>4, <1>5, <1>6, <1>7 DEF handle_request

\* A worker that begins a request is the only one that could.
LEMMA BeginOrder ==
  ASSUME IInv, NEW m \in Mailboxes, worker[m] \in {"recv", "retire"}, inbox[m] # <<>>, Begin(m)
  PROVE  /\ Live(m) /\ \A n \in Mailboxes : worker[n] # "busy"
         /\ \A n \in Mailboxes \ {m} : ~Live(n) /\ inbox[n] = <<>>
         /\ \A i \in Items : targets_runtime(i) => pc[i] \notin Working
         /\ inbox[m] \in Seq(Items) /\ Len(inbox[m]) \in Nat \ {0}
         /\ Head(inbox[m]) = inbox[m][1] /\ Head(inbox[m]) \in Items
         /\ pc[Head(inbox[m])] = "queued" /\ targets_runtime(Head(inbox[m]))
         /\ served' = arrived - Len(inbox[m]) + 1
         /\ served' > served /\ served' <= arrived
         /\ MaxPanics = 0 => served' = served + 1
<1> USE DEF IInv
<1>1. Live(m) /\ inbox[m] \in Seq(Items) /\ arrived \in Nat /\ served \in Nat
  BY DEF Live, TypeOK
<1>2. \A n \in Mailboxes \ {m} : ~Live(n) /\ inbox[n] = <<>>
  BY <1>1, OneLive DEF Serial, NoneLeftBehind
<1>3. \A n \in Mailboxes : worker[n] # "busy"
  BY <1>2 DEF Live
<1>4. Len(inbox[m]) \in Nat \ {0} /\ Head(inbox[m]) = inbox[m][1] /\ Head(inbox[m]) \in Items
  BY <1>1
<1>5. 1 \in 1..Len(inbox[m])
  BY <1>4
<1>6. /\ pc[inbox[m][1]] = "queued" /\ targets_runtime(inbox[m][1])
      /\ number[inbox[m][1]] = arrived - Len(inbox[m]) + 1
  BY <1>5 DEF Numbered
<1>7. served' = arrived - Len(inbox[m]) + 1
  BY <1>4, <1>6 DEF Begin
<1>8. served <= arrived - Len(inbox[m]) /\ (MaxPanics = 0 => served = arrived - Len(inbox[m]))
  BY <1>1 DEF Served
<1>9. \A i \in Items : targets_runtime(i) => pc[i] \notin Working
  BY <1>3 DEF Serial
<1>10. served' > served /\ served' <= arrived /\ (MaxPanics = 0 => served' = served + 1)
  <2> DEFINE n == Len(inbox[m])
  <2>1. n \in Nat \ {0} /\ arrived \in Nat /\ served \in Nat /\ served' = arrived - n + 1
        /\ served <= arrived - n /\ (MaxPanics = 0 => served = arrived - n)
    BY <1>1, <1>4, <1>7, <1>8
  <2> HIDE DEF n
  <2>2. served' \in Int /\ served' > served /\ served' <= arrived
    BY <2>1
  <2>3. MaxPanics = 0 => served' = served + 1
    BY <2>1
  <2> QED
    BY <2>2, <2>3
<1> QED
  BY <1>1, <1>2, <1>3, <1>4, <1>6, <1>7, <1>9, <1>10

LEMMA BeginKeeps ==
  ASSUME IInv, TypeOK', NEW m \in Mailboxes, worker[m] \in {"recv", "retire"},
         inbox[m] # <<>>, Begin(m),
         UNCHANGED <<command, registered, created, arrived, number, panics>>
  PROVE  IInv'
<1> USE DEF IInv
<1> DEFINE h == Head(inbox[m])
<1>1. /\ Live(m) /\ \A n \in Mailboxes : worker[n] # "busy"
      /\ \A n \in Mailboxes \ {m} : ~Live(n) /\ inbox[n] = <<>>
      /\ \A i \in Items : targets_runtime(i) => pc[i] \notin Working
      /\ inbox[m] \in Seq(Items) /\ Len(inbox[m]) \in Nat \ {0}
      /\ h = inbox[m][1] /\ h \in Items /\ targets_runtime(h)
      /\ served' = arrived - Len(inbox[m]) + 1
      /\ served' > served /\ served' <= arrived
  BY BeginOrder
<1>2. /\ current'[m] = h /\ inbox'[m] = Tail(inbox[m]) /\ worker'[m] = "busy"
      /\ pc' = [pc EXCEPT ![h] = "lookup"] /\ pc'[h] = "lookup"
  BY <1>1 DEF Begin, TypeOK
<1>3. \A n \in Mailboxes \ {m} : worker'[n] = worker[n] /\ inbox'[n] = <<>>
  BY <1>1 DEF Begin, TypeOK
<1>4. \A n \in Mailboxes : Live(n)' <=> n = m
  BY <1>1, <1>2, <1>3 DEF Live
<1>5. Len(inbox'[m]) \in Nat /\ Len(inbox'[m]) = Len(inbox[m]) - 1
      /\ \A k \in 1..Len(inbox'[m]) : inbox'[m][k] = inbox[m][k + 1]
  BY <1>1, <1>2
<1>6. Serial'
  <2>1. \A n \in Mailboxes : worker'[n] = "none" <=> n > created'
    BY <1>1, <1>2, <1>3 DEF Serial, Live
  <2>2. NoneLeftBehind'
    BY <1>1, <1>3, <1>4 DEF NoneLeftBehind, Serial
  <2>3. \A n \in Mailboxes : worker'[n] = "busy" => n = m
    BY <1>1, <1>3
  <2>4. \A i \in Items : targets_runtime(i) /\ pc'[i] \in Working => i = h
    BY <1>1, <1>2 DEF TypeOK
  <2> QED
    BY <1>1, <1>2, <2>1, <2>2, <2>3, <2>4 DEF Serial, targets_runtime, Kind, Working
<1>7. Numbered'
  <2>1. ASSUME NEW k \in 1..Len(inbox'[m])
        PROVE  /\ pc'[inbox'[m][k]] = "queued"
               /\ targets_runtime(inbox'[m][k])
               /\ number[inbox'[m][k]] = arrived - Len(inbox'[m]) + k
    <3> DEFINE n == Len(inbox[m])
    <3>1. n \in Nat \ {0} /\ Len(inbox'[m]) = n - 1 /\ k \in 1..(n - 1) /\ arrived \in Nat
      BY <1>1, <1>5 DEF TypeOK
    <3>2. k + 1 \in 1..n /\ 1 \in 1..n /\ inbox'[m][k] = inbox[m][k + 1]
          /\ inbox[m][k + 1] \in Items
      <4>1. k + 1 \in 1..n /\ 1 \in 1..n /\ k \in 1..Len(inbox'[m])
        BY <3>1
      <4>2. inbox'[m][k] = inbox[m][k + 1]
        BY <1>5, <4>1
      <4>3. inbox[m][k + 1] \in Items
        BY <1>1, <4>1
      <4> QED
        BY <4>1, <4>2, <4>3
    <3>3. /\ pc[inbox[m][k + 1]] = "queued" /\ targets_runtime(inbox[m][k + 1])
          /\ number[inbox[m][k + 1]] = arrived - n + (k + 1)
          /\ number[inbox[m][1]] = arrived - n + 1
      BY <3>2 DEF Numbered
    <3>4. k + 1 # 1 /\ arrived - n + (k + 1) # arrived - n + 1
          /\ arrived - n + (k + 1) = arrived - (n - 1) + k
      <4> HIDE DEF n
      <4> QED
        BY <3>1
    <3>5. inbox[m][k + 1] # h
      BY <1>1, <3>3, <3>4
    <3> QED
      BY <1>2, <3>1, <3>2, <3>3, <3>4, <3>5 DEF TypeOK
  <2>2. \A n \in Mailboxes : \A k \in 1..Len(inbox'[n]) : n = m
    BY <1>3
  <2> QED
    BY <2>1, <2>2 DEF Numbered, targets_runtime, Kind
<1>8. Served'
  <2>1. served' = arrived - Len(inbox'[m])
    <3> DEFINE n == Len(inbox[m])
    <3>1. n \in Nat /\ Len(inbox'[m]) = n - 1 /\ arrived \in Nat /\ served' = arrived - n + 1
      BY <1>1, <1>5 DEF TypeOK
    <3> HIDE DEF n
    <3> QED
      BY <3>1
  <2>2. registered = m /\ m # NoMailbox
    BY <1>1 DEF Serial, NoneLeftBehind, Mailboxes, NoMailbox
  <2>3. \A n \in Mailboxes : worker'[n] = "dead" => worker[n] = "dead"
    BY <1>2, <1>3
  <2>4. served' <= arrived - Len(inbox'[m])
    BY <1>1, <1>5, <2>1 DEF TypeOK
  <2> QED
    BY <1>1, <1>4, <2>1, <2>2, <2>3, <2>4 DEF Served
<1> QED
  BY <1>6, <1>7, <1>8

\* The worker.
LEMMA WorkerTypes ==
  ASSUME IInv, NEW m \in Mailboxes
  PROVE  worker[m] = "busy" => current[m] \in Items
BY DEF IInv, Serial

LEMMA SuperviseKeeps ==
  ASSUME IInv, TypeOK', NEW m \in Mailboxes, Supervise(m) PROVE IInv'
<1> USE DEF IInv
<1> DEFINE i == current[m]
<1>1. /\ i \in Items /\ targets_runtime(i) /\ Live(m) /\ worker[m] = "busy"
      /\ pc[i] = "supervise" /\ pc' = [pc EXCEPT ![i] = "done"]
      /\ worker'[m] \in {"recv", "retire"}
      /\ \A n \in Mailboxes \ {m} : worker'[n] = worker[n]
  BY DEF Supervise, Serial, Live, TypeOK
<1>2. UNCHANGED <<command, registered, created, inbox, current, arrived, number, served, panics>>
  BY DEF Supervise, mailboxVars, orderVars, faultVars
<1>3. \A n \in Mailboxes : Live(n)' <=> Live(n)
  BY <1>1 DEF Live
<1>4. \A n \in Mailboxes : worker'[n] # "busy"
  BY <1>1, OneLive DEF Live
<1>5. \A j \in Items : targets_runtime(j) /\ pc[j] \in Working => j = i
  BY <1>1, OneLive DEF Serial, Live
<1>6. Serial'
  <2>1. \A n \in Mailboxes : worker'[n] = "none" <=> worker[n] = "none"
    BY <1>1
  <2>2. \A j \in Items : ~(targets_runtime(j) /\ pc'[j] \in Working)
    BY <1>1, <1>5 DEF TypeOK, Working
  <2> QED
    BY <1>2, <1>3, <1>4, <2>1, <2>2 DEF Serial, NoneLeftBehind, targets_runtime, Kind
<1>7. \A n \in Mailboxes : \A k \in 1..Len(inbox[n]) : pc'[inbox[n][k]] = "queued"
  <2>1. inbox \in [Mailboxes -> Seq(Items)] /\ pc \in [Items -> ItemPcs]
    BY DEF TypeOK
  <2>2. ASSUME NEW n \in Mailboxes, NEW k \in 1..Len(inbox[n])
        PROVE  pc'[inbox[n][k]] = "queued"
    <3>1. inbox[n][k] \in Items
      BY <2>1
    <3>2. pc[inbox[n][k]] = "queued"
      BY DEF Numbered
    <3>3. inbox[n][k] # i
      BY <1>1, <3>2
    <3> QED
      BY <1>1, <2>1, <3>1, <3>2, <3>3
  <2> QED
    BY <2>2
<1>8. Numbered'
  BY <1>2, <1>7 DEF Numbered, targets_runtime, Kind
<1>9. Served'
  <2>1. \A n \in Mailboxes : worker'[n] = "dead" => worker[n] = "dead"
    BY <1>1
  <2>2. registered = m
    BY <1>1 DEF Serial, NoneLeftBehind
  <2> QED
    BY <1>1, <1>2, <1>3, <2>1, <2>2 DEF Served
<1> QED
  BY <1>6, <1>8, <1>9

LEMMA RetireKeeps ==
  ASSUME IInv, TypeOK', NEW m \in Mailboxes, Retire(m), inbox[m] = <<>> PROVE IInv'
<1> USE DEF IInv
<1>1. /\ Live(m) /\ worker[m] = "retire" /\ worker'[m] = "gone" /\ registered = m
      /\ registered' = NoMailbox
      /\ \A n \in Mailboxes \ {m} : worker'[n] = worker[n] /\ ~Live(n)
  BY OneLive DEF Retire, Serial, NoneLeftBehind, Live, TypeOK, Begin
<1>2. UNCHANGED <<command, pc, created, inbox, current, arrived, number, served, panics>>
  BY DEF Retire, faultVars
<1>3. \A n \in Mailboxes : ~Live(n)' /\ worker[n] # "busy" /\ worker'[n] # "busy"
  BY <1>1 DEF Live
<1>4. \A n \in Mailboxes : inbox[n] = <<>>
  BY <1>1 DEF Serial, NoneLeftBehind
<1>5. Serial'
  <2>1. \A n \in Mailboxes : worker'[n] = "none" <=> worker[n] = "none"
    BY <1>1
  <2> QED
    BY <1>2, <1>3, <1>4, <2>1 DEF Serial, NoneLeftBehind, targets_runtime, Kind
<1>6. Numbered'
  BY <1>2, <1>4 DEF Numbered
<1>7. Served'
  <2>1. \A n \in Mailboxes : worker'[n] = "dead" => worker[n] = "dead"
    BY <1>1
  <2>2. MaxPanics = 0 => served = arrived
    BY <1>1 DEF Served, TypeOK
  <2> QED
    BY <1>1, <1>2, <1>3, <2>1, <2>2 DEF Served
<1> QED
  BY <1>5, <1>6, <1>7

LEMMA PanicKeeps ==
  ASSUME IInv, TypeOK', NEW m \in Mailboxes, WorkerPanics(m) PROVE IInv'
<1> USE DEF IInv
<1> DEFINE i == current[m]
<1>1. /\ i \in Items /\ targets_runtime(i) /\ Live(m) /\ registered = m /\ worker[m] = "busy"
      /\ worker'[m] = "dead" /\ inbox'[m] = <<>>
      /\ panics \in Nat /\ panics' = panics + 1 /\ panics < MaxPanics
      /\ \A n \in Mailboxes \ {m} : worker'[n] = worker[n] /\ inbox'[n] = inbox[n] /\ ~Live(n)
  BY OneLive DEF WorkerPanics, Dying, Serial, NoneLeftBehind, Live, TypeOK
<1>2. UNCHANGED <<command, registered, created, current, arrived, number, served>>
  BY DEF WorkerPanics, orderVars
<1>3. \A j \in Items : pc'[j] \in Working => pc[j] \in Working /\ j # i
  BY DEF WorkerPanics, Working
<1>4. \A n \in Mailboxes : ~Live(n)' /\ worker'[n] # "busy" /\ inbox'[n] = <<>>
  BY <1>1 DEF Serial, NoneLeftBehind, Live
<1>5. Serial'
  <2>1. \A n \in Mailboxes : worker'[n] = "none" <=> worker[n] = "none"
    BY <1>1
  <2>2. \A j \in Items : targets_runtime(j) /\ pc[j] \in Working => j = i
    BY <1>1, OneLive DEF Serial, Live
  <2> QED
    BY <1>2, <1>3, <1>4, <2>1, <2>2 DEF Serial, NoneLeftBehind, targets_runtime, Kind
<1>6. Numbered'
  BY <1>4 DEF Numbered
<1>7. Served'
  <2>1. MaxPanics \in Nat \ {0} /\ panics' <= MaxPanics /\ panics' > 0
    BY <1>1, ConstantsAssumption
  <2> QED
    BY <1>1, <1>2, <1>4, <2>1 DEF Served
<1> QED
  BY <1>5, <1>6, <1>7

LEMMA InvStep == IInv /\ [Next]_vars => IInv'
<1> SUFFICES ASSUME IInv, [Next]_vars PROVE IInv'
  OBVIOUS
<1>1. ASSUME NEW m \in Mailboxes, run_runtime_mailbox(m) PROVE IInv'
  <2>1. TypeOK'
    BY <1>1, WorkerTypes, TypeWorker DEF IInv
  <2>2. CASE Receive(m)
    BY <2>1, <2>2, BeginKeeps DEF Receive, faultVars
  <2>3. CASE Supervise(m)
    BY <2>1, <2>3, SuperviseKeeps
  <2>4. CASE Retire(m) /\ inbox[m] # <<>>
    BY <2>1, <2>4, BeginKeeps DEF Retire, faultVars
  <2>5. CASE Retire(m) /\ inbox[m] = <<>>
    BY <2>1, <2>5, RetireKeeps
  <2> QED
    BY <1>1, <2>2, <2>3, <2>4, <2>5 DEF run_runtime_mailbox
<1>2. ASSUME NEW m \in Mailboxes, WorkerPanics(m) PROVE IInv'
  BY <1>2, WorkerTypes, TypeWorkerPanics, PanicKeeps DEF IInv
<1>3. CASE UNCHANGED vars
  BY <1>3 DEF vars, itemVars, mailboxVars, workerVars, orderVars, faultVars, IInv, TypeOK,
              Serial, NoneLeftBehind, Live, Numbered, Served, targets_runtime, Kind
<1> QED
  BY <1>1, <1>2, <1>3, DispatchKeeps, HandleKeeps DEF Next

\* Every reachable state is of the right type: the cache, the mailboxes and the
\* worker threads stay within what server.rs gives them.
THEOREM TypeCorrect == Spec => []TypeOK
<1>1. IInv => TypeOK
  BY DEF IInv
<1> QED
  BY <1>1, InvInit, InvStep, PTL DEF Spec

\* No request waits in a mailbox whose worker has looked for the last time, and
\* a live worker's mailbox is the one that later requests join.
THEOREM NobodyLeftBehind == Spec => []NoneLeftBehind
<1>1. IInv => NoneLeftBehind
  BY DEF IInv, Serial
<1> QED
  BY <1>1, InvInit, InvStep, PTL DEF Spec

-----------------------------------------------------------------------------
(* The order of service.                                                   *)

LEMMA BusyKept ==
  ASSUME worker' = worker PROVE Busy' = Busy
BY DEF Busy

LEMMA OrderDispatch ==
  ASSUME IInv, NEW i \in Items, dispatch(i) \/ send_dispatch_error(i)
  PROVE  [Order!Next]_Order!vars
<1> USE DEF Order!Next, Order!vars, Order!Arrive, workerVars, orderVars
<1>1. CASE Enqueue(i)
  BY <1>1, BusyKept DEF Enqueue, Number
<1>2. CASE CreateMailbox(i)
  <2>1. created + 1 \in Mailboxes /\ worker[created + 1] = "none"
        /\ worker' = [worker EXCEPT ![created + 1] = "recv"]
    BY <1>2, ConstantsAssumption DEF CreateMailbox, IInv, TypeOK, Serial, Mailboxes
  <2>2. \A m \in Mailboxes : worker'[m] = "busy" <=> worker[m] = "busy"
    BY <2>1 DEF IInv, TypeOK
  <2>3. Busy' = Busy
    BY <2>2 DEF Busy
  <2> QED
    BY <1>2, <2>3 DEF CreateMailbox, Number
<1>3. CASE DispatchIndependent(i)
  BY <1>3, BusyKept DEF DispatchIndependent
<1>4. CASE SpawnFails(i)
  BY <1>4, BusyKept DEF SpawnFails
<1>5. CASE send_dispatch_error(i)
  BY <1>5, BusyKept DEF send_dispatch_error
<1> QED
  BY <1>1, <1>2, <1>3, <1>4, <1>5 DEF dispatch

LEMMA OrderHandle ==
  ASSUME NEW i \in Items, handle_request(i) \/ IndependentPanics(i)
  PROVE  [Order!Next]_Order!vars
<1>1. UNCHANGED <<arrived, served, worker>>
  BY DEF handle_request, Lookup, Handle, Record, Answer, IndependentPanics,
         workerVars, orderVars
<1> QED
  BY <1>1, BusyKept DEF Order!vars

LEMMA OrderBegin ==
  ASSUME IInv, NEW m \in Mailboxes, worker[m] \in {"recv", "retire"}, inbox[m] # <<>>,
         Begin(m), arrived' = arrived
  PROVE  Order!Begin
<1>1. ~Busy
  BY BeginOrder DEF Busy
<1>2. Busy'
  BY DEF Begin, Busy, IInv, TypeOK
<1>3. served \in Nat /\ arrived \in Nat /\ MaxPanics \in Nat /\ served' \in Nat
  BY TypeBegin, ConstantsAssumption DEF IInv, TypeOK
<1>4. served' > served /\ served' <= arrived /\ (MaxPanics = 0 => served' = served + 1)
  BY BeginOrder
<1>5. served' \in served + 1 .. arrived /\ (MaxPanics > 0 \/ served' = served + 1)
  BY <1>3, <1>4
<1> QED
  BY <1>1, <1>2, <1>5 DEF Order!Begin

LEMMA OrderWorker ==
  ASSUME IInv, NEW m \in Mailboxes, run_runtime_mailbox(m) \/ WorkerPanics(m)
  PROVE  [Order!Next]_Order!vars
<1> USE DEF Order!Next, Order!vars, faultVars, orderVars
<1>1. CASE Receive(m)
  BY <1>1, OrderBegin DEF Receive
<1>2. CASE Retire(m) /\ inbox[m] # <<>>
  BY <1>2, OrderBegin DEF Retire
<1>3. CASE Retire(m) /\ inbox[m] = <<>>
  <2>1. \A n \in Mailboxes : worker'[n] = "busy" <=> worker[n] = "busy"
    BY <1>3 DEF Retire, Begin, IInv, TypeOK
  <2>2. Busy' = Busy
    BY <2>1 DEF Busy
  <2> QED
    BY <1>3, <2>2 DEF Retire
<1>4. CASE Supervise(m) \/ WorkerPanics(m)
  <2>1. /\ worker[m] = "busy" /\ worker'[m] # "busy"
        /\ \A n \in Mailboxes \ {m} : worker'[n] = worker[n]
        /\ UNCHANGED <<arrived, served>>
    BY <1>4 DEF Supervise, WorkerPanics, IInv, TypeOK
  <2>2. \A n \in Mailboxes \ {m} : worker[n] # "busy"
    BY <2>1, OneLive DEF IInv, Live
  <2>3. Busy /\ Busy' = FALSE
    BY <2>1, <2>2 DEF Busy
  <2> QED
    BY <2>1, <2>3 DEF Order!End
<1> QED
  BY <1>1, <1>2, <1>3, <1>4 DEF run_runtime_mailbox

\* The requests of a task are served one at a time and in the order in which
\* they reached its mailboxes, whichever threads retire, start or die meanwhile.
THEOREM ServiceIsOrdered == Spec => ServedInOrder
<1>1. Init => Order!Init
  BY DEF Init, Order!Init, Busy
<1>2. IInv /\ [Next]_vars => [Order!Next]_Order!vars
  <2> SUFFICES ASSUME IInv, [Next]_vars PROVE [Order!Next]_Order!vars
    OBVIOUS
  <2>1. CASE UNCHANGED vars
    BY <2>1, BusyKept DEF vars, workerVars, orderVars, Order!vars
  <2> QED
    BY <2>1, OrderDispatch, OrderHandle, OrderWorker DEF Next
<1> QED
  BY <1>1, <1>2, InvInit, InvStep, PTL DEF Spec, ServedInOrder, Order!Spec

-----------------------------------------------------------------------------
(* A retry runs nothing again.                                             *)

InCache(q) == \E k \in DOMAIN cache : cache[k].req = q
Unhandled  == {"unsent", "queued", "lookup", "handle"}

\* A runtime request that ran is remembered, or about to be, unless it was
\* forgotten; so none that waits to be handled has run.
Remembered ==
  /\ \A q \in Requests : command[q].kind \in RuntimeKinds /\ ~command[q].nil =>
       runs[q] = 0 \/ q \in forgotten \/ InCache(q) \/ \E i \in Items : i[1] = q /\ pc[i] = "record"
  /\ \A i \in Items : targets_runtime(i) /\ pc[i] = "handle" =>
       runs[i[1]] = 0 \/ i[1] \in forgotten
  /\ \A i \in Items : Silent(i) =>
       /\ i[2] > 1 => pc[i] = "unsent"
       /\ i[2] = 1 /\ pc[i] \in Unhandled => runs[i[1]] = 0

RetryInv == RetriedOnce /\ Remembered

LEMMA RetryInit == Init => RetryInv
<1> SUFFICES ASSUME Init PROVE RetryInv
  OBVIOUS
<1>1. \A i \in Items : pc[i] = "unsent" /\ i[1] \in Requests
  BY ItemParts DEF Init
<1>2. \A q \in Requests : runs[q] = 0
  BY DEF Init
<1> QED
  BY <1>1, <1>2 DEF RetryInv, RetriedOnce, Remembered

\* What leaves the cache is forgotten, and what enters it is found.
LEMMA CacheRemembers ==
  ASSUME TypeOK, NEW i \in Items, NEW o \in Outcomes, cache_response(i, o)
  PROVE  /\ InCache(i[1])'
         /\ \A q \in Requests : InCache(q) => InCache(q)' \/ q \in forgotten'
         /\ forgotten \subseteq forgotten'
<1> DEFINE e == [req |-> i[1], outcome |-> o]
           all == Append(cache, e)
           new == IF Len(all) > CacheBound THEN Tail(all) ELSE all
<1>1. cache \in Seq(Cached) /\ e \in Cached /\ Len(cache) \in Nat
  BY ItemParts DEF TypeOK, Cached
<1>2. all \in Seq(Cached) /\ Len(all) = Len(cache) + 1 /\ all[Len(all)] = e
      /\ \A k \in DOMAIN cache : k \in DOMAIN all /\ all[k] = cache[k]
  BY <1>1
<1>3. cache' = new
  BY DEF cache_response
<1>4. \E k \in DOMAIN new : new[k] = e
  <2>1. CASE Len(all) > CacheBound
    <3>1. Len(all) - 1 \in DOMAIN Tail(all) /\ Tail(all)[Len(all) - 1] = all[Len(all)]
      BY <1>1, <1>2, <2>1, ConstantsAssumption
    <3> QED
      BY <1>2, <2>1, <3>1
  <2>2. CASE ~(Len(all) > CacheBound)
    <3>1. Len(all) \in DOMAIN all
      BY <1>1, <1>2
    <3> QED
      BY <1>2, <2>2, <3>1
  <2> QED
    BY <2>1, <2>2
<1>5. InCache(i[1])'
  <2> HIDE DEF new
  <2>1. PICK k \in DOMAIN new : new[k] = e
    BY <1>4
  <2> QED
    BY <1>3, <2>1 DEF InCache
<1>6. ASSUME NEW q \in Requests, InCache(q) PROVE InCache(q)' \/ q \in forgotten'
  <2>1. \E k \in DOMAIN all : all[k].req = q
    BY <1>2, <1>6 DEF InCache
  <2>2. (\A k \in DOMAIN cache' : cache'[k].req # q) => q \in forgotten'
    BY <1>3, <2>1 DEF cache_response
  <2> QED
    BY <2>2 DEF InCache
<1>7. forgotten \subseteq forgotten'
  BY DEF cache_response
<1> QED
  BY <1>5, <1>6, <1>7

\* A step that runs and records nothing.
RetryFrame ==
  /\ UNCHANGED <<command, runs>>
  /\ forgotten \subseteq forgotten'
  /\ \A q \in Requests : InCache(q) => InCache(q)' \/ q \in forgotten'
  /\ \A j \in Items :
       /\ pc[j] = "record" => pc'[j] = "record" \/ Silent(j) \/ InCache(j[1])'
       /\ pc'[j] = "handle" /\ targets_runtime(j) =>
            pc[j] = "handle" \/ runs[j[1]] = 0 \/ j[1] \in forgotten
       /\ pc'[j] \in Unhandled => pc[j] \in Unhandled
       /\ Silent(j) /\ j[2] > 1 /\ pc[j] = "unsent" => pc'[j] = "unsent"

LEMMA RetryFrameKeeps == ASSUME RetryInv, RetryFrame PROVE RetryInv'
<1> USE DEF RetryInv, RetryFrame
<1>1. \A j \in Items : j[1] \in Requests
  BY ItemParts
<1>2. RetriedOnce'
  BY DEF RetriedOnce
<1>3. \A q \in Requests : command[q].kind \in RuntimeKinds /\ ~command[q].nil =>
        runs[q] = 0 \/ q \in forgotten' \/ InCache(q)'
        \/ \E i \in Items : i[1] = q /\ pc'[i] = "record"
  BY DEF Remembered, Silent
<1>4. \A i \in Items : targets_runtime(i) /\ pc'[i] = "handle" =>
        runs[i[1]] = 0 \/ i[1] \in forgotten'
  BY DEF Remembered
<1>5. \A i \in Items : Silent(i) =>
        /\ i[2] > 1 => pc'[i] = "unsent"
        /\ i[2] = 1 /\ pc'[i] \in Unhandled => runs[i[1]] = 0
  BY DEF Remembered
<1>6. Remembered'
  BY <1>3, <1>4, <1>5 DEF Remembered, targets_runtime, Kind, Silent
<1> QED
  BY <1>2, <1>6

\* Steps that move requests and touch neither the cache nor the counts.
LEMMA RetryMoves ==
  ASSUME RetryInv,
         UNCHANGED <<command, cache, runs, forgotten>>,
         \A j \in Items :
           \/ pc'[j] = pc[j]
           \/ /\ pc[j] \notin {"record", "handle"} /\ pc'[j] # "handle"
              /\ pc'[j] \in Unhandled => pc[j] \in Unhandled
              /\ pc[j] = "unsent" => ~(Silent(j) /\ j[2] > 1)
  PROVE  RetryInv'
<1>1. RetryFrame
  BY DEF RetryFrame, InCache, Unhandled
<1> QED
  BY <1>1, RetryFrameKeeps

LEMMA RetryDispatch ==
  ASSUME IInv, RetryInv, NEW i \in Items, dispatch(i) \/ send_dispatch_error(i)
  PROVE  RetryInv'
<1> USE DEF IInv
<1>1. pc \in [Items -> ItemPcs]
  BY DEF TypeOK
<1>2. CASE dispatch(i)
  <2>1. /\ UNCHANGED <<command, cache, runs, forgotten>>
        /\ pc[i] = "unsent" /\ ~(Silent(i) /\ i[2] > 1)
        /\ \E p \in {"queued", "lookup", "refused"} : pc' = [pc EXCEPT ![i] = p]
    BY <1>2, ItemParts
       DEF dispatch, Enqueue, CreateMailbox, DispatchIndependent, SpawnFails, Sendable
  <2> QED
    BY <1>1, <2>1, RetryMoves DEF Unhandled
<1>3. CASE send_dispatch_error(i)
  <2> DEFINE o == IF IsCached(i) THEN cached_response(i) ELSE Error
  <2>1. o \in Outcomes
    BY LookupFinds, OutcomeTypes
  <2>2. /\ forgotten \subseteq forgotten'
        /\ \A q \in Requests : InCache(q) => InCache(q)' \/ q \in forgotten'
    <3>1. CASE Silent(i)
      BY <1>3, <3>1 DEF send_dispatch_error, InCache
    <3>2. CASE ~Silent(i)
      <4>1. cache_response(i, o)
        BY <1>3, <3>2 DEF send_dispatch_error
      <4> HIDE DEF o
      <4> QED
        BY <2>1, <4>1, CacheRemembers
    <3> QED
      BY <3>1, <3>2
  <2>3. pc[i] = "refused" /\ pc' = [pc EXCEPT ![i] = "done"] /\ UNCHANGED <<command, runs>>
    BY <1>3 DEF send_dispatch_error
  <2>4. RetryFrame
    BY <1>1, <2>2, <2>3 DEF RetryFrame, Unhandled
  <2> QED
    BY <2>4, RetryFrameKeeps
<1> QED
  BY <1>2, <1>3

\* One runtime request is being handled at a time.
LEMMA OneWorking ==
  ASSUME Serial, NEW i \in Items, NEW j \in Items, targets_runtime(i), targets_runtime(j),
         pc[i] \in Working, pc[j] \in Working
  PROVE  i = j
BY OneLive DEF Serial, Live

\* The backend runs a request.
LEMMA RetryRuns ==
  ASSUME IInv, RetryInv, NEW i \in Items, pc[i] = "handle", pc'[i] # "handle",
         UNCHANGED <<command, cache>>,
         runs' = [runs EXCEPT ![i[1]] = @ + 1],
         \/ pc'[i] = "record" /\ forgotten' = forgotten
         \/ pc'[i] = "lost" /\ forgotten' = forgotten \cup {i[1]},
         \A j \in Items \ {i} :
           pc'[j] = pc[j] \/ (pc[j] = "queued" /\ pc'[j] = "lost")
  PROVE  RetryInv'
<1> USE DEF IInv, RetryInv
<1>1. /\ i[1] \in Requests /\ runs \in [Requests -> Nat] /\ pc'[i] \notin Unhandled
      /\ runs'[i[1]] = runs[i[1]] + 1
      /\ \A q \in Requests : q # i[1] => runs'[q] = runs[q]
  BY ItemParts DEF TypeOK, Unhandled
<1>2. \A j \in Items : pc'[j] \in Unhandled \cup {"handle"} => pc[j] = pc'[j] /\ j # i
  BY <1>1 DEF Unhandled
<1>3. targets_runtime(i) <=> command[i[1]].kind \in RuntimeKinds
  BY DEF targets_runtime, Kind
<1>4. targets_runtime(i) => runs[i[1]] = 0 \/ i[1] \in forgotten
  BY DEF Remembered
<1>5. RetriedOnce'
  <2>1. \A q \in Requests : q # i[1] /\ runs'[q] > 1 /\ command[q].kind \in RuntimeKinds =>
          q \in forgotten'
    BY <1>1 DEF RetriedOnce
  <2>2. runs'[i[1]] > 1 /\ targets_runtime(i) => i[1] \in forgotten'
    BY <1>1, <1>4
  <2> QED
    BY <1>3, <2>1, <2>2 DEF RetriedOnce
<1>6. \A q \in Requests : command[q].kind \in RuntimeKinds /\ ~command[q].nil =>
        runs'[q] = 0 \/ q \in forgotten' \/ InCache(q)'
        \/ \E j \in Items : j[1] = q /\ pc'[j] = "record"
  <2>1. \A q \in Requests : InCache(q) => InCache(q)'
    BY DEF InCache
  <2>2. i[1] \in forgotten' \/ (\E j \in Items : j[1] = i[1] /\ pc'[j] = "record")
    OBVIOUS
  <2>3. \A j \in Items : pc[j] = "record" => pc'[j] = "record"
    OBVIOUS
  <2> QED
    BY <1>1, <2>1, <2>2, <2>3 DEF Remembered
<1>7. \A j \in Items : targets_runtime(j) /\ pc'[j] = "handle" =>
        runs'[j[1]] = 0 \/ j[1] \in forgotten'
  <2> SUFFICES ASSUME NEW j \in Items, targets_runtime(j), pc'[j] = "handle"
               PROVE  runs'[j[1]] = 0 \/ j[1] \in forgotten'
    OBVIOUS
  <2>1. pc[j] = "handle" /\ j # i /\ j[1] \in Requests
    BY <1>2, ItemParts
  <2>2. ~targets_runtime(i)
    BY <2>1, OneWorking DEF Working
  <2>3. j[1] # i[1]
    BY <2>2 DEF targets_runtime, Kind
  <2> QED
    BY <1>1, <2>1, <2>3 DEF Remembered
<1>8. \A j \in Items : Silent(j) =>
        /\ j[2] > 1 => pc'[j] = "unsent"
        /\ j[2] = 1 /\ pc'[j] \in Unhandled => runs'[j[1]] = 0
  <2> SUFFICES ASSUME NEW j \in Items, Silent(j)
               PROVE  /\ j[2] > 1 => pc'[j] = "unsent"
                      /\ j[2] = 1 /\ pc'[j] \in Unhandled => runs'[j[1]] = 0
    OBVIOUS
  <2>1. j[2] > 1 => pc'[j] = "unsent"
    BY DEF Remembered
  <2>2. ASSUME j[2] = 1, pc'[j] \in Unhandled PROVE runs'[j[1]] = 0
    <3>1. pc[j] \in Unhandled /\ j # i /\ runs[j[1]] = 0 /\ j[1] \in Requests
      BY <1>2, <2>2, ItemParts DEF Remembered
    <3>2. CASE j[1] = i[1]
      <4>1. Silent(i) /\ i[2] \in Nat \ {0}
        BY <3>2, ItemParts, ConstantsAssumption DEF Silent
      <4>2. i[2] = 1
        BY <4>1 DEF Remembered
      <4>3. i = j
        BY <2>2, <3>2, <4>2, ItemParts
      <4> QED
        BY <3>1, <4>3
    <3>3. CASE j[1] # i[1]
      BY <1>1, <3>1, <3>3
    <3> QED
      BY <3>2, <3>3
  <2> QED
    BY <2>1, <2>2
<1>9. Remembered'
  BY <1>6, <1>7, <1>8 DEF Remembered, targets_runtime, Kind, Silent
<1> QED
  BY <1>5, <1>9

LEMMA RetryHandle ==
  ASSUME IInv, RetryInv, NEW i \in Items, handle_request(i) \/ IndependentPanics(i)
  PROVE  RetryInv'
<1> USE DEF IInv
<1>1. pc \in [Items -> ItemPcs] /\ i[1] \in Requests
  BY ItemParts DEF TypeOK
<1>2. CASE Lookup(i) /\ IsCached(i)
  <2>1. pc[i] = "lookup" /\ pc' = [pc EXCEPT ![i] = "answer"]
        /\ UNCHANGED <<command, cache, runs, forgotten>>
    BY <1>2 DEF Lookup
  <2> QED
    BY <1>1, <2>1, RetryMoves DEF Unhandled
<1>3. CASE Lookup(i) /\ ~IsCached(i)
  <2>1. pc[i] = "lookup" /\ pc' = [pc EXCEPT ![i] = "handle"]
        /\ UNCHANGED <<command, cache, runs, forgotten>>
    BY <1>3 DEF Lookup
  <2>2. ASSUME targets_runtime(i) PROVE runs[i[1]] = 0 \/ i[1] \in forgotten
    <3>1. CASE Silent(i)
      <4>1. i[2] = 1
        BY <2>1, <3>1, ItemParts, ConstantsAssumption DEF RetryInv, Remembered
      <4> QED
        BY <2>1, <3>1, <4>1 DEF RetryInv, Remembered, Unhandled
    <3>2. CASE ~Silent(i)
      <4>1. ~InCache(i[1])
        BY <1>3, <3>2 DEF IsCached, Entries, InCache
      <4>2. \A j \in Items : j[1] = i[1] => pc[j] # "record"
        BY <2>1, <2>2, OneWorking DEF Working, targets_runtime, Kind
      <4>3. command[i[1]].kind \in RuntimeKinds /\ ~command[i[1]].nil
        BY <2>2, <3>2 DEF targets_runtime, Kind, Silent
      <4> QED
        BY <1>1, <4>1, <4>2, <4>3 DEF RetryInv, Remembered
    <3> QED
      BY <3>1, <3>2
  <2>3. RetryFrame
    BY <1>1, <2>1, <2>2 DEF RetryFrame, InCache, Unhandled
  <2> QED
    BY <2>3, RetryFrameKeeps
<1>4. CASE Handle(i)
  <2>1. pc[i] = "handle" /\ pc' = [pc EXCEPT ![i] = "record"]
        /\ UNCHANGED <<command, cache, forgotten>> /\ runs' = [runs EXCEPT ![i[1]] = @ + 1]
    BY <1>4 DEF Handle
  <2> QED
    BY <1>1, <2>1, RetryRuns
<1>5. CASE Record(i)
  <2>1. pc[i] = "record" /\ pc' = [pc EXCEPT ![i] = "answer"] /\ UNCHANGED <<command, runs>>
    BY <1>5 DEF Record
  <2>2. /\ forgotten \subseteq forgotten'
        /\ \A q \in Requests : InCache(q) => InCache(q)' \/ q \in forgotten'
        /\ Silent(i) \/ InCache(i[1])'
    <3>1. CASE Silent(i)
      BY <1>5, <3>1 DEF Record, InCache
    <3>2. CASE ~Silent(i)
      <4>1. outcome[i] \in Outcomes /\ cache_response(i, outcome[i])
        BY <1>5, <3>2 DEF Record, TypeOK
      <4> QED
        BY <4>1, CacheRemembers
    <3> QED
      BY <3>1, <3>2
  <2>3. RetryFrame
    BY <1>1, <2>1, <2>2 DEF RetryFrame, Unhandled
  <2> QED
    BY <2>3, RetryFrameKeeps
<1>6. CASE Answer(i)
  <2>1. /\ pc[i] = "answer" /\ UNCHANGED <<command, cache, runs, forgotten>>
        /\ \E p \in {"supervise", "done"} : pc' = [pc EXCEPT ![i] = p]
    BY <1>6 DEF Answer
  <2> QED
    BY <1>1, <2>1, RetryMoves DEF Unhandled
<1>7. CASE IndependentPanics(i)
  <2>1. /\ pc[i] = "handle" /\ pc' = [pc EXCEPT ![i] = "lost"] /\ UNCHANGED <<command, cache>>
        /\ runs' = [runs EXCEPT ![i[1]] = @ + 1] /\ forgotten' = forgotten \cup {i[1]}
    BY <1>7 DEF IndependentPanics, Dying
  <2> QED
    BY <1>1, <2>1, RetryRuns
<1> QED
  BY <1>2, <1>3, <1>4, <1>5, <1>6, <1>7 DEF handle_request

LEMMA RetryWorker ==
  ASSUME IInv, RetryInv, NEW m \in Mailboxes, run_runtime_mailbox(m) \/ WorkerPanics(m)
  PROVE  RetryInv'
<1> USE DEF IInv
<1>1. pc \in [Items -> ItemPcs] /\ inbox[m] \in Seq(Items)
  BY DEF TypeOK
<1>2. ASSUME worker[m] \in {"recv", "retire"}, inbox[m] # <<>>, Begin(m),
             UNCHANGED <<command, cache, runs, forgotten>>
      PROVE  RetryInv'
  <2>1. pc[Head(inbox[m])] = "queued" /\ Head(inbox[m]) \in Items
    BY <1>2, BeginOrder
  <2>2. pc' = [pc EXCEPT ![Head(inbox[m])] = "lookup"]
    BY <1>2 DEF Begin
  <2> QED
    BY <1>1, <1>2, <2>1, <2>2, RetryMoves DEF Unhandled
<1>3. CASE Receive(m)
  BY <1>2, <1>3 DEF Receive
<1>4. CASE Retire(m) /\ inbox[m] # <<>>
  BY <1>2, <1>4 DEF Retire
<1>5. CASE Retire(m) /\ inbox[m] = <<>>
  <2>1. UNCHANGED <<command, cache, runs, forgotten, pc>>
    BY <1>5 DEF Retire
  <2> QED
    BY <2>1, RetryMoves
<1>6. CASE Supervise(m)
  <2>1. /\ current[m] \in Items /\ pc[current[m]] = "supervise"
        /\ pc' = [pc EXCEPT ![current[m]] = "done"]
        /\ UNCHANGED <<command, cache, runs, forgotten>>
    BY <1>6, WorkerTypes DEF Supervise
  <2> QED
    BY <1>1, <2>1, RetryMoves DEF Unhandled
<1>7. CASE WorkerPanics(m)
  <2> DEFINE i == current[m]
  <2>1. /\ i \in Items /\ pc[i] = "handle" /\ UNCHANGED <<command, cache>>
        /\ runs' = [runs EXCEPT ![i[1]] = @ + 1] /\ forgotten' = forgotten \cup {i[1]}
        /\ pc' = [j \in Items |-> IF j = i \/ j \in Range(inbox[m]) THEN "lost" ELSE pc[j]]
    BY <1>7, WorkerTypes DEF WorkerPanics, Dying
  <2>2. \A j \in Range(inbox[m]) : pc[j] = "queued"
    BY <1>1 DEF Numbered, Range
  <2>3. pc'[i] = "lost"
        /\ \A j \in Items \ {i} : pc'[j] = pc[j] \/ (pc[j] = "queued" /\ pc'[j] = "lost")
    BY <2>1, <2>2
  <2> QED
    BY <2>1, <2>3, RetryRuns
<1> QED
  BY <1>3, <1>4, <1>5, <1>6, <1>7 DEF run_runtime_mailbox

\* A runtime request that is sent again is executed again only when its first
\* outcome was evicted from the cache or died with its thread.
THEOREM RetryIsAnswered == Spec => []RetriedOnce
<1>1. IInv /\ RetryInv /\ [Next]_vars => RetryInv'
  <2> SUFFICES ASSUME IInv, RetryInv, [Next]_vars PROVE RetryInv'
    OBVIOUS
  <2>1. CASE UNCHANGED vars
    <3>1. UNCHANGED <<command, cache, runs, forgotten, pc>>
      BY <2>1 DEF vars, itemVars
    <3> QED
      BY <3>1, RetryMoves
  <2> QED
    BY <2>1, RetryDispatch, RetryHandle, RetryWorker DEF Next
<1>2. RetryInv => RetriedOnce
  BY DEF RetryInv
<1> QED
  BY <1>1, <1>2, InvInit, InvStep, RetryInit, PTL DEF Spec

-----------------------------------------------------------------------------
(* The hub and the backend.                                                *)

Follows ==
  /\ running # NoRuntime => hub = running
  /\ panics = 0 => hub = running \/ (running = NoRuntime /\ hub = ended)

\* The worker of mailbox m supervises the runtime that the backend runs.
Settled(m) == Follows /\ (panics = 0 /\ running # NoRuntime => active[m] = running)

\* What a command has done once the backend handled it and before its worker
\* read the outcome.
Handled(m, i) ==
  /\ Kind(i) = "Start" =>
       /\ running = IF outcome[i].ok THEN Rt(i) ELSE NoRuntime
       /\ hub = IF outcome[i].ok \/ pc[i] = "record" THEN Rt(i) ELSE NoRuntime
  /\ Kind(i) = "CloseSession" =>
       /\ outcome[i].ok /\ running # Rt(i)
       /\ running # NoRuntime => Settled(m)
       /\ panics = 0 /\ running = NoRuntime =>
            hub \in {NoRuntime, ended} \/ (hub = Rt(i) /\ active[m] = Rt(i))
  /\ Kind(i) = "RemoveSession" => IF outcome[i].ok THEN running = NoRuntime ELSE Settled(m)
  /\ Kind(i) \notin {"Start", "CloseSession", "RemoveSession"} => Settled(m)
  /\ outcome[i].rt = IF Kind(i) = "AttachSession" THEN running ELSE NoRuntime

Serving(m, i) ==
  /\ pc[i] = "lookup" => Settled(m)
  /\ pc[i] = "handle" => IF Kind(i) = "Start" THEN hub = Rt(i) ELSE Settled(m)
  /\ pc[i] \in {"record", "answer", "supervise"} =>
       IF executed[i] THEN Handled(m, i) ELSE Settled(m)

HubInv ==
  /\ \A i \in Items :
       /\ pc[i] \in {"unsent", "queued", "lookup", "handle"} => ~executed[i]
       /\ pc[i] = "record" => executed[i]
  /\ \A m \in Mailboxes : worker[m] = "retire" => active[m] = NoRuntime
  /\ ~Busy => Follows
  /\ ~Busy /\ panics = 0 /\ running # NoRuntime =>
       \E m \in Mailboxes : Live(m) /\ active[m] = running
  /\ \A m \in Mailboxes : worker[m] = "busy" => Serving(m, current[m])

LEMMA HubInit == Init => HubInv
<1> SUFFICES ASSUME Init PROVE HubInv
  OBVIOUS
<1>1. \A m \in Mailboxes : worker[m] = "none"
  BY DEF Init
<1>2. ~Busy /\ running = NoRuntime /\ hub = NoRuntime
  BY <1>1 DEF Init, Busy
<1> QED
  BY <1>1, <1>2 DEF HubInv, Follows, Init

\* Steps of a thread that serves no runtime request.
LEMMA HubFrame ==
  ASSUME HubInv, NEW i \in Items, \A m \in Mailboxes : worker[m] = "busy" => current[m] # i,
         \A m \in Mailboxes : worker[m] = "busy" => current[m] \in Items,
         UNCHANGED <<command, running, ended, hub, current, worker, active>>,
         panics \in Nat, panics' \in Nat, panics' >= panics,
         \A j \in Items \ {i} :
           pc'[j] = pc[j] /\ executed'[j] = executed[j] /\ outcome'[j] = outcome[j],
         pc'[i] \in {"unsent", "queued", "lookup", "handle"} => ~executed'[i],
         pc'[i] = "record" => executed'[i]
  PROVE  HubInv'
<1>1. \A j \in Items :
        /\ pc'[j] \in {"unsent", "queued", "lookup", "handle"} => ~executed'[j]
        /\ pc'[j] = "record" => executed'[j]
  BY DEF HubInv
<1>2. panics' = 0 => panics = 0
  OBVIOUS
<1>3. Busy' = Busy
  BY DEF Busy
<1>4. \A m \in Mailboxes : Live(m)' <=> Live(m)
  BY DEF Live
<1>5. ASSUME NEW m \in Mailboxes, worker[m] = "busy" PROVE Serving(m, current[m])'
  <2> DEFINE j == current[m]
  <2>1. j \in Items \ {i} /\ Serving(m, j) /\ current' = current
    BY <1>5 DEF HubInv
  <2>2. pc'[j] = pc[j] /\ executed'[j] = executed[j] /\ outcome'[j] = outcome[j]
    BY <2>1
  <2>3. Settled(m) => Settled(m)'
    BY <1>2 DEF Settled, Follows
  <2>4. Handled(m, j) =>
          /\ Kind(j) = "Start" =>
               /\ running = IF outcome'[j].ok THEN Rt(j) ELSE NoRuntime
               /\ hub = IF outcome'[j].ok \/ pc'[j] = "record" THEN Rt(j) ELSE NoRuntime
          /\ Kind(j) = "CloseSession" =>
               /\ outcome'[j].ok /\ running # Rt(j)
               /\ running # NoRuntime => Settled(m)'
               /\ panics' = 0 /\ running = NoRuntime =>
                    hub \in {NoRuntime, ended} \/ (hub = Rt(j) /\ active[m] = Rt(j))
          /\ Kind(j) = "RemoveSession" =>
               IF outcome'[j].ok THEN running = NoRuntime ELSE Settled(m)'
          /\ Kind(j) \notin {"Start", "CloseSession", "RemoveSession"} => Settled(m)'
          /\ outcome'[j].rt = IF Kind(j) = "AttachSession" THEN running ELSE NoRuntime
    BY <1>2, <2>2, <2>3 DEF Handled
  <2>5. Handled(m, j) => Handled(m, current[m])'
    BY <2>1, <2>4 DEF Handled, Kind, Rt
  <2> QED
    BY <2>1, <2>2, <2>3, <2>5 DEF Serving, Kind, Rt
<1>6. \A m \in Mailboxes : worker'[m] = "retire" => active'[m] = NoRuntime
  BY DEF HubInv
<1>7. ~Busy' => Follows'
  BY <1>2, <1>3 DEF HubInv, Follows
<1>8. ~Busy' /\ panics' = 0 /\ running' # NoRuntime =>
        \E m \in Mailboxes : Live(m)' /\ active'[m] = running'
  BY <1>2, <1>3, <1>4 DEF HubInv
<1> QED
  BY <1>1, <1>5, <1>6, <1>7, <1>8 DEF HubInv

LEMMA HubDispatch ==
  ASSUME IInv, HubInv, NEW i \in Items, dispatch(i) \/ send_dispatch_error(i)
  PROVE  HubInv'
<1> USE DEF IInv, workerVars, faultVars
<1>1. /\ pc[i] \in {"unsent", "refused"} /\ pc \in [Items -> ItemPcs]
      /\ outcome \in [Items -> Outcomes] /\ panics \in Nat /\ panics' = panics
      /\ \E p \in {"queued", "lookup", "refused", "done"} : pc' = [pc EXCEPT ![i] = p]
      /\ pc[i] = "refused" => pc'[i] = "done"
      /\ executed' = executed /\ UNCHANGED <<command, running, ended, hub, current, active>>
  BY DEF dispatch, Enqueue, CreateMailbox, DispatchIndependent, SpawnFails, Sendable,
         send_dispatch_error, TypeOK
<1>2. \A m \in Mailboxes : worker[m] = "busy" => current[m] \in Items /\ current[m] # i
  BY <1>1 DEF Serial, Working
<1>3. pc'[i] \in {"unsent", "queued", "lookup", "handle"} => ~executed'[i]
  BY <1>1 DEF HubInv
<1>4. pc'[i] # "record"
  BY <1>1
<1>5. \A j \in Items \ {i} : pc'[j] = pc[j] /\ outcome'[j] = outcome[j]
  BY <1>1 DEF dispatch, Enqueue, CreateMailbox, DispatchIndependent, SpawnFails,
              send_dispatch_error
<1>6. CASE worker' = worker
  BY <1>1, <1>2, <1>3, <1>4, <1>5, <1>6, HubFrame
<1>7. CASE CreateMailbox(i)
  <2>1. \A m \in Mailboxes : ~Live(m)
    BY <1>7 DEF CreateMailbox, Deserted, Serial, NoneLeftBehind, Mailboxes, NoMailbox
  <2>2. \A m \in Mailboxes : worker'[m] = worker[m] \/ worker'[m] = "recv"
    BY <1>7 DEF CreateMailbox, TypeOK
  <2>3. ~Busy /\ ~Busy' /\ \A m \in Mailboxes : worker'[m] # "busy"
    BY <2>1, <2>2 DEF Busy, Live
  <2>4. Follows /\ (panics = 0 => running = NoRuntime)
    BY <2>1, <2>3 DEF HubInv
  <2>5. Follows'
    BY <1>1, <2>4 DEF Follows
  <2>6. \A m \in Mailboxes : worker'[m] = "retire" => active'[m] = NoRuntime
    BY <1>1, <2>2 DEF HubInv
  <2>7. \A j \in Items :
          /\ pc'[j] \in {"unsent", "queued", "lookup", "handle"} => ~executed'[j]
          /\ pc'[j] = "record" => executed'[j]
    BY <1>1, <1>3, <1>4, <1>5 DEF HubInv
  <2> QED
    BY <1>1, <2>3, <2>4, <2>5, <2>6, <2>7 DEF HubInv
<1>8. worker' = worker \/ CreateMailbox(i)
  BY DEF dispatch, Enqueue, DispatchIndependent, SpawnFails, send_dispatch_error
<1> QED
  BY <1>6, <1>7, <1>8

\* What holds while the worker of m handles i, and no other worker is busy.
LEMMA HubServing ==
  ASSUME IInv, HubInv, NEW m \in Mailboxes, worker[m] = "busy",
         UNCHANGED <<worker, current, active>>,
         \A j \in Items \ {current[m]} : pc'[j] = pc[j] /\ executed'[j] = executed[j],
         pc'[current[m]] \in {"unsent", "queued", "lookup", "handle"} => ~executed'[current[m]],
         pc'[current[m]] = "record" => executed'[current[m]],
         Serving(m, current[m])'
  PROVE  HubInv'
<1>1. \A n \in Mailboxes : worker[n] = "busy" => n = m
  BY OneLive DEF IInv, Live
<1>2. Busy'
  BY DEF Busy
<1>3. \A j \in Items :
        /\ pc'[j] \in {"unsent", "queued", "lookup", "handle"} => ~executed'[j]
        /\ pc'[j] = "record" => executed'[j]
  BY DEF HubInv
<1>4. \A n \in Mailboxes : worker'[n] = "retire" => active'[n] = NoRuntime
  BY DEF HubInv
<1> QED
  BY <1>1, <1>2, <1>3, <1>4 DEF HubInv

\* The backend handles a runtime request.
LEMMA HandledEstablished ==
  ASSUME TypeOK, NEW m \in Mailboxes, NEW i \in Items, Kind(i) \in AllKinds,
         IF Kind(i) = "Start" THEN hub = Rt(i) ELSE Settled(m),
         NEW o \in Outcomes, Effect(i, o), outcome' = [outcome EXCEPT ![i] = o],
         ended' = Ended(i), pc'[i] = "record", UNCHANGED <<command, hub, active, panics>>
  PROVE  Handled(m, i)'
<1> USE DEF Ok, Error
<1>1. outcome'[i] = o /\ Kind(i)' = Kind(i) /\ Rt(i)' = Rt(i) /\ Rt(i) \in Runtimes
      /\ Rt(i) # NoRuntime
  BY CommandTypes, ConstantsAssumption DEF TypeOK, Kind, Rt
<1>2. CASE Kind(i) = "Start"
  BY <1>1, <1>2 DEF Effect, Handled
<1>3. CASE Kind(i) = "CloseSession"
  <2>1. o = Ok /\ running' = IF running = Rt(i) THEN NoRuntime ELSE running
    BY <1>3 DEF Effect
  <2>2. running' # Rt(i) /\ (running' # NoRuntime => Settled(m)')
    BY <1>1, <1>3, <2>1 DEF Settled, Follows, Ended
  <2>3. panics' = 0 /\ running' = NoRuntime =>
          hub' \in {NoRuntime, ended'} \/ (hub' = Rt(i) /\ active'[m] = Rt(i))
    BY <1>1, <1>3, <2>1 DEF Settled, Follows, Ended
  <2> QED
    BY <1>1, <1>3, <2>1, <2>2, <2>3 DEF Handled
<1>4. CASE Kind(i) = "RemoveSession"
  <2>1. o \in {Ok, Error} /\ running' = IF o.ok THEN NoRuntime ELSE running
    BY <1>4 DEF Effect
  <2>2. ~o.ok => Settled(m)'
    BY <1>4, <2>1 DEF Settled, Follows, Ended
  <2> QED
    BY <1>1, <1>4, <2>1, <2>2 DEF Handled
<1>5. CASE Kind(i) \notin {"Start", "CloseSession", "RemoveSession", "RewindSessionToMessage"}
  <2>1. running' = running
    BY <1>5 DEF Effect
  <2>2. o.rt = IF Kind(i) = "AttachSession" THEN running ELSE NoRuntime
    BY <1>5 DEF Effect
  <2>3. Settled(m)'
    BY <1>5, <2>1 DEF Settled, Follows, Ended
  <2> QED
    BY <1>1, <1>5, <2>1, <2>2, <2>3 DEF Handled
\* A rewind drops the runtime that the hub forwards, and the history says so.
<1>6. CASE Kind(i) = "RewindSessionToMessage"
  <2>1. o.rt = NoRuntime /\ running' \in {running, NoRuntime}
    BY <1>6 DEF Effect
  <2>2. ended' = IF running # NoRuntime /\ running' = NoRuntime THEN running ELSE ended
    BY <1>6 DEF Ended
  <2>3. Settled(m)'
    BY <1>6, <2>1, <2>2 DEF Settled, Follows
  <2> QED
    BY <1>1, <1>6, <2>1, <2>3 DEF Handled
<1> QED
  BY <1>2, <1>3, <1>4, <1>5, <1>6

LEMMA HubHandle ==
  ASSUME IInv, HubInv, NEW i \in Items, targets_runtime(i), handle_request(i)
  PROVE  HubInv'
<1> USE DEF IInv, workerVars, faultVars
<1>1. pc[i] \in {"lookup", "handle", "record", "answer"}
  BY DEF handle_request, Lookup, Handle, Record, Answer
<1>2. PICK m \in Mailboxes : worker[m] = "busy" /\ current[m] = i
  BY <1>1 DEF Serial, Working
<1>3. Serving(m, i) /\ pc \in [Items -> ItemPcs] /\ Kind(i) \in RuntimeKinds
      /\ UNCHANGED <<command, worker, current, active, panics>>
  BY <1>2 DEF HubInv, handle_request, Lookup, Handle, Record, Answer, TypeOK, targets_runtime
<1>4. ASSUME NEW p \in {"handle", "record", "answer", "supervise"},
             pc' = [pc EXCEPT ![i] = p],
             \A j \in Items \ {i} : executed'[j] = executed[j],
             p = "handle" => ~executed'[i], p = "record" => executed'[i],
             Serving(m, i)'
      PROVE  HubInv'
  <2>1. /\ \A j \in Items \ {i} : pc'[j] = pc[j] /\ executed'[j] = executed[j]
        /\ pc'[i] = p
    BY <1>3, <1>4
  <2>2. Serving(m, current[m])'
    BY <1>2, <1>3, <1>4
  <2> QED
    BY <1>2, <1>3, <1>4, <2>1, <2>2, HubServing
<1>5. CASE Lookup(i) /\ IsCached(i)
  <2>1. pc[i] = "lookup" /\ pc' = [pc EXCEPT ![i] = "answer"] /\ ~executed[i]
        /\ UNCHANGED <<executed, hub, running, ended>>
    BY <1>5 DEF Lookup, HubInv
  <2>2. Serving(m, i)'
    BY <1>3, <2>1 DEF Serving, Settled, Follows
  <2> QED
    BY <1>4, <2>1, <2>2
<1>6. CASE Lookup(i) /\ ~IsCached(i)
  <2>1. pc[i] = "lookup" /\ pc' = [pc EXCEPT ![i] = "handle"] /\ ~executed[i]
        /\ UNCHANGED <<executed, running, ended>> /\ hub' = IF Kind(i) = "Start" THEN Rt(i) ELSE hub
    BY <1>6 DEF Lookup, HubInv
  <2>2. Serving(m, i)'
    BY <1>3, <2>1 DEF Serving, Settled, Follows, Kind, Rt
  <2> QED
    BY <1>4, <2>1, <2>2
<1>7. CASE Handle(i)
  <2>1. PICK o \in Outcomes : Effect(i, o) /\ outcome' = [outcome EXCEPT ![i] = o]
    BY <1>7 DEF Handle
  <2>2. /\ pc[i] = "handle" /\ pc' = [pc EXCEPT ![i] = "record"] /\ pc'[i] = "record"
        /\ executed' = [executed EXCEPT ![i] = TRUE] /\ executed'[i] /\ UNCHANGED hub
        /\ ended' = Ended(i)
    BY <1>7 DEF Handle, TypeOK
  <2>3. IF Kind(i) = "Start" THEN hub = Rt(i) ELSE Settled(m)
    BY <1>3, <2>2 DEF Serving
  <2>4. Kind(i) \in AllKinds
    BY <1>3 DEF AllKinds
  <2>5. Handled(m, i)'
    BY <1>3, <2>1, <2>2, <2>3, <2>4, HandledEstablished
  <2>6. Serving(m, i)'
    BY <2>2, <2>5 DEF Serving
  <2> QED
    BY <1>4, <2>2, <2>6
<1>8. CASE Record(i)
  <2>1. /\ pc[i] = "record" /\ pc' = [pc EXCEPT ![i] = "answer"] /\ pc'[i] = "answer"
        /\ executed[i] /\ UNCHANGED <<executed, outcome, running, ended>>
        /\ hub' = IF Kind(i) = "Start" /\ ~outcome[i].ok /\ hub = Rt(i) THEN NoRuntime ELSE hub
    BY <1>3, <1>8 DEF Record, HubInv
  <2>2. Handled(m, i)
    BY <1>3, <2>1 DEF Serving
  <2>3. Handled(m, i)'
    BY <1>3, <2>1, <2>2 DEF Handled, Settled, Follows, Kind, Rt
  <2>4. Serving(m, i)'
    BY <2>1, <2>3 DEF Serving
  <2> QED
    BY <1>4, <2>1, <2>4
<1>9. CASE Answer(i)
  <2>1. /\ pc[i] = "answer" /\ pc' = [pc EXCEPT ![i] = "supervise"] /\ pc'[i] = "supervise"
        /\ UNCHANGED <<executed, outcome, running, ended, hub>>
    BY <1>3, <1>9 DEF Answer
  <2>2. Serving(m, i)'
    BY <1>3, <2>1 DEF Serving, Handled, Settled, Follows, Kind, Rt
  <2> QED
    BY <1>4, <2>1, <2>2
<1> QED
  BY <1>5, <1>6, <1>7, <1>8, <1>9 DEF handle_request

\* A thread of its own never changes the runtime or the hub.
LEMMA HubIndependent ==
  ASSUME IInv, HubInv, NEW i \in Items, ~targets_runtime(i),
         handle_request(i) \/ IndependentPanics(i)
  PROVE  HubInv'
<1> USE DEF IInv, workerVars, faultVars
<1>1. \A m \in Mailboxes : worker[m] = "busy" => current[m] # i /\ current[m] \in Items
  BY DEF Serial
<1>2. Kind(i) \notin RuntimeKinds
  BY DEF targets_runtime
<1>3. UNCHANGED <<command, hub, current, worker, active>>
  BY <1>2 DEF handle_request, Lookup, Handle, Record, Answer, IndependentPanics, Dying,
              RuntimeKinds
<1>4. running' = running /\ ended' = ended
  <2>1. \A o \in Outcomes : Effect(i, o) => running' = running
    BY <1>2 DEF Effect, RuntimeKinds
  <2>2. AfterPanic(i) = {running}
    BY <1>2 DEF AfterPanic, RuntimeKinds
  <2>3. Ended(i) = ended
    BY <1>2 DEF Ended, RuntimeKinds
  <2> QED
    BY <2>1, <2>2, <2>3 DEF handle_request, Lookup, Handle, Record, Answer,
                            IndependentPanics, Dying
<1>5. panics \in Nat /\ panics' \in Nat /\ panics' >= panics
  BY DEF TypeOK, handle_request, Lookup, Handle, Record, Answer, IndependentPanics, Dying
<1>6. \A j \in Items \ {i} :
        pc'[j] = pc[j] /\ executed'[j] = executed[j] /\ outcome'[j] = outcome[j]
  BY DEF TypeOK, handle_request, Lookup, Handle, Record, Answer, IndependentPanics
<1>7. /\ pc'[i] \in {"unsent", "queued", "lookup", "handle"} => ~executed'[i]
      /\ pc'[i] = "record" => executed'[i]
  BY DEF TypeOK, HubInv, handle_request, Lookup, Handle, Record, Answer, IndependentPanics
<1> QED
  BY <1>1, <1>3, <1>4, <1>5, <1>6, <1>7, HubFrame

\* A worker begins a request.
LEMMA HubBegin ==
  ASSUME IInv, HubInv, NEW m \in Mailboxes, worker[m] \in {"recv", "retire"},
         inbox[m] # <<>>, Begin(m),
         UNCHANGED <<command, executed, outcome, active, running, ended, hub, panics>>
  PROVE  HubInv'
<1> USE DEF IInv
<1> DEFINE h == Head(inbox[m])
<1>1. /\ Live(m) /\ \A n \in Mailboxes : worker[n] # "busy"
      /\ \A n \in Mailboxes \ {m} : ~Live(n)
      /\ h \in Items /\ pc[h] = "queued"
  BY BeginOrder
<1>2. ~Busy
  BY <1>1 DEF Busy
<1>3. Settled(m)
  BY <1>1, <1>2 DEF HubInv, Settled
<1>4. /\ current'[m] = h /\ worker'[m] = "busy" /\ pc'[h] = "lookup" /\ ~executed'[h]
      /\ \A n \in Mailboxes \ {m} : worker'[n] = worker[n]
      /\ \A j \in Items \ {h} : pc'[j] = pc[j]
  BY <1>1 DEF Begin, TypeOK, HubInv
<1>5. Serving(m, current[m])'
  BY <1>3, <1>4 DEF Serving, Settled, Follows, Kind, Rt
<1>6. Busy' /\ \A n \in Mailboxes : worker'[n] = "busy" => n = m
  BY <1>1, <1>4 DEF Busy
<1>7. \A j \in Items :
        /\ pc'[j] \in {"unsent", "queued", "lookup", "handle"} => ~executed'[j]
        /\ pc'[j] = "record" => executed'[j]
  BY <1>4 DEF HubInv
<1>8. \A n \in Mailboxes : worker'[n] = "retire" => active'[n] = NoRuntime
  BY <1>4 DEF HubInv
<1> QED
  BY <1>5, <1>6, <1>7, <1>8 DEF HubInv

\* The worker reads the outcome: what it supervises and what the hub forwards
\* are again what the backend runs.
LEMMA SupervisedSettles ==
  ASSUME TypeOK, NEW m \in Mailboxes, NEW i \in Items, Kind(i) \in RuntimeKinds,
         IF executed[i] THEN Handled(m, i) ELSE Settled(m), pc[i] = "supervise"
  PROVE  /\ running # NoRuntime => EndRuntime(i, active[m]) = running
         /\ panics = 0 => \/ EndRuntime(i, active[m]) = running
                          \/ running = NoRuntime /\ EndRuntime(i, active[m]) = ended
         /\ panics = 0 /\ running # NoRuntime => NextActive(i, active[m]) = running
<1>1. Rt(i) \in Runtimes /\ Rt(i) # NoRuntime
  BY CommandTypes, ConstantsAssumption DEF TypeOK
<1>2. CASE ~executed[i]
  BY <1>2 DEF EndRuntime, NextActive, Settled, Follows
<1>3. CASE executed[i] /\ Kind(i) = "Start"
  BY <1>1, <1>3 DEF EndRuntime, NextActive, Handled
<1>4. CASE executed[i] /\ Kind(i) = "CloseSession"
  BY <1>1, <1>4 DEF EndRuntime, NextActive, Handled, Settled, Follows
<1>5. CASE executed[i] /\ Kind(i) = "RemoveSession"
  BY <1>1, <1>5 DEF EndRuntime, NextActive, Handled, Settled, Follows
<1>6. CASE executed[i] /\ Kind(i) \notin {"Start", "CloseSession", "RemoveSession"}
  BY <1>1, <1>6 DEF EndRuntime, NextActive, Handled, Settled, Follows
<1> QED
  BY <1>2, <1>3, <1>4, <1>5, <1>6

LEMMA HubSupervise ==
  ASSUME IInv, HubInv, NEW m \in Mailboxes, Supervise(m) PROVE HubInv'
<1> USE DEF IInv, faultVars
<1> DEFINE i == current[m]
<1>1. /\ i \in Items /\ Kind(i) \in RuntimeKinds /\ worker[m] = "busy" /\ pc[i] = "supervise"
      /\ IF executed[i] THEN Handled(m, i) ELSE Settled(m)
  BY DEF Supervise, Serial, HubInv, Serving, targets_runtime
<1>2. /\ hub' = EndRuntime(i, active[m]) /\ active'[m] = NextActive(i, active[m])
      /\ \A n \in Mailboxes \ {m} : active'[n] = active[n] /\ worker'[n] = worker[n]
      /\ worker'[m] = IF active'[m] = NoRuntime THEN "retire" ELSE "recv"
      /\ pc'[i] = "done" /\ \A j \in Items \ {i} : pc'[j] = pc[j]
      /\ UNCHANGED <<executed, running, ended, panics>>
  BY <1>1 DEF Supervise, TypeOK
<1>3. Follows' /\ (panics = 0 /\ running # NoRuntime => active'[m] = running)
  BY <1>1, <1>2, SupervisedSettles DEF Follows
<1>4. \A n \in Mailboxes : worker'[n] # "busy"
  BY <1>1, <1>2, OneLive DEF Live
<1>5. Live(m)'
  BY <1>2 DEF Live
<1>6. \A j \in Items :
        /\ pc'[j] \in {"unsent", "queued", "lookup", "handle"} => ~executed'[j]
        /\ pc'[j] = "record" => executed'[j]
  BY <1>2 DEF HubInv
<1>7. \A n \in Mailboxes : worker'[n] = "retire" => active'[n] = NoRuntime
  BY <1>2 DEF HubInv
<1> QED
  BY <1>2, <1>3, <1>4, <1>5, <1>6, <1>7 DEF HubInv

LEMMA HubRetire ==
  ASSUME IInv, HubInv, NEW m \in Mailboxes, Retire(m), inbox[m] = <<>> PROVE HubInv'
<1> USE DEF IInv, faultVars
<1>1. /\ worker[m] = "retire" /\ worker'[m] = "gone" /\ Live(m)
      /\ \A n \in Mailboxes \ {m} : worker'[n] = worker[n]
      /\ UNCHANGED <<command, pc, executed, outcome, current, active, running, ended, hub, panics>>
  BY DEF Retire, Begin, Live, TypeOK
<1>2. \A n \in Mailboxes : Live(n) => n = m
  BY <1>1, OneLive
<1>3. ~Busy /\ \A n \in Mailboxes : worker'[n] # "busy"
  BY <1>1, <1>2 DEF Busy, Live
<1>4. Follows /\ (panics = 0 => running = NoRuntime)
  BY <1>1, <1>2, <1>3 DEF HubInv
<1>5. Follows'
  BY <1>1, <1>4 DEF Follows
<1>6. \A n \in Mailboxes : worker'[n] = "retire" => active'[n] = NoRuntime
  BY <1>1 DEF HubInv
<1> QED
  BY <1>1, <1>3, <1>4, <1>5, <1>6 DEF HubInv

LEMMA HubPanics ==
  ASSUME IInv, HubInv, NEW m \in Mailboxes, WorkerPanics(m) PROVE HubInv'
<1> USE DEF IInv
<1> DEFINE i == current[m]
<1>1. /\ i \in Items /\ worker[m] = "busy" /\ pc[i] = "handle"
      /\ IF Kind(i) = "Start" THEN hub = Rt(i) ELSE Settled(m)
      /\ worker'[m] = "dead" /\ \A n \in Mailboxes \ {m} : worker'[n] = worker[n]
      /\ panics' > 0 /\ UNCHANGED <<hub, executed, active>>
      /\ running' \in AfterPanic(i)
  BY DEF WorkerPanics, Dying, Serial, HubInv, Serving, TypeOK
<1>2. \A n \in Mailboxes : worker'[n] # "busy"
  BY <1>1, OneLive DEF Live
<1>3. running' = NoRuntime \/ (running' = running /\ Kind(i) # "Start")
  BY <1>1 DEF AfterPanic
<1>4. Follows'
  BY <1>1, <1>3 DEF Follows, Settled
<1>5. \A j \in Items : pc'[j] = pc[j] \/ pc'[j] = "lost"
  BY DEF WorkerPanics
<1>6. \A j \in Items :
        /\ pc'[j] \in {"unsent", "queued", "lookup", "handle"} => ~executed'[j]
        /\ pc'[j] = "record" => executed'[j]
  BY <1>1, <1>5 DEF HubInv
<1>7. \A n \in Mailboxes : worker'[n] = "retire" => active'[n] = NoRuntime
  BY <1>1 DEF HubInv
<1> QED
  BY <1>1, <1>2, <1>4, <1>6, <1>7 DEF HubInv

\* Between two requests the hub forwards the events of the runtime that the
\* backend runs, whatever was started, closed, removed, rewound, retried or
\* failed, and otherwise at most those of the runtime that a rewind dropped.
THEOREM HubIsCurrent == Spec => []HubFollowsBackend
<1>1. IInv /\ HubInv /\ [Next]_vars => HubInv'
  <2> SUFFICES ASSUME IInv, HubInv, [Next]_vars PROVE HubInv'
    OBVIOUS
  <2>1. CASE UNCHANGED vars
    BY <2>1 DEF vars, itemVars, mailboxVars, workerVars, faultVars, HubInv, Busy, Follows, Live,
                Serving, Settled, Handled, Kind, Rt
  <2>2. ASSUME NEW m \in Mailboxes, run_runtime_mailbox(m) PROVE HubInv'
    <3>1. CASE Receive(m)
      BY <3>1, HubBegin DEF Receive, faultVars
    <3>2. CASE Retire(m) /\ inbox[m] # <<>>
      BY <3>2, HubBegin DEF Retire, faultVars
    <3> QED
      BY <2>2, <3>1, <3>2, HubSupervise, HubRetire DEF run_runtime_mailbox
  <2>3. ASSUME NEW i \in Items, handle_request(i) \/ IndependentPanics(i) PROVE HubInv'
    BY <2>3, HubHandle, HubIndependent DEF IndependentPanics
  <2> QED
    BY <2>1, <2>2, <2>3, HubDispatch, HubPanics DEF Next
<1>2. HubInv => HubFollowsBackend
  BY DEF HubInv, HubFollowsBackend, Follows
<1> QED
  BY <1>1, <1>2, InvInit, InvStep, HubInit, PTL DEF Spec

=============================================================================
