------------------------- MODULE EventStreamProofs -------------------------
(***************************************************************************)
(* The event stream keeps its types and its bounds, a replay leaves no     *)
(* hole the hub could have filled, and every adapter is served as EventLog *)
(* promises, for any number of runtimes, clients, restarts and events.     *)
(***************************************************************************)
EXTENDS EventStream, NaturalLemmas, SequenceTheorems

-----------------------------------------------------------------------------
(* Sequences of events.                                                    *)

Events == Event \cup {OtherEvent}
Numbers(s) == {s[i].seq : i \in DOMAIN s}
Rising(s) == \A i, j \in DOMAIN s : i < j => s[i].seq < s[j].seq
Below(M, N) == \A m \in M, n \in N : m < n

\* Where Append and Tail put what they add and take away.
LEMMA AppendRange ==
  ASSUME NEW S, NEW s \in Seq(S), NEW e \in S
  PROVE  Range(Append(s, e)) = Range(s) \cup {e}
<1>1. /\ DOMAIN s = 1..Len(s) /\ Len(s) \in Nat
      /\ DOMAIN Append(s, e) = 1..(Len(s) + 1)
      /\ \A i \in 1..Len(s) : Append(s, e)[i] = s[i]
      /\ Append(s, e)[Len(s) + 1] = e
  BY AppendProperties, LenProperties
<1>2. Len(s) + 1 \in DOMAIN Append(s, e) /\ DOMAIN s \subseteq DOMAIN Append(s, e)
  BY <1>1
<1>3. \A i \in DOMAIN Append(s, e) : i \in DOMAIN s \/ i = Len(s) + 1
  BY <1>1
<1> QED
  BY <1>1, <1>2, <1>3 DEF Range

LEMMA AppendNumbers ==
  ASSUME NEW S, NEW s \in Seq(S), NEW e \in S
  PROVE  /\ Numbers(Append(s, e)) = Numbers(s) \cup {e.seq}
         /\ Rising(s) /\ Below(Numbers(s), {e.seq}) => Rising(Append(s, e))
<1>1. /\ DOMAIN s = 1..Len(s) /\ Len(s) \in Nat
      /\ DOMAIN Append(s, e) = 1..(Len(s) + 1)
      /\ \A i \in 1..Len(s) : Append(s, e)[i] = s[i]
      /\ Append(s, e)[Len(s) + 1] = e
  BY AppendProperties, LenProperties
<1>2. Len(s) + 1 \in DOMAIN Append(s, e) /\ DOMAIN s \subseteq DOMAIN Append(s, e)
  BY <1>1
<1>3. \A i \in DOMAIN Append(s, e) : i \in DOMAIN s \/ i = Len(s) + 1
  BY <1>1
<1>4. Numbers(Append(s, e)) = Numbers(s) \cup {e.seq}
  BY <1>1, <1>2, <1>3 DEF Numbers
<1>5. ASSUME Rising(s), Below(Numbers(s), {e.seq}),
             NEW i \in DOMAIN Append(s, e), NEW j \in DOMAIN Append(s, e), i < j
      PROVE  Append(s, e)[i].seq < Append(s, e)[j].seq
  <2>1. i \in DOMAIN s
    BY <1>1, <1>5
  <2>2. s[i].seq \in Numbers(s)
    BY <2>1 DEF Numbers
  <2>3. CASE j \in DOMAIN s
    BY <1>1, <1>5, <2>1, <2>3 DEF Rising
  <2>4. CASE j = Len(s) + 1
    BY <1>1, <1>5, <2>1, <2>2, <2>4 DEF Below
  <2> QED
    BY <1>3, <2>3, <2>4
<1> QED
  BY <1>4, <1>5 DEF Rising

LEMMA TailRange ==
  ASSUME NEW S, NEW s \in Seq(S), s # <<>>
  PROVE  /\ Head(s) \in S /\ Tail(s) \in Seq(S) /\ Len(Tail(s)) < Len(s)
         /\ Range(s) = {Head(s)} \cup Range(Tail(s))
         /\ Numbers(s) = {Head(s).seq} \cup Numbers(Tail(s))
         /\ Rising(s) => Rising(Tail(s)) /\ Below({Head(s).seq}, Numbers(Tail(s)))
<1>1. /\ Head(s) = s[1] /\ Head(s) \in S
      /\ Tail(s) \in Seq(S) /\ Len(Tail(s)) = Len(s) - 1
      /\ DOMAIN s = 1..Len(s) /\ Len(s) \in Nat \ {0}
      /\ DOMAIN Tail(s) = 1..(Len(s) - 1)
      /\ \A i \in DOMAIN Tail(s) : Tail(s)[i] = s[i + 1]
  BY HeadTailProperties, LenProperties, EmptySeq
<1>2. /\ 1 \in DOMAIN s
      /\ \A i \in DOMAIN Tail(s) : i \in Nat /\ i + 1 \in DOMAIN s /\ 1 < i + 1
      /\ \A i \in DOMAIN s : i = 1 \/ (i - 1 \in DOMAIN Tail(s) /\ s[i] = Tail(s)[i - 1])
  BY <1>1
<1>3. Range(s) = {Head(s)} \cup Range(Tail(s))
  <2>1. ASSUME NEW x \in Range(s), x # Head(s) PROVE x \in Range(Tail(s))
    <3>1. PICK i \in DOMAIN s : x = s[i]
      BY DEF Range
    <3>2. i - 1 \in DOMAIN Tail(s) /\ x = Tail(s)[i - 1]
      BY <1>1, <1>2, <2>1, <3>1
    <3> QED
      BY <3>2 DEF Range
  <2>2. Head(s) \in Range(s) /\ \A x \in Range(Tail(s)) : x \in Range(s)
    BY <1>1, <1>2 DEF Range
  <2> QED
    BY <2>1, <2>2
<1>4. Numbers(s) = {Head(s).seq} \cup Numbers(Tail(s))
  <2>1. ASSUME NEW x \in Numbers(s), x # Head(s).seq PROVE x \in Numbers(Tail(s))
    <3>1. PICK i \in DOMAIN s : x = s[i].seq
      BY DEF Numbers
    <3>2. i - 1 \in DOMAIN Tail(s) /\ x = Tail(s)[i - 1].seq
      BY <1>1, <1>2, <2>1, <3>1
    <3> QED
      BY <3>2 DEF Numbers
  <2>2. Head(s).seq \in Numbers(s) /\ \A x \in Numbers(Tail(s)) : x \in Numbers(s)
    BY <1>1, <1>2 DEF Numbers
  <2> QED
    BY <2>1, <2>2
<1>5. ASSUME Rising(s) PROVE Rising(Tail(s)) /\ Below({Head(s).seq}, Numbers(Tail(s)))
  <2>1. \A i \in DOMAIN Tail(s) : s[1].seq < Tail(s)[i].seq
    BY <1>1, <1>2, <1>5 DEF Rising
  <2>2. Rising(Tail(s))
    BY <1>1, <1>2, <1>5 DEF Rising
  <2> QED
    BY <1>1, <2>1, <2>2 DEF Below, Numbers
<1> QED
  BY <1>1, <1>3, <1>4, <1>5

\* A part of a sequence, cut off at either end.
LEMMA PartRange ==
  ASSUME NEW S, NEW s \in Seq(S), NEW m \in 1..(Len(s) + 1), NEW n \in 0..Len(s)
  PROVE  /\ SubSeq(s, m, n) \in Seq(S)
         /\ Len(SubSeq(s, m, n)) = IF m <= n THEN n - m + 1 ELSE 0
         /\ Range(SubSeq(s, m, n)) \subseteq Range(s)
         /\ Numbers(SubSeq(s, m, n)) \subseteq Numbers(s)
         /\ Rising(s) => Rising(SubSeq(s, m, n))
<1> DEFINE t == SubSeq(s, m, n)
<1>1. Len(s) \in Nat /\ DOMAIN s = 1..Len(s) /\ \A i \in 1..Len(s) : s[i] \in S
  BY LenProperties, ElementOfSeq
<1>2. m \in Int /\ n \in Int /\ \A i \in m..n : s[i] \in S
  BY <1>1
<1>3. /\ t \in Seq(S) /\ Len(t) = IF m <= n THEN n - m + 1 ELSE 0
      /\ \A i \in 1..(n - m + 1) : t[i] = s[m + i - 1]
  BY <1>2, SubSeqProperties
<1> HIDE DEF t
<1>4. DOMAIN t = 1..Len(t)
  BY <1>3, LenProperties
<1>5. \A i \in DOMAIN t : i \in Nat /\ m + i - 1 \in DOMAIN s /\ t[i] = s[m + i - 1]
  BY <1>1, <1>2, <1>3, <1>4
<1>6. Range(t) \subseteq Range(s) /\ Numbers(t) \subseteq Numbers(s)
  BY <1>5 DEF Range, Numbers
<1>7. ASSUME Rising(s) PROVE Rising(t)
  <2>1. \A i, j \in DOMAIN t : i < j => m + i - 1 < m + j - 1
    BY <1>2, <1>5
  <2> QED
    BY <1>5, <1>7, <2>1 DEF Rising
<1> QED
  BY <1>3, <1>6, <1>7 DEF t

LEMMA BoundedRange ==
  ASSUME NEW S, NEW s \in Seq(S), NEW b \in Nat
  PROVE  /\ Bounded(s, b) \in Seq(S) /\ Len(Bounded(s, b)) <= b
         /\ Range(Bounded(s, b)) \subseteq Range(s)
         /\ Numbers(Bounded(s, b)) \subseteq Numbers(s)
         /\ Rising(s) => Rising(Bounded(s, b))
<1> DEFINE m == 1 + (IF Len(s) > b THEN Len(s) - b ELSE 0)
<1>1. Len(s) \in Nat
  BY LenProperties
<1>2. m \in 1..(Len(s) + 1) /\ Len(s) \in 0..Len(s) /\ Len(s) - m + 1 <= b
  BY <1>1
<1>3. Bounded(s, b) = SubSeq(s, m, Len(s))
  BY DEF Bounded
<1> HIDE DEF m
<1> QED
  BY <1>1, <1>2, <1>3, PartRange

LEMMA CutRange ==
  ASSUME NEW S, NEW s \in Seq(S)
  PROVE  /\ Cut(s) \in Seq(S) /\ Len(Cut(s)) <= QueueBound
         /\ Range(Cut(s)) \subseteq Range(s)
         /\ Len(s) <= QueueBound => Cut(s) = s
<1> DEFINE n == IF Len(s) < QueueBound THEN Len(s) ELSE QueueBound
<1>1. Len(s) \in Nat /\ QueueBound \in Nat
  BY LenProperties, ConstantsAssumption
<1>2. 1 \in 1..(Len(s) + 1) /\ n \in 0..Len(s) /\ n <= QueueBound
  BY <1>1
<1>3. Cut(s) = SubSeq(s, 1, n)
  BY DEF Cut
<1>4. Len(s) <= QueueBound => n = Len(s)
  BY <1>1
<1>5. SubSeq(s, 1, Len(s)) = s
  BY SubSeqFull
<1> HIDE DEF n
<1>6. /\ Cut(s) \in Seq(S) /\ Range(Cut(s)) \subseteq Range(s)
      /\ Len(Cut(s)) = IF 1 <= n THEN n - 1 + 1 ELSE 0
  BY <1>2, <1>3, PartRange
<1>7. Len(Cut(s)) <= QueueBound
  BY <1>1, <1>2, <1>6
<1> QED
  BY <1>3, <1>4, <1>5, <1>6, <1>7

\* One step of the recursive function that Kept is built from.
KeptStep(F, s, K, n) ==
  [k \in 0..n |->
     IF k = 0 THEN <<>>
     ELSE IF k \in K THEN Append(F[k - 1], s[k]) ELSE F[k - 1]]

LEMMA KeptStepValue ==
  ASSUME NEW F, NEW s, NEW K, NEW n \in Nat, F = KeptStep(F, s, K, n)
  PROVE  /\ F[0] = <<>>
         /\ \A k \in 1..n : F[k] = IF k \in K THEN Append(F[k - 1], s[k]) ELSE F[k - 1]
<1>1. F[0] = <<>>
  <2>1. KeptStep(F, s, K, n)[0] = <<>>
    BY DEF KeptStep
  <2> QED
    BY <2>1
<1>2. ASSUME NEW k \in 1..n
      PROVE  F[k] = IF k \in K THEN Append(F[k - 1], s[k]) ELSE F[k - 1]
  <2>1. k \in 0..n /\ k # 0
    OBVIOUS
  <2>2. KeptStep(F, s, K, n)[k] = IF k \in K THEN Append(F[k - 1], s[k]) ELSE F[k - 1]
    BY <2>1 DEF KeptStep
  <2> QED
    BY <2>2
<1> QED
  BY <1>1, <1>2

\* That function exists, by induction over its length.
LEMMA KeptExists ==
  ASSUME NEW s, NEW K, NEW len \in Nat
  PROVE  \E F : F = KeptStep(F, s, K, len)
<1> DEFINE N == {n \in Nat : \E F : F = KeptStep(F, s, K, n)}
<1>1. 0 \in N
  <2>1. [k \in 0..0 |-> <<>>] = KeptStep([k \in 0..0 |-> <<>>], s, K, 0)
    BY DEF KeptStep
  <2> QED
    BY <2>1
<1>2. ASSUME NEW n \in N PROVE n + 1 \in N
  <2>1. n \in Nat
    OBVIOUS
  <2>2. PICK F : F = KeptStep(F, s, K, n)
    OBVIOUS
  <2> DEFINE last == IF n + 1 \in K THEN Append(F[n], s[n + 1]) ELSE F[n]
             G == [k \in 0..(n + 1) |-> IF k = n + 1 THEN last ELSE F[k]]
  <2>3. /\ F[0] = <<>>
        /\ \A k \in 1..n : F[k] = IF k \in K THEN Append(F[k - 1], s[k]) ELSE F[k - 1]
    BY <2>1, <2>2, KeptStepValue
  <2>4. G[n + 1] = last /\ \A k \in 0..n : G[k] = F[k]
    BY <2>1
  <2>5. G = [k \in 0..(n + 1) |-> G[k]]
    OBVIOUS
  <2> HIDE DEF G
  <2>6. ASSUME NEW k \in 0..(n + 1)
        PROVE  G[k] = IF k = 0 THEN <<>>
                      ELSE IF k \in K THEN Append(G[k - 1], s[k]) ELSE G[k - 1]
    <3>1. CASE k = 0
      BY <2>1, <2>3, <2>4, <3>1
    <3>2. CASE k = n + 1
      <4>1. k - 1 = n /\ k # 0 /\ n \in 0..n
        BY <2>1, <3>2
      <4> QED
        BY <2>4, <3>2, <4>1
    <3>3. CASE k \in 1..n
      <4>1. k - 1 \in 0..n /\ k \in 0..n /\ k # 0
        BY <2>1, <3>3
      <4> QED
        BY <2>3, <2>4, <3>3, <4>1
    <3> QED
      BY <2>1, <3>1, <3>2, <3>3
  <2>7. G = KeptStep(G, s, K, n + 1)
    BY <2>5, <2>6 DEF KeptStep
  <2> QED
    BY <2>1, <2>7
<1>3. N \in SUBSET Nat
  OBVIOUS
<1> HIDE DEF N
<1>4. len \in N
  BY <1>1, <1>2, <1>3, Induction
<1> QED
  BY <1>4 DEF N

\* Kept returns the elements at the positions given, and no others.
LEMMA KeptRange ==
  ASSUME NEW S, NEW s \in Seq(S), NEW K \in SUBSET DOMAIN s
  PROVE  /\ Kept(s, K) \in Seq(S) /\ Len(Kept(s, K)) <= Len(s)
         /\ Range(Kept(s, K)) = {s[k] : k \in K}
<1> DEFINE F == CHOOSE f : f = KeptStep(f, s, K, Len(s))
           Done(k) == {s[i] : i \in {j \in K : j <= k}}
           Right(k) == F[k] \in Seq(S) /\ Len(F[k]) <= k /\ Range(F[k]) = Done(k)
           N == {k \in Nat : k <= Len(s) => Right(k)}
<1>1. /\ Len(s) \in Nat /\ DOMAIN s = 1..Len(s)
      /\ \A i \in 1..Len(s) : s[i] \in S
  BY LenProperties, ElementOfSeq
<1>2. F = KeptStep(F, s, K, Len(s))
  <2>1. \E f : f = KeptStep(f, s, K, Len(s))
    BY <1>1, KeptExists
  <2> QED
    BY <2>1
<1>3. Kept(s, K) = F[Len(s)]
  BY DEF Kept, KeptStep
<1> HIDE DEF F
<1>4. /\ F[0] = <<>>
      /\ \A k \in 1..Len(s) :
           F[k] = IF k \in K THEN Append(F[k - 1], s[k]) ELSE F[k - 1]
  BY <1>1, <1>2, KeptStepValue
<1>5. Right(0)
  <2>1. Done(0) = {}
    BY <1>1
  <2>2. F[0] \in Seq(S)
    BY <1>4, EmptySeq
  <2>3. Len(F[0]) = 0 /\ DOMAIN F[0] = {}
    BY <1>4
  <2>4. Range(F[0]) = {}
    BY <2>3 DEF Range
  <2> HIDE DEF Done
  <2> QED
    BY <2>1, <2>2, <2>3, <2>4
<1>6. ASSUME NEW n \in Nat, n + 1 <= Len(s), Right(n) PROVE Right(n + 1)
  <2>1. n + 1 \in 1..Len(s) /\ s[n + 1] \in S /\ n + 1 - 1 = n
    BY <1>1, <1>6
  <2>2. F[n + 1] = IF n + 1 \in K THEN Append(F[n], s[n + 1]) ELSE F[n]
    BY <1>4, <2>1
  <2>3. Len(F[n]) \in Nat
    BY <1>6, LenProperties
  <2>4. CASE n + 1 \in K
    <3>1. Done(n + 1) = Done(n) \cup {s[n + 1]}
      <4>1. {j \in K : j <= n + 1} = {j \in K : j <= n} \cup {n + 1}
        BY <1>1, <2>1, <2>4
      <4> QED
        BY <4>1
    <3> HIDE DEF Done
    <3>2. F[n + 1] = Append(F[n], s[n + 1])
      BY <2>2, <2>4
    <3>3. F[n + 1] \in Seq(S) /\ Len(F[n + 1]) = Len(F[n]) + 1
      BY <1>6, <2>1, <3>2, AppendProperties
    <3>4. Range(F[n + 1]) = Range(F[n]) \cup {s[n + 1]}
      BY <1>6, <2>1, <3>2, AppendRange
    <3> QED
      BY <1>6, <2>3, <3>1, <3>3, <3>4
  <2>5. CASE n + 1 \notin K
    <3>1. Done(n + 1) = Done(n)
      <4>1. {j \in K : j <= n + 1} = {j \in K : j <= n}
        BY <1>1, <2>1, <2>5
      <4> QED
        BY <4>1
    <3> HIDE DEF Done
    <3> QED
      BY <1>6, <2>2, <2>3, <2>5, <3>1
  <2> QED
    BY <2>4, <2>5
<1>7. 0 \in N /\ N \in SUBSET Nat
  <2> HIDE DEF Right
  <2> QED
    BY <1>5
<1>8. ASSUME NEW n \in N PROVE n + 1 \in N
  <2> HIDE DEF Right
  <2>1. n \in Nat /\ n + 1 \in Nat /\ (n + 1 <= Len(s) => n <= Len(s))
    BY <1>1
  <2> QED
    BY <1>6, <2>1
<1> HIDE DEF N
<1>9. Len(s) \in N
  BY <1>1, <1>7, <1>8, Induction
<1>10. Right(Len(s))
  <2> HIDE DEF Right
  <2> QED
    BY <1>1, <1>9 DEF N
<1>11. Done(Len(s)) = {s[k] : k \in K}
  <2>1. {j \in K : j <= Len(s)} = K
    BY <1>1
  <2> QED
    BY <2>1
<1> HIDE DEF Done
<1> QED
  BY <1>3, <1>10, <1>11

-----------------------------------------------------------------------------
(* The inductive invariant.                                                *)

\* Everything the hub or a connection still holds.
Moving == Range(wire) \cup Range(out) \cup Range(journal)

\* The epochs that speak of runtime r.
EpochsOf(r) ==
  {e.epoch : e \in {x \in Moving : x.rt = r}}
    \cup {n \in {cursor[r].epoch} : cursor[r].seq > 0}
    \cup {n \in {epoch} : active = r}

\* A runtime is active in one epoch only.
OneEpoch == \A r \in Runtimes : \A m, n \in EpochsOf(r) : m = n

\* No number is used before its event was sent.
Numbered ==
  /\ active \in Runtimes => next = sent[active]
  /\ \A e \in Moving : e # OtherEvent => e.seq \in 1..sent[e.rt]
  /\ \A r \in Runtimes : cursor[r].seq <= sent[r]

\* The adapter holds what its place in the code says it does.
AdapterOK ==
  \A r \in Runtimes :
    /\ on[r] <= client
    /\ fed[r] => pc[r] = "stream"
    /\ pc[r] # "stream" => inbox[r] = <<>>
    /\ pc[r] = "none" => forwarded[r] = <<>>

\* The adapter of r may yet drain the buffer of client c.
Ahead(c, r) == on[r] < c \/ (on[r] = c /\ pc[r] \in {"subscribe", "attach"})

Taken(r) == Range(forwarded[r]) \cup Numbers(inbox[r])

\* What an adapter has taken is covered by the cursor and comes before what it
\* may yet take; so does what an earlier client buffered.
OrderedOf(r) ==
  /\ Taken(r) \subseteq 1..cursor[r].seq
  /\ Below(Range(forwarded[r]), Numbers(inbox[r]))
  /\ Rising(inbox[r])
  /\ \A c \in Clients :
       /\ Numbers(pending[c][r]) \subseteq 1..cursor[r].seq
       /\ Rising(pending[c][r])
       /\ c > client => pending[c][r] = <<>>
       /\ Ahead(c, r) => Below(Taken(r), Numbers(pending[c][r]))
  /\ \A c, d \in Clients :
       c < d => Below(Numbers(pending[c][r]), Numbers(pending[d][r]))
Ordered == \A r \in Runtimes : OrderedOf(r)

Inv ==
  /\ TypeOK /\ Numbered /\ OneEpoch
  /\ AdapterOK /\ Ordered

-----------------------------------------------------------------------------
(* Types and bounds.                                                       *)

\* A group of variables that a step leaves alone keeps its types.
LEMMA TypesKept ==
  ASSUME TypeOK
  PROVE  /\ UNCHANGED hubVars => HubType'
         /\ UNCHANGED socketVars => SocketType'
         /\ UNCHANGED clientVars => ClientType'
         /\ UNCHANGED adapterVars => AdapterType'
         /\ UNCHANGED histVars => HistType'
<1>1. UNCHANGED hubVars => HubType'
  BY DEF TypeOK, HubType, hubVars
<1>2. UNCHANGED socketVars => SocketType'
  BY DEF TypeOK, SocketType, socketVars
<1>3. UNCHANGED clientVars => ClientType'
  BY DEF TypeOK, ClientType, clientVars
<1>4. UNCHANGED adapterVars => AdapterType'
  BY DEF TypeOK, AdapterType, adapterVars
<1>5. UNCHANGED histVars => HistType'
  BY DEF TypeOK, HistType, histVars
<1> QED
  BY <1>1, <1>2, <1>3, <1>4, <1>5

LEMMA Bounds ==
  /\ JournalBound \in Nat /\ QueueBound \in Nat /\ PendingBound \in Nat
  /\ OtherReplay \in Nat /\ MaxClients \in Nat /\ MaxClients >= 1
BY ConstantsAssumption

\* The event emit makes, and the journal after it.
NewEvent(r, exit) == [rt |-> r, epoch |-> epoch, seq |-> next + 1, exit |-> exit]

LEMMA EmitEffect ==
  ASSUME TypeOK, NEW r \in Runtimes, NEW exit \in BOOLEAN, emit(r, exit)
  PROVE  LET e == NewEvent(r, exit) IN
         /\ active = r /\ active' = active /\ next' = next + 1
         /\ e \in Event /\ e.rt = r /\ e.epoch = epoch /\ e.seq = next + 1
         /\ journal' \in Seq(Event) /\ Len(journal') <= JournalBound
         /\ Range(journal') \subseteq Range(journal) \cup {e}
         /\ \/ /\ registered /\ registered' = registered
               /\ Len(out) < QueueBound /\ out' = Append(out, e)
            \/ registered' = FALSE /\ out' = out
         /\ sent' = [sent EXCEPT ![r] = @ + 1]
         /\ UNCHANGED <<epoch, open, wire, clientVars, adapterVars, forwarded>>
<1> DEFINE e == NewEvent(r, exit)
<1>1. /\ e \in Event /\ e.rt = r /\ e.epoch = epoch /\ e.seq = next + 1
  BY DEF TypeOK, HubType, SocketType, ClientType, AdapterType, HistType, Event, NewEvent
<1>2. /\ active = r /\ active' = active /\ next' = next + 1
      /\ journal' = Bounded(Append(journal, e), JournalBound) /\ broadcast(e)
      /\ sent' = [sent EXCEPT ![r] = @ + 1]
      /\ UNCHANGED <<epoch, open, wire, clientVars, adapterVars, forwarded>>
  BY DEF emit, NewEvent
<1> HIDE DEF e
<1>3. journal \in Seq(Event)
  BY DEF TypeOK, HubType, SocketType, ClientType, AdapterType, HistType
<1>4. Append(journal, e) \in Seq(Event)
  BY <1>1, <1>3, AppendProperties
<1>5. Range(Append(journal, e)) = Range(journal) \cup {e}
  BY <1>1, <1>3, AppendRange
<1>6. /\ journal' \in Seq(Event) /\ Len(journal') <= JournalBound
      /\ Range(journal') \subseteq Range(journal) \cup {e}
  BY <1>2, <1>4, <1>5, Bounds, BoundedRange
<1>7. \/ /\ registered /\ registered' = registered
         /\ Len(out) < QueueBound /\ out' = Append(out, e)
      \/ registered' = FALSE /\ out' = out
  BY <1>2 DEF broadcast
<1> QED
  BY <1>1, <1>2, <1>6, <1>7 DEF e

LEMMA EventIsNotOther == \A e \in Event : e # OtherEvent
BY ConstantsAssumption DEF Event, OtherEvent

\* An event the client reads and does not cover moves its cursor and goes to
\* the end of one sequence: an adapter's channel or the client's buffer.
LEMMA ClientReadEffect ==
  ASSUME TypeOK, ClientRead
  PROVE  LET e == Head(wire)
             r == e.rt
             b == pending[client][r]
         IN
         /\ wire # <<>> /\ e \in Events /\ wire' = Tail(wire)
         /\ UNCHANGED <<hubVars, open, out, client, up, pc, on, fed, histVars>>
         /\ \/ UNCHANGED <<cursor, inbox, pending>> /\ (e = OtherEvent \/ Covers(cursor, e))
            \/ /\ e \in Event /\ ~Covers(cursor, e)
               /\ cursor' = [cursor EXCEPT ![r] = [epoch |-> e.epoch, seq |-> e.seq]]
               /\ \/ /\ Subscribed(r) /\ UNCHANGED pending
                     /\ inbox' = [inbox EXCEPT ![r] = Append(@, e)]
                  \/ /\ ~Subscribed(r) /\ UNCHANGED inbox
                     /\ pending' = [pending EXCEPT ![client][r] =
                                      Bounded(Append(b, e), PendingBound)]
<1> DEFINE e == Head(wire)
<1>1. wire # <<>> /\ wire \in Seq(Events)
  BY DEF ClientRead, TypeOK, HubType, SocketType, ClientType, AdapterType, HistType, Events
<1>2. e \in Events
  BY <1>1, TailRange
<1>3. e # OtherEvent => e \in Event
  BY <1>2 DEF Events
<1> QED
  BY <1>1, <1>2, <1>3 DEF ClientRead, Accept, Deliver, Buffer

\* What Bounded and Append make of a buffer.
LEMMA BufferAppend ==
  ASSUME NEW b \in Seq(Event), NEW e \in Event
  PROVE  LET t == Bounded(Append(b, e), PendingBound) IN
         /\ t \in Seq(Event) /\ Len(t) <= PendingBound
         /\ Numbers(t) \subseteq Numbers(b) \cup {e.seq}
         /\ Rising(b) /\ Below(Numbers(b), {e.seq}) => Rising(t)
<1>1. Append(b, e) \in Seq(Event)
  BY AppendProperties
<1>2. /\ Numbers(Append(b, e)) = Numbers(b) \cup {e.seq}
      /\ Rising(b) /\ Below(Numbers(b), {e.seq}) => Rising(Append(b, e))
  BY AppendNumbers
<1> QED
  BY <1>1, <1>2, Bounds, BoundedRange

\* The replay: other tasks' events and journal events, no more than fit; and
\* when all of them fit, every journal event the cursors do not cover.
LEMMA ReplayEffect ==
  ASSUME TypeOK, NEW n \in 0..OtherReplay
  PROVE  /\ Replay(cursor, n) \in Seq(Events)
         /\ Len(Replay(cursor, n)) <= QueueBound
         /\ Range(Replay(cursor, n)) \subseteq {OtherEvent} \cup Range(journal)
         /\ n + JournalBound <= QueueBound =>
              \A e \in Range(journal) : Covers(cursor, e) \/ e \in Range(Replay(cursor, n))
<1> DEFINE K == Missing(cursor)
           k == Kept(journal, K)
           all == Others(n) \o k
<1>1. /\ n \in Nat /\ journal \in Seq(Events) /\ Len(journal) <= JournalBound
      /\ Len(journal) \in Nat
  <2>1. n \in Nat
    BY Bounds
  <2>2. journal \in Seq(Event) /\ Event \subseteq Events
    BY DEF TypeOK, HubType, SocketType, ClientType, AdapterType, HistType, Events
  <2>3. journal \in Seq(Events)
    BY <2>2, SeqMonotonic
  <2> QED
    BY <2>1, <2>2, <2>3, LenProperties DEF TypeOK, HubType, SocketType, ClientType, AdapterType, HistType
<1>2. K \in SUBSET DOMAIN journal
  BY DEF Missing
<1> HIDE DEF K
<1>3. /\ k \in Seq(Events) /\ Len(k) <= Len(journal) /\ Len(k) \in Nat
      /\ Range(k) = {journal[i] : i \in K}
  BY <1>1, <1>2, KeptRange, LenProperties
<1> HIDE DEF k
<1>4. Others(n) \in Seq(Events) /\ Len(Others(n)) = n /\ Range(Others(n)) \subseteq {OtherEvent}
  <2>1. OtherEvent \in Events
    BY DEF Events
  <2>2. Others(n) \in [1..n -> Events] /\ DOMAIN Others(n) = 1..n
        /\ \A i \in 1..n : Others(n)[i] = OtherEvent
    BY <1>1, <2>1 DEF Others
  <2>3. Others(n) \in Seq(Events)
    BY <1>1, <2>2, SeqDef
  <2> QED
    BY <1>1, <2>2, <2>3, LenProperties DEF Range
<1>5. /\ all \in Seq(Events) /\ Len(all) = n + Len(k)
      /\ Range(all) = Range(Others(n)) \cup Range(k)
  BY <1>3, <1>4, ConcatProperties, RangeConcatenation
<1>6. Replay(cursor, n) = Cut(all)
  BY DEF Replay, K, k
<1> HIDE DEF all
<1>7. /\ Replay(cursor, n) \in Seq(Events) /\ Len(Replay(cursor, n)) <= QueueBound
      /\ Range(Replay(cursor, n)) \subseteq Range(all)
      /\ Len(all) <= QueueBound => Replay(cursor, n) = all
  BY <1>5, <1>6, CutRange
<1>8. Range(k) \subseteq Range(journal)
  BY <1>2, <1>3 DEF Range
<1>9. ASSUME n + JournalBound <= QueueBound, NEW e \in Range(journal), ~Covers(cursor, e)
      PROVE  e \in Range(Replay(cursor, n))
  <2>1. PICK i \in DOMAIN journal : journal[i] = e
    BY <1>9 DEF Range
  <2>2. i \in K
    BY <1>9, <2>1 DEF K, Missing
  <2>3. e \in Range(all)
    BY <1>3, <1>5, <2>1, <2>2
  <2>4. Len(all) <= QueueBound
    BY <1>1, <1>3, <1>5, <1>9, Bounds
  <2> QED
    BY <1>7, <2>3, <2>4
<1> QED
  BY <1>4, <1>5, <1>7, <1>8, <1>9

LEMMA InitType == Init => TypeOK
<1> SUFFICES ASSUME Init PROVE TypeOK
  OBVIOUS
<1>1. 1 \in Clients
  BY Bounds DEF Clients
<1>2. NoCursor \in [epoch : Nat, seq : Nat]
  BY DEF NoCursor
<1>3. <<>> \in Seq(Event) /\ <<>> \in Seq(Events) /\ <<>> \in Seq(Nat) /\ Len(<<>>) = 0
  BY EmptySeq
<1> QED
  BY <1>1, <1>2, <1>3, Bounds DEF Init, TypeOK, HubType, SocketType, ClientType, AdapterType, HistType, AdapterPcs, Events

\* The hub's own steps.
LEMMA HubTypes ==
  ASSUME TypeOK, NEW r \in Runtimes,
         \/ begin_runtime(r) \/ end_runtime(r)
         \/ \E exit \in BOOLEAN : emit(r, exit)
  PROVE  TypeOK'
<1>0. <<>> \in Seq(Event) /\ Len(<<>>) = 0
  BY EmptySeq
<1>1. CASE begin_runtime(r) \/ end_runtime(r)
  <2>1. journal' \in Seq(Event)
    BY <1>0, <1>1 DEF begin_runtime, end_runtime
  <2>2. Len(journal') <= JournalBound
    BY <1>0, <1>1, Bounds DEF begin_runtime, end_runtime
  <2>3. /\ epoch' \in Nat /\ next' \in Nat /\ active' \in Runtimes \cup {NoRuntime}
        /\ registered' \in BOOLEAN
    BY <1>1 DEF begin_runtime, end_runtime, TypeOK, HubType
  <2>4. HubType'
    BY <2>1, <2>2, <2>3 DEF HubType
  <2>5. UNCHANGED <<socketVars, clientVars, adapterVars, histVars>>
    BY <1>1 DEF begin_runtime, end_runtime
  <2> QED
    BY <2>4, <2>5, TypesKept DEF TypeOK
<1>2. ASSUME NEW exit \in BOOLEAN, emit(r, exit) PROVE TypeOK'
  <2> DEFINE e == NewEvent(r, exit)
  <2>1. /\ active' = active /\ next' = next + 1 /\ e \in Event
        /\ journal' \in Seq(Event) /\ Len(journal') <= JournalBound
        /\ sent' = [sent EXCEPT ![r] = @ + 1]
        /\ UNCHANGED <<epoch, open, wire, clientVars, adapterVars, forwarded>>
    BY <1>2, EmitEffect
  <2>2. \/ /\ registered /\ registered' = registered
           /\ Len(out) < QueueBound /\ out' = Append(out, e)
        \/ registered' = FALSE /\ out' = out
    BY <1>2, EmitEffect
  <2> HIDE DEF e
  <2>3. out \in Seq(Event \cup {OtherEvent}) /\ Len(out) <= QueueBound /\ Len(out) \in Nat
    BY LenProperties DEF TypeOK, SocketType
  <2>4. ASSUME Len(out) < QueueBound
        PROVE  /\ Append(out, e) \in Seq(Event \cup {OtherEvent})
               /\ Len(Append(out, e)) <= QueueBound
    BY <2>1, <2>3, <2>4, Bounds, AppendProperties
  <2>5. out' \in Seq(Event \cup {OtherEvent}) /\ Len(out') <= QueueBound
    BY <2>2, <2>3, <2>4
  <2>6. registered' \in BOOLEAN
    BY <2>2 DEF TypeOK, HubType
  <2>7. HubType'
    BY <2>1, <2>6 DEF TypeOK, HubType
  <2>8. SocketType'
    BY <2>1, <2>5 DEF TypeOK, SocketType
  <2>9. HistType'
    BY <2>1 DEF TypeOK, HistType
  <2> QED
    BY <2>1, <2>7, <2>8, <2>9, TypesKept DEF TypeOK
<1> QED
  BY <1>1, <1>2

LEMMA RestartType == TypeOK /\ Restart => TypeOK'
<1> SUFFICES ASSUME TypeOK, Restart PROVE TypeOK'
  OBVIOUS
<1>1. <<>> \in Seq(Event) /\ <<>> \in Seq(Event \cup {OtherEvent}) /\ Len(<<>>) = 0
  BY EmptySeq
<1>2. HubType'
  <2>1. journal' \in Seq(Event)
    BY <1>1 DEF Restart
  <2>2. Len(journal') <= JournalBound
    BY <1>1, Bounds DEF Restart
  <2>3. epoch' \in Nat /\ next' \in Nat /\ active' \in Runtimes \cup {NoRuntime}
    BY DEF Restart, TypeOK, HubType
  <2>4. registered' \in BOOLEAN
    BY DEF Restart
  <2> QED
    BY <2>1, <2>2, <2>3, <2>4 DEF HubType
<1>3. SocketType'
  <2>1. out' \in Seq(Event \cup {OtherEvent})
    BY <1>1 DEF Restart
  <2>2. Len(out') <= QueueBound
    BY <1>1, Bounds DEF Restart
  <2>3. open' \in BOOLEAN /\ wire' \in Seq(Event \cup {OtherEvent})
    BY DEF Restart, TypeOK, SocketType
  <2> QED
    BY <2>1, <2>2, <2>3 DEF SocketType
<1>4. UNCHANGED <<clientVars, adapterVars, histVars>>
  BY DEF Restart
<1> QED
  BY <1>2, <1>3, <1>4, TypesKept DEF TypeOK

\* The connection thread, the client and the supervisor.
LEMMA ConnectionTypes ==
  ASSUME TypeOK,
         \/ ConnectionWrite \/ ConnectionKicked \/ ClientRead \/ ClientClosed
         \/ ConnectionLost \/ \E n \in 0..OtherReplay : Reconnect(n)
  PROVE  TypeOK'
<1>0. <<>> \in Seq(Event) /\ <<>> \in Seq(Event \cup {OtherEvent}) /\ Len(<<>>) = 0
  BY EmptySeq
<1>1. CASE ConnectionWrite
  <2>1. /\ out # <<>> /\ wire' = Append(wire, Head(out)) /\ out' = Tail(out)
        /\ UNCHANGED <<hubVars, open, clientVars, adapterVars, histVars>>
    BY <1>1 DEF ConnectionWrite
  <2>2. wire \in Seq(Events) /\ out \in Seq(Events) /\ Len(out) <= QueueBound
    BY DEF TypeOK, SocketType, Events
  <2>3. /\ Head(out) \in Events /\ Tail(out) \in Seq(Events) /\ Len(Tail(out)) < Len(out)
        /\ Len(out) \in Nat /\ Len(Tail(out)) \in Nat
    BY <2>1, <2>2, TailRange, LenProperties
  <2>4. wire' \in Seq(Events) /\ out' \in Seq(Events) /\ Len(out') <= QueueBound
    BY <2>1, <2>2, <2>3, Bounds, AppendProperties
  <2>5. SocketType'
    BY <2>1, <2>4 DEF TypeOK, SocketType, Events
  <2> QED
    BY <2>1, <2>5, TypesKept DEF TypeOK
<1>2. CASE ConnectionKicked
  <2>1. out' \in Seq(Event \cup {OtherEvent})
    BY <1>0, <1>2 DEF ConnectionKicked
  <2>2. Len(out') <= QueueBound
    BY <1>0, <1>2, Bounds DEF ConnectionKicked
  <2>3. open' \in BOOLEAN /\ wire' \in Seq(Event \cup {OtherEvent})
    BY <1>2 DEF ConnectionKicked, TypeOK, SocketType
  <2>4. SocketType'
    BY <2>1, <2>2, <2>3 DEF SocketType
  <2>5. UNCHANGED <<hubVars, clientVars, adapterVars, histVars>>
    BY <1>2 DEF ConnectionKicked
  <2> QED
    BY <2>4, <2>5, TypesKept DEF TypeOK
<1>3. CASE ClientRead
  <2> DEFINE e == Head(wire)
             r == e.rt
             b == pending[client][r]
             t == Bounded(Append(b, e), PendingBound)
  <2>1. /\ wire # <<>> /\ e \in Events /\ wire' = Tail(wire)
        /\ UNCHANGED <<hubVars, open, out, client, up, pc, on, fed, histVars>>
        /\ \/ UNCHANGED <<cursor, inbox, pending>>
           \/ /\ e \in Event
              /\ cursor' = [cursor EXCEPT ![r] = [epoch |-> e.epoch, seq |-> e.seq]]
              /\ \/ UNCHANGED pending /\ inbox' = [inbox EXCEPT ![r] = Append(@, e)]
                 \/ UNCHANGED inbox /\ pending' = [pending EXCEPT ![client][r] = t]
    BY <1>3, ClientReadEffect
  <2>2. wire \in Seq(Events)
    BY DEF TypeOK, SocketType, Events
  <2>3. wire' \in Seq(Events)
    BY <2>1, <2>2, TailRange
  <2> HIDE DEF e
  <2>4. ASSUME e \in Event
        PROVE  /\ r \in Runtimes /\ client \in Clients
               /\ [epoch |-> e.epoch, seq |-> e.seq] \in [epoch : Nat, seq : Nat]
               /\ Append(inbox[r], e) \in Seq(Event)
               /\ t \in Seq(Event) /\ Len(t) <= PendingBound
    <3>1. /\ r \in Runtimes /\ client \in Clients
          /\ [epoch |-> e.epoch, seq |-> e.seq] \in [epoch : Nat, seq : Nat]
      BY <2>4 DEF Event, TypeOK, ClientType
    <3>2. inbox[r] \in Seq(Event) /\ b \in Seq(Event)
      BY <3>1 DEF TypeOK, ClientType, AdapterType
    <3> QED
      BY <2>4, <3>1, <3>2, AppendProperties, BufferAppend
  <2> HIDE DEF t, r
  <2>5. ClientType' /\ inbox' \in [Runtimes -> Seq(Event)]
    <3>1. CASE UNCHANGED <<cursor, inbox, pending>>
      BY <2>1, <3>1 DEF TypeOK, ClientType, AdapterType
    <3>2. CASE /\ e \in Event
               /\ cursor' = [cursor EXCEPT ![r] = [epoch |-> e.epoch, seq |-> e.seq]]
               /\ UNCHANGED pending /\ inbox' = [inbox EXCEPT ![r] = Append(@, e)]
      BY <2>1, <2>4, <3>2 DEF TypeOK, ClientType, AdapterType
    <3>3. CASE /\ e \in Event
               /\ cursor' = [cursor EXCEPT ![r] = [epoch |-> e.epoch, seq |-> e.seq]]
               /\ UNCHANGED inbox /\ pending' = [pending EXCEPT ![client][r] = t]
      <4>1. cursor' \in [Runtimes -> [epoch : Nat, seq : Nat]]
        BY <2>4, <3>3 DEF TypeOK, ClientType
      <4>2. /\ pending' \in [Clients -> [Runtimes -> Seq(Event)]]
            /\ \A c \in Clients, q \in Runtimes : Len(pending'[c][q]) <= PendingBound
        BY <2>4, <3>3 DEF TypeOK, ClientType
      <4> QED
        BY <2>1, <3>3, <4>1, <4>2 DEF TypeOK, ClientType, AdapterType
    <3> QED
      BY <2>1, <3>1, <3>2, <3>3
  <2>6. SocketType' /\ AdapterType'
    BY <2>1, <2>3, <2>5 DEF TypeOK, SocketType, AdapterType, Events
  <2> QED
    BY <2>1, <2>5, <2>6, TypesKept DEF TypeOK
<1>4. CASE ClientClosed
  <2>1. ClientType' /\ fed' \in [Runtimes -> BOOLEAN]
    BY <1>4 DEF ClientClosed, DropSubscriptions, TypeOK, ClientType, AdapterType
  <2>2. AdapterType'
    BY <1>4, <2>1 DEF ClientClosed, TypeOK, AdapterType
  <2>3. UNCHANGED <<hubVars, socketVars, histVars>>
    BY <1>4 DEF ClientClosed
  <2> QED
    BY <2>1, <2>2, <2>3, TypesKept DEF TypeOK
<1>5. CASE ConnectionLost
  <2>1. ClientType' /\ fed' \in [Runtimes -> BOOLEAN]
    BY <1>5 DEF ConnectionLost, DropSubscriptions, TypeOK, ClientType, AdapterType
  <2>2. AdapterType'
    BY <1>5, <2>1 DEF ConnectionLost, TypeOK, AdapterType
  <2>3. HubType'
    BY <1>5 DEF ConnectionLost, TypeOK, HubType
  <2>4. SocketType'
    <3>1. out' \in Seq(Event \cup {OtherEvent}) /\ wire' \in Seq(Event \cup {OtherEvent})
      BY <1>0, <1>5 DEF ConnectionLost
    <3>2. Len(out') <= QueueBound
      BY <1>0, <1>5, Bounds DEF ConnectionLost
    <3>3. open' \in BOOLEAN
      BY <1>5 DEF ConnectionLost
    <3> QED
      BY <3>1, <3>2, <3>3 DEF SocketType
  <2>5. UNCHANGED histVars
    BY <1>5 DEF ConnectionLost
  <2> QED
    BY <2>1, <2>2, <2>3, <2>4, <2>5, TypesKept DEF TypeOK
<1>6. ASSUME NEW n \in 0..OtherReplay, Reconnect(n) PROVE TypeOK'
  <2>1. Replay(cursor, n) \in Seq(Event \cup {OtherEvent}) /\ Len(Replay(cursor, n)) <= QueueBound
    BY ReplayEffect DEF Events
  <2>2. client + 1 \in Clients
    BY <1>6, Bounds DEF Reconnect, TypeOK, ClientType, Clients
  <2>3. HubType' /\ ClientType'
    BY <1>6, <2>2 DEF Reconnect, TypeOK, HubType, ClientType
  <2>4. SocketType'
    <3>1. out' \in Seq(Event \cup {OtherEvent}) /\ Len(out') <= QueueBound
      BY <1>6, <2>1 DEF Reconnect
    <3>2. open' \in BOOLEAN
      BY <1>6 DEF Reconnect
    <3>3. wire' \in Seq(Event \cup {OtherEvent})
      BY <1>0, <1>6 DEF Reconnect
    <3> QED
      BY <3>1, <3>2, <3>3 DEF SocketType
  <2>5. UNCHANGED <<adapterVars, histVars>>
    BY <1>6 DEF Reconnect
  <2> QED
    BY <2>3, <2>4, <2>5, TypesKept DEF TypeOK
<1> QED
  BY <1>1, <1>2, <1>3, <1>4, <1>5, <1>6

\* The adapters.
LEMMA AdapterTypes ==
  ASSUME TypeOK, NEW r \in Runtimes, connect_remote(r) \/ Adapter(r) \/ Shutdown(r)
  PROVE  TypeOK'
<1>0. <<>> \in Seq(Event) /\ Len(<<>>) = 0
  BY EmptySeq
<1>1. CASE \/ connect_remote(r) \/ Disconnected(r) \/ Attached(r)
           \/ AttachFailed(r) \/ Shutdown(r)
  <2>1. AdapterType'
    <3>1. CASE connect_remote(r)
      BY <3>1 DEF connect_remote, TypeOK, AdapterType, ClientType, AdapterPcs
    <3>2. CASE Disconnected(r) \/ AttachFailed(r) \/ Attached(r)
      BY <3>2 DEF Disconnected, AttachFailed, Attached, TypeOK, AdapterType, AdapterPcs
    <3>3. CASE Shutdown(r)
      <4>1. inbox' \in [Runtimes -> Seq(Event)]
        BY <1>0, <3>3 DEF Shutdown, TypeOK, AdapterType
      <4>2. /\ pc' \in [Runtimes -> AdapterPcs] /\ on' \in [Runtimes -> Clients]
            /\ fed' \in [Runtimes -> BOOLEAN]
        BY <3>3 DEF Shutdown, TypeOK, AdapterType, AdapterPcs
      <4> QED
        BY <4>1, <4>2 DEF AdapterType
    <3> QED
      BY <1>1, <3>1, <3>2, <3>3
  <2>2. UNCHANGED <<hubVars, socketVars, clientVars, histVars>>
    BY <1>1 DEF connect_remote, Disconnected, Attached, AttachFailed, Shutdown
  <2> QED
    BY <2>1, <2>2, TypesKept DEF TypeOK
<1>2. CASE subscribe(r)
  <2>1. on[r] \in Clients /\ pending[on[r]][r] \in Seq(Event)
    BY DEF TypeOK, AdapterType, ClientType
  <2>2. ClientType'
    BY <1>0, <1>2, <2>1, Bounds DEF subscribe, TypeOK, ClientType
  <2>3. AdapterType'
    BY <1>2, <2>1 DEF subscribe, TypeOK, AdapterType, AdapterPcs
  <2>4. UNCHANGED <<hubVars, socketVars, histVars>>
    BY <1>2 DEF subscribe
  <2> QED
    BY <2>2, <2>3, <2>4, TypesKept DEF TypeOK
<1>3. CASE Forward(r)
  <2> DEFINE e == Head(inbox[r])
  <2>1. inbox[r] \in Seq(Event) /\ inbox[r] # <<>> /\ forwarded[r] \in Seq(Nat)
    BY <1>3 DEF Forward, TypeOK, AdapterType, HistType
  <2>2. e \in Event /\ Tail(inbox[r]) \in Seq(Event)
    BY <2>1, TailRange
  <2>3. Append(forwarded[r], e.seq) \in Seq(Nat)
    BY <2>1, <2>2, AppendProperties DEF Event
  <2>4. /\ forwarded' = [forwarded EXCEPT ![r] = Append(@, e.seq)]
        /\ \/ /\ pc' = [pc EXCEPT ![r] = "done"] /\ fed' = [fed EXCEPT ![r] = FALSE]
              /\ inbox' = [inbox EXCEPT ![r] = <<>>]
           \/ inbox' = [inbox EXCEPT ![r] = Tail(@)] /\ UNCHANGED <<pc, fed>>
        /\ UNCHANGED <<hubVars, socketVars, clientVars, on, sent>>
    BY <1>3 DEF Forward
  <2> HIDE DEF e
  <2>5. AdapterType'
    BY <1>0, <2>2, <2>4 DEF TypeOK, AdapterType, AdapterPcs
  <2>6. HistType'
    BY <2>3, <2>4 DEF TypeOK, HistType
  <2> QED
    BY <2>4, <2>5, <2>6, TypesKept DEF TypeOK
<1>4. CASE TakeReplacement(r)
  <2>1. on[r] + 1 \in Clients
    BY <1>4, Bounds DEF TakeReplacement, TypeOK, AdapterType, ClientType, Clients
  <2>2. AdapterType'
    BY <1>4, <2>1 DEF TakeReplacement, TypeOK, AdapterType, AdapterPcs
  <2>3. UNCHANGED <<hubVars, socketVars, clientVars, histVars>>
    BY <1>4 DEF TakeReplacement
  <2> QED
    BY <2>2, <2>3, TypesKept DEF TypeOK
<1> QED
  BY <1>1, <1>2, <1>3, <1>4 DEF Adapter

LEMMA NextType == TypeOK /\ [Next]_vars => TypeOK'
<1> SUFFICES ASSUME TypeOK, [Next]_vars PROVE TypeOK'
  OBVIOUS
<1>1. CASE UNCHANGED vars
  BY <1>1, TypesKept DEF TypeOK, vars
<1>2. ASSUME NEW r \in Runtimes,
             \/ begin_runtime(r) \/ end_runtime(r)
             \/ \E exit \in BOOLEAN : emit(r, exit)
      PROVE  TypeOK'
  BY <1>2, HubTypes
<1>3. ASSUME NEW r \in Runtimes, connect_remote(r) \/ Adapter(r) \/ Shutdown(r)
      PROVE  TypeOK'
  BY <1>3, AdapterTypes
<1>4. CASE \/ ConnectionWrite \/ ConnectionKicked \/ ClientRead \/ ClientClosed
           \/ ConnectionLost \/ \E n \in 0..OtherReplay : Reconnect(n)
  BY <1>4, ConnectionTypes
<1>5. CASE Restart
  BY <1>5, RestartType
<1> QED
  BY <1>1, <1>2, <1>3, <1>4, <1>5 DEF Next

\* Every variable has its type, and the journal of the hub, the queue of a
\* subscriber and the buffers of the clients keep their bounds.
THEOREM TypeCorrect == Spec => []TypeOK
<1> QED
  BY InitType, NextType, PTL DEF Spec

-----------------------------------------------------------------------------
(* Numbers and epochs.                                                     *)

\* Only emit brings a new event of this task into the hub or a connection.
LEMMA MovingStep ==
  ASSUME TypeOK
  PROVE  /\ \A r \in Runtimes, exit \in BOOLEAN :
              emit(r, exit) => Moving' \subseteq Moving \cup {NewEvent(r, exit)}
         /\ \A r \in Runtimes :
              \/ begin_runtime(r) \/ end_runtime(r) \/ connect_remote(r)
              \/ Adapter(r) \/ Shutdown(r)
              => Moving' \subseteq Moving
         /\ \/ ConnectionWrite \/ ConnectionKicked \/ ClientRead \/ ClientClosed
            \/ ConnectionLost \/ Restart
            => Moving' \subseteq Moving
         /\ \A n \in 0..OtherReplay :
              Reconnect(n) => Moving' \subseteq Moving \cup {OtherEvent}
<1>0. /\ wire \in Seq(Events) /\ out \in Seq(Events) /\ journal \in Seq(Event)
      /\ Range(<<>>) = {}
  BY DEF TypeOK, HubType, SocketType, Events, Range
<1>1. ASSUME NEW r \in Runtimes, NEW exit \in BOOLEAN, emit(r, exit)
      PROVE  Moving' \subseteq Moving \cup {NewEvent(r, exit)}
  <2> DEFINE e == NewEvent(r, exit)
  <2>1. /\ e \in Event /\ Range(journal') \subseteq Range(journal) \cup {e}
        /\ wire' = wire /\ (out' = Append(out, e) \/ out' = out)
    BY <1>1, EmitEffect
  <2> HIDE DEF e
  <2>2. Range(Append(out, e)) = Range(out) \cup {e}
    BY <1>0, <2>1, AppendRange DEF Events
  <2>3. Range(out') \subseteq Range(out) \cup {e}
    BY <2>1, <2>2
  <2>4. Moving' = Range(wire') \cup Range(out') \cup Range(journal')
    BY DEF Moving
  <2>5. Range(wire') = Range(wire)
    BY <2>1
  <2> QED
    BY <2>1, <2>3, <2>4, <2>5 DEF Moving, e
<1>2. ASSUME NEW r \in Runtimes,
             \/ begin_runtime(r) \/ end_runtime(r) \/ connect_remote(r)
             \/ Adapter(r) \/ Shutdown(r)
      PROVE  Moving' \subseteq Moving
  <2>1. UNCHANGED socketVars /\ (journal' = journal \/ journal' = <<>>)
    BY <1>2 DEF begin_runtime, end_runtime, connect_remote, Adapter, Shutdown, subscribe,
                Forward, Disconnected, TakeReplacement, Attached, AttachFailed, hubVars
  <2> QED
    BY <1>0, <2>1 DEF Moving, socketVars
<1>3. CASE ConnectionWrite
  <2>1. /\ out # <<>> /\ wire' = Append(wire, Head(out)) /\ out' = Tail(out)
        /\ journal' = journal
    BY <1>3 DEF ConnectionWrite, hubVars
  <2>2. Head(out) \in Events /\ Range(out) = {Head(out)} \cup Range(Tail(out))
    BY <1>0, <2>1, TailRange
  <2>3. Range(wire') = Range(wire) \cup {Head(out)}
    BY <1>0, <2>1, <2>2, AppendRange
  <2>4. Moving' = Range(wire') \cup Range(out') \cup Range(journal')
    BY DEF Moving
  <2> QED
    BY <2>1, <2>2, <2>3, <2>4 DEF Moving
<1>4. CASE ClientRead
  <2>1. wire # <<>> /\ wire' = Tail(wire) /\ out' = out /\ journal' = journal
    BY <1>4 DEF ClientRead, hubVars
  <2>2. Range(Tail(wire)) \subseteq Range(wire)
    BY <1>0, <2>1, TailRange
  <2> QED
    BY <2>1, <2>2 DEF Moving
<1>5. CASE ConnectionKicked \/ ClientClosed \/ ConnectionLost \/ Restart
  <2>1. /\ wire' = wire \/ wire' = <<>>
        /\ out' = out \/ out' = <<>>
        /\ journal' = journal \/ journal' = <<>>
    BY <1>5 DEF ConnectionKicked, ClientClosed, ConnectionLost, Restart, hubVars, socketVars
  <2>2. /\ Range(wire') \subseteq Range(wire) /\ Range(out') \subseteq Range(out)
        /\ Range(journal') \subseteq Range(journal)
    BY <1>0, <2>1
  <2> QED
    BY <2>2 DEF Moving
<1>6. ASSUME NEW n \in 0..OtherReplay, Reconnect(n)
      PROVE  Moving' \subseteq Moving \cup {OtherEvent}
  <2>1. wire' = <<>> /\ out' = Replay(cursor, n) /\ journal' = journal
    BY <1>6 DEF Reconnect
  <2>2. Range(Replay(cursor, n)) \subseteq {OtherEvent} \cup Range(journal)
    BY ReplayEffect
  <2> QED
    BY <1>0, <2>1, <2>2 DEF Moving
<1> QED
  BY <1>1, <1>2, <1>3, <1>4, <1>5, <1>6

\* A step that leaves the counters alone keeps numbers and epochs in place.
LEMMA QuietStep ==
  ASSUME Numbered, OneEpoch, UNCHANGED <<epoch, active, next, cursor, sent>>,
         Moving' \subseteq Moving \cup {OtherEvent}
  PROVE  Numbered' /\ OneEpoch'
<1>1. Numbered'
  BY DEF Numbered
<1>2. ASSUME NEW r \in Runtimes PROVE EpochsOf(r)' \subseteq EpochsOf(r)
  <2>1. \A e \in Moving' : e.rt = r => e \in Moving
    BY ConstantsAssumption DEF OtherEvent
  <2> QED
    BY <2>1 DEF EpochsOf
<1>3. OneEpoch'
  BY <1>2 DEF OneEpoch
<1> QED
  BY <1>1, <1>3

LEMMA MovingEvents == TypeOK => Moving \subseteq Events
<1> SUFFICES ASSUME TypeOK PROVE Moving \subseteq Events
  OBVIOUS
<1>1. /\ wire \in Seq(Events) /\ out \in Seq(Events) /\ journal \in Seq(Event)
  BY DEF TypeOK, HubType, SocketType, Events
<1>2. Range(wire) \subseteq Events /\ Range(out) \subseteq Events /\ Range(journal) \subseteq Event
  BY <1>1, RangeOfSeq
<1> QED
  BY <1>2 DEF Moving, Events

LEMMA EmitNumbers ==
  ASSUME TypeOK, Numbered, OneEpoch, NEW r \in Runtimes, NEW exit \in BOOLEAN, emit(r, exit)
  PROVE  Numbered' /\ OneEpoch'
<1> DEFINE e == NewEvent(r, exit)
<1>1. /\ active = r /\ active' = active /\ next' = next + 1 /\ epoch' = epoch
      /\ e \in Event /\ e.rt = r /\ e.epoch = epoch /\ e.seq = next + 1
      /\ sent' = [sent EXCEPT ![r] = @ + 1] /\ cursor' = cursor
  BY EmitEffect DEF clientVars
<1>2. Moving' \subseteq Moving \cup {e}
  BY MovingStep
<1> HIDE DEF e
<1>3. /\ next = sent[r] /\ sent[r] \in Nat /\ sent \in [Runtimes -> Nat]
      /\ cursor \in [Runtimes -> [epoch : Nat, seq : Nat]]
  BY <1>1 DEF Numbered, TypeOK, HistType, ClientType
<1>4. \A q \in Runtimes : sent'[q] = (IF q = r THEN sent[q] + 1 ELSE sent[q]) /\ sent[q] \in Nat
  BY <1>1, <1>3
<1>5. Moving \subseteq Events
  BY MovingEvents
<1>6. Numbered'
  <2>1. active' \in Runtimes => next' = sent'[active']
    BY <1>1, <1>3, <1>4
  <2>2. ASSUME NEW x \in Moving', x # OtherEvent PROVE x.seq \in 1..sent'[x.rt]
    <3>1. CASE x = e
      BY <1>1, <1>3, <1>4, <3>1
    <3>2. CASE x \in Moving
      <4>1. x \in Event /\ x.rt \in Runtimes /\ x.seq \in 1..sent[x.rt]
        BY <1>5, <2>2, <3>2 DEF Numbered, Events, Event
      <4> QED
        BY <1>4, <4>1
    <3> QED
      BY <1>2, <2>2, <3>1, <3>2
  <2>3. \A q \in Runtimes : cursor'[q].seq <= sent'[q]
    BY <1>1, <1>3, <1>4 DEF Numbered
  <2> QED
    BY <2>1, <2>2, <2>3 DEF Numbered
<1>7. ASSUME NEW q \in Runtimes PROVE EpochsOf(q)' \subseteq EpochsOf(q)
  <2>1. active = q => epoch \in EpochsOf(q)
    BY DEF EpochsOf
  <2> QED
    BY <1>1, <1>2, <2>1 DEF EpochsOf
<1>8. OneEpoch'
  BY <1>7 DEF OneEpoch
<1> QED
  BY <1>6, <1>8

\* A runtime nobody used before: nothing of it is on its way or accepted.
LEMMA BeginNumbers ==
  ASSUME TypeOK, Numbered, OneEpoch, NEW r \in Runtimes, begin_runtime(r)
  PROVE  Numbered' /\ OneEpoch'
<1>1. /\ sent[r] = 0 /\ active' = r /\ next' = 0 /\ epoch' = epoch
      /\ UNCHANGED <<sent, cursor>>
  BY DEF begin_runtime, histVars, clientVars
<1>2. Moving' \subseteq Moving
  BY MovingStep
<1>3. Numbered'
  BY <1>1, <1>2 DEF Numbered
<1>4. ASSUME NEW q \in Runtimes, NEW m \in EpochsOf(q)', NEW n \in EpochsOf(q)' PROVE m = n
  <2>1. CASE q # r
    <3>1. EpochsOf(q)' \subseteq EpochsOf(q)
      BY <1>1, <1>2, <2>1 DEF EpochsOf
    <3> QED
      BY <1>4, <3>1 DEF OneEpoch
  <2>2. CASE q = r
    <3>1. \A e \in Moving : e.rt # r
      <4>1. ASSUME NEW e \in Moving, e.rt = r PROVE FALSE
        <5>1. e # OtherEvent
          BY <4>1, ConstantsAssumption DEF OtherEvent
        <5>2. e.seq \in 1..0
          BY <1>1, <4>1, <5>1 DEF Numbered
        <5> QED
          BY <5>2
      <4> QED
        BY <4>1
    <3>2. ~(cursor[r].seq > 0)
      BY <1>1 DEF Numbered, TypeOK, ClientType
    <3>3. EpochsOf(r)' \subseteq {epoch}
      BY <1>1, <1>2, <3>1, <3>2 DEF EpochsOf
    <3> QED
      BY <1>4, <2>2, <3>3
  <2> QED
    BY <2>1, <2>2
<1> QED
  BY <1>3, <1>4 DEF OneEpoch

\* No runtime is active any more.
LEMMA EndNumbers ==
  ASSUME TypeOK, Numbered, OneEpoch, (\E r \in Runtimes : end_runtime(r)) \/ Restart
  PROVE  Numbered' /\ OneEpoch'
<1>1. active' = NoRuntime /\ UNCHANGED <<sent, cursor>>
  BY DEF end_runtime, Restart, histVars, clientVars
<1>2. Moving' \subseteq Moving
  BY MovingStep
<1>3. Numbered'
  BY <1>1, <1>2, ConstantsAssumption DEF Numbered
<1>4. ASSUME NEW q \in Runtimes PROVE EpochsOf(q)' \subseteq EpochsOf(q)
  BY <1>1, <1>2, ConstantsAssumption DEF EpochsOf
<1> QED
  BY <1>3, <1>4 DEF OneEpoch

\* The cursor moves to an event that was on its way.
LEMMA ReadNumbers ==
  ASSUME TypeOK, Numbered, OneEpoch, ClientRead
  PROVE  Numbered' /\ OneEpoch'
<1> DEFINE e == Head(wire)
           r == e.rt
<1>1. /\ wire # <<>> /\ UNCHANGED <<epoch, active, next, sent>>
      /\ \/ UNCHANGED cursor
         \/ e \in Event /\ cursor' = [cursor EXCEPT ![r] = [epoch |-> e.epoch, seq |-> e.seq]]
  BY ClientReadEffect DEF hubVars, histVars
<1>2. Moving' \subseteq Moving
  BY MovingStep
<1>3. e \in Moving
  <2>1. wire \in Seq(Events) /\ wire # <<>>
    BY <1>1 DEF TypeOK, SocketType, Events
  <2>2. Range(wire) = {Head(wire)} \cup Range(Tail(wire))
    BY <2>1, TailRange
  <2> QED
    BY <2>2 DEF Moving
<1> HIDE DEF e
<1>4. CASE UNCHANGED cursor
  BY <1>1, <1>2, <1>4, QuietStep
<1>5. CASE e \in Event /\ cursor' = [cursor EXCEPT ![r] = [epoch |-> e.epoch, seq |-> e.seq]]
  <2>1. r \in Runtimes /\ e # OtherEvent /\ e.seq \in 1..sent[r]
    BY <1>3, <1>5, EventIsNotOther DEF Event, Numbered
  <2>2. \A q \in Runtimes :
          /\ cursor'[q] = IF q = r THEN [epoch |-> e.epoch, seq |-> e.seq] ELSE cursor[q]
          /\ cursor[q].seq \in Nat /\ sent[q] \in Nat
    BY <1>5 DEF TypeOK, ClientType, HistType
  <2>3. Numbered'
    <3>1. \A q \in Runtimes : cursor'[q].seq <= sent'[q]
      BY <1>1, <2>1, <2>2 DEF Numbered
    <3> QED
      BY <1>1, <1>2, <3>1 DEF Numbered
  <2>4. ASSUME NEW q \in Runtimes PROVE EpochsOf(q)' \subseteq EpochsOf(q)
    <3>1. \A x \in Moving' : x.rt = q => x.epoch \in EpochsOf(q)
      BY <1>2 DEF EpochsOf
    <3>2. cursor'[q].seq > 0 => cursor'[q].epoch \in EpochsOf(q)
      BY <1>3, <2>2 DEF EpochsOf
    <3>3. active' = q => epoch' \in EpochsOf(q)
      BY <1>1 DEF EpochsOf
    <3> QED
      BY <3>1, <3>2, <3>3 DEF EpochsOf
  <2> QED
    BY <2>3, <2>4 DEF OneEpoch
<1> QED
  BY <1>1, <1>4, <1>5

LEMMA NumbersStep ==
  TypeOK /\ Numbered /\ OneEpoch /\ [Next]_vars => Numbered' /\ OneEpoch'
<1> SUFFICES ASSUME TypeOK, Numbered, OneEpoch, [Next]_vars PROVE Numbered' /\ OneEpoch'
  OBVIOUS
<1>1. CASE UNCHANGED vars
  <2>1. Moving' = Moving /\ UNCHANGED <<epoch, active, next, cursor, sent>>
    BY <1>1 DEF Moving, vars, hubVars, socketVars, clientVars, histVars
  <2> QED
    BY <2>1, QuietStep
<1>2. ASSUME NEW r \in Runtimes, begin_runtime(r) \/ end_runtime(r) PROVE Numbered' /\ OneEpoch'
  BY <1>2, BeginNumbers, EndNumbers
<1>3. ASSUME NEW r \in Runtimes, NEW exit \in BOOLEAN, emit(r, exit) PROVE Numbered' /\ OneEpoch'
  BY <1>3, EmitNumbers
<1>4. ASSUME NEW r \in Runtimes, connect_remote(r) \/ Adapter(r) \/ Shutdown(r)
      PROVE  Numbered' /\ OneEpoch'
  <2>1. UNCHANGED <<epoch, active, next, cursor, sent>>
    BY <1>4 DEF connect_remote, Adapter, Shutdown, subscribe, Forward, Disconnected,
                TakeReplacement, Attached, AttachFailed, hubVars, clientVars, histVars
  <2>2. Moving' \subseteq Moving
    BY <1>4, MovingStep
  <2> QED
    BY <2>1, <2>2, QuietStep
<1>5. CASE ConnectionWrite \/ ConnectionKicked \/ ClientClosed \/ ConnectionLost
  <2>1. UNCHANGED <<epoch, active, next, cursor, sent>>
    BY <1>5 DEF ConnectionWrite, ConnectionKicked, ClientClosed, ConnectionLost,
                hubVars, clientVars, histVars
  <2>2. Moving' \subseteq Moving
    BY <1>5, MovingStep
  <2> QED
    BY <2>1, <2>2, QuietStep
<1>6. ASSUME NEW n \in 0..OtherReplay, Reconnect(n) PROVE Numbered' /\ OneEpoch'
  <2>1. UNCHANGED <<epoch, active, next, cursor, sent>>
    BY <1>6 DEF Reconnect, histVars
  <2>2. Moving' \subseteq Moving \cup {OtherEvent}
    BY <1>6, MovingStep
  <2> QED
    BY <2>1, <2>2, QuietStep
<1>7. CASE ClientRead
  BY <1>7, ReadNumbers
<1>8. CASE Restart
  BY <1>8, EndNumbers
<1> QED
  BY <1>1, <1>2, <1>3, <1>4, <1>5, <1>6, <1>7, <1>8 DEF Next

-----------------------------------------------------------------------------
(* Nothing the hub could still give is missing.                            *)

\* An event that the client accepts comes after everything it has accepted:
\* of one runtime there is one epoch, so the cursor only rises.
LEMMA AcceptedIsLater ==
  ASSUME TypeOK, Numbered, OneEpoch, NEW e \in Moving, e \in Event, ~Covers(cursor, e)
  PROVE  e.seq > cursor[e.rt].seq
<1>1. e.rt \in Runtimes /\ e # OtherEvent /\ e.seq \in Nat
  BY EventIsNotOther DEF Event
<1>2. cursor[e.rt].seq \in Nat /\ sent[e.rt] \in Nat
  BY <1>1 DEF TypeOK, ClientType, HistType
<1>3. e.seq >= 1
  BY <1>1, <1>2 DEF Numbered
<1>4. CASE cursor[e.rt].seq = 0
  BY <1>1, <1>3, <1>4
<1>5. CASE cursor[e.rt].seq > 0
  <2>1. e.epoch \in EpochsOf(e.rt) /\ cursor[e.rt].epoch \in EpochsOf(e.rt)
    BY <1>5 DEF EpochsOf
  <2>2. e.epoch = cursor[e.rt].epoch
    BY <1>1, <2>1 DEF OneEpoch
  <2> QED
    BY <1>1, <1>2, <2>2 DEF Covers
<1> QED
  BY <1>2, <1>4, <1>5

LEMMA ReplayReadStep ==
  ASSUME TypeOK, Numbered, OneEpoch, ReplayComplete, ClientRead
  PROVE  ReplayComplete'
<1> DEFINE e == Head(wire)
           r == e.rt
<1>1. /\ wire # <<>> /\ wire' = Tail(wire) /\ out' = out
      /\ journal' = journal /\ registered' = registered
      /\ \/ UNCHANGED cursor /\ (e = OtherEvent \/ Covers(cursor, e))
         \/ /\ e \in Event /\ ~Covers(cursor, e)
            /\ cursor' = [cursor EXCEPT ![r] = [epoch |-> e.epoch, seq |-> e.seq]]
  BY ClientReadEffect DEF hubVars
<1>2. Range(wire) = {e} \cup Range(Tail(wire)) /\ e \in Moving
  <2>1. wire \in Seq(Events) /\ wire # <<>>
    BY <1>1 DEF TypeOK, SocketType, Events
  <2>2. Range(wire) = {Head(wire)} \cup Range(Tail(wire))
    BY <2>1, TailRange
  <2> QED
    BY <2>2 DEF Moving
<1> HIDE DEF e
<1>3. InFlight \subseteq {e} \cup InFlight'
  BY <1>1, <1>2 DEF InFlight
<1>4. ASSUME registered, NEW x \in Range(journal)
      PROVE  Covers(cursor', x) \/ x \in InFlight'
  <2>1. x \in Moving /\ x \in Event /\ x # OtherEvent
    <3>1. Range(journal) \subseteq Event
      BY RangeOfSeq DEF TypeOK, HubType
    <3> QED
      BY <1>4, <3>1, EventIsNotOther DEF Moving
  <2>2. Covers(cursor, x) \/ x = e \/ x \in InFlight'
    BY <1>3, <1>4 DEF ReplayComplete
  <2>3. CASE UNCHANGED cursor /\ (e = OtherEvent \/ Covers(cursor, e))
    BY <2>1, <2>2, <2>3
  <2>4. CASE /\ e \in Event /\ ~Covers(cursor, e)
             /\ cursor' = [cursor EXCEPT ![r] = [epoch |-> e.epoch, seq |-> e.seq]]
    <3>1. r \in Runtimes /\ e.seq \in Nat /\ x.seq \in Nat /\ x.rt \in Runtimes
      BY <2>1, <2>4 DEF Event
    <3>2. \A q \in Runtimes :
            /\ cursor'[q] = IF q = r THEN [epoch |-> e.epoch, seq |-> e.seq] ELSE cursor[q]
            /\ cursor[q].seq \in Nat /\ sent[q] \in Nat
      BY <2>4 DEF TypeOK, ClientType, HistType
    <3>3. e.seq > cursor[r].seq
      BY <1>2, <2>4, AcceptedIsLater
    <3>4. CASE x = e
      BY <3>1, <3>2, <3>4 DEF Covers
    <3>5. CASE Covers(cursor, x)
      <4>1. x.seq >= 1
        BY <2>1, <3>1, <3>2 DEF Numbered
      <4>2. cursor[x.rt].seq > 0 /\ cursor[x.rt].epoch = x.epoch /\ x.seq <= cursor[x.rt].seq
        BY <3>1, <3>2, <3>5, <4>1 DEF Covers
      <4>3. CASE x.rt = r
        <5>1. e.epoch \in EpochsOf(r) /\ cursor[r].epoch \in EpochsOf(r)
          BY <1>2, <4>2, <4>3 DEF EpochsOf
        <5>2. e.epoch = x.epoch
          BY <3>1, <4>2, <4>3, <5>1 DEF OneEpoch
        <5> QED
          BY <3>1, <3>2, <3>3, <4>2, <4>3, <5>2 DEF Covers
      <4>4. CASE x.rt # r
        BY <3>1, <3>2, <3>5, <4>4 DEF Covers
      <4> QED
        BY <4>3, <4>4
    <3> QED
      BY <2>2, <3>4, <3>5
  <2> QED
    BY <1>1, <2>3, <2>4
<1> QED
  BY <1>1, <1>4 DEF ReplayComplete, Covers

LEMMA ReplayStep ==
  ASSUME OtherReplay + JournalBound <= QueueBound,
         TypeOK, Numbered, OneEpoch, ReplayComplete, [Next]_vars
  PROVE  ReplayComplete'
<1>0. /\ wire \in Seq(Events) /\ out \in Seq(Events) /\ Range(<<>>) = {}
  BY DEF TypeOK, SocketType, Events, Range
\* A step that only takes from the journal.
<1>1. ASSUME UNCHANGED <<registered, cursor>>, Range(journal') \subseteq Range(journal),
             InFlight \subseteq InFlight'
      PROVE  ReplayComplete'
  BY <1>1 DEF ReplayComplete, Covers
\* A step that ends the subscription.
<1>2. ASSUME registered' = FALSE PROVE ReplayComplete'
  BY <1>2 DEF ReplayComplete
<1>3. CASE UNCHANGED vars
  BY <1>1, <1>3 DEF vars, hubVars, socketVars, clientVars, InFlight
<1>4. ASSUME NEW r \in Runtimes, \/ begin_runtime(r) \/ end_runtime(r) \/ connect_remote(r)
                                  \/ Adapter(r) \/ Shutdown(r)
      PROVE  ReplayComplete'
  <2>1. /\ UNCHANGED <<registered, cursor, wire, out>> /\ (journal' = journal \/ journal' = <<>>)
    BY <1>4 DEF begin_runtime, end_runtime, connect_remote, Adapter, Shutdown, subscribe, Forward,
                Disconnected, TakeReplacement, Attached, AttachFailed, hubVars, clientVars, socketVars
  <2>2. Range(journal') \subseteq Range(journal) /\ InFlight' = InFlight
    BY <1>0, <2>1 DEF InFlight
  <2> QED
    BY <1>1, <2>1, <2>2
<1>5. ASSUME NEW r \in Runtimes, NEW exit \in BOOLEAN, emit(r, exit) PROVE ReplayComplete'
  <2> DEFINE e == NewEvent(r, exit)
  <2>1. /\ e \in Event /\ Range(journal') \subseteq Range(journal) \cup {e}
        /\ cursor' = cursor /\ wire' = wire
    BY <1>5, EmitEffect DEF clientVars
  <2>2. \/ registered /\ out' = Append(out, e)
        \/ registered' = FALSE
    BY <1>5, EmitEffect
  <2> HIDE DEF e
  <2>3. CASE registered /\ out' = Append(out, e)
    <3>1. Range(out') = Range(out) \cup {e}
      BY <1>0, <2>1, <2>3, AppendRange DEF Events
    <3>2. InFlight' = InFlight \cup {e}
      BY <2>1, <3>1 DEF InFlight
    <3> QED
      BY <2>1, <2>3, <3>2 DEF ReplayComplete, Covers
  <2> QED
    BY <1>2, <2>2, <2>3
<1>6. CASE ConnectionWrite
  <2>1. /\ out # <<>> /\ wire' = Append(wire, Head(out)) /\ out' = Tail(out)
        /\ UNCHANGED <<registered, cursor, journal>>
    BY <1>6 DEF ConnectionWrite, hubVars, clientVars
  <2>2. Head(out) \in Events /\ Range(out) = {Head(out)} \cup Range(Tail(out))
    BY <1>0, <2>1, TailRange
  <2>3. Range(wire') = Range(wire) \cup {Head(out)}
    BY <1>0, <2>1, <2>2, AppendRange
  <2>4. InFlight \subseteq InFlight' /\ Range(journal') = Range(journal)
    BY <2>1, <2>2, <2>3 DEF InFlight
  <2> QED
    BY <1>1, <2>1, <2>4
<1>7. CASE ConnectionKicked
  BY <1>7 DEF ConnectionKicked, hubVars, ReplayComplete
<1>8. CASE ClientRead
  BY <1>8, ReplayReadStep
<1>9. CASE ClientClosed
  <2>1. UNCHANGED <<registered, cursor, wire, out, journal>>
    BY <1>9 DEF ClientClosed, hubVars, socketVars
  <2> QED
    BY <1>1, <2>1 DEF InFlight
<1>10. CASE ConnectionLost \/ Restart
  BY <1>2, <1>10 DEF ConnectionLost, Restart
<1>11. ASSUME NEW n \in 0..OtherReplay, Reconnect(n) PROVE ReplayComplete'
  <2>1. out' = Replay(cursor, n) /\ UNCHANGED <<cursor, journal>>
    BY <1>11 DEF Reconnect
  <2>2. n + JournalBound <= QueueBound
    BY Bounds
  <2>3. \A e \in Range(journal) : Covers(cursor, e) \/ e \in Range(Replay(cursor, n))
    BY <2>2, ReplayEffect
  <2> QED
    BY <2>1, <2>3 DEF ReplayComplete, InFlight, Covers
<1> QED
  BY <1>3, <1>4, <1>5, <1>6, <1>7, <1>8, <1>9, <1>10, <1>11 DEF Next

LEMMA InitNumbers == Init => Numbered /\ OneEpoch /\ ReplayComplete
<1> SUFFICES ASSUME Init PROVE Numbered /\ OneEpoch /\ ReplayComplete
  OBVIOUS
<1>1. Range(wire) = {} /\ Range(out) = {} /\ Range(journal) = {}
  BY DEF Init, Range
<1>2. /\ active = NoRuntime /\ active \notin Runtimes
      /\ \A r \in Runtimes : cursor[r].seq = 0 /\ sent[r] = 0
  BY ConstantsAssumption DEF Init, NoCursor
<1>3. Moving = {} /\ \A r \in Runtimes : EpochsOf(r) = {}
  BY <1>1, <1>2 DEF Moving, EpochsOf
<1> QED
  BY <1>1, <1>2, <1>3 DEF Numbered, OneEpoch, ReplayComplete

\* As long as a replay fits the queue of one subscriber, a client lacks no
\* journal event that is not on its way: not after a lost connection, a
\* kicked subscriber, a replacement or a daemon restart.
THEOREM ReplayLeavesNoHole ==
  ASSUME OtherReplay + JournalBound <= QueueBound
  PROVE  Spec => []ReplayComplete
<1> DEFINE I == TypeOK /\ Numbered /\ OneEpoch /\ ReplayComplete
<1>1. Init => I
  BY InitType, InitNumbers
<1>2. I /\ [Next]_vars => I'
  BY NextType, NumbersStep, ReplayStep
<1>3. I => ReplayComplete
  OBVIOUS
<1> QED
  BY <1>1, <1>2, <1>3, PTL DEF Spec

-----------------------------------------------------------------------------
(* An adapter gets its events in the order they were sent.                 *)

LEMMA AdapterStep == TypeOK /\ AdapterOK /\ [Next]_vars => AdapterOK'
<1> SUFFICES ASSUME TypeOK, AdapterOK, [Next]_vars PROVE AdapterOK'
  OBVIOUS
<1>0. /\ client \in Nat /\ MaxClients \in Nat
      /\ \A r \in Runtimes : on[r] \in Nat
  BY Bounds DEF TypeOK, ClientType, AdapterType, Clients
<1>1. ASSUME UNCHANGED <<client, adapterVars, forwarded>> PROVE AdapterOK'
  BY <1>1 DEF AdapterOK, adapterVars
<1>2. CASE UNCHANGED vars
  BY <1>1, <1>2 DEF vars, clientVars, histVars
<1>3. ASSUME NEW r \in Runtimes, begin_runtime(r) \/ end_runtime(r) PROVE AdapterOK'
  BY <1>1, <1>3 DEF begin_runtime, end_runtime, clientVars, histVars
<1>4. ASSUME NEW r \in Runtimes, NEW exit \in BOOLEAN, emit(r, exit) PROVE AdapterOK'
  BY <1>1, <1>4, EmitEffect DEF clientVars
<1>5. CASE ConnectionWrite \/ ConnectionKicked \/ Restart
  BY <1>1, <1>5 DEF ConnectionWrite, ConnectionKicked, Restart, clientVars, histVars
<1>6. ASSUME NEW n \in 0..OtherReplay, Reconnect(n) PROVE AdapterOK'
  <2>1. client' = client + 1 /\ UNCHANGED <<adapterVars, forwarded>>
    BY <1>6 DEF Reconnect, histVars
  <2>2. \A r \in Runtimes : on'[r] <= client'
    BY <1>0, <2>1 DEF AdapterOK, adapterVars
  <2> QED
    BY <2>1, <2>2 DEF AdapterOK, adapterVars
<1>7. CASE ClientClosed \/ ConnectionLost
  <2>1. UNCHANGED <<client, pc, on, inbox, forwarded>> /\ DropSubscriptions
    BY <1>7 DEF ClientClosed, ConnectionLost, histVars
  <2>2. \A r \in Runtimes : fed'[r] => fed[r]
    BY <2>1 DEF DropSubscriptions
  <2> QED
    BY <2>1, <2>2 DEF AdapterOK
<1>8. CASE ClientRead
  <2> DEFINE e == Head(wire)
             r == e.rt
  <2>1. UNCHANGED <<client, pc, on, fed, forwarded>>
    BY <1>8 DEF ClientRead, histVars
  <2>2. inbox' = inbox \/ (Subscribed(r) /\ e \in Event /\ inbox' = [inbox EXCEPT ![r] = Append(@, e)])
    BY <1>8, ClientReadEffect
  <2> HIDE DEF e
  <2>3. ASSUME NEW q \in Runtimes, pc[q] # "stream" PROVE inbox'[q] = <<>>
    <3>1. inbox[q] = <<>> /\ ~fed[q]
      BY <2>3 DEF AdapterOK
    <3>2. Subscribed(r) => q # r
      BY <3>1 DEF Subscribed
    <3> QED
      BY <2>2, <3>1, <3>2 DEF TypeOK, AdapterType
  <2> QED
    BY <2>1, <2>3 DEF AdapterOK
<1>9. ASSUME NEW r \in Runtimes, connect_remote(r) \/ Adapter(r) \/ Shutdown(r)
      PROVE  AdapterOK'
  <2>0. /\ pc \in [Runtimes -> AdapterPcs] /\ on \in [Runtimes -> Clients]
        /\ inbox \in [Runtimes -> Seq(Event)] /\ fed \in [Runtimes -> BOOLEAN]
        /\ forwarded \in [Runtimes -> Seq(Nat)] /\ client' = client
    BY <1>9 DEF TypeOK, AdapterType, HistType, connect_remote, Adapter, Shutdown, subscribe, Forward,
                Disconnected, TakeReplacement, Attached, AttachFailed, clientVars
  <2>1. ASSUME NEW q \in Runtimes, q # r
        PROVE  /\ pc'[q] = pc[q] /\ on'[q] = on[q] /\ inbox'[q] = inbox[q]
               /\ fed'[q] = fed[q] /\ forwarded'[q] = forwarded[q]
    BY <1>9, <2>0, <2>1 DEF connect_remote, Adapter, Shutdown, subscribe, Forward, Disconnected,
             TakeReplacement, Attached, AttachFailed, histVars
  <2>2. /\ on'[r] <= client
        /\ fed'[r] => pc'[r] = "stream"
        /\ pc'[r] # "stream" => inbox'[r] = <<>>
        /\ pc'[r] = "none" => forwarded'[r] = <<>>
    <3>1. CASE connect_remote(r)
      BY <1>0, <2>0, <3>1 DEF connect_remote, AdapterOK, histVars
    <3>2. CASE subscribe(r)
      BY <1>0, <2>0, <3>2 DEF subscribe, AdapterOK, histVars
    <3>3. CASE Forward(r)
      BY <1>0, <2>0, <3>3 DEF Forward, AdapterOK
    <3>4. CASE Disconnected(r) \/ Attached(r) \/ AttachFailed(r)
      BY <1>0, <2>0, <3>4 DEF Disconnected, Attached, AttachFailed, AdapterOK, histVars
    <3>5. CASE TakeReplacement(r)
      BY <1>0, <2>0, <3>5 DEF TakeReplacement, AdapterOK, histVars
    <3>6. CASE Shutdown(r)
      BY <1>0, <2>0, <3>6 DEF Shutdown, AdapterOK, histVars
    <3> QED
      BY <1>9, <3>1, <3>2, <3>3, <3>4, <3>5, <3>6 DEF Adapter
  <2> QED
    BY <2>0, <2>1, <2>2 DEF AdapterOK
<1> QED
  BY <1>2, <1>3, <1>4, <1>5, <1>6, <1>7, <1>8, <1>9 DEF Next

\* A step that takes no new event keeps the order.
LEMMA OrderKept ==
  ASSUME NEW r \in Runtimes, OrderedOf(r), client \in Nat, client' \in Nat, client' >= client,
         cursor'[r] = cursor[r],
         Taken(r)' \subseteq Taken(r),
         Below(Range(forwarded[r]), Numbers(inbox[r]))', Rising(inbox[r])',
         \A c \in Clients : pending'[c][r] = pending[c][r],
         \A c \in Clients : Ahead(c, r)' => Ahead(c, r) \/ Taken(r) = {}
  PROVE  OrderedOf(r)'
<1>1. \A c \in Clients : c \in Nat /\ (c > client' => c > client)
  BY Bounds DEF Clients
<1>2. ASSUME NEW c \in Clients, Ahead(c, r)' PROVE Below(Taken(r)', Numbers(pending[c][r]))
  BY <1>2 DEF OrderedOf, Below
<1>3. (Taken(r) \subseteq 1..cursor[r].seq)'
  BY DEF OrderedOf
<1>4. \A c \in Clients :
        /\ Numbers(pending'[c][r]) \subseteq 1..cursor'[r].seq
        /\ Rising(pending'[c][r])
        /\ c > client' => pending'[c][r] = <<>>
        /\ Ahead(c, r)' => Below(Taken(r)', Numbers(pending'[c][r]))
  BY <1>1, <1>2 DEF OrderedOf
<1>5. \A c, d \in Clients :
        c < d => Below(Numbers(pending'[c][r]), Numbers(pending'[d][r]))
  BY DEF OrderedOf
<1> QED
  BY <1>3, <1>4, <1>5 DEF OrderedOf

\* The client appends an event that is later than all it accepted before.
LEMMA OrderAccept ==
  ASSUME TypeOK, Numbered, OneEpoch, AdapterOK, Ordered,
         NEW e \in Event, NEW r, r = e.rt, e \in Moving, ~Covers(cursor, e),
         NEW t, t = Bounded(Append(pending[client][r], e), PendingBound),
         UNCHANGED <<client, pc, on, forwarded>>,
         cursor' = [cursor EXCEPT ![r] = [epoch |-> e.epoch, seq |-> e.seq]],
         \/ /\ Subscribed(r) /\ UNCHANGED pending
            /\ inbox' = [inbox EXCEPT ![r] = Append(@, e)]
         \/ UNCHANGED inbox /\ pending' = [pending EXCEPT ![client][r] = t]
  PROVE  Ordered'
<1> DEFINE b == pending[client][r]
<1>1. /\ r \in Runtimes /\ e.seq \in Nat /\ client \in Clients /\ client \in Nat
      /\ inbox[r] \in Seq(Event) /\ b \in Seq(Event)
      /\ cursor[r].seq \in Nat /\ e.seq > cursor[r].seq /\ cursor'[r].seq = e.seq
      /\ \A c \in Clients : c \in Nat
  <2>1. r \in Runtimes /\ e.seq \in Nat
    BY DEF Event
  <2>2. client \in Clients /\ \A c \in Clients : c \in Nat
    BY Bounds DEF TypeOK, ClientType, Clients
  <2>3. inbox[r] \in Seq(Event) /\ b \in Seq(Event) /\ cursor[r].seq \in Nat
    BY <2>1, <2>2 DEF TypeOK, ClientType, AdapterType
  <2>4. e.seq > cursor[r].seq
    BY AcceptedIsLater
  <2>5. cursor'[r].seq = e.seq
    BY <2>1 DEF TypeOK, ClientType
  <2> QED
    BY <2>1, <2>2, <2>3, <2>4, <2>5
<1>2. ASSUME NEW q \in Runtimes, q # r PROVE OrderedOf(q)'
  <2>1. /\ cursor'[q] = cursor[q] /\ inbox'[q] = inbox[q]
        /\ \A c \in Clients : pending'[c][q] = pending[c][q]
    <3>1. cursor'[q] = cursor[q]
      BY <1>1, <1>2 DEF TypeOK, ClientType
    <3>2. inbox'[q] = inbox[q]
      BY <1>1, <1>2 DEF TypeOK, AdapterType
    <3>3. ASSUME NEW c \in Clients PROVE pending'[c][q] = pending[c][q]
      <4>1. CASE UNCHANGED pending
        BY <4>1
      <4>2. CASE pending' = [pending EXCEPT ![client][r] = t]
        <5>1. /\ pending \in [Clients -> [Runtimes -> Seq(Event)]]
              /\ pending[c] \in [Runtimes -> Seq(Event)]
          BY DEF TypeOK, ClientType
        <5>2. pending'[c] = IF c = client THEN [pending[c] EXCEPT ![r] = t] ELSE pending[c]
          BY <1>1, <4>2, <5>1
        <5> QED
          BY <1>2, <5>1, <5>2
      <4> QED
        BY <4>1, <4>2
    <3> QED
      BY <3>1, <3>2, <3>3
  <2>2. Taken(q)' = Taken(q)
    BY <2>1 DEF Taken
  <2>3. Below(Range(forwarded[q]), Numbers(inbox[q]))' /\ Rising(inbox[q])'
    BY <2>1 DEF Ordered, OrderedOf
  <2>4. \A c \in Clients : Ahead(c, q)' => Ahead(c, q)
    BY DEF Ahead
  <2>5. OrderedOf(q) /\ client' = client /\ client' >= client
    BY <1>1 DEF Ordered
  <2> QED
    BY <1>1, <2>1, <2>2, <2>3, <2>4, <2>5, OrderKept
\* What was accepted before comes before e.
<1>3. /\ Taken(r) \subseteq 1..cursor[r].seq
      /\ Below(Taken(r), {e.seq})
      /\ \A c \in Clients : /\ Numbers(pending[c][r]) \subseteq 1..e.seq
                           /\ Below(Numbers(pending[c][r]), {e.seq})
  <2>1. Taken(r) \subseteq 1..cursor[r].seq
    BY <1>1 DEF Ordered, OrderedOf
  <2>2. \A c \in Clients : Numbers(pending[c][r]) \subseteq 1..cursor[r].seq
    BY <1>1 DEF Ordered, OrderedOf
  <2>3. /\ \A n \in 1..cursor[r].seq : n < e.seq
        /\ 1..cursor[r].seq \subseteq 1..e.seq
    BY <1>1
  <2> QED
    BY <2>1, <2>2, <2>3 DEF Below
<1>4. OrderedOf(r)
  BY <1>1 DEF Ordered
<1>5. CASE /\ Subscribed(r) /\ UNCHANGED pending
           /\ inbox' = [inbox EXCEPT ![r] = Append(@, e)]
  <2>1. inbox'[r] = Append(inbox[r], e)
    BY <1>1, <1>5 DEF TypeOK, AdapterType
  <2>2. /\ Numbers(inbox'[r]) = Numbers(inbox[r]) \cup {e.seq}
        /\ Rising(inbox[r]) /\ Below(Numbers(inbox[r]), {e.seq}) => Rising(inbox'[r])
    <3>1. /\ Numbers(Append(inbox[r], e)) = Numbers(inbox[r]) \cup {e.seq}
          /\ Rising(inbox[r]) /\ Below(Numbers(inbox[r]), {e.seq})
               => Rising(Append(inbox[r], e))
      BY <1>1, AppendNumbers
    <3> QED
      BY <2>1, <3>1
  <2>3. Taken(r)' = Taken(r) \cup {e.seq}
    BY <2>2 DEF Taken
  <2>4. Rising(inbox'[r])
    BY <1>3, <1>4, <2>2 DEF OrderedOf, Taken, Below
  <2>5. Taken(r)' \subseteq 1..cursor'[r].seq
    BY <1>1, <1>3, <2>3
  <2>6. Below(Range(forwarded'[r]), Numbers(inbox'[r]))
    BY <1>3, <1>4, <2>2 DEF OrderedOf, Taken, Below
  <2>7. \A c \in Clients : Ahead(c, r)' => c > client /\ pending'[c][r] = <<>>
    <3>1. on[r] = client /\ pc[r] = "stream"
      BY <1>1, <1>5 DEF Subscribed, AdapterOK
    <3> QED
      BY <1>1, <1>4, <1>5, <3>1 DEF Ahead, OrderedOf
  <2>8. \A c \in Clients :
          /\ Numbers(pending'[c][r]) \subseteq 1..cursor'[r].seq
          /\ Rising(pending'[c][r])
          /\ c > client' => pending'[c][r] = <<>>
          /\ Ahead(c, r)' => Below(Taken(r)', Numbers(pending'[c][r]))
    <3>1. Numbers(<<>>) = {}
      BY DEF Numbers
    <3> QED
      BY <1>1, <1>3, <1>4, <1>5, <2>7, <3>1 DEF OrderedOf, Below
  <2>9. \A c, d \in Clients : c < d => Below(Numbers(pending'[c][r]), Numbers(pending'[d][r]))
    BY <1>4, <1>5 DEF OrderedOf
  <2>10. OrderedOf(r)'
    BY <2>4, <2>5, <2>6, <2>8, <2>9 DEF OrderedOf
  <2> QED
    BY <1>2, <2>10 DEF Ordered
<1>6. CASE UNCHANGED inbox /\ pending' = [pending EXCEPT ![client][r] = t]
  <2>1. /\ t \in Seq(Event) /\ Numbers(t) \subseteq Numbers(b) \cup {e.seq}
        /\ Rising(b) /\ Below(Numbers(b), {e.seq}) => Rising(t)
    BY <1>1, BufferAppend
  <2>2. \A c \in Clients : pending'[c][r] = IF c = client THEN t ELSE pending[c][r]
    BY <1>1, <1>6 DEF TypeOK, ClientType
  <2>3. Rising(t) /\ Numbers(t) \subseteq 1..e.seq
    <3>1. Rising(b) /\ Below(Numbers(b), {e.seq})
      BY <1>1, <1>3, <1>4 DEF OrderedOf
    <3>2. Numbers(b) \subseteq 1..e.seq /\ e.seq \in 1..e.seq
      BY <1>1, <1>3
    <3> QED
      BY <2>1, <3>1, <3>2
  <2>4. Taken(r)' = Taken(r) /\ forwarded' = forwarded /\ inbox' = inbox
    BY <1>6 DEF Taken
  <2>5. Taken(r)' \subseteq 1..cursor'[r].seq
    BY <1>1, <1>3, <2>4
  <2>6. Ahead(client, r) => Below(Taken(r), Numbers(t))
    BY <1>1, <1>3, <1>4, <2>1 DEF OrderedOf, Below
  <2>7. ASSUME NEW c \in Clients
        PROVE  /\ Numbers(pending'[c][r]) \subseteq 1..cursor'[r].seq
               /\ Rising(pending'[c][r])
               /\ c > client' => pending'[c][r] = <<>>
               /\ Ahead(c, r)' => Below(Taken(r)', Numbers(pending'[c][r]))
    <3>1. Ahead(c, r)' <=> Ahead(c, r)
      BY DEF Ahead
    <3>2. CASE c = client
      BY <1>1, <2>2, <2>3, <2>4, <2>6, <3>1, <3>2
    <3>3. CASE c # client
      BY <1>1, <1>3, <1>4, <2>2, <2>4, <3>1, <3>3 DEF OrderedOf
    <3> QED
      BY <3>2, <3>3
  <2>8. ASSUME NEW c \in Clients, NEW d \in Clients, c < d
        PROVE  Below(Numbers(pending'[c][r]), Numbers(pending'[d][r]))
    <3>1. Below(Numbers(pending[c][r]), Numbers(pending[d][r]))
      BY <1>4, <2>8 DEF OrderedOf
    <3>2. CASE d = client
      <4>1. pending'[c][r] = pending[c][r] /\ pending'[d][r] = t
        BY <1>1, <2>2, <2>8, <3>2
      <4> QED
        BY <1>3, <2>1, <3>1, <3>2, <4>1 DEF Below
    <3>3. CASE c = client
      <4>1. pending'[d][r] = <<>>
        BY <1>1, <1>4, <2>2, <2>8, <3>3 DEF OrderedOf
      <4> QED
        BY <4>1 DEF Below, Numbers
    <3>4. CASE c # client /\ d # client
      BY <2>2, <3>1, <3>4
    <3> QED
      BY <3>2, <3>3, <3>4
  <2>9. Below(Range(forwarded'[r]), Numbers(inbox'[r])) /\ Rising(inbox'[r])
    BY <1>4, <2>4 DEF OrderedOf
  <2>10. OrderedOf(r)'
    BY <2>5, <2>7, <2>8, <2>9 DEF OrderedOf
  <2> QED
    BY <1>2, <2>10 DEF Ordered
<1> QED
  BY <1>5, <1>6

LEMMA OrderRead ==
  ASSUME TypeOK, Numbered, OneEpoch, AdapterOK, Ordered, ClientRead
  PROVE  Ordered'
<1>1. PICK e : e = Head(wire)
  OBVIOUS
<1>2. PICK r : r = e.rt
  OBVIOUS
<1>3. /\ wire # <<>> /\ UNCHANGED <<client, pc, on, forwarded>>
      /\ \/ UNCHANGED <<cursor, inbox, pending>>
         \/ /\ e \in Event /\ ~Covers(cursor, e)
            /\ cursor' = [cursor EXCEPT ![r] = [epoch |-> e.epoch, seq |-> e.seq]]
            /\ \/ /\ Subscribed(r) /\ UNCHANGED pending
                  /\ inbox' = [inbox EXCEPT ![r] = Append(@, e)]
               \/ /\ UNCHANGED inbox
                  /\ pending' = [pending EXCEPT ![client][r] =
                                   Bounded(Append(pending[client][r], e), PendingBound)]
  BY <1>1, <1>2, ClientReadEffect DEF histVars
<1>4. e \in Moving
  <2>1. wire \in Seq(Events) /\ wire # <<>>
    BY <1>3 DEF TypeOK, SocketType, Events
  <2>2. Range(wire) = {Head(wire)} \cup Range(Tail(wire))
    BY <2>1, TailRange
  <2> QED
    BY <1>1, <2>2 DEF Moving
<1>5. CASE UNCHANGED <<cursor, inbox, pending>>
  BY <1>3, <1>5 DEF Ordered, OrderedOf, Taken, Ahead
<1> QED
  BY <1>2, <1>3, <1>4, <1>5, OrderAccept

\* Draining the buffer of the adapter's client into its new channel.
LEMMA OrderSubscribe ==
  ASSUME TypeOK, AdapterOK, NEW r \in Runtimes, OrderedOf(r), subscribe(r)
  PROVE  OrderedOf(r)'
<1> DEFINE b == pending[on[r]][r]
<1>1. /\ pc[r] = "subscribe" /\ pc' = [pc EXCEPT ![r] = "stream"]
      /\ inbox' = [inbox EXCEPT ![r] = b]
      /\ pending' = [pending EXCEPT ![on[r]][r] = <<>>]
      /\ UNCHANGED <<client, cursor, on, forwarded>>
  BY DEF subscribe, histVars
<1>2. /\ on[r] \in Clients /\ on[r] \in Nat /\ \A c \in Clients : c \in Nat
      /\ pc'[r] = "stream" /\ inbox[r] = <<>> /\ inbox'[r] = b
  BY <1>1, Bounds DEF TypeOK, AdapterType, Clients, AdapterOK
<1>3. \A c \in Clients : pending'[c][r] = IF c = on[r] THEN <<>> ELSE pending[c][r]
  BY <1>1, <1>2 DEF TypeOK, ClientType
<1>4. Numbers(<<>>) = {} /\ Rising(<<>>)
  BY DEF Numbers, Rising
<1>5. Taken(r) = Range(forwarded[r])
  BY <1>2, <1>4 DEF Taken
<1>6. Taken(r)' = Range(forwarded[r]) \cup Numbers(b)
  BY <1>1, <1>2 DEF Taken
<1>7. Below(Range(forwarded[r]), Numbers(b))
  BY <1>1, <1>2, <1>5 DEF Ahead, OrderedOf
<1>8. Taken(r)' \subseteq 1..cursor'[r].seq
  BY <1>1, <1>2, <1>5, <1>6 DEF OrderedOf
<1>9. Below(Range(forwarded'[r]), Numbers(inbox'[r])) /\ Rising(inbox'[r])
  BY <1>1, <1>2, <1>7 DEF OrderedOf
<1>10. ASSUME NEW c \in Clients
       PROVE  /\ Numbers(pending'[c][r]) \subseteq 1..cursor'[r].seq
              /\ Rising(pending'[c][r])
              /\ c > client' => pending'[c][r] = <<>>
              /\ Ahead(c, r)' => Below(Taken(r)', Numbers(pending'[c][r]))
  <2>1. CASE c = on[r]
    <3>1. pending'[c][r] = <<>>
      BY <1>3, <2>1
    <3> QED
      BY <1>4, <3>1 DEF Below
  <2>2. CASE c # on[r]
    <3>1. pending'[c][r] = pending[c][r]
      BY <1>3, <2>2
    <3>2. ASSUME Ahead(c, r)' PROVE Below(Taken(r)', Numbers(pending[c][r]))
      <4>1. on[r] < c
        BY <1>1, <1>2, <2>2, <3>2 DEF Ahead
      <4>2. Below(Taken(r), Numbers(pending[c][r]))
        BY <4>1 DEF Ahead, OrderedOf
      <4>3. Below(Numbers(b), Numbers(pending[c][r]))
        BY <1>2, <4>1 DEF OrderedOf
      <4> QED
        BY <1>5, <1>6, <4>2, <4>3 DEF Below
    <3> QED
      BY <1>1, <3>1, <3>2 DEF OrderedOf
  <2> QED
    BY <2>1, <2>2
<1>11. ASSUME NEW c \in Clients, NEW d \in Clients, c < d
       PROVE  Below(Numbers(pending'[c][r]), Numbers(pending'[d][r]))
  <2>1. /\ Numbers(pending'[c][r]) \subseteq Numbers(pending[c][r])
        /\ Numbers(pending'[d][r]) \subseteq Numbers(pending[d][r])
    BY <1>3, <1>4
  <2> QED
    BY <1>11, <2>1 DEF OrderedOf, Below
<1> QED
  BY <1>8, <1>9, <1>10, <1>11 DEF OrderedOf

\* What Forward does to the channel and to what was forwarded.
LEMMA ForwardEffect ==
  ASSUME TypeOK, NEW r \in Runtimes, OrderedOf(r), Forward(r)
  PROVE  LET e == Head(inbox[r]) IN
         /\ pc[r] = "stream" /\ inbox[r] # <<>>
         /\ e \in Event /\ e.seq \in Numbers(inbox[r])
         /\ forwarded' = [forwarded EXCEPT ![r] = Append(@, e.seq)]
         /\ Range(forwarded'[r]) = Range(forwarded[r]) \cup {e.seq}
         /\ Rising(inbox'[r])
         /\ Numbers(inbox'[r]) \subseteq Numbers(inbox[r])
         /\ Below({e.seq}, Numbers(inbox'[r]))
<1> DEFINE e == Head(inbox[r])
<1>1. /\ pc[r] = "stream" /\ inbox[r] # <<>>
      /\ forwarded' = [forwarded EXCEPT ![r] = Append(@, e.seq)]
      /\ \/ inbox' = [inbox EXCEPT ![r] = <<>>]
         \/ inbox' = [inbox EXCEPT ![r] = Tail(@)]
  BY DEF Forward
<1>2. inbox[r] \in Seq(Event) /\ forwarded[r] \in Seq(Nat) /\ Rising(inbox[r])
  BY DEF TypeOK, AdapterType, HistType, OrderedOf
<1>3. /\ e \in Event /\ e.seq \in Nat
      /\ Numbers(inbox[r]) = {e.seq} \cup Numbers(Tail(inbox[r]))
      /\ Rising(Tail(inbox[r])) /\ Below({e.seq}, Numbers(Tail(inbox[r])))
  <2>1. e \in Event
    BY <1>1, <1>2, TailRange
  <2>2. e.seq \in Nat
    BY <2>1 DEF Event
  <2>3. Numbers(inbox[r]) = {e.seq} \cup Numbers(Tail(inbox[r]))
    BY <1>1, <1>2, TailRange
  <2>4. Rising(Tail(inbox[r])) /\ Below({e.seq}, Numbers(Tail(inbox[r])))
    BY <1>1, <1>2, TailRange
  <2> QED
    BY <2>1, <2>2, <2>3, <2>4
<1> HIDE DEF e
<1>4. forwarded'[r] = Append(forwarded[r], e.seq)
  BY <1>1 DEF TypeOK, HistType
<1>5. Range(forwarded'[r]) = Range(forwarded[r]) \cup {e.seq}
  BY <1>2, <1>3, <1>4, AppendRange
<1>6. inbox'[r] = <<>> \/ inbox'[r] = Tail(inbox[r])
  BY <1>1 DEF TypeOK, AdapterType
<1>7. Numbers(<<>>) = {} /\ Rising(<<>>)
  BY DEF Numbers, Rising
<1>8. /\ Rising(inbox'[r])
      /\ Numbers(inbox'[r]) \subseteq Numbers(inbox[r])
      /\ Below({e.seq}, Numbers(inbox'[r]))
  <2>1. CASE inbox'[r] = <<>>
    BY <1>7, <2>1 DEF Below
  <2>2. CASE inbox'[r] = Tail(inbox[r])
    BY <1>3, <2>2
  <2> QED
    BY <1>6, <2>1, <2>2
<1> QED
  BY <1>1, <1>3, <1>5, <1>8 DEF e

\* The steps of one adapter, which move only its own events.
LEMMA OrderAdapter ==
  ASSUME TypeOK, AdapterOK, Ordered, NEW r \in Runtimes,
         connect_remote(r) \/ Adapter(r) \/ Shutdown(r)
  PROVE  Ordered'
<1>0. /\ pc \in [Runtimes -> AdapterPcs] /\ on \in [Runtimes -> Clients]
      /\ inbox \in [Runtimes -> Seq(Event)] /\ forwarded \in [Runtimes -> Seq(Nat)]
      /\ client \in Nat /\ client \in Clients /\ \A c \in Clients : c \in Nat
  BY Bounds DEF TypeOK, ClientType, AdapterType, HistType, Clients
<1>1. UNCHANGED <<client, cursor>> /\ client' >= client
  BY <1>0 DEF connect_remote, Adapter, Shutdown, subscribe, Forward,
         Disconnected, TakeReplacement, Attached, AttachFailed, clientVars
<1>2. ASSUME NEW q \in Runtimes, q # r PROVE OrderedOf(q)'
  <2>1. /\ pc'[q] = pc[q] /\ on'[q] = on[q] /\ inbox'[q] = inbox[q]
        /\ forwarded'[q] = forwarded[q]
    BY <1>0, <1>2 DEF connect_remote, Adapter, Shutdown, subscribe, Forward,
         Disconnected, TakeReplacement, Attached, AttachFailed, histVars
  <2>2. ASSUME NEW c \in Clients PROVE pending'[c][q] = pending[c][q]
    <3>1. CASE subscribe(r)
      <4>1. /\ pending \in [Clients -> [Runtimes -> Seq(Event)]]
            /\ pending[c] \in [Runtimes -> Seq(Event)] /\ on[r] \in Clients
        BY <1>0 DEF TypeOK, ClientType
      <4>2. pending'[c] = IF c = on[r] THEN [pending[c] EXCEPT ![r] = <<>>] ELSE pending[c]
        BY <3>1, <4>1 DEF subscribe
      <4> QED
        BY <1>2, <4>1, <4>2
    <3>2. CASE UNCHANGED pending
      BY <3>2
    <3> QED
      BY <3>1, <3>2 DEF connect_remote, Adapter, Shutdown, Forward, Disconnected, TakeReplacement,
                        Attached, AttachFailed, clientVars
  <2>3. Taken(q)' = Taken(q)
    BY <2>1 DEF Taken
  <2>4. Below(Range(forwarded[q]), Numbers(inbox[q]))' /\ Rising(inbox[q])'
    BY <2>1 DEF Ordered, OrderedOf
  <2>5. \A c \in Clients : Ahead(c, q)' => Ahead(c, q)
    BY <2>1 DEF Ahead
  <2>6. OrderedOf(q)
    BY DEF Ordered
  <2> QED
    BY <1>0, <1>1, <2>2, <2>3, <2>4, <2>5, <2>6, OrderKept
<1>3. OrderedOf(r)
  BY DEF Ordered
<1>4. Numbers(<<>>) = {} /\ Rising(<<>>) /\ Range(<<>>) = {}
  BY DEF Numbers, Rising, Range
<1>5. CASE subscribe(r)
  BY <1>2, <1>3, <1>5, OrderSubscribe DEF Ordered
<1>6. CASE \/ connect_remote(r) \/ Disconnected(r) \/ TakeReplacement(r)
           \/ Attached(r) \/ AttachFailed(r) \/ Shutdown(r)
  <2>1. forwarded' = forwarded /\ pending' = pending
    BY <1>6 DEF connect_remote, Disconnected, TakeReplacement, Attached, AttachFailed,
                Shutdown, clientVars, histVars
  <2>2. inbox'[r] = inbox[r] \/ inbox'[r] = <<>>
    BY <1>0, <1>6 DEF connect_remote, Disconnected, TakeReplacement, Attached, AttachFailed, Shutdown
  <2>3. Numbers(inbox'[r]) \subseteq Numbers(inbox[r]) /\ Rising(inbox'[r])
    BY <1>3, <1>4, <2>2 DEF OrderedOf
  <2>4. Taken(r)' \subseteq Taken(r)
    BY <2>1, <2>3 DEF Taken
  <2>5. Below(Range(forwarded[r]), Numbers(inbox[r]))' /\ Rising(inbox[r])'
    BY <1>3, <2>1, <2>3 DEF OrderedOf, Below
  <2>6. ASSUME NEW c \in Clients, Ahead(c, r)' PROVE Ahead(c, r) \/ Taken(r) = {}
    <3>1. CASE connect_remote(r)
      <4>1. inbox[r] = <<>> /\ forwarded[r] = <<>>
        BY <3>1 DEF connect_remote, AdapterOK
      <4> QED
        BY <1>4, <4>1 DEF Taken
    <3>2. CASE TakeReplacement(r)
      <4>1. on'[r] = on[r] + 1 /\ on[r] \in Nat /\ c \in Nat
        BY <1>0, <3>2 DEF TakeReplacement
      <4>2. on'[r] < c \/ on'[r] = c
        BY <2>6 DEF Ahead
      <4>3. on[r] < c
        BY <4>1, <4>2
      <4> QED
        BY <4>3 DEF Ahead
    <3>3. CASE Disconnected(r) \/ Attached(r) \/ AttachFailed(r) \/ Shutdown(r)
      BY <1>0, <2>6, <3>3 DEF Disconnected, Attached, AttachFailed, Shutdown, Ahead
    <3> QED
      BY <1>6, <3>1, <3>2, <3>3
  <2>7. OrderedOf(r)'
    BY <1>0, <1>1, <1>3, <2>1, <2>4, <2>5, <2>6, OrderKept
  <2> QED
    BY <1>2, <2>7 DEF Ordered
<1>7. CASE Forward(r)
  <2>1. PICK n : n = Head(inbox[r]).seq
    OBVIOUS
  <2>2. /\ pc[r] = "stream" /\ n \in Numbers(inbox[r])
        /\ Range(forwarded'[r]) = Range(forwarded[r]) \cup {n}
        /\ Rising(inbox'[r])
        /\ Numbers(inbox'[r]) \subseteq Numbers(inbox[r])
        /\ Below({n}, Numbers(inbox'[r]))
    BY <1>3, <1>7, <2>1, ForwardEffect
  <2>3. UNCHANGED <<pending, on>> /\ (pc'[r] = "stream" \/ pc'[r] = "done")
    BY <1>0, <1>7, <2>2 DEF Forward, clientVars
  <2>4. Taken(r)' \subseteq Taken(r)
    BY <2>2 DEF Taken
  <2>5. Below(Range(forwarded[r]), Numbers(inbox[r]))
    BY <1>3 DEF OrderedOf
  <2>6. Below(Range(forwarded[r]), Numbers(inbox[r]))' /\ Rising(inbox[r])'
    BY <2>2, <2>5 DEF Below
  <2>7. \A c \in Clients : Ahead(c, r)' => Ahead(c, r)
    BY <2>3 DEF Ahead
  <2>8. OrderedOf(r)'
    BY <1>0, <1>1, <1>3, <2>3, <2>4, <2>6, <2>7, OrderKept
  <2> QED
    BY <1>2, <2>8 DEF Ordered
<1> QED
  BY <1>5, <1>6, <1>7 DEF Adapter

LEMMA OrderStep ==
  TypeOK /\ Numbered /\ OneEpoch /\ AdapterOK /\ Ordered /\ [Next]_vars => Ordered'
<1> SUFFICES ASSUME TypeOK, Numbered, OneEpoch, AdapterOK, Ordered, [Next]_vars
             PROVE  Ordered'
  OBVIOUS
<1>0. client \in Nat /\ \A r \in Runtimes : OrderedOf(r)
  BY Bounds DEF TypeOK, ClientType, Clients, Ordered
<1>1. ASSUME client' = client \/ client' = client + 1,
             UNCHANGED <<cursor, pending, pc, on, inbox, forwarded>>
      PROVE  Ordered'
  <2>1. client' \in Nat /\ client' >= client
    BY <1>0, <1>1
  <2>2. \A r \in Runtimes :
          /\ cursor'[r] = cursor[r] /\ Taken(r)' \subseteq Taken(r)
          /\ Below(Range(forwarded[r]), Numbers(inbox[r]))' /\ Rising(inbox[r])'
    BY <1>0, <1>1 DEF OrderedOf, Taken
  <2>3. \A r \in Runtimes, c \in Clients :
          pending'[c][r] = pending[c][r] /\ (Ahead(c, r)' => Ahead(c, r))
    BY <1>1 DEF Ahead
  <2>4. \A r \in Runtimes : OrderedOf(r)'
    BY <1>0, <2>1, <2>2, <2>3, OrderKept
  <2> QED
    BY <2>4 DEF Ordered
<1>2. CASE UNCHANGED vars
  BY <1>1, <1>2 DEF vars, clientVars, adapterVars, histVars
<1>3. ASSUME NEW r \in Runtimes, begin_runtime(r) \/ end_runtime(r) PROVE Ordered'
  BY <1>1, <1>3 DEF begin_runtime, end_runtime, clientVars, adapterVars, histVars
<1>4. ASSUME NEW r \in Runtimes, NEW exit \in BOOLEAN, emit(r, exit) PROVE Ordered'
  BY <1>1, <1>4, EmitEffect DEF clientVars, adapterVars
<1>5. CASE ConnectionWrite \/ ConnectionKicked \/ ClientClosed \/ ConnectionLost \/ Restart
  BY <1>1, <1>5 DEF ConnectionWrite, ConnectionKicked, ClientClosed, ConnectionLost, Restart,
                    clientVars, adapterVars, histVars
<1>6. ASSUME NEW n \in 0..OtherReplay, Reconnect(n) PROVE Ordered'
  BY <1>1, <1>6 DEF Reconnect, adapterVars, histVars
<1>7. CASE ClientRead
  BY <1>7, OrderRead
<1>8. ASSUME NEW r \in Runtimes, connect_remote(r) \/ Adapter(r) \/ Shutdown(r)
      PROVE  Ordered'
  BY <1>8, OrderAdapter
<1> QED
  BY <1>2, <1>3, <1>4, <1>5, <1>6, <1>7, <1>8 DEF Next

LEMMA InitOrder == Init => AdapterOK /\ Ordered
<1> SUFFICES ASSUME Init PROVE AdapterOK /\ Ordered
  OBVIOUS
<1>1. Numbers(<<>>) = {} /\ Rising(<<>>) /\ Range(<<>>) = {}
  BY DEF Numbers, Rising, Range
<1>2. AdapterOK
  BY DEF Init, AdapterOK
<1>3. ASSUME NEW r \in Runtimes PROVE OrderedOf(r)
  <2>1. inbox[r] = <<>> /\ forwarded[r] = <<>> /\ \A c \in Clients : pending[c][r] = <<>>
    BY DEF Init
  <2>2. Taken(r) = {}
    BY <1>1, <2>1 DEF Taken
  <2> QED
    BY <1>1, <2>1, <2>2 DEF OrderedOf, Below
<1> QED
  BY <1>2, <1>3 DEF Ordered

LEMMA InvInductive ==
  /\ Init => Inv
  /\ Inv /\ [Next]_vars => Inv'
<1>1. Init => Inv
  BY InitType, InitNumbers, InitOrder DEF Inv
<1>2. Inv /\ [Next]_vars => Inv'
  BY NextType, NumbersStep, AdapterStep, OrderStep DEF Inv
<1> QED
  BY <1>1, <1>2

\* The steps of EventLog: emit sends, Forward takes, and no other step shows.
LEMMA StepRefines == Inv /\ [Next]_vars => [Log!Next]_(Log!vars)
<1> SUFFICES ASSUME Inv, [Next]_vars PROVE [Log!Next]_(Log!vars)
  OBVIOUS
<1> USE DEF Inv
<1>1. ASSUME UNCHANGED histVars PROVE UNCHANGED Log!vars
  BY <1>1 DEF histVars, Log!vars
<1>2. ASSUME NEW r \in Runtimes, NEW exit \in BOOLEAN, emit(r, exit) PROVE Log!Next
  <2>1. sent' = [sent EXCEPT ![r] = @ + 1] /\ forwarded' = forwarded
    BY <1>2, EmitEffect
  <2> QED
    BY <2>1 DEF Log!Next, Log!Send
<1>3. ASSUME NEW r \in Runtimes, Forward(r) PROVE Log!Next
  <2>1. PICK n : n = Head(inbox[r]).seq
    OBVIOUS
  <2>2. OrderedOf(r)
    BY DEF Ordered
  <2>3. /\ n \in Numbers(inbox[r]) /\ forwarded' = [forwarded EXCEPT ![r] = Append(@, n)]
        /\ sent' = sent
    BY <1>3, <2>1, <2>2, ForwardEffect DEF Forward
  <2>4. n \in 1..sent[r]
    <3>1. n \in 1..cursor[r].seq
      BY <2>2, <2>3 DEF OrderedOf, Taken
    <3>2. cursor[r].seq <= sent[r] /\ cursor[r].seq \in Nat /\ sent[r] \in Nat
      BY DEF Numbered, TypeOK, ClientType, HistType
    <3> QED
      BY <3>1, <3>2
  <2>5. \A i \in DOMAIN forwarded[r] : forwarded[r][i] < n
    BY <2>2, <2>3 DEF OrderedOf, Below, Range
  <2>6. Log!Take(r)
    BY <2>3, <2>4, <2>5 DEF Log!Take
  <2> QED
    BY <2>6 DEF Log!Next
<1>4. ASSUME NEW r \in Runtimes,
             \/ begin_runtime(r) \/ end_runtime(r) \/ connect_remote(r) \/ Shutdown(r)
             \/ subscribe(r) \/ Disconnected(r) \/ TakeReplacement(r)
             \/ Attached(r) \/ AttachFailed(r)
      PROVE  UNCHANGED histVars
  BY <1>4 DEF begin_runtime, end_runtime, connect_remote, Shutdown, subscribe, Disconnected,
              TakeReplacement, Attached, AttachFailed
<1>5. CASE \/ ConnectionWrite \/ ConnectionKicked \/ ClientRead \/ ClientClosed
           \/ ConnectionLost \/ Restart \/ UNCHANGED vars
           \/ \E n \in 0..OtherReplay : Reconnect(n)
  <2>1. UNCHANGED histVars
    BY <1>5 DEF ConnectionWrite, ConnectionKicked, ClientRead, ClientClosed, ConnectionLost,
                Restart, Reconnect, vars
  <2> QED
    BY <1>1, <2>1
<1> QED
  BY <1>1, <1>2, <1>3, <1>4, <1>5 DEF Next, Adapter

\* Across kicks, lost connections, replays, replacement clients and daemon
\* restarts, an adapter forwards each event at most once, in the order sent,
\* and only events that were sent: the stream implements EventLog.
THEOREM StreamImplementsLog == Spec => ImplementsEventLog
<1>1. Init => Log!Init
  BY DEF Init, Log!Init
<1> QED
  BY <1>1, InvInductive, StepRefines, PTL DEF Spec, ImplementsEventLog, Log!Spec
=============================================================================
