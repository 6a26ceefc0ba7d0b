-------------------------- MODULE QueueMergeProofs --------------------------
(***************************************************************************)
(* The loop of merge_queued_messages computes a merge, and the only one,   *)
(* for every finite set of entries and every pair of queues.               *)
(***************************************************************************)
EXTENDS QueueMerge, FollowUpQueueProofs, FiniteSetTheorems, NaturalLemmas

\* A sequence of entries without a repetition is no longer than there are
\* entries: Queues holds all of them.
LEMMA UniqueIsQueue ==
  ASSUME NEW q \in Queue
  PROVE  q \in Queues
<1>1. q \in [1..Len(q) -> Entries] /\ Len(q) \in Nat /\ UniqueIds(q)
  BY DEF Queue
<1>2. q \in Injection(1..Len(q), Entries)
  BY <1>1 DEF Injection, IsInjective, UniqueIds
<1>3. Cardinality(1..Len(q)) <= Cardinality(Entries)
  BY <1>2, EntriesAssumption, FS_Injection
<1>4. Cardinality(1..Len(q)) = Len(q)
  <2>1. 1 \in Int /\ Len(q) \in Int
    BY <1>1
  <2>2. Cardinality(1..Len(q)) = IF 1 > Len(q) THEN 0 ELSE Len(q) - 1 + 1
    BY <2>1, FS_Interval
  <2> QED
    BY <1>1, <2>2
<1>5. Cardinality(Entries) \in Nat
  BY EntriesAssumption, FS_CardinalityType
<1>6. Len(q) \in 0..Cardinality(Entries)
  BY <1>1, <1>3, <1>4, <1>5
<1> QED
  BY <1>1, <1>6 DEF Queues, QueueOf

\* Members of Queues are sequences.
LEMMA QueuesAreUnique ==
  ASSUME NEW q \in Queues
  PROVE  q \in Seq(Entries) /\ UniqueIds(q)
<1>1. PICK n \in 0..Cardinality(Entries) : q \in QueueOf(n)
  BY DEF Queues
<1>2. Cardinality(Entries) \in Nat
  BY EntriesAssumption, FS_CardinalityType
<1>3. n \in Nat
  BY <1>2
<1> QED
  BY <1>1, <1>3 DEF QueueOf

LEMMA MergeInit == Init => IInv
<1> SUFFICES ASSUME Init PROVE IInv
  OBVIOUS
<1>1. /\ existing \in Seq(Entries) /\ UniqueIds(existing)
      /\ incoming \in Seq(Entries) /\ UniqueIds(incoming)
  BY QueuesAreUnique DEF Init
<1>2. Len(incoming) \in Nat /\ 1..(next - 1) = {}
  BY <1>1 DEF Init
<1> QED
  BY <1>1, <1>2 DEF Init, IInv, MergedSoFar

\* Passing over an entry that is there already.
LEMMA KnownStep == IInv /\ Known => IInv'
<1> SUFFICES ASSUME IInv, Known PROVE IInv'
  OBVIOUS
<1> USE DEF Known
<1>1. next \in Nat /\ next >= 1 /\ next <= Len(incoming) /\ Len(incoming) \in Nat
  BY DEF IInv, MergedSoFar
<1>2. 1..(next' - 1) = 1..(next - 1) \cup {next}
  BY <1>1
<1>3. {incoming'[k] : k \in 1..(next' - 1)} =
        {incoming[k] : k \in 1..(next - 1)} \cup {incoming[next]}
  BY <1>2
<1>4. Range(merged') = Range(existing') \cup {incoming'[k] : k \in 1..(next' - 1)}
  BY <1>3 DEF IInv, MergedSoFar
<1>5. next' \in 1..(Len(incoming') + 1)
  BY <1>1
<1>6. \A i \in DOMAIN merged' \ DOMAIN existing' :
        \E a \in 1..(next' - 1) : incoming'[a] = merged'[i]
  BY <1>2 DEF IInv, MergedSoFar
<1>7. \A i, j \in DOMAIN merged' \ DOMAIN existing' :
        i < j => \E a, b \in 1..(next' - 1) :
                   a < b /\ incoming'[a] = merged'[i] /\ incoming'[b] = merged'[j]
  BY <1>2 DEF IInv, MergedSoFar
<1> QED
  BY <1>4, <1>5, <1>6, <1>7 DEF IInv, MergedSoFar

\* Pushing one that is not.
LEMMA PushStep == IInv /\ Push => IInv'
<1> SUFFICES ASSUME IInv, Push PROVE IInv'
  OBVIOUS
<1> USE DEF Push
<1> DEFINE e == incoming[next]
<1>1. /\ next \in Nat /\ next >= 1 /\ next <= Len(incoming) /\ Len(incoming) \in Nat
      /\ merged \in Seq(Entries) /\ Len(merged) \in Nat /\ DOMAIN merged = 1..Len(merged)
      /\ existing \in Seq(Entries) /\ Len(existing) \in Nat
      /\ DOMAIN existing = 1..Len(existing) /\ Len(existing) <= Len(merged)
      /\ incoming \in Seq(Entries) /\ e \in Entries
  BY DEF IInv, MergedSoFar
<1>2. /\ merged' \in Seq(Entries) /\ Len(merged') = Len(merged) + 1
      /\ DOMAIN merged' = 1..(Len(merged) + 1)
      /\ \A i \in 1..Len(merged) : merged'[i] = merged[i]
      /\ merged'[Len(merged) + 1] = e
  BY <1>1
<1>3. 1..(next' - 1) = 1..(next - 1) \cup {next}
  BY <1>1
<1>4. UniqueIds(merged')
  <2>1. merged \in Queue /\ e \notin Range(merged)
    BY DEF IInv, Queue
  <2> QED
    BY <1>1, <2>1, AppendIsQueue
<1>5. Range(merged') = Range(existing') \cup {incoming'[k] : k \in 1..(next' - 1)}
  <2>1. Range(merged') = Range(merged) \cup {e}
    <3>1. ASSUME NEW x \in Range(merged') PROVE x \in Range(merged) \cup {e}
      BY <1>1, <1>2, <3>1 DEF Range
    <3>2. ASSUME NEW x \in Range(merged) PROVE x \in Range(merged')
      <4>1. PICK i \in 1..Len(merged) : x = merged[i]
        BY <1>1, <3>2 DEF Range
      <4>2. i \in DOMAIN merged' /\ merged'[i] = x
        BY <1>1, <1>2, <4>1
      <4> QED
        BY <4>2 DEF Range
    <3>3. e \in Range(merged')
      <4>1. Len(merged) + 1 \in DOMAIN merged'
        BY <1>1, <1>2
      <4> QED
        BY <1>2, <4>1 DEF Range
    <3> QED
      BY <3>1, <3>2, <3>3
  <2>2. {incoming'[k] : k \in 1..(next' - 1)} =
          {incoming[k] : k \in 1..(next - 1)} \cup {e}
    BY <1>3
  <2> QED
    BY <2>1, <2>2 DEF IInv, MergedSoFar
<1>6. \A i \in DOMAIN existing' : merged'[i] = existing'[i]
  BY <1>1, <1>2 DEF IInv, MergedSoFar
<1>7. \A i \in DOMAIN merged' \ DOMAIN existing' :
        \E a \in 1..(next' - 1) : incoming'[a] = merged'[i]
  <2>1. SUFFICES ASSUME NEW i \in DOMAIN merged' \ DOMAIN existing'
                 PROVE  \E a \in 1..(next - 1) \cup {next} : incoming[a] = merged'[i]
    BY <1>3
  <2>2. CASE i = Len(merged) + 1
    BY <1>2, <2>2
  <2>3. CASE i # Len(merged) + 1
    <3>1. i \in DOMAIN merged \ DOMAIN existing /\ merged'[i] = merged[i]
      BY <1>1, <1>2, <2>1, <2>3
    <3> QED
      BY <3>1 DEF IInv, MergedSoFar
  <2> QED
    BY <2>2, <2>3
<1>8. \A i, j \in DOMAIN merged' \ DOMAIN existing' :
        i < j => \E a, b \in 1..(next' - 1) :
                   a < b /\ incoming'[a] = merged'[i] /\ incoming'[b] = merged'[j]
  <2>1. SUFFICES ASSUME NEW i \in DOMAIN merged' \ DOMAIN existing',
                        NEW j \in DOMAIN merged' \ DOMAIN existing', i < j
                 PROVE  \E a, b \in 1..(next' - 1) :
                          a < b /\ incoming'[a] = merged'[i] /\ incoming'[b] = merged'[j]
    OBVIOUS
  <2>2. i \in DOMAIN merged \ DOMAIN existing /\ merged'[i] = merged[i]
    BY <1>1, <1>2, <2>1
  <2>3. CASE j = Len(merged) + 1
    <3>1. PICK a \in 1..(next - 1) : incoming[a] = merged[i]
      BY <2>2 DEF IInv, MergedSoFar
    <3>2. a < next /\ incoming[next] = merged'[j]
      BY <1>1, <1>2, <2>3
    <3>3. a \in 1..(next' - 1) /\ next \in 1..(next' - 1)
      BY <1>3
    <3> QED
      BY <2>2, <3>1, <3>2, <3>3
  <2>4. CASE j # Len(merged) + 1
    <3>1. j \in DOMAIN merged \ DOMAIN existing /\ merged'[j] = merged[j]
      BY <1>1, <1>2, <2>1, <2>4
    <3>2. PICK a \in 1..(next - 1), b \in 1..(next - 1) :
            a < b /\ incoming[a] = merged[i] /\ incoming[b] = merged[j]
      BY <2>1, <2>2, <3>1 DEF IInv, MergedSoFar
    <3>3. a \in 1..(next' - 1) /\ b \in 1..(next' - 1)
      BY <1>3
    <3> QED
      BY <2>2, <3>1, <3>2, <3>3
  <2> QED
    BY <2>3, <2>4
<1>9. next' \in 1..(Len(incoming') + 1) /\ Len(existing') <= Len(merged')
  BY <1>1, <1>2
<1> QED
  BY <1>2, <1>4, <1>5, <1>6, <1>7, <1>8, <1>9 DEF IInv, MergedSoFar

LEMMA MergeStep == IInv /\ [Next]_vars => IInv'
<1>1. IInv /\ UNCHANGED vars => IInv'
  BY DEF IInv, MergedSoFar, vars
<1> QED
  BY <1>1, KnownStep, PushStep DEF Next

\* When every entry of the snapshot has been looked at, what holds between
\* iterations is what Merges asks for.
LEMMA DoneIsMerge == IInv => LoopMerges
<1> SUFFICES ASSUME IInv, Done PROVE merged \in Merges(existing, incoming)
  BY DEF LoopMerges
<1>1. Len(incoming) \in Nat /\ DOMAIN incoming = 1..Len(incoming)
  BY DEF IInv
<1>2. 1..(next - 1) = DOMAIN incoming
  BY <1>1 DEF IInv, MergedSoFar, Done
<1>3. Range(merged) = Range(existing) \cup Range(incoming)
  BY <1>2 DEF IInv, MergedSoFar, Range
<1>4. \A i, j \in DOMAIN merged \ DOMAIN existing :
        i < j => \E a, b \in DOMAIN incoming :
                   a < b /\ incoming[a] = merged[i] /\ incoming[b] = merged[j]
  BY <1>2 DEF IInv, MergedSoFar
<1>5. merged \in Queues
  BY UniqueIsQueue DEF IInv, Queue
<1> QED
  BY <1>3, <1>4, <1>5 DEF IInv, MergedSoFar, Merges

\* The loop of merge_queued_messages ends with a merge of the daemon's queue and
\* the client's snapshot.
THEOREM LoopIsMerge == Spec => []LoopMerges
BY MergeInit, MergeStep, DoneIsMerge, PTL DEF Spec

-----------------------------------------------------------------------------
(* A merge leaves no choice.                                               *)

\* What two merges that agree before an index have at it: the entry the first
\* holds there is in the second too, at that index or after it.
LEMMA AgreeingPlace ==
  ASSUME NEW q \in Queue, NEW in \in Queue, NEW m \in Merges(q, in), NEW p \in Merges(q, in),
         NEW i \in DOMAIN p, \A j \in 1..(i - 1) : j \in DOMAIN m /\ p[j] = m[j]
  PROVE  i \in DOMAIN m /\ \E k \in DOMAIN m : k >= i /\ m[k] = p[i]
<1>1. /\ p \in Seq(Entries) /\ UniqueIds(p) /\ m \in Seq(Entries) /\ Range(p) = Range(m)
      /\ DOMAIN p = 1..Len(p) /\ DOMAIN m = 1..Len(m) /\ Len(p) \in Nat /\ Len(m) \in Nat
  <2>1. p \in Seq(Entries) /\ UniqueIds(p) /\ Range(p) = Range(q) \cup Range(in)
    BY MergesIsQueue
  <2>2. m \in Seq(Entries) /\ Range(m) = Range(q) \cup Range(in)
    BY MergesIsQueue
  <2> QED
    BY <2>1, <2>2
<1>2. p[i] \in Range(m)
  BY <1>1 DEF Range
<1>3. PICK k \in DOMAIN m : m[k] = p[i]
  BY <1>2 DEF Range
<1>4. k >= i
  <2>1. SUFFICES ASSUME k < i PROVE FALSE
    BY <1>1
  <2>2. k \in 1..(i - 1) /\ k \in DOMAIN p
    BY <1>1, <2>1
  <2>3. p[k] = p[i]
    BY <1>3, <2>2
  <2> QED
    BY <1>1, <2>1, <2>2, <2>3 DEF UniqueIds
<1>5. i \in DOMAIN m
  BY <1>1, <1>4
<1> QED
  BY <1>3, <1>4, <1>5

\* Two merges that agree before an index agree at it: the daemon's entries stand
\* there in both, or the client's order decides.
LEMMA AgreeingEntry ==
  ASSUME NEW q \in Queue, NEW in \in Queue, NEW m \in Merges(q, in), NEW p \in Merges(q, in),
         NEW i \in DOMAIN p, \A j \in 1..(i - 1) : j \in DOMAIN m /\ j \in DOMAIN p /\ p[j] = m[j]
  PROVE  i \in DOMAIN m /\ p[i] = m[i]
<1>1. i \in DOMAIN m
  BY AgreeingPlace
<1>2. PICK k \in DOMAIN m : k >= i /\ m[k] = p[i]
  BY AgreeingPlace
<1>3. PICK l \in DOMAIN p : l >= i /\ p[l] = m[i]
  BY <1>1, AgreeingPlace
<1>4. /\ DOMAIN p = 1..Len(p) /\ DOMAIN m = 1..Len(m) /\ Len(p) \in Nat /\ Len(m) \in Nat
      /\ DOMAIN q = 1..Len(q) /\ Len(q) \in Nat /\ UniqueIds(in)
      /\ \A j \in DOMAIN q : p[j] = q[j] /\ m[j] = q[j]
  BY MergesIsQueue DEF Queue
<1>5. SUFFICES ASSUME p[i] # m[i] PROVE FALSE
  BY <1>1
<1>6. i < k /\ i < l
  BY <1>2, <1>3, <1>4, <1>5
<1>7. i \notin DOMAIN q
  BY <1>4, <1>5
<1>8. k \notin DOMAIN q /\ l \notin DOMAIN q
  BY <1>4, <1>6, <1>7
<1>9. PICK a \in DOMAIN in, b \in DOMAIN in : a < b /\ in[a] = m[i] /\ in[b] = m[k]
  BY <1>1, <1>6, <1>7, <1>8 DEF Merges
<1>10. PICK c \in DOMAIN in, d \in DOMAIN in : c < d /\ in[c] = p[i] /\ in[d] = p[l]
  BY <1>6, <1>7, <1>8 DEF Merges
<1>11. a = d /\ b = c
  BY <1>2, <1>3, <1>4, <1>9, <1>10 DEF UniqueIds
<1>12. DOMAIN in \subseteq Nat
  BY DEF Queue
<1> QED
  BY <1>9, <1>10, <1>11, <1>12

LEMMA OneMerge ==
  ASSUME NEW q \in Queue, NEW in \in Queue, NEW m \in Merges(q, in), NEW p \in Merges(q, in)
  PROVE  p = m
<1>1. /\ p \in Seq(Entries) /\ m \in Seq(Entries)
      /\ DOMAIN p = 1..Len(p) /\ DOMAIN m = 1..Len(m) /\ Len(p) \in Nat /\ Len(m) \in Nat
  BY MergesIsQueue
<1> DEFINE Agree(i) == i \in DOMAIN p /\ i \in DOMAIN m /\ p[i] = m[i]
           Differ == {i \in DOMAIN p \cup DOMAIN m : ~Agree(i)}
<1>2. Differ = {}
  <2>1. SUFFICES ASSUME Differ # {} PROVE FALSE
    OBVIOUS
  <2>2. Differ \in SUBSET Nat
    BY <1>1
  <2> HIDE DEF Differ
  <2>3. PICK i \in Differ : \A j \in Differ : i <= j
    BY <2>1, <2>2, LeastElement
  <2> USE DEF Differ
  <2>4. i \in Nat /\ (i \in DOMAIN p \/ i \in DOMAIN m) /\ ~Agree(i)
    BY <1>1, <2>3
  <2>5. ASSUME NEW j \in 1..(i - 1) PROVE Agree(j)
    <3>1. j < i /\ (j \in DOMAIN p \/ j \in DOMAIN m)
      BY <1>1, <2>4
    <3>2. j \notin Differ
      BY <2>2, <2>3, <2>4, <3>1
    <3> QED
      BY <3>1, <3>2
  <2>6. CASE i \in DOMAIN p
    BY <2>4, <2>5, <2>6, AgreeingEntry
  <2>7. CASE i \in DOMAIN m
    BY <2>4, <2>5, <2>7, AgreeingEntry
  <2> QED
    BY <2>4, <2>6, <2>7
<1>3. DOMAIN p = DOMAIN m /\ \A i \in DOMAIN p : p[i] = m[i]
  BY <1>2
<1> QED
  BY <1>1, <1>3

\* The loop's vector is the one merge there is: Merges(existing, incoming), which
\* the queue's other modules take a member of, is what the code computes.
THEOREM OnlyOneMerge == Spec => []LoopIsOnlyMerge
<1>1. IInv => LoopIsOnlyMerge
  <2> SUFFICES ASSUME IInv, Done, NEW m \in Merges(existing, incoming) PROVE m = merged
    BY DEF LoopIsOnlyMerge
  <2>1. merged \in Merges(existing, incoming)
    BY DoneIsMerge DEF LoopMerges
  <2>2. existing \in Queue /\ incoming \in Queue
    BY DEF IInv, Queue
  <2> QED
    BY <2>1, <2>2, OneMerge
<1> QED
  BY <1>1, MergeInit, MergeStep, PTL DEF Spec
=============================================================================
