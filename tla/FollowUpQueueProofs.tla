------------------------ MODULE FollowUpQueueProofs ------------------------
(***************************************************************************)
(* What the operations of FollowUpQueue preserve, whatever the entries.    *)
(***************************************************************************)
EXTENDS FollowUpQueue, TLAPS

Queue == {q \in Seq(Entries) : UniqueIds(q)}

\* A merge of two queues is a queue that starts with the first and holds
\* exactly the ids of both.
LEMMA MergesIsQueue ==
  ASSUME NEW q \in Queue, NEW in \in Queue, NEW m \in Merges(q, in)
  PROVE  /\ m \in Seq(Entries) /\ UniqueIds(m)
         /\ Range(m) = Range(q) \cup Range(in)
         /\ Len(q) <= Len(m) /\ \A i \in DOMAIN q : m[i] = q[i]
<1>1. m \in Queues
  BY DEF Merges
<1>2. PICK n \in 0..Cardinality(Entries) : m \in QueueOf(n)
  BY <1>1 DEF Queues
<1>3. n \in Nat
  OBVIOUS
<1>4. m \in [1..n -> Entries] /\ UniqueIds(m)
  BY <1>2 DEF QueueOf
<1>5. m \in Seq(Entries)
  BY <1>3, <1>4
<1> QED
  BY <1>4, <1>5 DEF Merges

\* Dropping the head leaves a queue of the other ids, in their order.
LEMMA TailIsQueue ==
  ASSUME NEW q \in Queue, q # <<>>
  PROVE  /\ Tail(q) \in Seq(Entries) /\ UniqueIds(Tail(q))
         /\ Range(Tail(q)) = Range(q) \ {Head(q)}
         /\ Head(q) \in Entries /\ Head(q) \in Range(q)
         /\ KeepsOrder(q, Tail(q))
<1>1. /\ q \in Seq(Entries) /\ Len(q) \in Nat /\ Len(q) > 0
      /\ DOMAIN q = 1..Len(q)
  BY DEF Queue
<1>2. /\ Tail(q) \in Seq(Entries) /\ Len(Tail(q)) = Len(q) - 1
      /\ \A i \in 1..(Len(q) - 1) : Tail(q)[i] = q[i + 1]
      /\ Head(q) = q[1]
  BY <1>1
<1>3. UniqueIds(Tail(q))
  <2>1. SUFFICES ASSUME NEW i \in 1..(Len(q) - 1), NEW j \in 1..(Len(q) - 1),
                        q[i + 1] = q[j + 1]
                 PROVE  i = j
    BY <1>1, <1>2 DEF UniqueIds
  <2>2. i + 1 \in 1..Len(q) /\ j + 1 \in 1..Len(q)
    BY <1>1
  <2> QED
    BY <1>1, <2>1, <2>2 DEF UniqueIds, Queue
<1>4. ASSUME NEW x \in Range(Tail(q)) PROVE x \in Range(q) \ {Head(q)}
  <2>1. PICK i \in 1..(Len(q) - 1) : x = q[i + 1]
    BY <1>1, <1>2, <1>4 DEF Range
  <2>2. i + 1 \in 1..Len(q) /\ 1 \in 1..Len(q) /\ i + 1 # 1
    BY <1>1
  <2>3. q[i + 1] # q[1]
    BY <1>1, <2>2 DEF UniqueIds, Queue
  <2> QED
    BY <1>1, <1>2, <2>1, <2>2, <2>3 DEF Range
<1>5. ASSUME NEW x \in Range(q) \ {Head(q)} PROVE x \in Range(Tail(q))
  <2>1. PICK i \in 1..Len(q) : x = q[i]
    BY <1>1, <1>5 DEF Range
  <2>2. i # 1
    BY <1>2, <1>5, <2>1
  <2>3. i - 1 \in 1..(Len(q) - 1) /\ (i - 1) + 1 = i
    BY <1>1, <2>2
  <2>4. Tail(q)[i - 1] = x
    BY <1>2, <2>1, <2>3
  <2>5. DOMAIN Tail(q) = 1..(Len(q) - 1)
    BY <1>1, <1>2
  <2> QED
    BY <2>3, <2>4, <2>5 DEF Range
<1>6. Head(q) \in Entries /\ Head(q) \in Range(q)
  BY <1>1, <1>2 DEF Range
<1>7. KeepsOrder(q, Tail(q))
  <2>1. SUFFICES ASSUME NEW i \in 1..Len(q), NEW j \in 1..Len(q),
                        NEW k \in 1..(Len(q) - 1), NEW l \in 1..(Len(q) - 1),
                        q[i] = q[k + 1], q[j] = q[l + 1], i < j
                 PROVE  k < l
    BY <1>1, <1>2 DEF KeepsOrder
  <2>2. k + 1 \in 1..Len(q) /\ l + 1 \in 1..Len(q)
    BY <1>1
  <2>3. i = k + 1 /\ j = l + 1
    BY <1>1, <2>1, <2>2 DEF UniqueIds, Queue
  <2> QED
    BY <1>1, <2>1, <2>3
<1> QED
  BY <1>2, <1>3, <1>4, <1>5, <1>6, <1>7

\* Appending an id the queue does not hold leaves a queue.
LEMMA AppendIsQueue ==
  ASSUME NEW q \in Queue, NEW e \in Entries, e \notin Range(q)
  PROVE  Append(q, e) \in Seq(Entries) /\ UniqueIds(Append(q, e))
<1>1. q \in Seq(Entries) /\ Len(q) \in Nat /\ DOMAIN q = 1..Len(q)
  BY DEF Queue
<1>2. /\ Append(q, e) \in Seq(Entries) /\ Len(Append(q, e)) = Len(q) + 1
      /\ \A i \in 1..Len(q) : Append(q, e)[i] = q[i]
      /\ Append(q, e)[Len(q) + 1] = e
      /\ DOMAIN Append(q, e) = 1..(Len(q) + 1)
  BY <1>1
<1>3. \A i \in 1..Len(q) : q[i] # e
  BY <1>1 DEF Range
<1>4. UniqueIds(Append(q, e))
  <2>1. SUFFICES ASSUME NEW i \in 1..(Len(q) + 1), NEW j \in 1..(Len(q) + 1),
                        Append(q, e)[i] = Append(q, e)[j]
                 PROVE  i = j
    BY <1>2 DEF UniqueIds
  <2>2. CASE i \in 1..Len(q) /\ j \in 1..Len(q)
    BY <1>1, <1>2, <2>1, <2>2 DEF UniqueIds, Queue
  <2>3. CASE i = Len(q) + 1 \/ j = Len(q) + 1
    BY <1>1, <1>2, <1>3, <2>1, <2>3
  <2> QED
    BY <1>1, <2>2, <2>3
<1> QED
  BY <1>2, <1>4

\* Removing an id leaves a queue of the other ids, in their order.
LEMMA WithoutIsQueue ==
  ASSUME NEW q \in Queue, NEW e \in Entries
  PROVE  /\ Without(q, e) \in Seq(Entries) /\ UniqueIds(Without(q, e))
         /\ Range(Without(q, e)) = Range(q) \ {e}
         /\ KeepsOrder(q, Without(q, e))
<1>1. /\ q \in Seq(Entries) /\ Len(q) \in Nat /\ DOMAIN q = 1..Len(q)
      /\ \A i, j \in 1..Len(q) : q[i] = q[j] => i = j
  BY DEF Queue, UniqueIds
<1>2. CASE e \notin Range(q)
  <2>1. Without(q, e) = q
    BY <1>2 DEF Without
  <2>2. KeepsOrder(q, q)
    BY <1>1 DEF KeepsOrder
  <2> QED
    BY <1>1, <1>2, <2>1, <2>2 DEF Queue
<1>3. CASE e \in Range(q)
  <2> DEFINE p == CHOOSE i \in DOMAIN q : q[i] = e
             w == [i \in 1..(Len(q) - 1) |-> IF i < p THEN q[i] ELSE q[i + 1]]
             from(i) == IF i < p THEN i ELSE i + 1
  <2>1. p \in 1..Len(q) /\ q[p] = e
    BY <1>1, <1>3 DEF Range
  <2>2. Without(q, e) = w
    BY <1>3 DEF Without
  <2> HIDE DEF p
  <2>3. \A i \in 1..(Len(q) - 1) :
          from(i) \in 1..Len(q) /\ from(i) # p /\ w[i] = q[from(i)]
    BY <1>1, <2>1
  <2>4. \A i, j \in 1..(Len(q) - 1) :
          /\ from(i) = from(j) => i = j
          /\ from(i) < from(j) => i < j
    BY <1>1, <2>1
  <2>5. \A k \in 1..Len(q) :
          k # p => \E i \in 1..(Len(q) - 1) : from(i) = k
    <3>1. TAKE k \in 1..Len(q)
    <3>2. HAVE k # p
    <3>3. CASE k < p
      <4>1. k \in 1..(Len(q) - 1) /\ from(k) = k
        BY <1>1, <2>1, <3>1, <3>3
      <4> QED
        BY <4>1
    <3>4. CASE k > p
      <4>1. k - 1 \in 1..(Len(q) - 1) /\ from(k - 1) = k
        BY <1>1, <2>1, <3>1, <3>4
      <4> QED
        BY <4>1
    <3> QED
      BY <1>1, <2>1, <3>2, <3>3, <3>4
  <2> HIDE DEF from
  <2>6. \A i \in 1..(Len(q) - 1) : w[i] \in Entries
    <3>1. \A k \in 1..Len(q) : q[k] \in Entries
      BY <1>1
    <3> QED
      BY <2>3, <3>1
  <2>7. w \in Seq(Entries) /\ DOMAIN w = 1..(Len(q) - 1)
    <3>1. Len(q) - 1 \in Nat
      BY <1>1, <2>1
    <3>2. w \in [1..(Len(q) - 1) -> Entries]
      BY <2>6
    <3> QED
      BY <3>1, <3>2
  <2> HIDE DEF w
  <2>8. UniqueIds(w)
    BY <1>1, <2>3, <2>4, <2>7 DEF UniqueIds
  <2>9. Range(w) = Range(q) \ {e}
    <3>1. ASSUME NEW x \in Range(w) PROVE x \in Range(q) \ {e}
      BY <1>1, <2>1, <2>3, <2>7, <3>1 DEF Range
    <3>2. ASSUME NEW x \in Range(q) \ {e} PROVE x \in Range(w)
      <4>1. PICK k \in 1..Len(q) : x = q[k] /\ k # p
        BY <1>1, <2>1, <3>2 DEF Range
      <4>2. PICK i \in 1..(Len(q) - 1) : from(i) = k
        BY <2>5, <4>1
      <4> QED
        BY <2>3, <2>7, <4>1, <4>2 DEF Range
    <3> QED
      BY <3>1, <3>2
  <2>10. KeepsOrder(q, w)
    <3>1. SUFFICES ASSUME NEW i \in 1..Len(q), NEW j \in 1..Len(q),
                          NEW k \in 1..(Len(q) - 1), NEW l \in 1..(Len(q) - 1),
                          q[i] = w[k], q[j] = w[l], i < j
                   PROVE  k < l
      BY <1>1, <2>7 DEF KeepsOrder
    <3>2. i = from(k) /\ j = from(l)
      BY <1>1, <2>3, <3>1
    <3> QED
      BY <2>4, <3>1, <3>2
  <2> QED
    BY <2>2, <2>7, <2>8, <2>9, <2>10
<1> QED
  BY <1>2, <1>3
=============================================================================
