--------------------------- MODULE FollowUpQueue ---------------------------
(***************************************************************************)
(* The follow-up queue of a task as a value: a sequence of message ids,    *)
(* none of them twice, and what daemon.rs and the clients do to it.        *)
(***************************************************************************)
EXTENDS Naturals, Sequences, FiniteSets, Functions

CONSTANT Entries  \* ids of queued messages

\* A queue holds an id at most once.
UniqueIds(q) == \A i, j \in DOMAIN q : q[i] = q[j] => i = j
QueueOf(n) == {q \in [1..n -> Entries] : UniqueIds(q)}
Queues == UNION {QueueOf(n) : n \in 0..Cardinality(Entries)}

\* Mutant: the merge without its test for a known id.
MergesUnchecked(q, in) == {q \o in}

\* Mutant: the client's snapshot replaces the queue.
MergesReplaced(q, in) == {in}

\* Mutant: the client's snapshot in front, the daemon's other entries after it.
MergesClientFirst(q, in) == {in \o SelectSeq(q, LAMBDA e : e \notin Range(in))}

\* Mutant: the client's unknown entries follow in any order.
MergesAnyOrder(q, in) ==
  {m \in Queues :
     /\ Len(q) <= Len(m)
     /\ \A i \in DOMAIN q : m[i] = q[i]
     /\ Range(m) = Range(q) \cup Range(in)}

\* merge_queued_messages, and the same loop at the end of
\* merge_stale_session_metadata: the daemon's entries stay in place, the
\* client's unknown entries follow in the client's order.
Merges(q, in) ==
  {m \in Queues :
     /\ Len(q) <= Len(m)
     /\ \A i \in DOMAIN q : m[i] = q[i]
     /\ Range(m) = Range(q) \cup Range(in)
     /\ \A i, j \in DOMAIN m \ DOMAIN q :
          i < j => \E a, b \in DOMAIN in : a < b /\ in[a] = m[i] /\ in[b] = m[j]}

\* retain(|queued| queued.id != e) on a queue without duplicate ids.
Without(q, e) ==
  IF e \in Range(q)
  THEN LET p == CHOOSE i \in DOMAIN q : q[i] = e
       IN  [i \in 1..(Len(q) - 1) |-> IF i < p THEN q[i] ELSE q[i + 1]]
  ELSE q

\* Two entries that both queues hold are in the same order in both.
KeepsOrder(q, next) ==
  \A i, j \in DOMAIN q, k, l \in DOMAIN next :
    q[i] = next[k] /\ q[j] = next[l] /\ i < j => k < l
=============================================================================
