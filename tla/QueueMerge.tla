----------------------------- MODULE QueueMerge -----------------------------
(***************************************************************************)
(* The loop of merge_queued_messages, an iteration a step: the evidence    *)
(* that Merges, which QueueDrain uses, is what the loop computes.          *)
(***************************************************************************)
EXTENDS FollowUpQueue

ASSUME EntriesAssumption == IsFiniteSet(Entries)

VARIABLES
  existing,  \* existing.queued_messages
  incoming,  \* the client's snapshot
  next,      \* index of the next entry of incoming
  merged     \* the local vector

vars == <<existing, incoming, next, merged>>

Init ==
  /\ existing \in Queues
  /\ incoming \in Queues
  /\ next = 1
  /\ merged = existing

\* An id the merged queue already holds is passed over.
Known ==
  /\ next <= Len(incoming)
  /\ incoming[next] \in Range(merged)
  /\ next' = next + 1
  /\ UNCHANGED <<existing, incoming, merged>>

\* Mutant: the new entry goes in front.
PushFront ==
  /\ next <= Len(incoming)
  /\ incoming[next] \notin Range(merged)
  /\ merged' = <<incoming[next]>> \o merged
  /\ next' = next + 1
  /\ UNCHANGED <<existing, incoming>>

\* Any other is pushed.
Push ==
  /\ next <= Len(incoming)
  /\ incoming[next] \notin Range(merged)
  /\ merged' = Append(merged, incoming[next])
  /\ next' = next + 1
  /\ UNCHANGED <<existing, incoming>>

Next == Known \/ Push

Spec == Init /\ [][Next]_vars

-----------------------------------------------------------------------------
\* When the loop of merge_queued_messages ends, its vector is a merge.
Done == next > Len(incoming)
LoopMerges == Done => merged \in Merges(existing, incoming)

\* And no other queue is one: Merges leaves QueueDrain no choice that the code
\* does not have.
LoopIsOnlyMerge == Done => Merges(existing, incoming) \subseteq {merged}

\* What holds between iterations: the entries before next are merged.
MergedSoFar ==
  /\ next \in 1..(Len(incoming) + 1)
  /\ Len(existing) <= Len(merged)
  /\ \A i \in DOMAIN existing : merged[i] = existing[i]
  /\ Range(merged) = Range(existing) \cup {incoming[k] : k \in 1..(next - 1)}
  /\ \A i \in DOMAIN merged \ DOMAIN existing :
       \E a \in 1..(next - 1) : incoming[a] = merged[i]
  /\ \A i, j \in DOMAIN merged \ DOMAIN existing :
       i < j => \E a, b \in 1..(next - 1) :
                  a < b /\ incoming[a] = merged[i] /\ incoming[b] = merged[j]
IInv ==
  /\ existing \in Seq(Entries) /\ UniqueIds(existing)
  /\ incoming \in Seq(Entries) /\ UniqueIds(incoming)
  /\ merged \in Seq(Entries) /\ UniqueIds(merged)
  /\ MergedSoFar
=============================================================================
