------------------------------ MODULE EventLog ------------------------------
(***************************************************************************)
(* What the daemon's event stream promises to a desktop session adapter:   *)
(* of the events a provider runtime sends, numbered from one, the adapter  *)
(* gets some, each at most once and in the order they were sent.  A gap is *)
(* allowed: the journal is bounded and a stalled client is cut off.        *)
(***************************************************************************)
EXTENDS Naturals, Sequences

CONSTANT Runtimes

VARIABLES
  sent,  \* how many events each runtime has sent
  got    \* numbers of the events the adapter of each runtime has taken

vars == <<sent, got>>

Init ==
  /\ sent = [r \in Runtimes |-> 0]
  /\ got = [r \in Runtimes |-> <<>>]

Send(r) ==
  /\ sent' = [sent EXCEPT ![r] = @ + 1]
  /\ UNCHANGED got

Take(r) ==
  /\ \E n \in 1..sent[r] :
       /\ \A i \in DOMAIN got[r] : got[r][i] < n
       /\ got' = [got EXCEPT ![r] = Append(@, n)]
  /\ UNCHANGED sent

Next == \E r \in Runtimes : Send(r) \/ Take(r)

Spec == Init /\ [][Next]_vars
=============================================================================
