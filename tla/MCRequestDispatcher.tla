------------------------ MODULE MCRequestDispatcher ------------------------
(* RequestDispatcher on a small instance.                                  *)
EXTENDS RequestDispatcher

CONSTANTS q1, q2, r1, r2

\* The first request is sent twice, as a client that lost its connection would.
MCSends == [q \in {q1, q2} |-> IF q = q1 THEN 2 ELSE 1]

\* Every command, a close that names a runtime nobody starts, and two that
\* clients send without waiting for an answer.
MCCommands ==
  [kind : AllKinds, rt : {r1}, nil : {FALSE}]
    \cup {[kind |-> "CloseSession", rt |-> r2, nil |-> FALSE],
          [kind |-> "CloseSession", rt |-> r1, nil |-> TRUE],
          [kind |-> "SaveTaskState", rt |-> r1, nil |-> TRUE]}
=============================================================================
