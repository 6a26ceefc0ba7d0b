---------------------------- MODULE RequestOrder ----------------------------
(***************************************************************************)
(* What the daemon promises to the clients of one task: the task's runtime *)
(* requests, numbered as the dispatcher gets them, are served one at a     *)
(* time in that order, each at most once.  None is skipped, unless threads *)
(* of the daemon may die.                                                  *)
(***************************************************************************)
EXTENDS Naturals

CONSTANT Lossy  \* may a request be skipped? (a Boolean)

VARIABLES
  arrived,  \* number of the last request
  served,   \* number of the last request that was served or is being served
  busy      \* a request is being served

vars == <<arrived, served, busy>>

Init == arrived = 0 /\ served = 0 /\ busy = FALSE

Arrive ==
  /\ arrived' = arrived + 1
  /\ UNCHANGED <<served, busy>>

Begin ==
  /\ ~busy
  /\ \E n \in served + 1 .. arrived :
       /\ Lossy \/ n = served + 1
       /\ served' = n
  /\ busy' = TRUE
  /\ UNCHANGED arrived

End ==
  /\ busy
  /\ busy' = FALSE
  /\ UNCHANGED <<arrived, served>>

Next == Arrive \/ Begin \/ End

Spec == Init /\ [][Next]_vars
=============================================================================
