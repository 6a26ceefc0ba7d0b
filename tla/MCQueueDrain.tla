---------------------------- MODULE MCQueueDrain ----------------------------
(* QueueDrain on small instances.  Entries and clients are interchangeable; *)
(* runtimes too, for no action compares them.                               *)
EXTENDS QueueDrain, TLC

Symmetry ==
  Permutations(Entries) \cup Permutations(Clients) \cup Permutations(Runtimes)
=============================================================================
