--------------------------- MODULE MCTaskCatalog ---------------------------
(* TaskCatalog on a small instance.  Its clients are alike.                *)
EXTENDS TaskCatalog, TLC

Symmetry == Permutations(Clients)
=============================================================================
