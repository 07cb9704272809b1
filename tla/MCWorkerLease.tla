--------------------------- MODULE MCWorkerLease ---------------------------
(* A small instance of WorkerLease: accounts and workers are interchangeable. *)
EXTENDS WorkerLease, TLC

Symmetry == Permutations(Accounts) \cup Permutations(Workers)
=============================================================================
