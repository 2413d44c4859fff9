----------------------------- MODULE MCConnectionPool -----------------------------
(* Model-checking instances of ConnectionPool. *)
EXTENDS ConnectionPool, TLC

Symmetry == Permutations(Procs) \cup Permutations(Keys) \cup Permutations(Clients)
=============================================================================
