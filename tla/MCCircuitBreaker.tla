---------------------------- MODULE MCCircuitBreaker ----------------------------
(* Model-checking instances of CircuitBreaker. *)
EXTENDS CircuitBreaker, TLC

Symmetry == Permutations(Calls)
=============================================================================
