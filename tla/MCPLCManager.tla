------------------------------ MODULE MCPLCManager ------------------------------
(* Model-checking instances of PLCManager. *)
EXTENDS PLCManager, TLC

Symmetry == Permutations(PLCs) \cup Permutations(Monitors)
=============================================================================
