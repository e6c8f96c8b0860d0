---------------------------- MODULE MCSharedRoom ----------------------------
(* Model-checking instance of SharedRoom. *)
EXTENDS SharedRoom, TLC

Symmetry == Permutations(Sessions) \union Permutations(Requests)
==============================================================================
