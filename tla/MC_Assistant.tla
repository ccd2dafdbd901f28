---------------------------- MODULE MC_Assistant ----------------------------
(* Assistant for TLC: servers, changes and questions are interchangeable. *)
EXTENDS Assistant, TLC

Symmetry == Permutations(Servers) \cup Permutations(Changes) \cup Permutations(Asks)
=============================================================================
