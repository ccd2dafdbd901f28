------------------------- MODULE MC_DocumentStorage -------------------------
(* DocumentStorage for TLC: requests are interchangeable. *)
EXTENDS DocumentStorage, TLC

Symmetry == Permutations(Requests)
=============================================================================
