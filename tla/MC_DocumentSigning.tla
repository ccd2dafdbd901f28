------------------------ MODULE MC_DocumentSigning ------------------------
(* DocumentSigning for TLC: requests and addresses are interchangeable. *)
EXTENDS DocumentSigning, TLC

Symmetry == Permutations(Requests) \cup Permutations(Emails)
=============================================================================
