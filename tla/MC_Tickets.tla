------------------------------ MODULE MC_Tickets ------------------------------
(* Tickets for TLC: requests, people and statuses are interchangeable. *)
EXTENDS Tickets, TLC

Symmetry == Permutations(Requests) \cup Permutations(People) \cup Permutations(Statuses)
=============================================================================
