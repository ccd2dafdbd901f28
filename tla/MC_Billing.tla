---------------------------- MODULE MC_Billing ----------------------------
(* Billing for TLC: users, customers, sessions and calls are interchangeable. *)
EXTENDS Billing, TLC

Symmetry == Permutations(Users) \cup Permutations(Customers)
              \cup Permutations(Sessions) \cup Permutations(Calls)
=============================================================================
