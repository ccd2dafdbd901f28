----------------------------- MODULE MC_Accounts -----------------------------
(* Accounts for TLC: requests are interchangeable, and a settings form says  *)
(* nothing of Drive, switches the copying off or on, or gives a token.       *)
EXTENDS Accounts, TLC

Symmetry == Permutations(Requests)

SomeForms == {[token |-> None, sync |-> s] : s \in {None, FALSE, TRUE}} \cup {[token |-> TRUE, sync |-> None]}
=============================================================================
