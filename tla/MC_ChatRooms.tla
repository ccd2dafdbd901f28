---------------------------- MODULE MC_ChatRooms ----------------------------
(* ChatRooms for TLC: requests and users are interchangeable. *)
EXTENDS ChatRooms, TLC

Symmetry == Permutations(Requests) \cup Permutations(Users)
=============================================================================
