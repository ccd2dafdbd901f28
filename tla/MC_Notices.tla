---------------------------- MODULE MC_Notices ----------------------------
(* Notices for TLC. *)
EXTENDS Notices
=============================================================================
