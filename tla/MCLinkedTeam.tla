---------------------------- MODULE MCLinkedTeam ----------------------------
(* Instance of LinkedTeam for TLC. *)
EXTENDS LinkedTeam
=============================================================================
