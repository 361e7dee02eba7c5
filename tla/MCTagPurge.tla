---------------------------- MODULE MCTagPurge -----------------------------
(* A bounded instance of TagPurge for TLC. *)
EXTENDS TagPurge

=============================================================================
