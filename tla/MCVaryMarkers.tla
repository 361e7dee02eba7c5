--------------------------- MODULE MCVaryMarkers ---------------------------
(* Bounded instances of VaryMarkers for TLC. *)
EXTENDS VaryMarkers, TLC

Symmetric == Permutations(Requests) \cup Permutations(Classes)

=============================================================================
