-------------------------- MODULE MCSingleFlight ---------------------------
(* Bounded instances of SingleFlight for TLC. *)
EXTENDS SingleFlight, TLC

Symmetry == Permutations(Requests)

=============================================================================
