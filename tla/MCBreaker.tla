----------------------------- MODULE MCBreaker -----------------------------
(* Bounded instances of Breaker for TLC. *)
EXTENDS Breaker, TLC

Symmetry == Permutations(Requests)

=============================================================================
