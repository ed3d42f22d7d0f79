--------------------------- MODULE MCRateLimiter ---------------------------
(* A small instance of RateLimiter for TLC. *)
EXTENDS RateLimiter, TLC

CONSTANTS a, b

TwoClients == {a, b}
Symmetry == Permutations(TwoClients)
=============================================================================
