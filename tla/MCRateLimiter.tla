--------------------------- MODULE MCRateLimiter ---------------------------
(* Instances of RateLimiter for TLC. *)
EXTENDS RateLimiter, TLC

(* The callers are interchangeable.                                        *)
Symmetry == Permutations(Caller)
=============================================================================
