---------------------------- MODULE MCRateLimiter ---------------------------
(* RateLimiter on a small instance.                                        *)
EXTENDS RateLimiter, TLC

\* Requests are interchangeable.
Symmetry == Permutations(Requests)
=============================================================================
