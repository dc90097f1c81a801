---------------------------- MODULE MCRateLimiter ----------------------------
(***************************************************************************)
(* Model-checking instances of RateLimiter.                                *)
(***************************************************************************)
EXTENDS RateLimiter, TLC

Symmetry == Permutations(Requests) \cup Permutations(Visitors) \cup Permutations(Keys)
============================================================================
