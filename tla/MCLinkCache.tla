----------------------------- MODULE MCLinkCache -----------------------------
(***************************************************************************)
(* Model-checking instances of LinkCache.  Lookups are interchangeable,    *)
(* and so are the ids of links.                                            *)
(***************************************************************************)
EXTENDS LinkCache, TLC

Symmetry == Permutations(Requests) \cup Permutations(Ids)
============================================================================
