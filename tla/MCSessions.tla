----------------------------- MODULE MCSessions -----------------------------
(***************************************************************************)
(* Model-checking instances of Sessions.                                   *)
(***************************************************************************)
EXTENDS Sessions, TLC

Symmetry == Permutations(Tokens) \cup Permutations(Requests)
=============================================================================
