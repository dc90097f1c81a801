--------------------------- MODULE MCClickTracker ---------------------------
(***************************************************************************)
(* Model-checking instances of ClickTracker.                               *)
(***************************************************************************)
EXTENDS ClickTracker, TLC

Symmetry == Permutations(Ids) \cup Permutations(Requests)
============================================================================
