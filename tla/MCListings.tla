----------------------------- MODULE MCListings -----------------------------
(* Listings for TLC. Readers of different kinds share nothing but the tables, *)
(* which they do not change: a behaviour has readers of one kind.             *)
EXTENDS Listings

VARIABLE kind

MCInit == Init /\ kind \in {"links", "users", "board", "export"}

MCNext ==
    /\ \/ kind \in {"links", "export"} /\ TableStep(Links)
       \/ kind = "users" /\ TableStep(Users)
       \/ kind = "board" /\ TableStep(Mine \cup Users)
       \/ kind = "links" /\ (LinkWalkStep \/ PageStep)
       \/ kind = "users" /\ (UserWalkStep \/ PageStep)
       \/ kind = "board" /\ BoardStep
       \/ kind = "export" /\ \E e \in Exports : ExportStep(e)
    /\ UNCHANGED kind

MCSpec == MCInit /\ [][MCNext]_<<vars, kind>>

=============================================================================
