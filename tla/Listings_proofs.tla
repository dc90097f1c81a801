--------------------------- MODULE Listings_proofs --------------------------
(* Proofs about Listings, for any tables, limits and number of exports: the  *)
(* dashboard is answered whole, an exported file is what was read, a page    *)
(* has the rows it should, and a client that pages misses none.              *)
EXTENDS Listings, FiniteSetTheorems, SequenceTheorems, TLAPS

----------------------------------------------------------------------------
(* The dashboard.                                                            *)

(* Nobody fetches before the request or after its answer; what was fetched   *)
(* is still in the tables unless they changed.                               *)
FetchInv ==
    /\ board \in [pc : {"idle", "wait", "200", "500"}, links : SUBSET Links,
                  users : SUBSET Users, top : SUBSET Links, changed : BOOLEAN,
                  fetch : [Fetches -> {"none", "running", "ok", "failed"}]]
    /\ board.pc # "wait" => \A k \in Fetches : board.fetch[k] # "running"
    /\ board.pc # "idle" => \A k \in Fetches : board.fetch[k] # "none"
    /\ board.pc = "200" => \A k \in Fetches : board.fetch[k] = "ok"

StillInv ==
    (board.pc = "wait" /\ ~board.changed) =>
        /\ board.fetch["links"] = "ok" => board.links = Rows("links")
        /\ board.fetch["top"] = "ok" => IsTop(board.top)

TopInv ==
    (board.pc = "200" /\ ~board.changed) =>
        /\ board.top \subseteq board.links
        /\ Cardinality(board.links) <= TopCount => board.top = board.links

FiniteInv == IsFiniteSet(stored)

BoardInv == FetchInv /\ StillInv /\ TopInv /\ FiniteInv

LEMMA TopOfAll ==
  ASSUME FiniteInv, NEW t, IsTop(t), Cardinality(Rows("links")) <= TopCount
  PROVE  t = Rows("links")
<1> DEFINE all == Rows("links")
<1>1. IsFiniteSet(all) /\ t \subseteq all
  BY FS_Subset DEF FiniteInv, Rows, IsTop
<1>2. CASE Cardinality(t) = TopCount
  <2>1. Cardinality(all) \in Nat /\ Cardinality(t) \in Nat
    BY <1>1, FS_Subset, FS_CardinalityType
  <2>2. Cardinality(t) <= Cardinality(all)
    BY <1>1, FS_Subset
  <2>3. Cardinality(t) = Cardinality(all)
    BY <1>2, <2>1, <2>2
  <2> QED BY <1>1, <2>3, FS_Subset
<1> QED BY <1>2 DEF IsTop

LEMMA BoardInit == Init => BoardInv
<1> SUFFICES ASSUME Init PROVE BoardInv
  OBVIOUS
<1>1. FetchInv
  BY DEF Init, FetchInv
<1>2. StillInv /\ TopInv
  BY DEF Init, StillInv, TopInv
<1>3. FiniteInv
  BY FS_EmptySet DEF Init, FiniteInv
<1> QED BY <1>1, <1>2, <1>3 DEF BoardInv

(* A row comes or goes: whoever is still fetching is told so.                *)
LEMMA TableKeepsBoard ==
  ASSUME BoardInv, NEW x, Insert(x) \/ Delete(x)
  PROVE  BoardInv'
<1>1. FetchInv /\ StillInv /\ TopInv /\ FiniteInv
  BY DEF BoardInv
<1>2. board' = [board EXCEPT !.changed = @ \/ board.pc = "wait"]
  BY DEF Insert, Delete
<1>3. /\ \A f \in {"pc", "links", "users", "top", "fetch"} : board'[f] = board[f]
      /\ board'.changed = (board.changed \/ board.pc = "wait")
  BY <1>1, <1>2 DEF FetchInv
<1>4. FetchInv'
  <2>1. board'.changed \in BOOLEAN
    BY <1>1, <1>3 DEF FetchInv
  <2>2. board' = [board EXCEPT !.changed = board'.changed]
    BY <1>2, <1>3
  <2> QED BY <1>1, <1>3, <2>1, <2>2 DEF FetchInv
<1>5. StillInv'
  BY <1>3 DEF StillInv
<1>6. TopInv'
  BY <1>1, <1>3 DEF TopInv
<1>7. FiniteInv'
  BY <1>1, FS_AddElement, FS_RemoveElement DEF FiniteInv, Insert, Delete
<1> QED BY <1>4, <1>5, <1>6, <1>7 DEF BoardInv

LEMMA BoardStepKeeps ==
  ASSUME BoardInv, BoardStep
  PROVE  BoardInv'
<1>1. FetchInv /\ StillInv /\ TopInv /\ FiniteInv
  BY DEF BoardInv
<1>2. UNCHANGED <<created, stored>>
  BY DEF BoardStep, BeginBoard, Wait, Fetched, FetchFails, tableVars
<1>3. FiniteInv'
  BY <1>1, <1>2 DEF FiniteInv
<1>4. \A list : Rows(list)' = Rows(list)
  BY <1>2 DEF Rows
<1>5. Rows("links") \subseteq Links /\ Rows("users") \subseteq Users
  BY DEF Rows, Of
<1>6. CASE BeginBoard
  <2>1. /\ board' = [board EXCEPT !.pc = "wait", !.changed = FALSE,
                                  !.fetch = [k \in Fetches |-> "running"]]
    BY <1>6 DEF BeginBoard
  <2>2. /\ board'.pc = "wait"
        /\ board'.fetch["links"] = "running" /\ board'.fetch["top"] = "running"
    BY <1>1, <2>1 DEF FetchInv, Fetches
  <2>3. FetchInv'
    BY <1>1, <2>1 DEF FetchInv
  <2>4. StillInv' /\ TopInv'
    BY <2>2 DEF StillInv, TopInv
  <2> QED BY <1>3, <2>3, <2>4 DEF BoardInv
<1>7. CASE Wait
  <2>1. /\ board.pc = "wait"
        /\ \A k \in Fetches : board.fetch[k] # "running"
        /\ board' = [board EXCEPT !.pc =
              IF \E k \in Fetches : board.fetch[k] = "failed" THEN "500" ELSE "200"]
    BY <1>7 DEF Wait
  <2>2. FetchInv'
    BY <1>1, <2>1 DEF FetchInv
  <2>3. /\ board'.pc # "wait"
        /\ board'.changed = board.changed
        /\ board'.top = board.top /\ board'.links = board.links
        /\ board'.fetch = board.fetch
    BY <1>1, <2>1 DEF FetchInv
  <2>4. TopInv'
    <3> SUFFICES ASSUME board'.pc = "200", ~board'.changed
                 PROVE  /\ board'.top \subseteq board'.links
                        /\ Cardinality(board'.links) <= TopCount => board'.top = board'.links
      BY DEF TopInv
    <3>1. board.fetch["links"] = "ok" /\ board.fetch["top"] = "ok"
      BY <2>2, <2>3 DEF FetchInv, Fetches
    <3>2. board.links = Rows("links") /\ IsTop(board.top)
      BY <1>1, <2>1, <2>3, <3>1 DEF StillInv
    <3>3. board.top \subseteq Rows("links")
      BY <3>2 DEF IsTop
    <3> QED BY <1>1, <2>3, <3>2, <3>3, TopOfAll
  <2>5. StillInv'
    BY <2>3 DEF StillInv
  <2> QED BY <1>3, <2>2, <2>4, <2>5 DEF BoardInv
<1>8. ASSUME NEW k \in Fetches, Fetched(k) \/ FetchFails(k) PROVE BoardInv'
  <2>1. board.fetch[k] = "running" /\ board.pc = "wait"
    BY <1>1, <1>8 DEF Fetched, FetchFails, FetchInv
  <2>2. CASE FetchFails(k)
    <3>1. board' = [board EXCEPT !.fetch[k] = "failed"]
      BY <2>2 DEF FetchFails
    <3>2. FetchInv'
      BY <1>1, <2>1, <3>1 DEF FetchInv
    <3>3. StillInv' /\ TopInv'
      BY <1>1, <1>4, <2>1, <3>1 DEF StillInv, TopInv, FetchInv, IsTop, Fetches
    <3> QED BY <1>3, <3>2, <3>3 DEF BoardInv
  <2>3. CASE k = "links" /\ board' = [board EXCEPT !.fetch[k] = "ok", !.links = Rows("links")]
    <3>1. FetchInv'
      BY <1>1, <1>5, <2>1, <2>3 DEF FetchInv
    <3>2. StillInv' /\ TopInv'
      BY <1>1, <1>4, <2>1, <2>3 DEF StillInv, TopInv, FetchInv, IsTop, Fetches
    <3> QED BY <1>3, <3>1, <3>2 DEF BoardInv
  <2>4. CASE k = "top" /\ \E t \in SUBSET Rows("links") :
                 IsTop(t) /\ board' = [board EXCEPT !.fetch[k] = "ok", !.top = t]
    <3>1. PICK t \in SUBSET Rows("links") :
                 IsTop(t) /\ board' = [board EXCEPT !.fetch[k] = "ok", !.top = t]
      BY <2>4
    <3>2. FetchInv'
      BY <1>1, <1>5, <2>1, <3>1 DEF FetchInv
    <3>3. StillInv' /\ TopInv'
      BY <1>1, <1>4, <2>1, <2>4, <3>1 DEF StillInv, TopInv, FetchInv, IsTop, Fetches
    <3> QED BY <1>3, <3>2, <3>3 DEF BoardInv
  <2>5. CASE k = "users" /\ board' = [board EXCEPT !.fetch[k] = "ok", !.users = Rows("users")]
    <3>1. FetchInv'
      BY <1>1, <1>5, <2>1, <2>5 DEF FetchInv
    <3>2. StillInv' /\ TopInv'
      BY <1>1, <1>4, <2>1, <2>5 DEF StillInv, TopInv, FetchInv, IsTop, Fetches
    <3> QED BY <1>3, <3>1, <3>2 DEF BoardInv
  <2> QED BY <1>8, <2>2, <2>3, <2>4, <2>5 DEF Fetched
<1> QED BY <1>6, <1>7, <1>8 DEF BoardStep

----------------------------------------------------------------------------
(* The exports.                                                              *)

File == Seq(SUBSET Links)

Export == [pc : {"idle", "fill", "send", "sent", "failed"},
           links : SUBSET Links, buf : Exports, sent : File]

LEMMA FileType == <<>> \in File /\ \A l \in SUBSET Links : <<l>> \in File
BY DEF File

(* A buffer in use has one owner, and holds the file of that export only,    *)
(* whatever it held before.                                                  *)
ExportInv ==
    /\ export \in [Exports -> Export]
    /\ buffer \in [Exports -> File]
    /\ \A e \in Exports : export[e].pc = "send" =>
          /\ buffer[export[e].buf] = <<export[e].links>>
          /\ \A f \in Exports \ {e} : export[f].pc = "send" => export[f].buf # export[e].buf
    /\ ExportIsSnapshot

LEMMA ExportInit == Init => ExportInv
<1> SUFFICES ASSUME Init PROVE ExportInv
  OBVIOUS
<1>1. /\ export = [e \in Exports |-> [pc |-> "idle", links |-> {}, buf |-> e, sent |-> <<>>]]
      /\ buffer = [e \in Exports |-> <<>>]
  BY DEF Init
<1>2. \A e \in Exports : [pc |-> "idle", links |-> {}, buf |-> e, sent |-> <<>>] \in Export
  BY FileType DEF Export
<1>3. export \in [Exports -> Export] /\ buffer \in [Exports -> File]
  BY <1>1, <1>2, FileType
<1>4. \A e \in Exports : export[e].pc = "idle"
  BY <1>1
<1> QED BY <1>3, <1>4 DEF ExportInv, ExportIsSnapshot

LEMMA ExportStepKeeps ==
  ASSUME ExportInv, NEW e \in Exports, ExportStep(e)
  PROVE  ExportInv'
<1>1. Rows("links") \in SUBSET Links
  BY DEF Rows, Of
<1>2. CASE ReadLinks(e)
  BY <1>1, <1>2 DEF ExportInv, Export, ExportIsSnapshot, ReadLinks
<1>3. CASE ReadLinksFails(e)
  BY <1>3 DEF ExportInv, Export, ExportIsSnapshot, ReadLinksFails
<1>4. CASE Fill(e)
  <2>1. PICK b \in Exports :
          /\ ~InUse(b)
          /\ buffer' = [buffer EXCEPT ![b] = <<export[e].links>>]
          /\ export' = [export EXCEPT ![e].pc = "send", ![e].buf = b]
    BY <1>4 DEF Fill
  <2>2. <<export[e].links>> \in File /\ export[e].pc = "fill"
    BY <1>4, FileType DEF ExportInv, Export, Fill
  <2>3. /\ buffer'[b] = <<export[e].links>>
        /\ \A c \in Exports \ {b} : buffer'[c] = buffer[c]
        /\ export'[e].pc = "send" /\ export'[e].buf = b /\ export'[e].links = export[e].links
        /\ \A f \in Exports \ {e} : export'[f] = export[f]
    BY <2>1 DEF ExportInv, Export
  <2>4. \A f \in Exports \ {e} : export[f].pc = "send" => export[f].buf # b
    BY <2>1 DEF InUse
  <2>5. export' \in [Exports -> Export] /\ buffer' \in [Exports -> File]
    BY <2>1, <2>2 DEF ExportInv, Export
  <2>6. \A f \in Exports : export'[f].pc = "send" =>
          /\ buffer'[export'[f].buf] = <<export'[f].links>>
          /\ \A g \in Exports \ {f} : export'[g].pc = "send" => export'[g].buf # export'[f].buf
    <3> SUFFICES ASSUME NEW f \in Exports, export'[f].pc = "send"
                 PROVE  /\ buffer'[export'[f].buf] = <<export'[f].links>>
                        /\ \A g \in Exports \ {f} :
                              export'[g].pc = "send" => export'[g].buf # export'[f].buf
      OBVIOUS
    <3>1. CASE f = e
      BY <2>3, <2>4, <3>1
    <3>2. CASE f # e
      <4>1. export'[f] = export[f] /\ export[f].pc = "send" /\ export[f].buf \in Exports \ {b}
        BY <2>3, <2>4, <3>2 DEF ExportInv, Export
      <4> QED BY <2>3, <4>1 DEF ExportInv
    <3> QED BY <3>1, <3>2
  <2>7. ExportIsSnapshot'
    BY <2>3 DEF ExportInv, ExportIsSnapshot
  <2> QED BY <2>5, <2>6, <2>7 DEF ExportInv
<1>5. CASE Send(e)
  <2>1. /\ export[e].pc = "send"
        /\ export' = [export EXCEPT ![e].pc = "sent", ![e].sent = buffer[export[e].buf]]
        /\ buffer' = [buffer EXCEPT ![export[e].buf] = <<>>]
    BY <1>5 DEF Send
  <2>2. /\ export'[e].pc = "sent" /\ export'[e].sent = buffer[export[e].buf]
        /\ export'[e].links = export[e].links
        /\ \A f \in Exports \ {e} : export'[f] = export[f]
        /\ \A c \in Exports \ {export[e].buf} : buffer'[c] = buffer[c]
    BY <2>1 DEF ExportInv, Export
  <2>3. export' \in [Exports -> Export] /\ buffer' \in [Exports -> File]
    <3>1. buffer[export[e].buf] \in File
      BY DEF ExportInv, Export
    <3>2. export' \in [Exports -> Export]
      <4>1. PICK file \in File : export' = [export EXCEPT ![e].pc = "sent", ![e].sent = file]
        BY <2>1, <3>1
      <4>2. export \in [Exports -> Export] /\ export[e] \in Export
        BY DEF ExportInv
      <4>3. [export[e] EXCEPT !.pc = "sent", !.sent = file] \in Export
        BY <4>2 DEF Export
      <4>4. export' = [export EXCEPT ![e] = [export[e] EXCEPT !.pc = "sent", !.sent = file]]
        BY <4>1, <4>2 DEF Export
      <4> QED BY <4>2, <4>3, <4>4
    <3>3. <<>> \in File
      BY FileType
    <3>4. buffer' \in [Exports -> File]
      BY <2>1, <3>3 DEF ExportInv
    <3> QED BY <3>2, <3>4
  <2>4. \A f \in Exports : export'[f].pc = "send" =>
          /\ buffer'[export'[f].buf] = <<export'[f].links>>
          /\ \A g \in Exports \ {f} : export'[g].pc = "send" => export'[g].buf # export'[f].buf
    BY <2>1, <2>2 DEF ExportInv, Export
  <2>5. ExportIsSnapshot'
    BY <2>1, <2>2 DEF ExportInv, ExportIsSnapshot
  <2> QED BY <2>3, <2>4, <2>5 DEF ExportInv
<1>6. CASE SendFails(e)
  BY <1>6 DEF ExportInv, Export, ExportIsSnapshot, SendFails
<1> QED BY <1>2, <1>3, <1>4, <1>5, <1>6 DEF ExportStep

----------------------------------------------------------------------------
(* The whole.                                                                *)
Inv == BoardInv /\ ExportInv

LEMMA BoardFrame ==
  ASSUME BoardInv, UNCHANGED <<stored, board>>
  PROVE  BoardInv'
BY DEF BoardInv, FetchInv, StillInv, TopInv, FiniteInv, Rows, IsTop

LEMMA ExportFrame ==
  ASSUME ExportInv, UNCHANGED <<export, buffer>>
  PROVE  ExportInv'
BY DEF ExportInv, ExportIsSnapshot

LEMMA WalksFrame ==
  ASSUME LinkWalkStep \/ UserWalkStep \/ PageStep
  PROVE  UNCHANGED <<stored, board, export, buffer>>
BY DEF LinkWalkStep, UserWalkStep, PageStep, GetUserLinks, GetAllLinks, GetAllUsers, List,
       GetUserLinksPaginated, GetAllLinksPaginated, GetAllUsersPaginated, BeginWalk,
       ListFails, Count, Fetch, QueryFails, NextPage, tableVars

LEMMA NextInv == Inv /\ [Next]_vars => Inv'
<1> SUFFICES ASSUME Inv, [Next]_vars PROVE Inv'
  OBVIOUS
<1>1. BoardInv /\ ExportInv
  BY DEF Inv
<1>2. CASE \E x \in Links \cup Users : Insert(x) \/ Delete(x)
  BY <1>1, <1>2, TableKeepsBoard, ExportFrame DEF Inv, Insert, Delete
<1>3. CASE Tick \/ UNCHANGED vars
  BY <1>1, <1>3, BoardFrame, ExportFrame DEF Inv, Tick, vars
<1>4. CASE LinkWalkStep \/ UserWalkStep \/ PageStep
  BY <1>1, <1>4, WalksFrame, BoardFrame, ExportFrame DEF Inv
<1>5. CASE BoardStep
  <2>1. UNCHANGED <<export, buffer>>
    BY <1>5 DEF BoardStep, BeginBoard, Wait, Fetched, FetchFails
  <2> QED BY <1>1, <1>5, <2>1, BoardStepKeeps, ExportFrame DEF Inv
<1>6. ASSUME NEW e \in Exports, ExportStep(e) PROVE Inv'
  <2>1. UNCHANGED <<stored, board>>
    BY <1>6 DEF ExportStep, ReadLinks, ReadLinksFails, Fill, Send, SendFails, tableVars
  <2> QED BY <1>1, <1>6, <2>1, BoardFrame, ExportStepKeeps DEF Inv
<1> QED BY <1>2, <1>3, <1>4, <1>5, <1>6 DEF Next, TableStep

LEMMA InvAlways == Spec => []Inv
<1>1. Init => Inv
  BY BoardInit, ExportInit DEF Inv
<1> QED BY <1>1, NextInv, PTL DEF Spec

----------------------------------------------------------------------------
(* Arithmetic of pages.                                                      *)
LEMMA Division ==
  ASSUME NEW n \in Nat, NEW l \in Nat \ {0}
  PROVE  /\ n \div l \in Nat /\ n % l \in Nat
         /\ n = (n \div l) * l + (n % l) /\ n % l < l
<1>1. n \div l \in Nat
  BY Z3
<1>2. n % l \in Nat /\ n % l < l
  BY Z3
<1>3. n = (n \div l) * l + (n % l)
  BY Z3
<1> QED BY <1>1, <1>2, <1>3

LEMMA Times ==
  ASSUME NEW a \in Nat, NEW b \in Nat, NEW l \in Nat \ {0}
  PROVE  /\ a * l \in Nat /\ (a + 1) * l = a * l + l
         /\ a <= b <=> a * l <= b * l
         /\ a < b <=> a * l < b * l
<1>1. a * l \in Nat /\ (a + 1) * l = a * l + l
  BY Z3
<1>2. a <= b => a * l <= b * l
  BY Z3
<1>3. a < b => a * l < b * l
  BY Z3
<1>4. a * l \in Int /\ b * l \in Int
  BY Z3
<1> QED BY <1>1, <1>2, <1>3, <1>4

LEMMA Quotient ==
  ASSUME NEW n \in Nat, NEW l \in Nat \ {0}, NEW q \in Nat
  PROVE  n \div l = q <=> q * l <= n /\ n < (q + 1) * l
<1> DEFINE d == n \div l
           r == n % l
<1>1. d \in Nat /\ r \in Nat /\ n = d * l + r /\ r < l
  BY Division
<1> HIDE DEF d, r
<1>2. d * l \in Nat /\ q * l \in Nat /\ (d + 1) * l = d * l + l /\ (q + 1) * l = q * l + l
  BY <1>1, Times
<1>3. d = q => q * l <= n /\ n < (q + 1) * l
  BY <1>1, <1>2
<1>4. ASSUME q * l <= n, n < (q + 1) * l PROVE d = q
  <2>1. q * l < (d + 1) * l /\ d * l < (q + 1) * l
    BY <1>1, <1>2, <1>4
  <2>2. q < d + 1 /\ d < q + 1
    BY <1>1, <2>1, Times
  <2> QED BY <1>1, <2>2
<1> QED BY <1>3, <1>4 DEF d

LEMMA PagesCover ==
  ASSUME NEW t \in Nat, NEW l \in Nat \ {0}
  PROVE  /\ TotalPages(t, l) \in Nat
         /\ \A q \in Nat : q < TotalPages(t, l) <=> q * l < t
<1> DEFINE d == t \div l
           r == t % l
<1>1. d \in Nat /\ r \in Nat /\ t = d * l + r /\ r < l
  BY Division
<1>2. TotalPages(t, l) = IF r # 0 THEN d + 1 ELSE d
  BY <1>1 DEF TotalPages
<1> HIDE DEF d, r
<1>3. ASSUME NEW q \in Nat PROVE q < TotalPages(t, l) <=> q * l < t
  <2>1. d * l \in Nat /\ q * l \in Nat /\ (d + 1) * l = d * l + l
    BY <1>1, Times
  <2>2. q < d <=> q * l < d * l
    BY <1>1, Times
  <2>3. q < d + 1 <=> q * l < (d + 1) * l
    BY <1>1, Times
  <2>4. q <= d <=> q * l <= d * l
    BY <1>1, Times
  <2> QED BY <1>1, <1>2, <2>1, <2>2, <2>3, <2>4
<1> QED BY <1>1, <1>2, <1>3

LEMMA Wraps ==
  ASSUME NEW n \in Nat
  PROVE  /\ Wrap(n) \in Int /\ Wrap(n) <= n
         /\ n <= IntMax => Wrap(n) = n
<1> DEFINE m == n + IntMax + 1
           w == 2 * IntMax + 2
<1>1. m \in Nat /\ w \in Nat \ {0} /\ IntMax \in Nat
  BY BoundsAssumption
<1>2. m % w \in Nat /\ m % w <= m
  BY <1>1, Z3
<1>3. m < w => m % w = m
  BY <1>1, Z3
<1>4. Wrap(n) = (m % w) - IntMax - 1
  BY DEF Wrap
<1> QED BY <1>1, <1>2, <1>3, <1>4

----------------------------------------------------------------------------
(* A table in some order, newest first.                                      *)
LEMMA InOrder ==
  ASSUME NEW S, IsFiniteSet(S), NEW s \in SetToSeqs(S)
  PROVE  /\ Cardinality(S) \in Nat
         /\ s \in Seq(S) /\ Len(s) = Cardinality(S) /\ DOMAIN s = 1..Cardinality(S)
         /\ \A i, j \in DOMAIN s : i # j => s[i] # s[j]
         /\ Range(s) = S
<1> DEFINE D == 1..Cardinality(S)
<1>1. Cardinality(S) \in Nat
  BY FS_CardinalityType
<1>2. s \in [D -> S] /\ \A i, j \in D : i # j => s[i] # s[j]
  BY DEF SetToSeqs
<1>3. s \in Injection(D, S)
  BY <1>2 DEF Injection, IsInjective
<1>4. Cardinality(D) = Cardinality(S)
  BY <1>1, FS_Interval
<1>5. s \in Surjection(D, S)
  BY <1>3, <1>4, FS_Injection
<1>6. Range(s) = S
  BY <1>2, <1>5 DEF Surjection, Range
<1> QED BY <1>1, <1>2, <1>6

(* How many rows of a list are newer than a row.                             *)
Newer(list, x) == Cardinality({y \in Rows(list) : created[y] > created[x]})

(* A row without ties has its place by its rank.                             *)
LEMMA RankIsPlace ==
  ASSUME NEW list \in {"mine", "links", "users"}, IsFiniteSet(stored),
         created \in [Links \cup Users -> Nat], stored \subseteq Links \cup Users,
         NEW s \in NewestFirst(list), NEW p \in DOMAIN s, ~Tied(s[p])
  PROVE  Newer(list, s[p]) = p - 1
<1> DEFINE S == Rows(list)
           x == s[p]
           N == {y \in S : created[y] > created[x]}
           D == 1..(p - 1)
<1>1. IsFiniteSet(S) /\ S \subseteq Links \cup Users
  BY FS_Subset DEF Rows
<1>2. /\ Cardinality(S) \in Nat /\ DOMAIN s = 1..Cardinality(S) /\ Range(s) = S
      /\ \A i, j \in DOMAIN s : i # j => s[i] # s[j]
      /\ \A i \in DOMAIN s : s[i] \in S
      /\ \A i, j \in DOMAIN s : i < j => created[s[i]] >= created[s[j]]
  BY <1>1, InOrder DEF NewestFirst, Range
<1>3. \A i \in DOMAIN s : i # p => created[s[i]] # created[x]
  BY <1>1, <1>2 DEF Tied
<1>4. \A i \in DOMAIN s : created[s[i]] \in Nat
  BY <1>1, <1>2
<1>5. \A i \in DOMAIN s : created[s[i]] > created[x] <=> i \in D
  <2> SUFFICES ASSUME NEW i \in DOMAIN s PROVE created[s[i]] > created[x] <=> i \in D
    OBVIOUS
  <2>1. CASE i < p
    BY <1>2, <1>3, <1>4, <2>1
  <2>2. CASE i > p
    BY <1>2, <1>4, <2>2
  <2>3. CASE i = p
    BY <1>2, <1>4, <2>3
  <2> QED BY <1>2, <2>1, <2>2, <2>3
<1>6. \A y \in S : \E i \in DOMAIN s : s[i] = y
  BY <1>2 DEF Range
<1> DEFINE f == [i \in D |-> s[i]]
<1>7. f \in Bijection(D, N)
  <2>1. f \in [D -> N]
    BY <1>2, <1>5
  <2>2. \A i, j \in D : f[i] = f[j] => i = j
    BY <1>2
  <2>3. \A y \in N : \E i \in D : f[i] = y
    BY <1>5, <1>6
  <2> QED BY <2>1, <2>2, <2>3 DEF Bijection, Injection, IsInjective, Surjection
<1>8. Cardinality(D) = p - 1 /\ IsFiniteSet(D)
  <2>1. p - 1 \in Nat /\ 1 \in Int
    BY <1>2
  <2>2. IsFiniteSet(D) /\ Cardinality(D) = IF 1 > p - 1 THEN 0 ELSE (p - 1) - 1 + 1
    BY <2>1, FS_Interval
  <2> QED BY <2>1, <2>2
<1>9. Cardinality(N) = Cardinality(D)
  BY <1>7, <1>8, FS_Bijection DEF ExistsBijection
<1> QED BY <1>8, <1>9 DEF Newer

(* What a page has of such an order.                                         *)
From(page, limit) == IF Offset(page, limit) > 0 THEN Offset(page, limit) ELSE 0

LEMMA PageHas ==
  ASSUME NEW S, NEW s \in Seq(S), NEW page \in Nat \ {0}, NEW limit \in Nat \ {0}
  PROVE  /\ From(page, limit) \in Nat /\ From(page, limit) <= (page - 1) * limit
         /\ (page - 1) * limit <= IntMax => From(page, limit) = (page - 1) * limit
         /\ PageOf(s, page, limit) \in Seq(S)
         /\ Len(PageOf(s, page, limit)) <= limit
         /\ \A i \in DOMAIN PageOf(s, page, limit) :
               /\ From(page, limit) + i \in DOMAIN s
               /\ i <= limit
               /\ PageOf(s, page, limit)[i] = s[From(page, limit) + i]
         /\ \A p \in DOMAIN s : (From(page, limit) < p /\ p <= From(page, limit) + limit) =>
               /\ p - From(page, limit) \in DOMAIN PageOf(s, page, limit)
               /\ PageOf(s, page, limit)[p - From(page, limit)] = s[p]
<1> DEFINE n == (page - 1) * limit
           from == From(page, limit)
           to == IF from + limit < Len(s) THEN from + limit ELSE Len(s)
           data == PageOf(s, page, limit)
<1>1. n \in Nat
  <2>1. page - 1 \in Nat
    OBVIOUS
  <2> QED BY <2>1, Times
<1>2. Wrap(n) \in Int /\ Wrap(n) <= n /\ (n <= IntMax => Wrap(n) = n)
  BY <1>1, Wraps
<1>3. from \in Nat /\ from <= n /\ (n <= IntMax => from = n)
  BY <1>1, <1>2 DEF From, Offset
<1>4. data = SubSeq(s, from + 1, to)
  BY DEF PageOf, From
<1> HIDE DEF n, from, data
<1>5. /\ to \in Nat /\ Len(s) \in Nat /\ to <= Len(s) /\ to <= from + limit
      /\ from + limit < Len(s) => to = from + limit
      /\ from + limit >= Len(s) => to = Len(s)
  BY <1>3
<1> HIDE DEF to
<1>6. /\ data \in Seq(S) /\ Len(data) \in Nat
      /\ from < to => Len(data) = to - from
      /\ from >= to => Len(data) = 0
      /\ \A i \in 1..(to - from) : data[i] = s[from + i]
  <2>1. \A i \in (from + 1)..to : i \in 1..Len(s)
    BY <1>3, <1>5
  <2>2. \A i \in (from + 1)..to : s[i] \in S
    BY <2>1, ElementOfSeq
  <2>3. from + 1 \in Int /\ to \in Int
    BY <1>3, <1>5
  <2>4. /\ data \in Seq(S)
        /\ Len(data) = IF from + 1 <= to THEN to - (from + 1) + 1 ELSE 0
        /\ \A i \in 1..(to - (from + 1) + 1) : data[i] = s[(from + 1) + i - 1]
    BY <1>4, <2>2, <2>3, SubSeqProperties
  <2>5. to - (from + 1) + 1 = to - from /\ (from + 1 <= to <=> from < to)
    BY <1>3, <1>5
  <2>6. \A i \in 1..(to - from) : (from + 1) + i - 1 = from + i
    BY <1>3, <1>5
  <2>7. Len(data) \in Nat
    BY <2>4
  <2> QED BY <2>4, <2>5, <2>6, <2>7, <1>3, <1>5
<1>7. DOMAIN data = 1..Len(data)
  BY <1>6
<1>8. Len(data) <= limit
  BY <1>3, <1>5, <1>6
<1>9. \A i \in DOMAIN data : from + i \in DOMAIN s /\ i <= limit /\ data[i] = s[from + i]
  BY <1>3, <1>5, <1>6, <1>7
<1>10. \A p \in DOMAIN s : (from < p /\ p <= from + limit) =>
          p - from \in DOMAIN data /\ data[p - from] = s[p]
  <2> SUFFICES ASSUME NEW p \in DOMAIN s, from < p, p <= from + limit
               PROVE  p - from \in DOMAIN data /\ data[p - from] = s[p]
    OBVIOUS
  <2>1. p \in Nat /\ p <= to /\ p - from \in 1..(to - from) /\ from + (p - from) = p
    BY <1>3, <1>5
  <2>2. Len(data) = to - from
    BY <1>3, <1>5, <1>6, <2>1
  <2>3. data[p - from] = s[p]
    BY <1>6, <2>1
  <2> QED BY <1>7, <2>1, <2>2, <2>3
<1> QED BY <1>3, <1>6, <1>8, <1>9, <1>10 DEF n, from, data

----------------------------------------------------------------------------
(* The walk.                                                                 *)
Lists == {"mine", "links", "users"}

RowSeq == Seq(Links \cup Users)

Walk == [pc : {"idle", "count", "fetch", "page", "done", "listed", "400", "500"},
         list : Lists, first : Nat, page : 1..IntMax, limit : 1..MaxLimit, total : 0..IntMax,
         data : RowSeq, seen : RowSeq, kept : SUBSET (Links \cup Users),
         deleted : BOOLEAN, added : BOOLEAN, raced : BOOLEAN]

(* Rows are in the tables once at most, with the time of their insert.       *)
RowsInv ==
    /\ now \in 0..MaxTime
    /\ created \in [Links \cup Users -> 0..(MaxTime + 1)]
    /\ stored \subseteq {x \in Links \cup Users : created[x] # 0}

Watching == walk.pc \in {"count", "fetch", "page"}

Rank(x) == Newer(walk.list, x)

(* The ranks that the pages fetched so far cover.                            *)
Covered == IF walk.pc = "page" THEN walk.page * walk.limit ELSE (walk.page - 1) * walk.limit

(* What a walk was sent and waits for are rows of its list; its pages are    *)
(* within the ints as long as it goes on from its first.                     *)
SeenInv ==
    /\ walk.pc = "idle" => walk.first = 1 /\ walk.seen = <<>>
    /\ \A x \in Range(walk.seen) : x \in Of(walk.list) /\ created[x] # 0
    /\ \A x \in walk.kept : x \in Of(walk.list) /\ created[x] # 0
    /\ Watching => walk.kept \subseteq stored
    /\ Watching /\ walk.first = 1 => (walk.page - 1) * walk.limit <= IntMax

(* Without a deletion, the rows that a walk has yet to see are further down. *)
MissInv ==
    (Watching /\ walk.first = 1 /\ ~walk.deleted) =>
        \A x \in walk.kept : Tied(x) \/ x \in Range(walk.seen) \/ Rank(x) >= Covered

NoneTwice ==
    \A i, j \in DOMAIN walk.seen :
        (i # j /\ walk.seen[i] = walk.seen[j]) => Tied(walk.seen[i])

(* Without an insert, the rows that it has seen are further up.              *)
TwiceInv ==
    (Watching /\ walk.first = 1 /\ ~walk.added) =>
        /\ NoneTwice
        /\ \A x \in Range(walk.seen) : Tied(x) \/ x \notin stored \/ Rank(x) < Covered

(* A page of a table that is still as it was counted.                        *)
PageInv ==
    /\ (walk.pc \in {"fetch", "page"} /\ ~walk.raced) =>
          walk.total = Cardinality(Rows(walk.list))
    /\ (walk.pc = "page" /\ ~walk.raced) =>
          \E s \in NewestFirst(walk.list) : walk.data = PageOf(s, walk.page, walk.limit)

EndInv ==
    (walk.pc \in {"done", "listed"} /\ walk.first = 1) =>
        /\ (~walk.deleted /\ ~walk.raced) =>
              \A x \in walk.kept : Tied(x) \/ x \in Range(walk.seen)
        /\ ~walk.added => NoneTwice

WalkInv == RowsInv /\ walk \in Walk /\ SeenInv /\ MissInv /\ TwiceInv /\ PageInv /\ EndInv

LEMMA Listed ==
  ASSUME FiniteInv, RowsInv, NEW list \in Lists
  PROVE  /\ IsFiniteSet(Rows(list)) /\ Rows(list) = {x \in stored : x \in Of(list)}
         /\ Of(list) \subseteq Links \cup Users /\ Rows(list) \subseteq Links \cup Users
         /\ Cardinality(Rows(list)) \in 0..IntMax
         /\ \A x : Newer(list, x) \in Nat
         /\ \A x \in Rows(list) : Newer(list, x) < Cardinality(Rows(list))
<1>1. Of(list) \subseteq Links \/ Of(list) \subseteq Users
  BY BoundsAssumption DEF Of, Lists
<1>2. IsFiniteSet(Rows(list))
  BY FS_Subset DEF Rows, FiniteInv
<1>3. Cardinality(Rows(list)) \in Nat
  BY <1>2, FS_CardinalityType
<1>4. Cardinality(Rows(list)) <= IntMax
  <2>1. CASE Of(list) \subseteq Links
    <3>1. Cardinality(Rows(list)) <= Cardinality(Links) /\ Cardinality(Links) \in Nat
      BY <2>1, CountAssumption, FS_Subset, FS_CardinalityType DEF Rows
    <3> QED BY <1>3, <3>1, CountAssumption, BoundsAssumption
  <2>2. CASE Of(list) \subseteq Users
    <3>1. Cardinality(Rows(list)) <= Cardinality(Users) /\ Cardinality(Users) \in Nat
      BY <2>2, CountAssumption, FS_Subset, FS_CardinalityType DEF Rows
    <3> QED BY <1>3, <3>1, CountAssumption, BoundsAssumption
  <2> QED BY <1>1, <2>1, <2>2
<1>5. ASSUME NEW x PROVE Newer(list, x) \in Nat
  <2>1. {y \in Rows(list) : created[y] > created[x]} \in SUBSET Rows(list)
    OBVIOUS
  <2> QED BY <1>2, <2>1, FS_Subset, FS_CardinalityType DEF Newer
<1>6. ASSUME NEW x \in Rows(list) PROVE Newer(list, x) < Cardinality(Rows(list))
  <2> DEFINE N == {y \in Rows(list) : created[y] > created[x]}
             R == Rows(list) \ {x}
  <2>1. created[x] \in Nat
    BY <1>1, BoundsAssumption DEF RowsInv, Rows
  <2>2. N \in SUBSET R
    BY <2>1
  <2>3. IsFiniteSet(R) /\ Cardinality(R) = Cardinality(Rows(list)) - 1
    BY <1>2, <1>6, FS_RemoveElement
  <2>4. Cardinality(N) <= Cardinality(R) /\ Cardinality(N) \in Nat
    BY <2>2, <2>3, FS_Subset, FS_CardinalityType
  <2> QED BY <1>3, <2>3, <2>4 DEF Newer
<1>7. 0..IntMax = {n \in Nat : n <= IntMax}
  BY BoundsAssumption
<1> QED BY <1>1, <1>2, <1>3, <1>4, <1>5, <1>6, <1>7 DEF Rows

LEMMA NewerThen ==
  ASSUME FiniteInv', NEW list, NEW x
  PROVE  Newer(list, x)' \in Nat
<1>1. {y \in Rows(list)' : created'[y] > created'[x]} \in SUBSET stored'
  BY DEF Rows
<1> QED BY <1>1, FS_Subset, FS_CardinalityType DEF Newer, FiniteInv

(* A row is inserted: ties stay ties and ranks do not shrink.                *)
LEMMA Inserts ==
  ASSUME FiniteInv, RowsInv, NEW x \in Links \cup Users, Insert(x)
  PROVE  /\ RowsInv'
         /\ \A y \in Links \cup Users : created[y] # 0 =>
               /\ created'[y] = created[y] /\ (y \in stored' <=> y \in stored)
               /\ Tied(y) => Tied(y)'
         /\ \A list \in Lists : \A y \in Links \cup Users : created[y] # 0 =>
               Newer(list, y) <= Newer(list, y)'
         /\ \A list \in Lists : x \notin Of(list) =>
               /\ Rows(list)' = Rows(list)
               /\ \A y \in Links \cup Users : created[y] # 0 => Newer(list, y)' = Newer(list, y)
<1>1. /\ x \notin stored /\ created[x] = 0
      /\ created' = [created EXCEPT ![x] = now + 1]
      /\ stored' = stored \cup {x} /\ now' = now
  BY DEF Insert
<1>2. \A y \in Links \cup Users : y # x => created'[y] = created[y]
  BY <1>1 DEF RowsInv
<1>3. created'[x] = now + 1 /\ now + 1 \in 0..(MaxTime + 1) /\ now + 1 # 0
  BY <1>1, BoundsAssumption DEF RowsInv
<1>4. RowsInv'
  <2>1. created' \in [Links \cup Users -> 0..(MaxTime + 1)]
    BY <1>1, <1>3 DEF RowsInv
  <2>2. stored' \subseteq {y \in Links \cup Users : created'[y] # 0}
    BY <1>1, <1>2, <1>3 DEF RowsInv
  <2> QED BY <1>1, <2>1, <2>2 DEF RowsInv
<1>5. ASSUME NEW y \in Links \cup Users, created[y] # 0
      PROVE  /\ y # x /\ created'[y] = created[y] /\ (y \in stored' <=> y \in stored)
             /\ Tied(y) => Tied(y)'
  <2>1. y # x
    BY <1>1, <1>5
  <2>2. Tied(y) => Tied(y)'
    BY <1>1, <1>2, <1>5, <2>1 DEF Tied
  <2> QED BY <1>1, <1>2, <2>1, <2>2
<1>6. ASSUME NEW list \in Lists, NEW y \in Links \cup Users, created[y] # 0
      PROVE  Newer(list, y) <= Newer(list, y)'
  <2> DEFINE N == {z \in Rows(list) : created[z] > created[y]}
  <2>1. FiniteInv'
    BY <1>1, FS_AddElement DEF FiniteInv
  <2>2. IsFiniteSet(N')
    BY <1>4, <2>1, Listed, FS_Subset DEF FiniteInv, Rows
  <2>3. \A z \in N : z \in N'
    <3> SUFFICES ASSUME NEW z \in N PROVE z \in N'
      OBVIOUS
    <3>1. z \in stored /\ z \in Links \cup Users /\ z \in Of(list)
      BY DEF Rows, RowsInv
    <3> QED BY <1>1, <1>2, <1>5, <1>6, <3>1 DEF Rows
  <2> QED BY <2>2, <2>3, FS_Subset DEF Newer
<1>7. ASSUME NEW list \in Lists, x \notin Of(list)
      PROVE  /\ Rows(list)' = Rows(list)
             /\ \A y \in Links \cup Users : created[y] # 0 => Newer(list, y)' = Newer(list, y)
  <2>1. Rows(list)' = Rows(list)
    BY <1>1, <1>7 DEF Rows
  <2>2. \A z \in Rows(list) : created'[z] = created[z]
    BY <1>1, <1>2 DEF Rows, RowsInv
  <2> QED BY <1>5, <2>1, <2>2 DEF Newer
<1> QED BY <1>4, <1>5, <1>6, <1>7

(* A row is deleted: ranks do not grow.                                      *)
LEMMA Deletes ==
  ASSUME FiniteInv, RowsInv, NEW x \in Links \cup Users, Delete(x)
  PROVE  /\ RowsInv' /\ created' = created /\ stored' = stored \ {x}
         /\ \A y : Tied(y)' <=> Tied(y)
         /\ \A list \in Lists : \A y : Newer(list, y)' <= Newer(list, y)
         /\ \A list \in Lists : x \notin Of(list) =>
               /\ Rows(list)' = Rows(list)
               /\ \A y : Newer(list, y)' = Newer(list, y)
<1>1. stored' = stored \ {x} /\ created' = created /\ now' = now
  BY DEF Delete
<1>2. ASSUME NEW list \in Lists, NEW y PROVE Newer(list, y)' <= Newer(list, y)
  <2> DEFINE N == {z \in Rows(list) : created[z] > created[y]}
  <2>1. IsFiniteSet(N)
    BY Listed, FS_Subset
  <2>2. \A z \in N' : z \in N
    BY <1>1 DEF Rows
  <2> QED BY <2>1, <2>2, FS_Subset DEF Newer
<1>3. \A list \in Lists : x \notin Of(list) => Rows(list)' = Rows(list)
  BY <1>1 DEF Rows
<1> QED BY <1>1, <1>2, <1>3 DEF RowsInv, Tied, Newer

(* The rows of a walk are rows that have been inserted.                      *)
LEMMA SeenRows ==
  ASSUME walk \in Walk, RowsInv, SeenInv
  PROVE  /\ walk.list \in Lists
         /\ \A x \in Range(walk.seen) : x \in Links \cup Users /\ created[x] # 0
         /\ \A x \in walk.kept : x \in Links \cup Users /\ created[x] # 0
<1>1. walk.list \in Lists /\ walk.kept \subseteq Links \cup Users /\ walk.seen \in RowSeq
  BY DEF Walk
<1>2. Of(walk.list) \subseteq Links \cup Users
  BY <1>1, BoundsAssumption DEF Of, Lists
<1> QED BY <1>1, <1>2 DEF SeenInv

(* A row that is not of the list watched: the walk sees nothing of it.       *)
LEMMA ElsewhereKeepsWalk ==
  ASSUME FiniteInv, WalkInv, NEW x \in Links \cup Users,
         Insert(x) \/ Delete(x), ~Watched(x)
  PROVE  WalkInv'
<1>1. RowsInv /\ walk \in Walk /\ SeenInv /\ MissInv /\ TwiceInv /\ PageInv /\ EndInv
  BY DEF WalkInv
<1>2. walk' = walk
  BY DEF Insert, Delete
<1>0. PICK list \in Lists : list = walk.list
  BY <1>1 DEF Walk
<1>20. \A y : Rank(y) = Newer(list, y) /\ Rank(y)' = Newer(list, y)'
  BY <1>0, <1>2 DEF Rank, Newer, Rows
<1> DEFINE Old(y) == y \in Links \cup Users /\ created[y] # 0
<1>3. /\ \A y \in Range(walk.seen) : Old(y)
      /\ \A y \in walk.kept : Old(y)
  BY <1>1, SeenRows
<1>4. /\ RowsInv'
      /\ \A y \in Links \cup Users : created[y] # 0 =>
            created'[y] = created[y] /\ (Tied(y) => Tied(y)')
      /\ x \notin Of(list) => /\ Rows(list)' = Rows(list)
                              /\ \A y \in Links \cup Users : created[y] # 0 =>
                                    Newer(list, y)' = Newer(list, y)
  <2>1. CASE Insert(x)
    BY <1>1, <1>3, <2>1, Inserts
  <2>2. CASE Delete(x)
    BY <1>1, <1>3, <2>2, Deletes
  <2> QED BY <2>1, <2>2
<1>5. Watching => x \notin Of(list)
  BY <1>0 DEF Watched, Watching
<1>6. Watching => walk.kept \subseteq stored'
  <2> SUFFICES ASSUME Watching, NEW y \in walk.kept PROVE y \in stored'
    OBVIOUS
  <2>1. y \in stored /\ y \in Of(list)
    BY <1>0, <1>1 DEF SeenInv
  <2>2. y # x
    BY <1>5, <2>1
  <2> QED BY <2>1, <2>2 DEF Insert, Delete
<1>7. SeenInv'
  BY <1>1, <1>2, <1>3, <1>4, <1>6 DEF SeenInv, Watching
<1>8. MissInv'
  <2>1. Watching => \A y \in walk.kept : Newer(list, y)' = Newer(list, y)
    BY <1>3, <1>4, <1>5
  <2>2. \A y \in walk.kept : Tied(y) => Tied(y)'
    BY <1>3, <1>4
  <2> QED BY <1>1, <1>2, <1>20, <2>1, <2>2 DEF MissInv, Watching, Covered
<1>9. NoneTwice => NoneTwice'
  <2>1. \A i \in DOMAIN walk.seen : Tied(walk.seen[i]) => Tied(walk.seen[i])'
    <3>1. \A i \in DOMAIN walk.seen : walk.seen[i] \in Range(walk.seen)
      BY DEF Range
    <3>2. \A y : Old(y) /\ Tied(y) => Tied(y)'
      BY <1>4
    <3>3. \A i \in DOMAIN walk.seen : \A y : y = walk.seen[i] /\ Tied(y) => Tied(y)'
      BY <1>3, <3>1, <3>2
    <3> QED BY <1>2, <3>3 DEF Tied
  <2> QED BY <1>2, <2>1 DEF NoneTwice
<1>10. TwiceInv'
  <2> SUFFICES ASSUME Watching, walk.first = 1, ~walk.added
               PROVE  /\ NoneTwice'
                      /\ \A y \in Range(walk.seen) :
                            Tied(y)' \/ y \notin stored' \/ Newer(list, y)' < Covered
    BY <1>2, <1>20 DEF TwiceInv, Watching, Covered
  <2>1. NoneTwice'
    BY <1>1, <1>9 DEF TwiceInv
  <2>2. \A y \in Range(walk.seen) : /\ Newer(list, y)' = Newer(list, y)
                                    /\ Tied(y) => Tied(y)'
    BY <1>3, <1>4, <1>5
  <2>3. \A y \in Range(walk.seen) : y \in stored' => y \in stored
    <3>1. \A y \in Range(walk.seen) : y \in Of(list)
      BY <1>0, <1>1 DEF SeenInv
    <3> QED BY <1>5, <3>1 DEF Insert, Delete
  <2> QED BY <1>1, <1>20, <2>1, <2>2, <2>3 DEF TwiceInv
<1>11. PageInv'
  <2>1. Watching => Rows(list)' = Rows(list)
    BY <1>4, <1>5
  <2>2. \A y \in Rows(list) : created'[y] = created[y]
    BY <1>1, <1>4 DEF Rows, RowsInv
  <2>3. ASSUME Watching, NEW s \in NewestFirst(list) PROVE s \in NewestFirst(list)'
    <3>1. \A i \in DOMAIN s : s[i] \in Rows(list)
      BY DEF NewestFirst, SetToSeqs
    <3>2. \A i \in DOMAIN s : created'[s[i]] = created[s[i]]
      BY <2>2, <3>1
    <3> QED BY <1>2, <2>1, <2>3, <3>2 DEF NewestFirst
  <2> QED BY <1>0, <1>1, <1>2, <2>1, <2>3 DEF PageInv, Watching, PageOf, Offset, Wrap
<1>12. EndInv'
  <2>1. \A y \in walk.kept : Tied(y) => Tied(y)'
    BY <1>3, <1>4
  <2> QED BY <1>1, <1>2, <1>9, <2>1 DEF EndInv
<1> QED BY <1>1, <1>2, <1>4, <1>7, <1>8, <1>10, <1>11, <1>12 DEF WalkInv

LEMMA InsertKeepsWalk ==
  ASSUME FiniteInv, WalkInv, NEW x \in Links \cup Users, Insert(x), Watched(x)
  PROVE  WalkInv'
<1>1. RowsInv /\ walk \in Walk /\ SeenInv /\ MissInv
  BY DEF WalkInv
<1>2. walk' = [walk EXCEPT !.added = TRUE, !.raced = TRUE] /\ Watching
  BY DEF Insert, Watched, Watching
<1>3. /\ walk' \in Walk /\ walk'.added /\ walk'.raced
      /\ \A f \in {"pc", "list", "first", "page", "limit", "seen", "kept", "deleted"} :
            walk'[f] = walk[f]
  BY <1>1, <1>2 DEF Walk
<1>0. PICK list \in Lists : list = walk.list
  BY <1>1 DEF Walk
<1>20. \A y : Rank(y) = Newer(list, y) /\ Rank(y)' = Newer(list, y)'
  BY <1>0, <1>3 DEF Rank, Newer, Rows
<1>4. /\ \A y \in Range(walk.seen) : y \in Links \cup Users /\ created[y] # 0
      /\ \A y \in walk.kept : y \in Links \cup Users /\ created[y] # 0
  BY <1>1, SeenRows
<1>5. /\ RowsInv' /\ stored \subseteq stored'
      /\ \A y \in Links \cup Users : created[y] # 0 =>
            /\ created'[y] = created[y] /\ (Tied(y) => Tied(y)')
            /\ Newer(list, y) <= Newer(list, y)'
  BY <1>1, <1>4, Inserts DEF Insert
<1>6. SeenInv'
  BY <1>1, <1>2, <1>3, <1>4, <1>5 DEF SeenInv, Watching
<1>7. MissInv'
  <2> SUFFICES ASSUME walk.first = 1, ~walk.deleted, NEW y \in walk.kept,
                      ~Tied(y)', y \notin Range(walk.seen)
               PROVE  Newer(list, y)' >= Covered
    BY <1>3, <1>20 DEF MissInv, Covered
  <2>1. ~Tied(y) /\ Newer(list, y) <= Newer(list, y)'
    BY <1>4, <1>5
  <2>2. Newer(list, y) >= Covered
    BY <1>1, <1>2, <1>20, <2>1 DEF MissInv
  <2>3. Newer(list, y) \in Nat /\ Newer(list, y)' \in Nat
    <3>1. FiniteInv'
      BY FS_AddElement DEF FiniteInv, Insert
    <3> QED BY <1>1, <3>1, Listed, NewerThen
  <2>4. Covered \in Int
    BY <1>1, BoundsAssumption, Times DEF Covered, Walk
  <2> QED BY <2>1, <2>2, <2>3, <2>4
<1>8. TwiceInv' /\ PageInv' /\ EndInv'
  BY <1>2, <1>3 DEF TwiceInv, PageInv, EndInv, Watching
<1> QED BY <1>3, <1>5, <1>6, <1>7, <1>8 DEF WalkInv

LEMMA DeleteKeepsWalk ==
  ASSUME FiniteInv, WalkInv, NEW x \in Links \cup Users, Delete(x), Watched(x)
  PROVE  WalkInv'
<1>1. RowsInv /\ walk \in Walk /\ SeenInv /\ TwiceInv
  BY DEF WalkInv
<1>2. walk' = [walk EXCEPT !.kept = @ \ {x}, !.deleted = TRUE, !.raced = TRUE] /\ Watching
  BY DEF Delete, Watched, Watching
<1>3. /\ walk' \in Walk /\ walk'.deleted /\ walk'.raced /\ walk'.kept = walk.kept \ {x}
      /\ \A f \in {"pc", "list", "first", "page", "limit", "seen", "added"} : walk'[f] = walk[f]
  BY <1>1, <1>2 DEF Walk
<1>0. PICK list \in Lists : list = walk.list
  BY <1>1 DEF Walk
<1>20. \A y : Rank(y) = Newer(list, y) /\ Rank(y)' = Newer(list, y)'
  BY <1>0, <1>3 DEF Rank, Newer, Rows
<1>5. /\ RowsInv' /\ created' = created /\ stored' = stored \ {x}
      /\ \A y : Tied(y)' <=> Tied(y)
      /\ \A y : Newer(list, y)' <= Newer(list, y)
  BY <1>1, Deletes
<1>6. SeenInv'
  BY <1>1, <1>2, <1>3, <1>5 DEF SeenInv, Watching
<1>7. TwiceInv'
  <2> SUFFICES ASSUME walk.first = 1, ~walk.added
               PROVE  /\ NoneTwice'
                      /\ \A y \in Range(walk.seen) :
                            Tied(y)' \/ y \notin stored' \/ Newer(list, y)' < Covered
    BY <1>3, <1>20 DEF TwiceInv, Covered
  <2>1. NoneTwice'
    BY <1>1, <1>2, <1>3, <1>5 DEF TwiceInv, NoneTwice, Tied
  <2>2. \A y : Newer(list, y) \in Nat /\ Newer(list, y)' \in Nat
    <3>1. FiniteInv'
      BY FS_RemoveElement DEF FiniteInv, Delete
    <3> QED BY <1>1, <3>1, Listed, NewerThen
  <2>3. Covered \in Int
    BY <1>1, BoundsAssumption, Times DEF Covered, Walk
  <2>4. \A y \in Range(walk.seen) : Tied(y) \/ y \notin stored \/ Newer(list, y) < Covered
    BY <1>1, <1>2, <1>20 DEF TwiceInv
  <2> QED BY <1>5, <2>1, <2>2, <2>3, <2>4
<1>8. MissInv' /\ PageInv' /\ EndInv'
  BY <1>2, <1>3 DEF MissInv, PageInv, EndInv, Watching
<1> QED BY <1>3, <1>5, <1>6, <1>7, <1>8 DEF WalkInv

LEMMA InitWalk == Init => WalkInv
<1> SUFFICES ASSUME Init PROVE WalkInv
  OBVIOUS
<1>1. RowsInv
  BY BoundsAssumption DEF Init, RowsInv
<1>2. walk \in Walk
  <2>1. 1 \in 1..IntMax /\ 1 \in 1..MaxLimit /\ 0 \in 0..IntMax
    BY BoundsAssumption
  <2>2. <<>> \in RowSeq
    BY DEF RowSeq
  <2> QED BY <2>1, <2>2 DEF Init, Walk, Lists
<1>3. /\ walk.pc = "idle" /\ walk.first = 1 /\ walk.seen = <<>> /\ walk.kept = {}
  BY DEF Init
<1>4. SeenInv
  BY <1>3 DEF SeenInv, Watching, Range
<1>5. MissInv /\ TwiceInv /\ PageInv /\ EndInv
  BY <1>3 DEF MissInv, TwiceInv, PageInv, EndInv, Watching
<1> QED BY <1>1, <1>2, <1>4, <1>5 DEF WalkInv

LEMMA WalkFrame ==
  ASSUME WalkInv, RowsInv', UNCHANGED <<created, stored, walk>>
  PROVE  WalkInv'
<1>1. walk \in Walk /\ SeenInv /\ MissInv /\ TwiceInv /\ PageInv /\ EndInv
  BY DEF WalkInv
<1>2. (walk \in Walk)' /\ SeenInv'
  BY <1>1 DEF SeenInv, Watching
<1>3. MissInv'
  BY <1>1 DEF MissInv, Watching, Covered, Rank, Newer, Rows, Tied
<1>4. TwiceInv'
  BY <1>1 DEF TwiceInv, NoneTwice, Watching, Covered, Rank, Newer, Rows, Tied
<1>5. PageInv'
  BY <1>1 DEF PageInv, NewestFirst, Rows, PageOf, Offset, Wrap
<1>6. EndInv'
  BY <1>1 DEF EndInv, NoneTwice, Tied
<1> QED BY <1>2, <1>3, <1>4, <1>5, <1>6 DEF WalkInv

(* While the tables are still, so are ranks and ties.                        *)
LEMMA Still ==
  ASSUME UNCHANGED <<created, stored>>
  PROVE  /\ \A list : Rows(list)' = Rows(list)
         /\ \A list, y : Newer(list, y)' = Newer(list, y)
         /\ \A y : Tied(y)' <=> Tied(y)
<1>1. \A list : Rows(list)' = Rows(list)
  BY DEF Rows
<1> QED BY <1>1 DEF Newer, Tied

LEMMA ListKeepsWalk ==
  ASSUME FiniteInv, WalkInv, NEW list \in Lists, List(list)
  PROVE  WalkInv'
<1>1. RowsInv /\ walk \in Walk /\ SeenInv
  BY DEF WalkInv
<1>2. PICK s \in SetToSeqs(Rows(list)) :
         walk' = [walk EXCEPT !.pc = "listed", !.list = list, !.seen = s, !.kept = Rows(list)]
  BY DEF List
<1>3. UNCHANGED <<now, created, stored>>
  BY DEF List, tableVars
<1>4. /\ IsFiniteSet(Rows(list)) /\ Rows(list) \subseteq Links \cup Users
      /\ \A x \in Rows(list) : x \in Of(list) /\ created[x] # 0
  BY <1>1, Listed DEF RowsInv
<1>5. s \in Seq(Rows(list)) /\ Range(s) = Rows(list)
  BY <1>4, InOrder
<1>6. \A i, j \in DOMAIN s : i # j => s[i] # s[j]
  BY <1>4, InOrder
<1>7. s \in RowSeq
  BY <1>4, <1>5 DEF RowSeq
<1>8. walk' \in Walk
  BY <1>1, <1>2, <1>4, <1>7 DEF Walk
<1>9. walk'.pc = "listed" /\ walk'.list = list /\ walk'.seen = s /\ walk'.kept = Rows(list)
  BY <1>1, <1>2 DEF Walk
<1>10. RowsInv'
  BY <1>1, <1>3 DEF RowsInv
<1>11. SeenInv'
  BY <1>3, <1>4, <1>5, <1>9 DEF SeenInv, Watching
<1>12. EndInv'
  BY <1>5, <1>6, <1>9 DEF EndInv, NoneTwice
<1>13. MissInv' /\ TwiceInv' /\ PageInv'
  BY <1>9 DEF MissInv, TwiceInv, PageInv, Watching
<1> QED BY <1>8, <1>10, <1>11, <1>12, <1>13 DEF WalkInv

(* A walk that ends with an error says nothing.                              *)
LEMMA FailKeepsWalk ==
  ASSUME WalkInv, UNCHANGED <<now, created, stored>>,
         NEW code \in {"400", "500"}, walk' = [walk EXCEPT !.pc = code]
  PROVE  WalkInv'
<1>1. RowsInv /\ walk \in Walk /\ SeenInv
  BY DEF WalkInv
<1>2. /\ walk' \in Walk /\ walk'.pc = code
      /\ walk'.list = walk.list /\ walk'.seen = walk.seen /\ walk'.kept = walk.kept
  BY <1>1 DEF Walk
<1>3. RowsInv' /\ SeenInv'
  BY <1>1, <1>2 DEF RowsInv, SeenInv, Watching
<1>4. MissInv' /\ TwiceInv' /\ PageInv' /\ EndInv'
  BY <1>2 DEF MissInv, TwiceInv, PageInv, EndInv, Watching
<1> QED BY <1>2, <1>3, <1>4 DEF WalkInv

LEMMA BeginKeepsWalk ==
  ASSUME FiniteInv, WalkInv, NEW list \in Lists, NEW page \in 0..IntMax, NEW limit \in Int,
         BeginWalk(list, page, limit)
  PROVE  WalkInv'
<1>1. RowsInv /\ walk \in Walk /\ SeenInv
  BY DEF WalkInv
<1>2. UNCHANGED <<now, created, stored>> /\ walk.pc = "idle"
  BY DEF BeginWalk, tableVars
<1>3. CASE ~parsePagination(page, limit)
  <2>1. walk' = [walk EXCEPT !.pc = "400"]
    BY <1>3 DEF BeginWalk
  <2> QED BY <1>2, <2>1, FailKeepsWalk
<1>4. CASE parsePagination(page, limit)
  <2>1. walk' = [walk EXCEPT !.pc = "count", !.list = list, !.first = page,
                             !.page = page, !.limit = limit, !.kept = Rows(list)]
    BY <1>4 DEF BeginWalk
  <2>2. page \in 1..IntMax /\ page \in Nat /\ limit \in 1..MaxLimit /\ limit \in Nat
    BY <1>4, BoundsAssumption DEF parsePagination
  <2>3. /\ Rows(list) \subseteq Links \cup Users /\ Rows(list) \subseteq stored
        /\ \A x \in Rows(list) : x \in Of(list) /\ created[x] # 0
    BY <1>1, Listed DEF RowsInv
  <2>4. walk' \in Walk
    BY <1>1, <2>1, <2>2, <2>3 DEF Walk
  <2>5. /\ walk'.pc = "count" /\ walk'.list = list /\ walk'.first = page /\ walk'.page = page
        /\ walk'.limit = limit /\ walk'.kept = Rows(list) /\ walk'.seen = <<>>
    BY <1>1, <1>2, <2>1 DEF Walk, SeenInv
  <2>6. RowsInv'
    BY <1>1, <1>2 DEF RowsInv
  <2>7. walk'.first = 1 => (walk'.page - 1) * walk'.limit = 0
    BY <2>2, <2>5
  <2>8. SeenInv'
    <3>1. Range(walk'.seen) = {}
      BY <2>5 DEF Range
    <3>2. 0 <= IntMax
      BY BoundsAssumption
    <3> QED BY <1>2, <2>3, <2>5, <2>7, <3>1, <3>2 DEF SeenInv, Watching
  <2>9. MissInv'
    <3>1. Covered' = (walk'.page - 1) * walk'.limit
      BY <2>5 DEF Covered
    <3>2. \A y : Rank(y)' = Newer(list, y)
      BY <1>2, <2>5 DEF Rank, Newer, Rows
    <3>3. \A y : Newer(list, y) \in Nat
      BY <1>1, Listed
    <3>4. walk'.first = 1 => \A y : Rank(y)' >= Covered'
      BY <2>7, <3>1, <3>2, <3>3
    <3> QED BY <3>4 DEF MissInv
  <2>10. TwiceInv' /\ PageInv' /\ EndInv'
    <3>1. Range(walk'.seen) = {} /\ DOMAIN walk'.seen = {}
      BY <2>5 DEF Range
    <3> QED BY <2>5, <3>1 DEF TwiceInv, NoneTwice, PageInv, EndInv
  <2> QED BY <2>4, <2>6, <2>8, <2>9, <2>10 DEF WalkInv
<1> QED BY <1>3, <1>4

LEMMA CountKeepsWalk ==
  ASSUME FiniteInv, WalkInv, Count
  PROVE  WalkInv'
<1>1. RowsInv /\ walk \in Walk /\ SeenInv /\ MissInv /\ TwiceInv
  BY DEF WalkInv
<1>2. /\ UNCHANGED <<now, created, stored>> /\ walk.pc = "count"
      /\ walk' = [walk EXCEPT !.pc = "fetch", !.total = Cardinality(Rows(walk.list)),
                              !.raced = FALSE]
  BY DEF Count, tableVars
<1>3. walk.list \in Lists
  BY <1>1 DEF Walk
<1>4. Cardinality(Rows(walk.list)) \in 0..IntMax
  BY <1>1, <1>3, Listed
<1>5. walk' \in Walk
  BY <1>1, <1>2, <1>4 DEF Walk
<1>6. /\ walk'.pc = "fetch" /\ walk'.total = Cardinality(Rows(walk.list))
      /\ \A f \in {"list", "first", "page", "limit", "seen", "kept", "deleted", "added"} :
            walk'[f] = walk[f]
  BY <1>1, <1>2 DEF Walk
<1>7. RowsInv' /\ SeenInv'
  BY <1>1, <1>2, <1>6 DEF RowsInv, SeenInv, Watching
<1>8. Covered' = Covered /\ \A y : Rank(y)' = Rank(y) /\ (Tied(y)' <=> Tied(y))
  BY <1>2, <1>6 DEF Covered, Rank, Newer, Rows, Tied
<1>9. MissInv'
  BY <1>1, <1>2, <1>6, <1>8 DEF MissInv, Watching
<1>10. TwiceInv'
  BY <1>1, <1>2, <1>6, <1>8 DEF TwiceInv, NoneTwice, Watching
<1>11. PageInv' /\ EndInv'
  BY <1>2, <1>6 DEF PageInv, EndInv, Rows
<1> QED BY <1>5, <1>7, <1>9, <1>10, <1>11 DEF WalkInv

(* The page fetched continues where the pages before it ended.               *)
LEMMA FetchKeepsWalk ==
  ASSUME FiniteInv, WalkInv, Fetch
  PROVE  WalkInv'
<1>1. RowsInv /\ walk \in Walk /\ SeenInv /\ MissInv /\ TwiceInv /\ PageInv
  BY DEF WalkInv
<1>2. UNCHANGED <<now, created, stored>> /\ walk.pc = "fetch"
  BY DEF Fetch, tableVars
<1>3. PICK s \in NewestFirst(walk.list) :
         walk' = [walk EXCEPT !.pc = "page", !.data = PageOf(s, walk.page, walk.limit),
                              !.seen = @ \o PageOf(s, walk.page, walk.limit)]
  BY DEF Fetch
<1>4. PICK list \in Lists, page \in 1..IntMax, limit \in 1..MaxLimit :
         list = walk.list /\ page = walk.page /\ limit = walk.limit
  BY <1>1 DEF Walk
<1> DEFINE data == PageOf(s, page, limit)
           from == From(page, limit)
           n == (page - 1) * limit
           all == walk.seen \o data
<1>5. page \in Nat \ {0} /\ limit \in Nat \ {0} /\ page - 1 \in Nat
  BY BoundsAssumption
<1>6. n \in Nat /\ page * limit = n + limit
  <2>1. (page - 1) + 1 = page
    BY <1>5
  <2> QED BY <1>5, <2>1, Times
<1>7. /\ IsFiniteSet(Rows(list)) /\ Rows(list) \subseteq Links \cup Users
      /\ s \in SetToSeqs(Rows(list))
      /\ \A x \in Rows(list) : x \in Of(list) /\ x \in stored /\ created[x] # 0
  BY <1>1, <1>3, <1>4, Listed DEF NewestFirst, RowsInv
<1>8. s \in Seq(Rows(list)) /\ Range(s) = Rows(list)
  BY <1>7, InOrder
<1>9. \A i, j \in DOMAIN s : i # j => s[i] # s[j]
  BY <1>7, InOrder
<1>10. /\ from \in Nat /\ from <= n /\ (n <= IntMax => from = n)
       /\ data \in Seq(Rows(list))
       /\ \A i \in DOMAIN data : from + i \in DOMAIN s /\ i <= limit /\ data[i] = s[from + i]
       /\ \A p \in DOMAIN s : (from < p /\ p <= from + limit) =>
             p - from \in DOMAIN data /\ data[p - from] = s[p]
  <2>1. from \in Nat /\ from <= n /\ (n <= IntMax => from = n)
    BY <1>5, <1>8, PageHas
  <2>2. data \in Seq(Rows(list))
    BY <1>5, <1>8, PageHas
  <2>3. \A i \in DOMAIN data : from + i \in DOMAIN s /\ i <= limit /\ data[i] = s[from + i]
    BY <1>5, <1>8, PageHas
  <2>4. \A p \in DOMAIN s : (from < p /\ p <= from + limit) =>
             p - from \in DOMAIN data /\ data[p - from] = s[p]
    BY <1>5, <1>8, PageHas
  <2> QED BY <2>1, <2>2, <2>3, <2>4
<1>11. \A p \in DOMAIN s : p \in Nat \ {0} /\ (Tied(s[p]) \/ Newer(list, s[p]) = p - 1)
  <2>1. created \in [Links \cup Users -> Nat]
    BY <1>1, BoundsAssumption DEF RowsInv
  <2>2. \A p \in DOMAIN s : p \in Nat \ {0}
    BY <1>8
  <2> QED BY <1>1, <1>3, <1>4, <2>1, <2>2, RankIsPlace DEF FiniteInv, RowsInv, Lists
<1> HIDE DEF data, from, n
<1>12. walk' = [walk EXCEPT !.pc = "page", !.data = data, !.seen = all]
  BY <1>3, <1>4 DEF data
<1>13. /\ data \in RowSeq /\ walk.seen \in RowSeq /\ all \in RowSeq
       /\ Len(all) = Len(walk.seen) + Len(data)
       /\ \A i \in 1..Len(walk.seen) : all[i] = walk.seen[i]
       /\ \A i \in 1..Len(data) : all[Len(walk.seen) + i] = data[i]
  <2>1. walk.seen \in RowSeq /\ data \in RowSeq
    BY <1>1, <1>7, <1>10 DEF Walk, RowSeq
  <2> QED BY <2>1, ConcatProperties DEF RowSeq
<1>14. \A i \in DOMAIN all : \/ i \in DOMAIN walk.seen /\ all[i] = walk.seen[i]
                             \/ /\ i - Len(walk.seen) \in DOMAIN data
                                /\ i > Len(walk.seen)
                                /\ all[i] = data[i - Len(walk.seen)]
  <2> SUFFICES ASSUME NEW i \in DOMAIN all
               PROVE  \/ i \in DOMAIN walk.seen /\ all[i] = walk.seen[i]
                      \/ /\ i - Len(walk.seen) \in DOMAIN data
                         /\ i > Len(walk.seen)
                         /\ all[i] = data[i - Len(walk.seen)]
    OBVIOUS
  <2>1. i \in 1..(Len(walk.seen) + Len(data)) /\ Len(walk.seen) \in Nat /\ Len(data) \in Nat
    BY <1>13 DEF RowSeq
  <2>2. CASE i <= Len(walk.seen)
    BY <1>13, <2>1, <2>2 DEF RowSeq
  <2>3. CASE i > Len(walk.seen)
    <3>1. i - Len(walk.seen) \in 1..Len(data) /\ Len(walk.seen) + (i - Len(walk.seen)) = i
      BY <2>1, <2>3
    <3>2. all[i] = data[i - Len(walk.seen)]
      BY <1>13, <3>1
    <3> QED BY <1>13, <2>3, <3>1, <3>2 DEF RowSeq
  <2> QED BY <2>1, <2>2, <2>3
<1>15. Range(all) = Range(walk.seen) \cup Range(data)
  <2>1. \A i \in DOMAIN walk.seen : i \in DOMAIN all /\ all[i] = walk.seen[i]
    BY <1>13 DEF RowSeq
  <2>2. \A i \in DOMAIN data : Len(walk.seen) + i \in DOMAIN all /\ all[Len(walk.seen) + i] = data[i]
    <3>1. \A i \in DOMAIN data : i \in 1..Len(data) /\ Len(walk.seen) + i \in 1..(Len(walk.seen) + Len(data))
      BY <1>13 DEF RowSeq
    <3> QED BY <1>13, <3>1 DEF RowSeq
  <2> QED BY <1>14, <2>1, <2>2 DEF Range
<1>16. Range(data) \subseteq Rows(list)
  BY <1>10 DEF Range
<1> HIDE DEF all
<1>17. walk' \in Walk
  BY <1>1, <1>12, <1>13 DEF Walk
<1>18. /\ walk'.pc = "page" /\ walk'.data = data /\ walk'.seen = all
       /\ \A f \in {"list", "first", "page", "limit", "kept", "deleted", "added", "raced", "total"} :
             walk'[f] = walk[f]
  BY <1>1, <1>12 DEF Walk
<1>19. RowsInv' /\ SeenInv'
  BY <1>1, <1>2, <1>4, <1>7, <1>15, <1>16, <1>18 DEF RowsInv, SeenInv, Watching
<1>20. /\ Covered = n /\ Covered' = n + limit
       /\ \A y : Rank(y) = Newer(list, y) /\ Rank(y)' = Newer(list, y)
       /\ \A y : Tied(y)' <=> Tied(y)
  BY <1>2, <1>4, <1>6, <1>18 DEF Covered, Rank, Newer, Rows, Tied, n
<1>21. walk.first = 1 => from = n
  BY <1>1, <1>2, <1>4, <1>10 DEF SeenInv, Watching, n
<1>22. MissInv'
  <2> SUFFICES ASSUME walk.first = 1, ~walk.deleted, NEW y \in walk.kept,
                      ~Tied(y), y \notin Range(all)
               PROVE  Newer(list, y) >= n + limit
    BY <1>18, <1>20 DEF MissInv
  <2>1. Newer(list, y) >= n
    BY <1>1, <1>2, <1>15, <1>20 DEF MissInv, Watching
  <2>2. y \in Rows(list)
    BY <1>1, <1>2, <1>4 DEF SeenInv, Watching, Rows
  <2>3. PICK p \in DOMAIN s : s[p] = y
    BY <1>8, <2>2 DEF Range
  <2>4. p \in Nat \ {0} /\ Newer(list, y) = p - 1
    BY <1>11, <2>3
  <2>5. ~(p <= n + limit)
    <3> SUFFICES ASSUME p <= n + limit PROVE y \in Range(data)
      BY <1>15
    <3>1. from < p /\ p <= from + limit
      BY <1>6, <1>21, <2>1, <2>4
    <3>2. p - from \in DOMAIN data /\ data[p - from] = y
      BY <1>10, <2>3, <3>1
    <3> QED BY <3>2 DEF Range
  <2> QED BY <1>5, <1>6, <2>4, <2>5
<1>23. \A x \in Range(data) : walk.first = 1 =>
          Tied(x) \/ (Newer(list, x) \in Nat /\ n <= Newer(list, x) /\ Newer(list, x) < n + limit)
  <2> SUFFICES ASSUME walk.first = 1, NEW i \in DOMAIN data, ~Tied(data[i])
               PROVE  /\ Newer(list, data[i]) \in Nat /\ n <= Newer(list, data[i])
                      /\ Newer(list, data[i]) < n + limit
    BY DEF Range
  <2>1. n + i \in DOMAIN s /\ i <= limit /\ data[i] = s[n + i] /\ i \in Nat \ {0}
    <3>1. i \in Nat \ {0}
      BY <1>13 DEF RowSeq
    <3> QED BY <1>10, <1>21, <3>1
  <2>2. \A p \in DOMAIN s : \A x : x = s[p] => Tied(x) \/ Newer(list, x) = p - 1
    BY <1>11
  <2>3. Newer(list, data[i]) = (n + i) - 1
    BY <2>1, <2>2
  <2> QED BY <1>5, <1>6, <2>1, <2>3
<1>24. TwiceInv'
  <2> SUFFICES ASSUME walk.first = 1, ~walk.added
               PROVE  /\ \A i, j \in DOMAIN all : (i # j /\ all[i] = all[j]) => Tied(all[i])
                      /\ \A x \in Range(all) : Tied(x) \/ x \notin stored \/ Newer(list, x) < n + limit
    BY <1>2, <1>18, <1>20 DEF TwiceInv, NoneTwice
  <2>1. /\ \A i, j \in DOMAIN walk.seen :
              (i # j /\ walk.seen[i] = walk.seen[j]) => Tied(walk.seen[i])
        /\ \A x \in Range(walk.seen) : Tied(x) \/ x \notin stored \/ Newer(list, x) < n
    BY <1>1, <1>2, <1>20 DEF TwiceInv, NoneTwice, Watching
  <2>2. \A i, j \in DOMAIN data : i # j => data[i] # data[j]
    <3> SUFFICES ASSUME NEW i \in DOMAIN data, NEW j \in DOMAIN data, i # j
                 PROVE  data[i] # data[j]
      OBVIOUS
    <3>1. i \in Nat /\ j \in Nat
      BY <1>13 DEF RowSeq
    <3>2. from + i # from + j
      BY <1>10, <3>1
    <3> QED BY <1>9, <1>10, <3>2
  <2>3. \A i \in DOMAIN walk.seen, j \in DOMAIN data :
           walk.seen[i] = data[j] => Tied(data[j])
    <3> SUFFICES ASSUME NEW i \in DOMAIN walk.seen, NEW j \in DOMAIN data,
                        walk.seen[i] = data[j], ~Tied(data[j])
                 PROVE  FALSE
      OBVIOUS
    <3>1. data[j] \in Range(walk.seen) /\ data[j] \in Range(data)
      BY DEF Range
    <3>2. data[j] \in stored
      BY <1>7, <1>16, <3>1
    <3>3. Newer(list, data[j]) < n /\ Newer(list, data[j]) \in Nat /\ n <= Newer(list, data[j])
      BY <1>23, <2>1, <3>1, <3>2
    <3> QED BY <1>6, <3>3
  <2>4. ASSUME NEW i \in DOMAIN all, NEW j \in DOMAIN all, i # j, all[i] = all[j]
        PROVE  Tied(all[i])
    <3>0. Len(walk.seen) \in Nat /\ i \in Nat /\ j \in Nat
      BY <1>13 DEF RowSeq
    <3>1. CASE i \in DOMAIN walk.seen /\ all[i] = walk.seen[i]
               /\ j \in DOMAIN walk.seen /\ all[j] = walk.seen[j]
      BY <2>1, <2>4, <3>1
    <3>2. CASE i - Len(walk.seen) \in DOMAIN data /\ all[i] = data[i - Len(walk.seen)]
               /\ j - Len(walk.seen) \in DOMAIN data /\ all[j] = data[j - Len(walk.seen)]
      <4>1. i - Len(walk.seen) # j - Len(walk.seen)
        BY <2>4, <3>0
      <4> QED BY <2>2, <2>4, <3>2, <4>1
    <3>3. CASE i \in DOMAIN walk.seen /\ all[i] = walk.seen[i]
               /\ j - Len(walk.seen) \in DOMAIN data /\ all[j] = data[j - Len(walk.seen)]
      BY <2>3, <2>4, <3>3
    <3>4. CASE i - Len(walk.seen) \in DOMAIN data /\ all[i] = data[i - Len(walk.seen)]
               /\ j \in DOMAIN walk.seen /\ all[j] = walk.seen[j]
      BY <2>3, <2>4, <3>4
    <3> QED BY <1>14, <3>1, <3>2, <3>3, <3>4
  <2>5. ASSUME NEW x \in Range(all)
        PROVE  Tied(x) \/ x \notin stored \/ Newer(list, x) < n + limit
    <3>1. CASE x \in Range(data)
      BY <1>23, <3>1
    <3>2. CASE x \in Range(walk.seen)
      <4>1. Newer(list, x) \in Nat
        BY <1>1, Listed
      <4> QED BY <1>5, <1>6, <2>1, <3>2, <4>1
    <3> QED BY <1>15, <3>1, <3>2
  <2> QED BY <2>4, <2>5
<1>25. PageInv'
  <2>1. NewestFirst(list)' = NewestFirst(list) /\ Rows(list)' = Rows(list)
    BY <1>2 DEF NewestFirst, Rows
  <2>2. ~walk.raced => walk.total = Cardinality(Rows(list))
    BY <1>1, <1>2, <1>4 DEF PageInv
  <2>3. walk'.list = list /\ walk'.page = page /\ walk'.limit = limit
        /\ walk'.raced = walk.raced /\ walk'.total = walk.total
    BY <1>4, <1>18
  <2>4. walk'.data = PageOf(s, page, limit)
    BY <1>18 DEF data
  <2>5. s \in NewestFirst(list)
    BY <1>3, <1>4
  <2> QED BY <1>2, <2>1, <2>2, <2>3, <2>4, <2>5 DEF PageInv, NewestFirst, Rows, PageOf, Offset, Wrap
<1>26. EndInv'
  BY <1>18 DEF EndInv
<1> QED BY <1>17, <1>19, <1>22, <1>24, <1>25, <1>26 DEF WalkInv

(* The client stops when its pages cover what was counted.                   *)
LEMMA NextPageKeepsWalk ==
  ASSUME FiniteInv, WalkInv, NextPage
  PROVE  WalkInv'
<1>1. RowsInv /\ walk \in Walk /\ SeenInv /\ MissInv /\ TwiceInv /\ PageInv
  BY DEF WalkInv
<1>2. UNCHANGED <<now, created, stored>> /\ walk.pc = "page"
  BY DEF NextPage, tableVars
<1>3. PICK list \in Lists, page \in 1..IntMax, limit \in 1..MaxLimit, total \in 0..IntMax :
         list = walk.list /\ page = walk.page /\ limit = walk.limit /\ total = walk.total
  BY <1>1 DEF Walk
<1>4. page \in Nat \ {0} /\ limit \in Nat \ {0} /\ total \in Nat /\ total <= IntMax
      /\ IntMax \in Nat
  BY BoundsAssumption
<1>5. /\ TotalPages(total, limit) \in Nat
      /\ page < TotalPages(total, limit) <=> page * limit < total
      /\ page * limit \in Nat
  BY <1>4, PagesCover, Times
<1>6. \A y : (Tied(y)' <=> Tied(y)) /\ Newer(list, y)' = Newer(list, y)
  BY <1>2, Still
<1>7. Covered = page * limit
  BY <1>2, <1>3 DEF Covered
<1>8. CASE page < TotalPages(total, limit)
  <2>1. walk' = [walk EXCEPT !.pc = "count", !.page = page + 1]
    BY <1>3, <1>8 DEF NextPage
  <2>2. page <= page * limit
    <3>1. 1 <= limit
      BY <1>4
    <3> QED BY <1>4, <3>1, Z3
  <2>3. page + 1 \in 1..IntMax /\ page * limit <= IntMax
    BY <1>4, <1>5, <1>8, <2>2
  <2>4. walk' \in Walk
    BY <1>1, <2>1, <2>3 DEF Walk
  <2>5. /\ walk'.pc = "count" /\ walk'.page = page + 1
        /\ \A f \in {"list", "first", "limit", "seen", "kept", "deleted", "added"} :
              walk'[f] = walk[f]
    BY <1>1, <2>1 DEF Walk
  <2>6. (walk'.page - 1) * walk'.limit = page * limit
    BY <1>3, <1>4, <2>5
  <2>7. RowsInv' /\ SeenInv'
    BY <1>1, <1>2, <2>3, <2>5, <2>6 DEF RowsInv, SeenInv, Watching
  <2>8. Covered' = Covered /\ \A y : Rank(y)' = Rank(y)
    <3>1. Covered' = page * limit
      BY <2>5, <2>6 DEF Covered
    <3> QED BY <1>2, <1>7, <2>5, <3>1 DEF Rank, Newer, Rows
  <2>9. MissInv'
    BY <1>1, <1>2, <1>6, <2>5, <2>8 DEF MissInv, Watching
  <2>10. TwiceInv'
    BY <1>1, <1>2, <1>6, <2>5, <2>8 DEF TwiceInv, NoneTwice, Watching
  <2>11. PageInv' /\ EndInv'
    BY <2>5 DEF PageInv, EndInv
  <2> QED BY <2>4, <2>7, <2>9, <2>10, <2>11 DEF WalkInv
<1>9. CASE ~(page < TotalPages(total, limit))
  <2>1. walk' = [walk EXCEPT !.pc = "done"]
    BY <1>3, <1>9 DEF NextPage
  <2>2. /\ walk' \in Walk /\ walk'.pc = "done"
        /\ \A f \in {"list", "first", "seen", "kept", "deleted", "added", "raced"} :
              walk'[f] = walk[f]
    BY <1>1, <2>1 DEF Walk
  <2>3. RowsInv' /\ SeenInv'
    BY <1>1, <1>2, <2>2 DEF RowsInv, SeenInv, Watching
  <2>4. MissInv' /\ TwiceInv' /\ PageInv'
    BY <2>2 DEF MissInv, TwiceInv, PageInv, Watching
  <2>5. ASSUME walk.first = 1, ~walk.deleted, ~walk.raced,
               NEW y \in walk.kept, ~Tied(y), y \notin Range(walk.seen)
        PROVE  FALSE
    <3>1. Newer(list, y) >= page * limit
      BY <1>1, <1>2, <1>3, <1>7, <2>5 DEF MissInv, Watching, Rank
    <3>2. total = Cardinality(Rows(list))
      BY <1>1, <1>2, <1>3, <2>5 DEF PageInv
    <3>3. y \in Rows(list)
      BY <1>1, <1>2, <1>3, <2>5 DEF SeenInv, Watching, Rows
    <3>4. Newer(list, y) < total /\ Newer(list, y) \in Nat
      BY <1>1, <3>2, <3>3, Listed
    <3> QED BY <1>4, <1>5, <1>9, <3>1, <3>4
  <2>6. NoneTwice => NoneTwice'
    BY <1>6, <2>2 DEF NoneTwice
  <2>7. EndInv'
    <3>1. (walk.first = 1 /\ ~walk.added) => NoneTwice
      BY <1>1, <1>2 DEF TwiceInv, Watching
    <3> QED BY <1>6, <2>2, <2>5, <2>6, <3>1 DEF EndInv
  <2> QED BY <2>2, <2>3, <2>4, <2>7 DEF WalkInv
<1> QED BY <1>8, <1>9

LEMMA NextWalk == Inv /\ WalkInv /\ [Next]_vars => WalkInv'
<1> SUFFICES ASSUME Inv, WalkInv, [Next]_vars PROVE WalkInv'
  OBVIOUS
<1>1. FiniteInv /\ RowsInv
  BY DEF Inv, BoardInv, WalkInv
<1>2. ASSUME NEW x \in Links \cup Users, Insert(x) \/ Delete(x) PROVE WalkInv'
  BY <1>1, <1>2, ElsewhereKeepsWalk, InsertKeepsWalk, DeleteKeepsWalk
<1>3. CASE Tick
  <2>1. RowsInv'
    BY <1>1, <1>3, BoundsAssumption DEF RowsInv, Tick
  <2> QED BY <1>3, <2>1, WalkFrame DEF Tick
<1>4. CASE UNCHANGED <<now, created, stored, walk>>
  <2>1. RowsInv'
    BY <1>1, <1>4 DEF RowsInv
  <2> QED BY <1>4, <2>1, WalkFrame
<1>5. CASE \E list \in Lists : List(list)
  BY <1>1, <1>5, ListKeepsWalk
<1>6. ASSUME NEW list \in Lists, NEW page \in 0..IntMax, NEW limit \in 0..(MaxLimit + 1),
             BeginWalk(list, page, limit)
      PROVE  WalkInv'
  <2>1. limit \in Int
    BY BoundsAssumption
  <2> QED BY <1>1, <1>6, <2>1, BeginKeepsWalk
<1>7. CASE ListFails \/ QueryFails
  <2>1. UNCHANGED <<now, created, stored>> /\ walk' = [walk EXCEPT !.pc = "500"]
    BY <1>7 DEF ListFails, QueryFails, tableVars
  <2> QED BY <2>1, FailKeepsWalk
<1>8. CASE Count \/ Fetch \/ NextPage
  BY <1>1, <1>8, CountKeepsWalk, FetchKeepsWalk, NextPageKeepsWalk
<1>9. CASE LinkWalkStep \/ UserWalkStep \/ PageStep
  BY <1>5, <1>6, <1>7, <1>8, <1>9 DEF LinkWalkStep, UserWalkStep, PageStep, Lists,
     GetUserLinks, GetAllLinks, GetAllUsers, GetUserLinksPaginated, GetAllLinksPaginated,
     GetAllUsersPaginated
<1>10. CASE BoardStep
  BY <1>4, <1>10 DEF BoardStep, BeginBoard, Wait, Fetched, FetchFails, tableVars
<1>11. CASE \E e \in Exports : ExportStep(e)
  BY <1>4, <1>11 DEF ExportStep, ReadLinks, ReadLinksFails, Fill, Send, SendFails, tableVars
<1> QED BY <1>2, <1>3, <1>4, <1>9, <1>10, <1>11 DEF Next, TableStep, vars

WholeInv == Inv /\ WalkInv

LEMMA WholeAlways == Spec => []WholeInv
<1>1. Init => WholeInv
  BY BoardInit, ExportInit, InitWalk DEF WholeInv, Inv
<1>2. WholeInv /\ [Next]_vars => WholeInv'
  BY NextInv, NextWalk DEF WholeInv
<1> QED BY <1>1, <1>2, PTL DEF Spec

(* A page of a table without ties, as it was counted.                        *)
LEMMA PageIsThere ==
  ASSUME FiniteInv, RowsInv, NEW list \in Lists, \A x \in Rows(list) : ~Tied(x),
         NEW s \in NewestFirst(list), NEW page \in Nat \ {0}, NEW limit \in Nat \ {0}
  PROVE  /\ (page - 1) * limit <= IntMax =>
               Range(PageOf(s, page, limit)) =
                  {x \in Rows(list) : Newer(list, x) \div limit = page - 1}
         /\ Len(PageOf(s, page, limit)) <= limit
         /\ Range(PageOf(s, page, limit)) \subseteq Rows(list)
         /\ \A i, j \in DOMAIN PageOf(s, page, limit) :
               i < j => created[PageOf(s, page, limit)[i]] > created[PageOf(s, page, limit)[j]]
         /\ \A x \in Rows(list) :
               Newer(list, x) \div limit < TotalPages(Cardinality(Rows(list)), limit)
         /\ page <= TotalPages(Cardinality(Rows(list)), limit) => PageOf(s, page, limit) # <<>>
<1> DEFINE data == PageOf(s, page, limit)
           from == From(page, limit)
           n == (page - 1) * limit
           total == Cardinality(Rows(list))
<1>1. n \in Nat /\ page * limit = n + limit /\ page - 1 \in Nat
  <2>1. page - 1 \in Nat /\ (page - 1) + 1 = page
    OBVIOUS
  <2> QED BY <2>1, Times
<1>2. /\ IsFiniteSet(Rows(list)) /\ Rows(list) \subseteq Links \cup Users
      /\ total \in Nat /\ s \in SetToSeqs(Rows(list))
  <2>1. total \in 0..IntMax
    BY Listed
  <2> QED BY <2>1, Listed, BoundsAssumption DEF NewestFirst
<1>3. s \in Seq(Rows(list)) /\ Len(s) = total
  BY <1>2, InOrder
<1>4. Range(s) = Rows(list)
  BY <1>2, InOrder
<1>5. \A i, j \in DOMAIN s : i # j => s[i] # s[j]
  BY <1>2, InOrder
<1>6. from \in Nat /\ from <= n /\ (n <= IntMax => from = n)
  BY <1>3, PageHas
<1>7. data \in Seq(Rows(list)) /\ Len(data) <= limit
  BY <1>3, PageHas
<1>8. \A i \in DOMAIN data : from + i \in DOMAIN s /\ i <= limit /\ data[i] = s[from + i]
  BY <1>3, PageHas
<1>9. \A p \in DOMAIN s : (from < p /\ p <= from + limit) =>
         p - from \in DOMAIN data /\ data[p - from] = s[p]
  BY <1>3, PageHas
<1>10. created \in [Links \cup Users -> Nat]
  BY BoundsAssumption DEF RowsInv
<1>11. \A p \in DOMAIN s : p \in Nat \ {0} /\ s[p] \in Rows(list)
  BY <1>3
<1>12. \A p \in DOMAIN s : \A x : x = s[p] => Newer(list, x) = p - 1
  BY <1>10, <1>11, RankIsPlace DEF FiniteInv, RowsInv, Lists
<1>13. \A x \in Rows(list) : Newer(list, x) \in Nat /\ Newer(list, x) < total
  BY Listed
<1> HIDE DEF data, from, n, total
<1>14. \A i \in DOMAIN data : i \in Nat \ {0} /\ data[i] \in Rows(list)
  BY <1>7
<1>15. ASSUME n <= IntMax
       PROVE  Range(data) = {x \in Rows(list) : Newer(list, x) \div limit = page - 1}
  <2>1. \A x \in Rows(list) : Newer(list, x) \div limit = page - 1
                                <=> n <= Newer(list, x) /\ Newer(list, x) < n + limit
    <3>1. \A r \in Nat : r \div limit = page - 1
                            <=> (page - 1) * limit <= r /\ r < ((page - 1) + 1) * limit
      BY <1>1, Quotient
    <3>2. (page - 1) + 1 = page
      OBVIOUS
    <3>3. \A r \in Nat : r \div limit = page - 1 <=> n <= r /\ r < n + limit
      BY <1>1, <3>1, <3>2 DEF n
    <3> QED BY <1>13, <3>3
  <2>2. ASSUME NEW i \in DOMAIN data
        PROVE  n <= Newer(list, data[i]) /\ Newer(list, data[i]) < n + limit
    <3>1. n + i \in DOMAIN s /\ i <= limit /\ data[i] = s[n + i]
      BY <1>6, <1>8, <1>15
    <3>2. Newer(list, data[i]) = (n + i) - 1
      BY <1>12, <3>1
    <3> QED BY <1>1, <1>14, <3>1, <3>2
  <2>3. ASSUME NEW x \in Rows(list), n <= Newer(list, x), Newer(list, x) < n + limit
        PROVE  x \in Range(data)
    <3>1. PICK p \in DOMAIN s : s[p] = x
      BY <1>4 DEF Range
    <3>2. Newer(list, x) = p - 1 /\ p \in Nat
      BY <1>11, <1>12, <3>1
    <3>3. n < p /\ p <= n + limit
      BY <1>1, <2>3, <3>2
    <3>4. p - from \in DOMAIN data /\ data[p - from] = x
      BY <1>6, <1>9, <1>15, <3>1, <3>3
    <3> QED BY <3>4 DEF Range
  <2> QED BY <1>14, <2>1, <2>2, <2>3 DEF Range
<1>16. ASSUME NEW i \in DOMAIN data, NEW j \in DOMAIN data, i < j
       PROVE  created[data[i]] > created[data[j]]
  <2>1. /\ from + i \in DOMAIN s /\ data[i] = s[from + i]
        /\ from + j \in DOMAIN s /\ data[j] = s[from + j]
    BY <1>8
  <2>2. from + i < from + j
    BY <1>6, <1>14, <1>16
  <2>3. created[data[i]] >= created[data[j]]
    BY <2>1, <2>2 DEF NewestFirst
  <2>4. data[i] # data[j]
    BY <1>5, <1>6, <1>14, <2>1, <2>2
  <2>5. data[i] \in Rows(list) /\ data[j] \in Rows(list)
    BY <1>14
  <2>6. created[data[i]] # created[data[j]]
    BY <1>2, <2>4, <2>5 DEF Tied
  <2>7. created[data[i]] \in Nat /\ created[data[j]] \in Nat
    BY <1>2, <1>10, <2>5
  <2> QED BY <2>3, <2>6, <2>7
<1>17. ASSUME NEW x \in Rows(list) PROVE Newer(list, x) \div limit < TotalPages(total, limit)
  <2> DEFINE r == Newer(list, x)
             q == r \div limit
  <2>1. r \in Nat /\ r < total
    BY <1>13
  <2> HIDE DEF r
  <2>2. q \in Nat
    BY <2>1, Division
  <2>3. q * limit <= r
    BY <2>1, <2>2, Quotient
  <2> HIDE DEF q
  <2>4. q * limit \in Nat
    BY <2>2, Times
  <2>5. q * limit < total
    BY <1>2, <2>1, <2>3, <2>4 DEF total
  <2> QED BY <1>2, <2>2, <2>5, PagesCover DEF q, r, total
<1>18. ASSUME page <= TotalPages(total, limit) PROVE data # <<>>
  <2>0. total \in Nat
    BY <1>2 DEF total
  <2>1. page - 1 < TotalPages(total, limit)
    <3>1. TotalPages(total, limit) \in Nat
      BY <2>0, PagesCover
    <3> QED BY <1>18, <3>1
  <2>2. n < total
    BY <1>1, <2>0, <2>1, PagesCover DEF n
  <2>3. from + 1 \in 1..Len(s)
    BY <1>1, <1>3, <1>6, <2>0, <2>2 DEF total
  <2>4. from + 1 \in DOMAIN s
    BY <1>3, <2>3
  <2>5. (from + 1) - from \in DOMAIN data
    BY <1>6, <1>9, <2>4
  <2> QED BY <2>5
<1>19. Range(data) \subseteq Rows(list)
  BY <1>14 DEF Range
<1> QED BY <1>7, <1>15, <1>16, <1>17, <1>18, <1>19 DEF data, n, total

----------------------------------------------------------------------------
(* The theorems. *)
(* The dashboard is answered when none of its goroutines can write to it any *)
(* more, with all three lists or with an error, and its top links are among  *)
(* its links if the tables were still (admin_service.go:151, :180).          *)
THEOREM DashboardsAreWhole == Spec => []DashboardIsWhole
<1>1. Inv => DashboardIsWhole
  BY DEF Inv, BoardInv, FetchInv, TopInv, DashboardIsWhole
<1> QED BY <1>1, InvAlways, PTL

(* An export that was sent whole is what that export read, however exports   *)
(* fail and hand on their buffers (admin_service.go:199).                    *)
THEOREM ExportsAreSnapshots == Spec => []ExportIsSnapshot
<1>1. Inv => ExportIsSnapshot
  BY DEF Inv, ExportInv
<1> QED BY <1>1, InvAlways, PTL

(* Rows are in the tables once at most and with the time of their insert,    *)
(* the readers have the states they can have, and no two exports under way   *)
(* share a buffer (admin_service.go:199).                                    *)
THEOREM ListingsTypeCorrect == Spec => []TypeOK
<1>1. WholeInv => TypeOK
  <2> SUFFICES ASSUME WholeInv PROVE TypeOK
    OBVIOUS
  <2>1. RowsInv /\ walk \in Walk /\ FetchInv /\ ExportInv
    BY DEF WholeInv, Inv, WalkInv, BoardInv
  <2>2. /\ walk.pc \in {"idle", "count", "fetch", "page", "done", "listed", "400", "500"}
        /\ walk.page \in 1..IntMax /\ walk.limit \in 1..MaxLimit
    BY <2>1 DEF Walk
  <2>3. board.pc \in {"idle", "wait", "200", "500"}
    BY <2>1 DEF FetchInv
  <2> QED BY <2>1, <2>2, <2>3 DEF TypeOK, RowsInv, ExportInv
<1> QED BY <1>1, WholeAlways, PTL

(* Whatever the table, the page and the limit: a page of a table that stands *)
(* still has the rows whose rank by age says so, newest first, and           *)
(* total_pages counts the pages that are not empty (url_repo.go:78,          *)
(* pagination.go:29).                                                        *)
THEOREM PagesAreRight == Spec => []PageIsRight
<1>1. WholeInv => PageIsRight
  <2> SUFFICES ASSUME WholeInv, walk.pc = "page", ~walk.raced,
                      \A x \in Rows(walk.list) : ~Tied(x)
               PROVE  PageIsRight
    BY DEF PageIsRight
  <2>1. FiniteInv /\ RowsInv /\ walk \in Walk /\ PageInv
    BY DEF WholeInv, Inv, BoardInv, WalkInv
  <2>2. PICK s \in NewestFirst(walk.list) : walk.data = PageOf(s, walk.page, walk.limit)
    BY <2>1 DEF PageInv
  <2>3. walk.total = Cardinality(Rows(walk.list))
    BY <2>1 DEF PageInv
  <2>4. walk.list \in Lists /\ walk.page \in Nat \ {0} /\ walk.limit \in Nat \ {0}
    BY <2>1, BoundsAssumption DEF Walk
  <2> DEFINE rows == Rows(walk.list)
             within == {x \in rows : Newer(walk.list, x) \div walk.limit = walk.page - 1}
  <2>5. /\ (walk.page - 1) * walk.limit <= IntMax => Range(walk.data) = within
        /\ Len(walk.data) <= walk.limit
        /\ Range(walk.data) \subseteq rows
        /\ \A i, j \in DOMAIN walk.data :
              i < j => created[walk.data[i]] > created[walk.data[j]]
        /\ \A x \in rows : Newer(walk.list, x) \div walk.limit < TotalPages(walk.total, walk.limit)
        /\ walk.page <= TotalPages(walk.total, walk.limit) => walk.data # <<>>
    BY <2>1, <2>2, <2>3, <2>4, PageIsThere
  <2> QED BY <2>5 DEF PageIsRight, Newer
<1> QED BY <1>1, WholeAlways, PTL

(* However rows come and go under it, a client that pages from the first     *)
(* page to the last misses a row only to a deletion, to an insert between    *)
(* the two statements of the last page or to a tie, sees one twice only to   *)
(* an insert or a tie, and sees rows of its own list only (url_repo.go:80,   *)
(* :91).                                                                     *)
THEOREM WalksMissNothing == Spec => []WalkMissesNothing
<1>1. WholeInv => WalkMissesNothing
  <2> SUFFICES ASSUME WholeInv, walk.pc \in {"done", "listed"}, walk.first = 1
               PROVE  WalkMissesNothing
    BY DEF WalkMissesNothing
  <2>1. SeenInv /\ EndInv
    BY DEF WholeInv, WalkInv
  <2>2. walk.list = "mine" => Range(walk.seen) \subseteq Mine
    BY <2>1 DEF SeenInv, Of
  <2> QED BY <2>1, <2>2 DEF EndInv, NoneTwice, WalkMissesNothing
<1> QED BY <1>1, WholeAlways, PTL

=============================================================================
