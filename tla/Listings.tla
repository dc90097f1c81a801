------------------------------ MODULE Listings ------------------------------
(* The readers of whole tables beside the requests that change them: lists,  *)
(* at once or page by page, the admin's dashboard, whose three lists are     *)
(* fetched at once, and the CSV export with its pool of buffers              *)
(* (internal/repository, model/pagination.go, service/admin_service.go).     *)
EXTENDS Integers, Sequences, FiniteSets, SequencesExt

CONSTANTS
    Links,      \* the links that may be inserted, each once
    Mine,       \* those of the user who lists links
    Users,      \* the users that may be inserted, each once
    Exports,    \* requests to export
    MaxTime,    \* bound on the clock, in ticks of created_at
    IntMax,     \* the largest int
    MaxLimit,   \* the largest limit that parsePagination accepts
    TopCount    \* how many links the dashboard calls its top

ASSUME BoundsAssumption ==
    /\ Mine \subseteq Links
    /\ Links \cap Users = {}
    /\ {MaxTime, TopCount} \subseteq Nat
    /\ {IntMax, MaxLimit} \subseteq Nat \ {0}

\* The count of a table fits an int, as pagination.go:29 takes for granted.
ASSUME CountAssumption ==
    /\ IsFiniteSet(Links) /\ Cardinality(Links) <= IntMax
    /\ IsFiniteSet(Users) /\ Cardinality(Users) <= IntMax

VARIABLES
    now,
    created,   \* created[x]: created_at of a row once inserted
    stored,    \* the rows in the tables urls and users
    walk,      \* a client that lists, or pages through a list
    board,     \* a request for the dashboard
    export,    \* export[e]: a request for the CSV file
    buffer     \* csvBufPool: buffer[e] is what the buffer first made for e holds

tableVars == <<now, created, stored>>
vars == <<now, created, stored, walk, board, export, buffer>>

Fetches == {"links", "users", "top"}

\* WHERE user_id = ? for a user's list, the whole table for the admin's.
Of(list) ==
    CASE list = "mine"  -> Mine
      [] list = "links" -> Links
      [] list = "users" -> Users

Rows(list) == stored \cap Of(list)

Init ==
    /\ now = 0
    /\ created = [x \in Links \cup Users |-> 0]
    /\ stored = {}
    /\ walk = [pc |-> "idle", list |-> "links", first |-> 1, page |-> 1, limit |-> 1,
               total |-> 0, data |-> <<>>, seen |-> <<>>, kept |-> {},
               deleted |-> FALSE, added |-> FALSE, raced |-> FALSE]
    /\ board = [pc |-> "idle", links |-> {}, users |-> {}, top |-> {}, changed |-> FALSE,
                fetch |-> [k \in Fetches |-> "none"]]
    /\ export = [e \in Exports |-> [pc |-> "idle", links |-> {}, buf |-> e, sent |-> <<>>]]
    /\ buffer = [e \in Exports |-> <<>>]

-----------------------------------------------------------------------------
(* The tables. Histories note what changed under a reader.                   *)

Watched(x) == walk.pc \in {"count", "fetch", "page"} /\ x \in Of(walk.list)

Insert(x) ==
    /\ x \notin stored /\ created[x] = 0
    /\ created' = [created EXCEPT ![x] = now + 1]
    /\ stored' = stored \cup {x}
    /\ walk' = IF Watched(x)
               THEN [walk EXCEPT !.added = TRUE, !.raced = TRUE]
               ELSE walk
    /\ board' = [board EXCEPT !.changed = @ \/ board.pc = "wait"]
    /\ UNCHANGED <<now, export, buffer>>

Delete(x) ==
    /\ x \in stored
    /\ stored' = stored \ {x}
    /\ walk' = IF Watched(x)
               THEN [walk EXCEPT !.kept = @ \ {x}, !.deleted = TRUE, !.raced = TRUE]
               ELSE walk
    /\ board' = [board EXCEPT !.changed = @ \/ board.pc = "wait"]
    /\ UNCHANGED <<now, created, export, buffer>>

Tick ==
    /\ now < MaxTime
    /\ now' = now + 1
    /\ UNCHANGED <<created, stored, walk, board, export, buffer>>

-----------------------------------------------------------------------------
(* Lists. *)

\* One statement has the whole list, in no order of its own.
List(list) ==
    /\ walk.pc = "idle"
    /\ \E s \in SetToSeqs(Rows(list)) :
          walk' = [walk EXCEPT !.pc = "listed", !.list = list, !.seen = s, !.kept = Rows(list)]
    /\ UNCHANGED <<tableVars, board, export, buffer>>

GetUserLinks == List("mine")
GetAllLinks  == List("links")
GetAllUsers  == List("users")

ListFails ==
    /\ walk.pc = "idle"
    /\ walk' = [walk EXCEPT !.pc = "500"]
    /\ UNCHANGED <<tableVars, board, export, buffer>>

-----------------------------------------------------------------------------
(* Pages. *)

\* An int wraps around.
Wrap(n) == ((n + IntMax + 1) % (2 * IntMax + 2)) - IntMax - 1

\* Bug: pages are counted from 0.
OffsetFromZero(page, limit) == Wrap(page * limit)

Offset(page, limit) == Wrap((page - 1) * limit)

\* Bug: the rest is not a page.
TotalPagesDown(total, limit) == total \div limit

TotalPages(total, limit) ==
    total \div limit + (IF total % limit # 0 THEN 1 ELSE 0)

\* ORDER BY created_at DESC leaves the order of rows of one time open.
NewestFirst(list) ==
    {s \in SetToSeqs(Rows(list)) :
        \A i, j \in DOMAIN s : i < j => created[s[i]] >= created[s[j]]}

\* GORM writes OFFSET only if it is positive.
PageOf(s, page, limit) ==
    LET offset == Offset(page, limit)
        from == IF offset > 0 THEN offset ELSE 0
    IN  SubSeq(s, from + 1, IF from + limit < Len(s) THEN from + limit ELSE Len(s))

parsePagination(page, limit) == page >= 1 /\ limit \in 1..MaxLimit

BeginWalk(list, page, limit) ==
    /\ walk.pc = "idle"
    /\ walk' = IF parsePagination(page, limit)
               THEN [walk EXCEPT !.pc = "count", !.list = list, !.first = page,
                                 !.page = page, !.limit = limit, !.kept = Rows(list)]
               ELSE [walk EXCEPT !.pc = "400"]
    /\ UNCHANGED <<tableVars, board, export, buffer>>

GetUserLinksPaginated(page, limit) == BeginWalk("mine", page, limit)
GetAllLinksPaginated(page, limit)  == BeginWalk("links", page, limit)
GetAllUsersPaginated(page, limit)  == BeginWalk("users", page, limit)

Count ==
    /\ walk.pc = "count"
    /\ walk' = [walk EXCEPT !.pc = "fetch", !.total = Cardinality(Rows(walk.list)),
                            !.raced = FALSE]
    /\ UNCHANGED <<tableVars, board, export, buffer>>

Fetch ==
    /\ walk.pc = "fetch"
    /\ \E s \in NewestFirst(walk.list) :
          LET data == PageOf(s, walk.page, walk.limit)
          IN  walk' = [walk EXCEPT !.pc = "page", !.data = data, !.seen = @ \o data]
    /\ UNCHANGED <<tableVars, board, export, buffer>>

QueryFails ==
    /\ walk.pc \in {"count", "fetch"}
    /\ walk' = [walk EXCEPT !.pc = "500"]
    /\ UNCHANGED <<tableVars, board, export, buffer>>

\* The client asks for the next page until it has seen total_pages of them.
NextPage ==
    /\ walk.pc = "page"
    /\ walk' = IF walk.page < TotalPages(walk.total, walk.limit)
               THEN [walk EXCEPT !.pc = "count", !.page = @ + 1]
               ELSE [walk EXCEPT !.pc = "done"]
    /\ UNCHANGED <<tableVars, board, export, buffer>>

LinkWalkStep ==
    \/ GetUserLinks \/ GetAllLinks
    \/ \E page \in 0..IntMax, limit \in 0..(MaxLimit + 1) :
          GetUserLinksPaginated(page, limit) \/ GetAllLinksPaginated(page, limit)

UserWalkStep ==
    \/ GetAllUsers
    \/ \E page \in 0..IntMax, limit \in 0..(MaxLimit + 1) : GetAllUsersPaginated(page, limit)

PageStep == ListFails \/ Count \/ Fetch \/ QueryFails \/ NextPage

-----------------------------------------------------------------------------
(* The dashboard: an errgroup of three goroutines.                           *)

BeginBoard ==
    /\ board.pc = "idle"
    /\ board' = [board EXCEPT !.pc = "wait", !.changed = FALSE,
                              !.fetch = [k \in Fetches |-> "running"]]
    /\ UNCHANGED <<tableVars, walk, export, buffer>>

\* TopLinks: as many as there are up to TopCount, by clicks.
IsTop(t) ==
    /\ t \subseteq Rows("links")
    /\ \/ t = Rows("links") /\ Cardinality(t) <= TopCount
       \/ Cardinality(t) = TopCount

Fetched(k) ==
    /\ board.fetch[k] = "running"
    /\ \/ /\ k = "links"
          /\ board' = [board EXCEPT !.fetch[k] = "ok", !.links = Rows("links")]
       \/ /\ k = "top"
          /\ \E t \in SUBSET Rows("links") :
                /\ IsTop(t)
                /\ board' = [board EXCEPT !.fetch[k] = "ok", !.top = t]
       \/ /\ k = "users"
          /\ board' = [board EXCEPT !.fetch[k] = "ok", !.users = Rows("users")]
    /\ UNCHANGED <<tableVars, walk, export, buffer>>

\* A query fails, by itself or as gCtx is cancelled by the first that did.
FetchFails(k) ==
    /\ board.fetch[k] = "running"
    /\ board' = [board EXCEPT !.fetch[k] = "failed"]
    /\ UNCHANGED <<tableVars, walk, export, buffer>>

\* Bug: the first error is answered at once.
WaitForFirstError ==
    /\ board.pc = "wait"
    /\ \/ \E k \in Fetches : board.fetch[k] = "failed"
       \/ \A k \in Fetches : board.fetch[k] = "ok"
    /\ board' = [board EXCEPT !.pc =
          IF \E k \in Fetches : board.fetch[k] = "failed" THEN "500" ELSE "200"]
    /\ UNCHANGED <<tableVars, walk, export, buffer>>

\* g.Wait: all three have returned, and the first error is the result.
Wait ==
    /\ board.pc = "wait"
    /\ \A k \in Fetches : board.fetch[k] # "running"
    /\ board' = [board EXCEPT !.pc =
          IF \E k \in Fetches : board.fetch[k] = "failed" THEN "500" ELSE "200"]
    /\ UNCHANGED <<tableVars, walk, export, buffer>>

BoardStep ==
    \/ BeginBoard \/ Wait
    \/ \E k \in Fetches : Fetched(k) \/ FetchFails(k)

-----------------------------------------------------------------------------
(* The export. *)

\* FindAll, or an error before anything is written.
ReadLinks(e) ==
    /\ export[e].pc = "idle"
    /\ export' = [export EXCEPT ![e].pc = "fill", ![e].links = Rows("links")]
    /\ UNCHANGED <<tableVars, walk, board, buffer>>

ReadLinksFails(e) ==
    /\ export[e].pc = "idle"
    /\ export' = [export EXCEPT ![e].pc = "failed"]
    /\ UNCHANGED <<tableVars, walk, board, buffer>>

\* Bug: the buffer is back in the pool before it is written out.
InUseNever(b) == b \notin Exports

InUse(b) == \E e \in Exports : export[e].pc = "send" /\ export[e].buf = b

\* Bug: the buffer is not reset.
FillUnreset(e) ==
    /\ export[e].pc = "fill"
    /\ \E b \in Exports :
          /\ ~InUse(b)
          /\ buffer' = [buffer EXCEPT ![b] = Append(@, export[e].links)]
          /\ export' = [export EXCEPT ![e].pc = "send", ![e].buf = b]
    /\ UNCHANGED <<tableVars, walk, board>>

\* A buffer from the pool, or a new one, is reset and takes the whole file.
Fill(e) ==
    /\ export[e].pc = "fill"
    /\ \E b \in Exports :
          /\ ~InUse(b)
          /\ buffer' = [buffer EXCEPT ![b] = <<export[e].links>>]
          /\ export' = [export EXCEPT ![e].pc = "send", ![e].buf = b]
    /\ UNCHANGED <<tableVars, walk, board>>

\* buf.WriteTo empties the buffer, which then goes back to the pool.
Send(e) ==
    /\ export[e].pc = "send"
    /\ export' = [export EXCEPT ![e].pc = "sent", ![e].sent = buffer[export[e].buf]]
    /\ buffer' = [buffer EXCEPT ![export[e].buf] = <<>>]
    /\ UNCHANGED <<tableVars, walk, board>>

\* The client has gone: the buffer goes back with what was not written.
SendFails(e) ==
    /\ export[e].pc = "send"
    /\ export' = [export EXCEPT ![e].pc = "failed"]
    /\ UNCHANGED <<tableVars, walk, board, buffer>>

ExportStep(e) ==
    ReadLinks(e) \/ ReadLinksFails(e) \/ Fill(e) \/ Send(e) \/ SendFails(e)

-----------------------------------------------------------------------------
TableStep(rows) ==
    \/ \E x \in rows : Insert(x) \/ Delete(x)
    \/ Tick

Next ==
    \/ TableStep(Links \cup Users)
    \/ LinkWalkStep \/ UserWalkStep \/ PageStep
    \/ BoardStep
    \/ \E e \in Exports : ExportStep(e)

Spec == Init /\ [][Next]_vars

-----------------------------------------------------------------------------
(* Properties. *)

\* Types; the buffer of an export under way is its own.
TypeOK ==
    /\ now \in 0..MaxTime
    /\ created \in [Links \cup Users -> 0..(MaxTime + 1)]
    /\ stored \subseteq {x \in Links \cup Users : created[x] # 0}
    /\ walk.pc \in {"idle", "count", "fetch", "page", "done", "listed", "400", "500"}
    /\ walk.page \in 1..IntMax /\ walk.limit \in 1..MaxLimit
    /\ board.pc \in {"idle", "wait", "200", "500"}
    /\ \A e, f \in Exports :
          (e # f /\ export[e].pc = "send" /\ export[f].pc = "send")
             => export[e].buf # export[f].buf

Tied(x) == \E y \in (Links \cup Users) \ {x} : created[y] = created[x]

\* If the table did not change after the first of its two statements, a page
\* has exactly the rows whose rank by age says so, and there are as many pages
\* as total_pages says (url_repo.go:78, pagination.go:29). Past the largest int
\* the offset wraps, to a negative number that GORM drops or to any other: the
\* answer is then some page of the list, newest row first.
PageIsRight ==
    LET rows == Rows(walk.list)
        newer(x) == Cardinality({y \in rows : created[y] > created[x]})
        pages == TotalPages(walk.total, walk.limit)
        within == {x \in rows : newer(x) \div walk.limit = walk.page - 1}
    IN  (walk.pc = "page" /\ ~walk.raced /\ \A x \in rows : ~Tied(x)) =>
          /\ (walk.page - 1) * walk.limit <= IntMax => Range(walk.data) = within
          /\ Len(walk.data) <= walk.limit
          /\ Range(walk.data) \subseteq rows
          /\ \A i, j \in DOMAIN walk.data :
                i < j => created[walk.data[i]] > created[walk.data[j]]
          /\ \A x \in rows : newer(x) \div walk.limit < pages
          /\ walk.page <= pages => walk.data # <<>>

\* A client that pages from the first page to the last sees every row that
\* was there all the time, unless a row was deleted meanwhile, the last page
\* was counted before an insert and fetched after it, or created_at has ties;
\* it sees none twice unless rows were inserted meanwhile; and it sees rows of
\* its own list only (url_repo.go:80, :91).
WalkMissesNothing ==
    (walk.pc \in {"done", "listed"} /\ walk.first = 1) =>
        /\ (~walk.deleted /\ ~walk.raced) =>
              \A x \in walk.kept : Tied(x) \/ x \in Range(walk.seen)
        /\ ~walk.added =>
              \A i, j \in DOMAIN walk.seen :
                 (i # j /\ walk.seen[i] = walk.seen[j]) => Tied(walk.seen[i])
        /\ walk.list = "mine" => Range(walk.seen) \subseteq Mine

\* The dashboard is answered when none of its goroutines can write to it any
\* more, with all three lists or an error; if the tables were still meanwhile,
\* the top links are among the links (admin_service.go:151, :180).
DashboardIsWhole ==
    /\ board.pc \in {"200", "500"} => \A k \in Fetches : board.fetch[k] \in {"ok", "failed"}
    /\ board.pc = "200" =>
          /\ \A k \in Fetches : board.fetch[k] = "ok"
          /\ ~board.changed => /\ board.top \subseteq board.links
                               /\ Cardinality(board.links) <= TopCount => board.top = board.links

\* A file that was sent whole is what its own export read, although buffers
\* go from one export to the next, and may go with a rest (admin_service.go:199).
ExportIsSnapshot ==
    \A e \in Exports : export[e].pc = "sent" => export[e].sent = <<export[e].links>>

=============================================================================
