---------------------------- MODULE LinkWriters -----------------------------
(* Requests that write links beside the accounts: ShortenURL with its        *)
(* retries, and ImportLinksCSV, which creates a link per row and reports     *)
(* what became of each (internal/service/url_service.go). A token outlives   *)
(* its user, so the owner of a request may have been deleted.                *)
EXTENDS Accounts, NormaliseURL

CONSTANTS
    Writers,       \* requests to shorten or to import
    Codes,         \* short codes
    RawURLs,       \* the URLs that users send, as url.Parse reads them
    Files,         \* the files that users send: rows "url", "blank", "bad"
    MaxAttempts    \* maxShortCodeAttempts

ASSUME AttemptsAssumption == MaxAttempts \in Nat \ {0}

ASSUME URLsAssumption == \A url \in RawURLs : Supported(url) => url \in ParsedURL

VARIABLE writer    \* writer[w]: a request to shorten or to import

vars == <<account, accounts, row, stored, signup, deletion, writer>>

Idle == [pc |-> "idle", kind |-> None, user |-> None, url |-> None, file |-> <<>>,
         read |-> 0, attempts |-> 0, code |-> None, report |-> <<>>]

Init == AccountsInit /\ writer = [w \in Writers |-> Idle]

Updated(r, next) == [f \in DOMAIN r |-> IF f \in DOMAIN next THEN next[f] ELSE r[f]]

Set(w, next) == writer' = [writer EXCEPT ![w] = Updated(@, next)]

-----------------------------------------------------------------------------
(* URLRepository.Create for writer w: what MySQL does and what it answers.   *)

CodeTaken(c) == \E l \in stored : row[l].code = c

\* The row of the next link: who wrote it, for which row of a file.
NewRow(w, c, url) ==
    [owner |-> writer[w].user, code |-> c, url |-> url, by |-> w, line |-> writer[w].read]

\* Bug: the insert does not wait for the deletion of its user.
InsertedUnlocked(w, c, url) ==
    /\ writer[w].user \in accounts
    /\ ~CodeTaken(c)
    /\ \E l \in Links :
          /\ Unused(l)
          /\ row' = [row EXCEPT ![l] = NewRow(w, c, url)]
          /\ stored' = stored \cup {l}

Inserted(w, c, url) ==
    /\ writer[w].user \in accounts
    /\ ~Locked(writer[w].user)
    /\ ~CodeTaken(c)
    /\ \E l \in Links :
          /\ Unused(l)
          /\ row' = [row EXCEPT ![l] = NewRow(w, c, url)]
          /\ stored' = stored \cup {l}

\* Any error but a duplicate code: the foreign key, the context, MySQL. The
\* insert may have been carried out if only its answer was lost.
Failed(w, c, url) == UNCHANGED <<row, stored>> \/ Inserted(w, c, url)

-----------------------------------------------------------------------------
(* ShortenURL. *)

BeginShorten(w, u, url) ==
    /\ writer[w].pc = "idle"
    /\ account[u] # None
    /\ Set(w, [pc |-> IF Supported(url) THEN "draw" ELSE "400",
               kind |-> "shorten", user |-> u, url |-> url])
    /\ UNCHANGED <<row, stored>>

\* The normalised URL is stored under the code drawn.
Created(w, c) ==
    /\ writer[w].pc = "draw"
    /\ Inserted(w, c, Normalise(writer[w].url))
    /\ Set(w, [pc |-> "201", code |-> c])

\* Only ErrDuplicate is retried, with another code.
Collided(w, c) ==
    /\ writer[w].pc = "draw"
    /\ CodeTaken(c)
    /\ Set(w, [attempts |-> writer[w].attempts + 1,
               pc |-> IF writer[w].attempts + 1 < MaxAttempts THEN "draw" ELSE "no code"])
    /\ UNCHANGED <<row, stored>>

\* Bug: every error is retried.
CreateFailsRetrying(w, c) ==
    /\ writer[w].pc = "draw"
    /\ Failed(w, c, Normalise(writer[w].url))
    /\ Set(w, [attempts |-> writer[w].attempts + 1,
               pc |-> IF writer[w].attempts + 1 < MaxAttempts THEN "draw" ELSE "no code"])

CreateFails(w, c) ==
    /\ writer[w].pc = "draw"
    /\ Failed(w, c, Normalise(writer[w].url))
    /\ Set(w, [pc |-> "500"])

-----------------------------------------------------------------------------
(* ImportLinksCSV. The row after the header is the second line.              *)

BeginImport(w, u, file) ==
    /\ writer[w].pc = "idle"
    /\ account[u] # None
    /\ Set(w, [pc |-> "rows", kind |-> "import", user |-> u, file |-> file])
    /\ UNCHANGED <<row, stored>>

\* The request has no file, or the file no header.
ImportRefused(w, u) ==
    /\ writer[w].pc = "idle"
    /\ account[u] # None
    /\ \E status \in {"400", "500"} : Set(w, [pc |-> status, kind |-> "import", user |-> u])
    /\ UNCHANGED <<row, stored>>

Reads(w, what) ==
    /\ writer[w].pc = "rows"
    /\ writer[w].read < Len(writer[w].file)
    /\ writer[w].file[writer[w].read + 1] = what

\* A row whose first field is empty is counted and skipped.
SkipRow(w) ==
    /\ Reads(w, "blank")
    /\ Set(w, [read |-> writer[w].read + 1])
    /\ UNCHANGED <<row, stored>>

ReadRow(w) ==
    /\ Reads(w, "url")
    /\ Set(w, [pc |-> "create", read |-> writer[w].read + 1])
    /\ UNCHANGED <<row, stored>>

\* An unreadable row ends the import with an error and without a report.
UnreadableRow(w) ==
    /\ Reads(w, "bad")
    /\ Set(w, [pc |-> "500", report |-> <<>>])
    /\ UNCHANGED <<row, stored>>

Entry(w, c) == [row |-> writer[w].read + 1, code |-> c]

CreateRow(w, c) ==
    /\ writer[w].pc = "create"
    /\ Inserted(w, c, None)
    /\ Set(w, [pc |-> "rows", report |-> Append(writer[w].report, Entry(w, c))])

\* Bug: a failed row is reported with its code, as there is no continue.
CreateRowFailsUnnoticed(w, c) ==
    /\ writer[w].pc = "create"
    /\ (CodeTaken(c) /\ UNCHANGED <<row, stored>>) \/ Failed(w, c, None)
    /\ Set(w, [pc |-> "rows", report |-> Append(writer[w].report, Entry(w, c))])

\* A row that fails, on its code or otherwise, is reported and not retried.
CreateRowFails(w, c) ==
    /\ writer[w].pc = "create"
    /\ (CodeTaken(c) /\ UNCHANGED <<row, stored>>) \/ Failed(w, c, None)
    /\ Set(w, [pc |-> "rows", report |-> Append(writer[w].report, Entry(w, None))])

EndOfFile(w) ==
    /\ writer[w].pc = "rows"
    /\ writer[w].read = Len(writer[w].file)
    /\ Set(w, [pc |-> "201"])
    /\ UNCHANGED <<row, stored>>

-----------------------------------------------------------------------------
WriterStep(w) ==
    \/ \E u \in Users :
          \/ \E url \in RawURLs : BeginShorten(w, u, url)
          \/ \E file \in Files : BeginImport(w, u, file)
          \/ ImportRefused(w, u)
    \/ \E c \in Codes : Created(w, c) \/ Collided(w, c) \/ CreateFails(w, c)
    \/ \E c \in Codes : CreateRow(w, c) \/ CreateRowFails(w, c)
    \/ SkipRow(w) \/ ReadRow(w) \/ UnreadableRow(w) \/ EndOfFile(w)

\* All the requests have been answered, or nobody has an account to write with.
Finished ==
    /\ \A s \in Signups : signup[s].pc \in {"201", "400", "500"}
    /\ \A w \in Writers : writer[w].pc \in {"201", "400", "500", "no code"}
          \/ \A u \in Users : account[u] = None
    /\ UNCHANGED vars

Next ==
    \/ AccountStep /\ UNCHANGED writer
    \/ \E w \in Writers : WriterStep(w) /\ UNCHANGED accountVars
    \/ Finished

Spec == Init /\ [][Next]_vars

-----------------------------------------------------------------------------
(* The tables as LinkStore keeps them, where a user is there until deleted,  *)
(* time stands still and no link expires.                                    *)

StoreAccounts == accounts \cup {u \in Users : account[u] = None}

StoreLink ==
    [l \in Links |-> IF Unused(l) THEN None
                     ELSE [code |-> row[l].code, owner |-> row[l].owner,
                           expires |-> None, created |-> 0]]

StoreDeletedAt ==
    [l \in Links |-> IF Unused(l) \/ l \in stored THEN None ELSE 0]

Store == INSTANCE LinkStore WITH
    Ids <- Links, Expiries <- {None}, Never <- None, MaxTime <- 0, now <- 0,
    accounts <- StoreAccounts, link <- StoreLink, deletedAt <- StoreDeletedAt

ASSUME StoreNoneAssumption == None \notin Nat \cup Store!Link

-----------------------------------------------------------------------------
(* Properties. *)

Made(w) == {l \in Links : ~Unused(l) /\ row[l].by = w}

\* Types; stored codes are unique, stored links have their owner, and a
\* request stops drawing in time.
TypeOK ==
    /\ AccountsTypeOK
    /\ \A l, m \in stored : l # m => row[l].code # row[m].code
    /\ \A l \in stored : row[l].owner \in accounts
    /\ \A w \in Writers :
          /\ writer[w].pc \in {"idle", "draw", "rows", "create", "201", "400", "500", "no code"}
          /\ writer[w].attempts <= MaxAttempts
          /\ writer[w].pc = "draw" => writer[w].attempts < MaxAttempts

\* A request to shorten stores at most one link however often it collides:
\* one with the code it was told if answered 201, none if told that its URL
\* is invalid or that there is no code (url_service.go:147, :155).
ShortenIsOnce ==
    \A w \in Writers : writer[w].kind = "shorten" =>
        /\ Cardinality(Made(w)) <= 1
        /\ writer[w].pc \in {"draw", "400", "no code"} => Made(w) = {}
        /\ writer[w].pc = "201" =>
              \E l \in Made(w) : /\ row[l].code = writer[w].code
                                 /\ row[l].owner = writer[w].user

\* What an import reports is true, and complete unless it is answered with an
\* error: an entry for each row with a URL, in the order of the file; a code
\* only for a link that was stored for that very row; and no link for a row
\* that was not read, so that the rows before an unreadable one are all that
\* an import answered 500 can have left (url_service.go:358, :375).
ImportIsTrue ==
    \A w \in Writers : writer[w].kind = "import" =>
        LET read == {n \in 1..writer[w].read : writer[w].file[n] = "url"}
            done == IF writer[w].pc = "create" THEN read \ {writer[w].read} ELSE read
            report == writer[w].report
        IN  /\ writer[w].pc # "500" =>
                  /\ {report[i].row : i \in DOMAIN report} = {n + 1 : n \in done}
                  /\ \A i, j \in DOMAIN report : i < j => report[i].row < report[j].row
            /\ \A i \in DOMAIN report : report[i].code # None =>
                  \E l \in Made(w) : /\ row[l].code = report[i].code
                                     /\ row[l].line = report[i].row - 1
            /\ \A l \in Made(w) :
                  /\ row[l].line \in done
                  /\ \A m \in Made(w) \ {l} : row[m].line # row[l].line

\* ShortenURL stores canonical URLs (util/url.go:10): normalising one again
\* changes nothing, the rule of url_fuzz_test.go:29. No two addresses are stored
\* as one URL, however their paths are spelled; and one address is stored as one
\* if its path is spelled as net/url would. Otherwise it may be stored as two:
\* "/%7Ebob/" becomes "/~bob" and "/%7Ebob" stays, as the code cuts the slash off
\* Path and leaves RawPath to u.String.
ShortenedAreCanonical ==
    LET shortened == {l \in Links : ~Unused(l) /\ writer[row[l].by].kind = "shorten"}
        raw(l) == writer[row[l].by].url
    IN  /\ \A l \in shortened : Normalise(row[l].url) = row[l].url
        /\ \A l, m \in shortened :
              /\ Named(raw(l)) /\ Named(raw(m)) =>
                    (row[l].url = row[m].url => SameAddress(raw(l), raw(m)))
              /\ Plain(raw(l)) /\ Plain(raw(m)) =>
                    (SameAddress(raw(l), raw(m)) => row[l].url = row[m].url)

\* Under all the interleavings of signups, statements, retries and imports the
\* tables do what LinkStore allows them: a link comes by one insert, under a
\* free code and with its user there, and a user and its links go in one step,
\* whatever the transaction of admin_service.go:124 does in several.
ImplementsStore == Store!StoreSpec

=============================================================================
