# Verification of golang-urlshortener

TLA+ models of the URL shortener under `src/`, the TLC configurations that
model-check them, and theorems checked by TLAPS. Paths below are relative to
the repository; modules and configurations are in this directory.

## 1. The system

One Go process (gin, GORM on MySQL, Redis) shortens URLs for registered users
and redirects visitors. A request runs through the middlewares of
`internal/router/router.go` (logger, trace, rate limit, `Timeout`, `Auth`,
`AdminOnly`), a handler, a service and the repositories. The goroutines are:
one per request, a second one per request started by `Timeout`, the click
worker, the cleanup of each of three rate limiters, the cleanup of the
in-memory blacklist, the pool of each bulk request, and `main`.

| Component | State | Operations | Interacts with |
|---|---|---|---|
| Link store (`repository/url_repo.go`, `admin_service.go`, migrations) | tables `users`, `urls` | create, find by code, delete a link, delete a user with its links | every service, through MySQL |
| Cached lookup (`url_service.go` GetByShortCode, `cache/redis.go`) | Redis keys `shortcode:*` with a TTL of one hour | GET, then SELECT, check of the expiry, SET; DEL of an expired entry | store, click tracking, `Timeout` |
| Click tracking (`url_service.go` clickWorker) | channel `clickCh` (100), map `recentIDs`, `processedCount` | non-blocking send, increment, remember, clean up | handlers, MySQL, `main` |
| Shutdown (`cmd/server/main.go`) | server, `shutdownCtx`, `workerCtx` | Shutdown with 30 s, forced exit, close of the channel, cancel | all goroutines |
| Rate limiter (`middleware/ratelimit.go`) | map of visitors (RWMutex), timestamps per visitor (Mutex) | getVisitor, allow, cleanupLoop | every request |
| Worker pool (`worker/pool.go`) | two channels, a WaitGroup | Start, Submit, Close, Results | bulk shorten |
| Bulk shorten (`url_service.go` BulkShorten, `url_handler.go`) | one transaction, the results read | create per URL, commit or roll back, answer | pool, store, `Timeout` |
| Tokens (`pkg/token`, `auth_service.go`, `tokenstore`, `middleware/auth.go`) | signed tokens (held by clients), blacklist in Redis or in memory | login, refresh, check, logout, cleanup | Redis |
| Accounts (`auth_service.go` Signup, `user_repo.go`, `admin_service.go` DeleteUser) | rows of `users`, one transaction | signup: check, then insert; delete the links, then the user | MySQL, every request with a token of the user |
| Request life cycle (`middleware/timeout.go`, `error.go`, `auth.go`, `handler/response.go`) | gin context, its errors and its place in the chain, response | run the rest of the chain in a goroutine, answer 503 on a timeout, turn errors into an answer | all handlers |
| Shorten, CSV import (`url_service.go` ShortenURL, ImportLinksCSV) | attempts, rows read so far, report | draw and insert, retry a duplicate; create per row | store, accounts |
| Listings, pagination (`url_repo.go`, `model/pagination.go`, `parsePagination`) | none | count, then fetch | store |
| Dashboard (`admin_service.go` GetDashboard) | one struct, three goroutines | fetch three lists at once | store |
| CSV export (`admin_service.go` WriteLinksCSV) | pool of buffers | read, fill a buffer, write it out | store |
| URL normalisation, code generator (`util`) | none | pure | shorten |
| Start-up, configuration, logging, health, metrics | none after the start | sequential set-up | |

What is hard to test in it, and where, is the list `hazards` of
`PROJECT.json`. The main ones:

- a cache that nobody invalidates, filled by readers that may be slow, while
  links expire, are deleted and their codes are reused; every call of the
  lookup can fail by itself;
- a bounded channel between handlers and one worker, closed during a shutdown
  that abandons the handlers that timed out;
- two levels of locks in the rate limiter, with a cleanup that drops objects
  a request may already hold;
- a pool inside a transaction whose results nobody reads after a failure, and
  a context that can be cancelled at any step;
- revocation of tokens across Redis failures, expiry and restarts;
- a handler that runs on after its request was answered, on a gin context that
  goes back to a pool and on to another request;
- statements of different transactions that interleave: two signups for one
  email, links inserted under a user who is being deleted, rows inserted
  between a count and its page;
- inserts whose answer is lost, in a loop that retries, and in an import that
  reports row by row;
- goroutines that share a struct (dashboard) or buffers (export).

## 2. The modules

| Module | What it is |
|---|---|
| `LinkStore` | the tables, and what changes them; the clock |
| `LinkLookup` | abstract: what a visitor is promised, without a cache |
| `LinkCache` | GetByShortCode step by step, any number of requests; refines `LinkLookup` |
| `ClickTracker` | handlers, click worker, `main` during a shutdown |
| `RateLimiter` | the limiter at the grain of its critical sections |
| `WorkerPool` | the pool: one action per step of its goroutines |
| `BulkShorten` | composes `WorkerPool` with the transaction, the service and the handler |
| `Sessions` | tokens, middleware, logout, both blacklists, restarts |
| `RequestCycle` | the two goroutines of a request, the gin context they share, the response |
| `Accounts` | the tables at the grain of statements; signups and the deletion of a user |
| `NormaliseURL` | `util.NormaliseURL` as operators, and what it should do |
| `LinkWriters` | composes `Accounts` and `NormaliseURL` with ShortenURL and ImportLinksCSV; refines `LinkStore` |
| `Listings` | readers of whole tables: lists, pages, dashboard, export |
| `MCLinkCache`, `MCClickTracker`, `MCRateLimiter`, `MCSessions`, `MCLinkWriters` | symmetry sets and inputs for TLC |
| `MCListings` | `Listings` with readers of one kind at a time |
| `*_proofs` | theorems about the module they are named after: `LinkCache`, `ClickTracker`, `RateLimiter`, `BulkShorten`, `Sessions`, `RequestCycle`, `LinkWriters`, `Listings` |

A definition that no next-state relation uses, placed before the one it
resembles (`ServeHitUnchecked` before `ServeHit`), is that definition with a
plausible bug. The list `mutants` of `PROJECT.json` names the property that
fails once it takes the place of the real one; each property of a passing run
has at least one.

### LinkStore, LinkLookup, LinkCache

`link[id]` is the row once inserted under a UUID and `deletedAt[id]` the time
of its deletion; the table is the set of ids that satisfy `Stored`. Keeping
deleted rows lets a property say how old a served link is. The click counter,
the one column that changes, belongs to `ClickTracker`. `ShortenURL` is one
step: the draws that collide with a stored code change nothing, the insert is
the only effect. `DeleteUser` is one transaction, and one step: the foreign
key `ON DELETE CASCADE` gives the same rows whether an insert comes before or
after the explicit delete of the links. `accounts` starts full. That is the
grain the lookup needs; `Accounts` has the signups, and the same transaction
statement by statement.

`LinkCache` gives a request the program counter `pc[r]`:

    idle --Begin--> get --CacheHit--> hit --ServeHit--> idle (found)
                     |                 '--ExpiredHit--> evict --Evict--> idle (gone)
                     '--CacheMiss--> query --FindRow--> check --CheckLive--> fill --Fill--> track --Track--> idle (found)
                                      |                   '--CheckExpired--> idle (gone)
                                      '--FindNone, FindFails--> idle (notfound, error)

Every Redis or MySQL call can fail at any time (`CacheMiss` is enabled on a
hit too, `Fill` and `Evict` may leave the cache alone). A call only takes
effect while the request's context lives: `Alive(r)` bounds it by
`ReqTimeout`, which stands for the `Timeout` of the router plus what a command
already sent may take to arrive. The handler is not stopped then and goes on
with calls that fail. An entry carries the row as it was read, which the model
writes as the row's id, for the fields a lookup uses never change. The stages
read the clock one after the other, and time passes between any two steps.

The refinement mapping (`Abstract`) takes a request for pending from `Begin`
to its answer, and forgets the cache and the link in hand until then; the
answer is the abstract step. `Staleness` is `TTL + ReqTimeout`: the deletion
races with a reader that fills the cache up to `ReqTimeout` later, and the
entry lives `TTL` from there.

### ClickTracker

`Arrive` to `Return` is a request: the lookup (`ReturnUntracked` is a cache
hit, which the code does not count, a refusal or an error), the read of
`recentIDs`, and the select with its default. `Timeout(r)` makes the handler
an orphan: answered for, still running. The worker has one step per case of
its select and per call in a case. A send on the closed channel panics in the
goroutine that `Timeout` started; `gin.Recovery` is not on that stack, so the
process dies (`SendOnClosed`). Time is kept as ages, so that the state stays
finite without a bound on the clock: `Pass` ages the entries up to `Old`.
`owed[i]` is a history variable, the sends that no increment has answered.

### RateLimiter

A step is a critical section. `Lookup` is the one under the read lock,
`FoundAfterAll`/`Create` those under the write lock, `Allow`/`Refuse` those
under the visitor's mutex. The sweep holds the map from `StartSweep` to
`EndSweep` and visits one key at a time, so a request that already has its
visitor can stamp in between. Timestamps are records of a time and a call, as
two calls at one instant are two entries of the slice. `grants` is a history
of what was granted, on which visitor, and whether that visitor had by then
left the map (`stray`).

### WorkerPool, BulkShorten

`WorkerPool` has the two channels, the workers' loop and `Close`;
`BulkShorten` conjoins its actions with the transaction and the reader. Both
channels have the size of the job list, so `Submit` never blocks, and a
worker can always deliver after the reader has gone. `ContextCancelled`
cancels the context at any time; `TxCancelled` is `database/sql` rolling back
by itself, `Commit` is refused once the context is over. `TrySubmit` has no
caller outside the tests and is left out.

### Sessions

Tokens are stored nowhere, so `token[t]` is what was ever signed, and a token
is `Valid` until its `exp`. A request that passed `Validate` goes on to the
blacklist (`Arrive`, then `Grant` or `Refuse`); a logout measures what is left
of the token (`Measure`) and then writes the entry (`LogoutRevokes`), with
time passing in between. `time.Until` can therefore be zero or negative, which
go-redis sends as a SET without expiration: the entry stays for ever
(`Never`). A call to Redis may fail in either place, and a failed SET may
have been carried out. `Restart` drops the map in memory and every request,
and chooses the backend again, as `main` does. `closed[b]` is the history of
the logouts answered 200 with backend `b`; `late` notes that a request came in
after such a logout of its token. `closed["memory"]` ends with the process,
as the code's fallback does; what was revoked in Redis stays revoked, and is
asked for whenever Redis is the backend.

### RequestCycle

A request has two program counters. `pc[r]` is the goroutine of the server:

    idle --Arrive--> select --HandlerDone, TimedOut--> errors --ErrorHandler--> leaving --Leave--> served
      '--Limited (429, Timeout is not reached)---------^

and `stage[r]` the goroutine that `Timeout` starts, which runs the rest of the
chain: `group` (Auth, AdminOnly, the limiter of the group, as one stage that
passes, refuses and aborts, or leaves an error and aborts), `handler`, `done`.
Both use the gin context `ctx[r]`: its place in the chain (`index`), its
errors, and the response behind it, which is that of `holder[c]`, the request
gin handed the context to. `Leave` puts the context back into the pool while
an orphan may still use it, and a later `Take` resets it, so an orphan
advances, aborts, or writes for somebody else (`Advance` reads
`holder[ctx[r]]`). `inherited` notes the requests that got such a context, and
`outcome[r]` what the stages that worked for `r` decided.

A write of a body is one step, so two bodies may follow each other and never
mix; a data race inside a writer is not followed further. `AdminHandler`'s
silent failures are `FailSilently`.

### Accounts, NormaliseURL, LinkWriters

`row[l]` and `account[u]` are written once, under a UUID, and `stored` and
`accounts` say what is in the tables now. The unique index of the emails is
the guard of `InsertAccount`; `CheckEmail` and the insert are two steps, and
an insert may fail with its effect (`InsertAccountFails`), as its answer can
be lost. `DeleteUser` is three steps. What its first two statements delete is
visible to nobody before the commit (`deletion.links`); between them others
may insert links of that user, which the second statement takes along by the
foreign key, and after it an insert that needs the row of the user waits for
the transaction (`Locked`).

`LinkWriters` adds one record per request: `draw` is ShortenURL before an
attempt, `rows` and `create` are ImportLinksCSV before a row is read and
before its link is inserted. Codes are drawn freely. `Inserted` has the
conditions of MySQL (the owner exists and is not locked, the code is free),
`Failed` any error but a duplicate. A file is a sequence of the kinds of rows
the loop tells apart: with a URL, with an empty first field, unreadable.

`NormaliseURL` works on a URL as `net/url` has parsed it. An octet of a path has
several spellings (`~`, `%7E`); `Default` is the one `net/url` writes, `Kept`
the spellings it may print as they came. `Path` is the path `Decoded`, `RawPath`
the text it came from, and `NormalPath` what the code and `u.String` make of the
two: the code cuts slashes off `Path` only, after which `RawPath` no longer fits
and the whole path is spelled anew. What no line of the code touches (user,
opaque part, a lone question mark) is the field `rest`. `SortedQuery` gives each
pair the place of its rank (`NotAfter` is the pairs that do not come after it),
which is what `Values.Encode` prints: by key, the values of a key in their
order. `Normalise` is checked against `SameAddress`, which says in other words
when two spellings mean one address, on paths that name something (`Named`; of
the others, `//` loses all its slashes and `/` does not). No two addresses are
ever stored as one. One address is stored as one if its path is in default
spelling (`Plain`), and not always otherwise: `/%7Ebob/` is stored as `/~bob`,
`/%7Ebob` as it is, and `/a%2Fb/` as `/a/b`. To `SameAddress`, as to
`url.URL.Path`, an encoded slash is a slash.

`LinkWriters` implements `LinkStore` (`ImplementsStore`): the mapping forgets
everything but the tables, the time and the expiries, and takes a UUID nobody
has drawn yet for an account that `LinkStore` starts with. An insert is
`Create`, the commit of `DeleteUser` the deletion of the user with its links;
all other steps stutter. So the one-step `DeleteUser` that `LinkCache` builds on
is what the statements of the transaction come to.

### Listings

`created[x]` is the `created_at` of a row, in ticks; rows of one tick are ties,
which MySQL orders as it likes, each time anew (`NewestFirst`). `walk` is a
client that takes a whole list, or starts at some page and goes on to the last.
`Count` and `Fetch` are two steps. `Wrap` is Go's int: `(page - 1) * limit`
overflows for large pages, and GORM writes no OFFSET unless it is positive, so
such a page is the first one again or any other. `kept`, `deleted`, `added`
and `raced` are histories of what the tables did meanwhile.

`board` is the errgroup of the dashboard: each goroutine reads the tables in
one statement, `Wait` answers once all three have returned. `buffer[e]` is the
content of the buffer `csvBufPool.New` made for `e`; any buffer not in use may be
taken, with what a failed export left in it.

## 3. The runs

| Run | Instance | Shows |
|---|---|---|
| `link_cache` | 1 code, 2 ids, 1 user, 2 requests, TTL 2, ReqTimeout 1, clock to 3 | `TypeOK`, `NeverServesExpired`, `BoundedStaleness`, `NotFoundWasFree`, `NoOrphanLinks`, and the refinement `ImplementsLookup` |
| `click_tracker` | 1 link, 2 requests, channel of 2, clean-up every 2 clicks | `TypeOK`, `ClicksConserved`, `ClosedAfterHandlers`, `NoneWaitForWorker`, and `ClicksAreAttempted`, `SuppressionEnds`, `ShutdownEnds` |
| `click_tracker_drain` | 1 link, 1 request | violation of `ShutdownDrains` |
| `rate_limiter` | 1 key, 3 requests, limit 2, window 2, 5 calls, clock to 4 | `TypeOK`, `WithinLimit`, and `NeverRefusesEarly` |
| `bulk_shorten` | 3 URLs, 2 workers | `TypeOK`, `AllOrNothing`, `ReportIsTrue`, `SendsGoThrough`, and `BulkEnds` |
| `bulk_shorten_status` | 2 URLs, 1 worker | violation of `RolledBackIsNoSuccess` |
| `sessions` | 2 pairs of tokens, 2 requests, lifetimes 1, clock to 2 | `TypeOK`, `LogoutIsFinal` |
| `sessions_rotation` | 3 pairs of tokens, 1 request | violation of `RotationInvalidates` |
| `request_cycle` | 2 requests, 2 contexts | `TypeOK`, `SoleAnswer`, `StartsWhileOpen`, `ServerNeverWaits`, and `EveryoneIsAnswered` |
| `request_cycle_bodies` | the same | violation of `AtMostOneBody` |
| `link_writers` | 2 users, 1 email, 2 signups, 2 links, 2 codes, 2 writers, 2 attempts, 5 URLs, 2 files | `TypeOK`, `SignupsAreTrue`, `ShortenIsOnce`, `ImportIsTrue`, `ShortenedAreCanonical`, `DeletionIsWhole`, and the refinement `ImplementsStore` |
| `listings` | 3 links, 2 of them the client's, 2 users, 2 exports, ints to 3, limits to 4, top of 1, clock to 2 | `TypeOK`, `PageIsRight`, `WalkMissesNothing`, `DashboardIsWhole`, `ExportIsSnapshot` |

Why the bounds are enough:

- `link_cache`: two links hold the one code in turn, so a code is freed and
  reused; a clock to 3 = TTL + ReqTimeout lets an entry outlive the deletion
  of its link for as long as it can, and expire; two requests are one that
  fills and one that reads, and the link that is deleted, expired or replaced
  in between. A second code shares nothing with the first.
- `click_tracker`: two clicks fill the channel and trigger a clean-up; the
  second request finds it full while the first click is in the worker's hand.
- `rate_limiter`: three requests at once are one that is held up with a
  visitor in hand and two that use up the limit beside it; five calls are
  more than two windows grant, and the clock passes two sweeps. Keys share no
  state but the map's lock; that one client's requests are never held against
  another is proved for any number of them.
- `bulk_shorten`: three jobs and two workers are the least with a job in each
  hand and one in the channel.
- `request_cycle`: a context that is inherited needs an orphan and the request
  after it; what a third request could meet is met by the second, and the
  theorems below have no such bound. Two contexts are one that is shared and
  one that is not.
- `link_writers`: two signups for one email race, one user can be deleted
  while another writes, and two writers collide on a code, or take the last
  free one. Two attempts are one retry and the end of the retries. The files
  have an empty row before two that create, and an unreadable row between two
  of which only the first is read. Three of the URLs spell one address, one of
  them with an escape that is dropped with the slash at its end; one has a blank
  that gets escaped and the values of a key in another order, one a scheme that
  is refused; what other paths and queries come to is the theorem
  `ShortenedStayCanonical`. A third of the time goes into the refinement.
- `listings`: three links make pages of one to three rows, a last page that is
  not full, and a row that moves across a page when another is inserted; ints
  to 3 let an offset wrap to a negative and to a positive one; three times for
  three rows allow both ties and an order. Readers of different kinds only
  share the tables, which they do not change, so `MCListings` runs one kind at
  a time.
- `sessions`: two pairs are two tokens of each type, so one is revoked while
  another is not; a token of the start expires with time to spare, an entry
  written in time goes, and one written late does not end. The theorem
  `LogoutStays` has no such bounds.

`CHECK_DEADLOCK FALSE` is only said for `ClickTracker`, where the process
really ends, and `Listings`, where readers end and the clock does. The others
that end name it in an action (`Finished`, with the state it may happen in);
`LinkCache` and `Sessions` always have a step.

### What the violations show

Each quotes a sentence of the repository that the code does not keep
(`findings` in `PROJECT.json`):

- **The shutdown does not drain** (`click_tracker_drain`): `Close` closes the
  channel and `main` returns. `ClicksConserved` says where the clicks are;
  `ShutdownLosesLittle`, a theorem, that at most the channel's capacity and one
  more are lost of a link, and none if the worker stops before it is cancelled.
- **201 for a bulk request that was rolled back** (`bulk_shorten_status`): the
  transaction begins, a create fails, the service rolls back and returns "all
  URLs rolled back", and the handler sends that with 201, `success: true` and
  "links were created successfully". What holds of it: the tables have all of
  its links or none (`AllOrNothing`).
- **A refresh token can be used again** (`sessions_rotation`). `ReuseIsBounded`,
  a theorem: as long as it lives and no longer, and what it is exchanged for
  ends less than a lifetime after it.
- **A response with two bodies** (`request_cycle_bodies`): `Timeout` writes the
  503 at the deadline, and a middleware still at work writes its refusal into
  the same response. A handler that answers late does the same, as does
  `ErrorHandler` with an error noted before; and as `select` may take `ctx.Done`
  when both cases are ready, the 503 may also come second. `SoleAnswer` says
  what holds: each body is of the request itself, none is there twice, and a
  request that is not late gets exactly one; `SecondBodyIsLate`, a theorem, that
  a late one gets at most two.

Other things the code does are stated by what holds in their place:
`BoundedStaleness` (a deleted link is still served from the cache, for less than
TTL + ReqTimeout), `WithinLimit` (a request held up for a whole window between
two lines is granted beside the visitor that replaced its own),
`ClosedAfterHandlers` (an orphan may send on the closed channel, and panic), and
the conditions in `WalkMissesNothing` (ties, deletions, an insert between the
last count and its page).

## 4. Fairness

`ClickTracker`, `BulkShorten` and `RequestCycle` have liveness properties.

`ClickTracker!FairSpec` assumes that the click worker and `main` run, and
nothing of the handlers, which may hang for ever. `Increment` ends because its
context has a deadline of 5 s, `ShutdownExpires` comes because `shutdownCtx`
has one of 30 s, `Pass` because time does. `Receive` and `CleanOnTick` are
strongly fair: Go's `select` picks at random among the ready cases, so a case
that is ready again and again is taken in the end. Each goal is also met when
the process is over, and `SuppressionEnds` when the channel has been closed,
as the worker may then stop.

`BulkShorten!FairSpec` is weak fairness of the service, of each worker and of
the goroutine that closes. The context need never be cancelled, a transaction
need not be rolled back by `database/sql`, and creates may fail for ever.

`RequestCycle!FairSpec` is weak fairness of the goroutines of the server and of
the deadlines (`ContextOver`, the timer of `context.WithTimeout`). Nothing is
assumed of the goroutines `Timeout` starts: a handler may hang for ever, and
`EveryoneIsAnswered` holds all the same. Only requests that reached `Timeout`
are promised an answer.

## 5. The proofs

`tlapm` checks every leaf; they hold for all values of the constants that
satisfy the `ASSUME` of the module. Each assumption is evaluated by the run of
that module. Most say that a bound is positive or that a marker differs from
what it marks; three say what the environment does: `CharsAssumption`, that an
octet has one default spelling, which may be printed, and that a slash has its
own; `CountAssumption`, that the rows of a table can be counted in an int, and
`URLsAssumption`, that an http URL has a path that is empty or begins with a
slash, as `url.Parse` guarantees.

**LinkCache_proofs.** None of the three promises of the lookup is inductive:
a stale redirect is prepared by an earlier reader and travels through the
cache. `IInv` adds what everybody knows of the link they name.
`EntryOK`: an entry belongs to a link inserted under its code, and lives at
most until the link's deletion + TTL + ReqTimeout. `RequestOK`: the link in
hand was stored when the request began, or so shortly before that a cache may
hold it; past the query, it was stored when the request began; past the check,
it had not expired then. `AnswerOK` says what an answer means.
`StoreStepGrows` shows that the store only ever adds rows, records deletions
at the present time and lets time pass, and `NamedLinkKept` that the knowledge
above survives such a step; a step of a request then has to be checked for
that request and the entry it writes only (`RequestStepFrame`). The theorems
are `TypeCorrect`, `ExpiryRespected`, `StalenessBounded`,
`NotFoundJustified`, and `CacheRefinesLookup`, in which `IInv` supplies the
guards of the abstract answers. `NoLinkSurvivesItsUser` is inductive by
itself, given the types.

**ClickTracker_proofs.** `ClicksConserved` rests on how `Count` changes when a
sequence is appended to or loses its head; with it and the types the invariant
is inductive. `ClosedLast` needs the order of `main`: between `Shutdown`
having returned and the close no request is in flight unless the shutdown
expired, as `Arrive` is only possible before the signal. `DrainInv` bounds what
a shutdown loses: a worker that was not cancelled stops only on a channel that
is closed and empty, and a closed channel takes nothing more.

`ShutdownsEnd` is a liveness theorem. `main` goes through four places and
never back (`MainOnlyForward`); the fairness of its timer or of its goroutine
takes it out of each (`MainForward`), and LS4 chains the four. What the
provers cannot do is `ENABLED`: that `main` can take the step when fairness
asks for it is the hypothesis `[]NoneWaitForWorker`, an invariant TLC checks.

**Sessions_proofs.** `LogoutIsFinal` is about one token and two requests at
different times. The strengthening: an entry for a closed token `Covers` it
(it does not end before the token does) or the token has expired (`RedisInv`,
`MemoryInv`), what a logout holds is at least what is left
of the token (`HeldInv`, since time only shortens it), and a late request
names a closed token (`LateInv`). A blacklist entry is then in force whenever
a late request with a live token asks. `ExchangeInv` goes from a token to the
one it was exchanged for, which was a live refresh token at the time: time
passes, but neither of the two expiries moves.

**RateLimiter_proofs.** The limit is about grants, and the limiter looks at
timestamps, which it drops. `StampInv`: each grant in the window that ends now
has its timestamp in its visitor; `CallInv`: a call is granted at most once, so
that grants and timestamps correspond one for one. A grant that the code allows
then leaves every earlier window as it is and the present one within the limit.
`MapInv`: a visitor with a grant in the present window that was granted through
the map is still the one in the map, as a sweep only drops visitors whose
timestamps all lie before its own window. All such grants of a client therefore
belong to one visitor. `PastInv` keeps grants and sweeps out of the future.

`RefusalsAreJustified` is the other direction, from timestamps to grants. The
code keeps no client in a visitor, so the proof does: `OwnInv` says that some
assignment of visitors to clients fits the map, the hands and the grants, all
at once; creating a visitor extends it (`CreateOwns`), nothing else touches it
(`OwnersStay`). `StampsAreGrants`: a timestamp is that of a grant. The
timestamps that fill a window are then as many grants, in that window, of the
client that is refused (`StampsAreOfOneClient`).

**BulkShorten_proofs.** `NoneLost` accounts for every job submitted while the
context lives: it is in the channel, in a hand, or its result is in a hand, in
the results, or collected. `RowInv`: a good result stands for a row of the
transaction. `EndInv`: the results
are closed only when all workers have exited, which they do only when the jobs
are closed and taken. `ServiceInv` combines them: the service commits only
after it has collected a good result of every job, or finds the context over
and the commit refused.

`OnceInv` says where a job is: at one `Stage` of its way, once, so that two
results are never of one job. By pigeonhole (`RoomForOne`) a worker that has a
result in hand finds the buffer with room for it (`SendsAlwaysGoThrough`); that
the end of the service leaves nobody to read does not matter. With `CloseInv`,
which relates `Close` to the service, some guard always holds until all have
ended (`NobodyWaitsForEver`). And each step takes one job further (`Goes`) or
brings a worker, the service, `Close`, the context or the transaction nearer to
its end: `EveryStepCounts`, and `BulkIsShort` counts the steps, at most
6 NumJobs + |Workers| + 11. Together: a bulk request whose goroutines are
scheduled ends. This last conclusion is an induction over the number of steps
left, which no installed prover does, and so `BulkEnds` itself stays with TLC.

**RequestCycle_proofs.** Four facts about who shares what. `Shape` relates the
program counters to the context; `Alone`: the context of a request that did
not inherit it is used by no other goroutine that runs; `WorkInv`:
the stage of a request that is not an orphan works for that request; and
`Fine` gives each request without an inheritance its exact bodies and errors, by where its two
goroutines are. `StartsAreOpen` needs no `Fine`: a timeout leaves
the chain at its end, and a context in the pool has its chain there, so an
orphan that advances starts a stage only for a request that is open.
`EveryoneGetsAnswered` is a liveness theorem, proved like `ShutdownsEnd`: the
server's goroutine goes from `select` over `errors` and `leaving` to `served`,
by its own fairness and that of the deadline, with `[]ServerNeverWaits` (TLC)
for the `ENABLED` in it.

**LinkWriters_proofs.** `TableInv` has the types, `SignupInv` the email of a
signup that is about to insert, `DeletionInv` that a deletion about to commit
has exactly the links of its user in hand. The last one survives the writers
because of the lock, which is all that `WriterEffect` has to say of them.
`SignupsStayTrue` follows from the unique index at the insert; the check
before it is not needed. `DeletionsAreWhole` is an action property, and
follows from the invariant step by step. `ShortensOnce` needs for each request
what it has made by where it is (`OnceOf`): nothing while it draws, at most one
link afterwards; an insert by one request changes what no other has made
(`InsertedMakes`). `TypeCorrect` says more than types: that no stored
link outlives its owner (`LinksInv`) follows from `DeletionsAreWhole`.

`ImportsAreTrue` needs to know of an import at every step which rows are `Done`
and that its report has them in their order (`Told`), that each code reported is
of a link made for that row (`CodesAreStored`), and that each link made is of a
row done, one per row (`MadeIsDone`); the row in hand between its reading and
its insert is read and not done. `ReportInv` is these together; `TellsNext` is
the step that appends an entry. A lost answer adds a link whose entry says that
it failed, which `CodesAreStored` allows and `MadeIsDone` still accounts for.

`ShortenedStayCanonical` has a small invariant and large lemmas. `CanonInv`: a
link made by a request to shorten has the normal form of that request's URL.
The lemmas are about `Normalise` on paths and queries of any length. A path has
one end once its slashes are trimmed (`OneEnd`, `SomeEnd`), so trimming twice is
trimming once (`TrimsOnce`). A normal form is the path as it was or its default
spelling, cut (`NormalOrCut`); so it is normal itself (`PathIsCanonical`), and
it decodes to the normal form of what the path decodes to (`NormalDecodes`). Two
paths in default spelling have one normal form exactly if one is the other with
slashes behind (`PathsMeet`). The ranks of a query's pairs
are its places, each taken once (`Places`), so sorting puts every pair somewhere
(`Sorts`), sorting what is sorted moves nothing (`QueryIsCanonical`), and a
bijection that keeps the values of a key in order keeps ranks
(`ReorderedMeet`), as the comparison of ranks is such a bijection
(`MeetReordered`). `NormalisesOnce`, `AddressesStayApart` and
`SameIsSameAddress` put the two halves together, theorems themselves; the first
holds for all URLs, the second for those whose path names something, the third
for plain ones.

`WritersImplementStore` maps each step: `NewLinkIsCreated`, `CommitIsDeletion`,
`SignupIsStutter`. `DeletionInv` supplies what the commit needs, that the links
in hand are all the user's, `LinksInv` that a user who was deleted before has
none, so that a second deletion stutters.

**Listings_proofs.** `FetchInv` and `StillInv` follow the goroutines of the
dashboard: nothing runs before the request or after the answer, and what was
fetched is what is in the tables until they change. `ExportInv`: a buffer in
use has one owner, and after the reset holds the file of that export only.

`PagesAreRight` and `WalksMissNothing` are about ranks. The rank of a row is the
number of rows of the list that are newer. A row without ties stands in every
`NewestFirst` order at the place after its rank, so a page has the rows whose
rank lies in its window, whichever way MySQL breaks the ties of the others.
`Times`, `Quotient` and `PagesCover` are the arithmetic of `Offset` and
`TotalPages`. `WalkInv` then compares the ranks of the watched rows with
`Covered`, the ranks that the pages fetched so far took up: without a deletion a
row the walk has yet to see is still further down, as ranks only grow; without
an insert a row it has seen is still further up, as ranks only shrink; and when
the walk ends, its pages cover all that was counted, so that nothing is further
down. A tie once there is there for ever among rows that stay, which is why the
invariant can set such rows aside.

Model-checked only: `ServerNeverWaits` and `NoneWaitForWorker`, which say that a
step is enabled, as TLAPS does no reasoning about `ENABLED`; and the liveness
properties `ClicksAreAttempted`, `SuppressionEnds` and `BulkEnds`, which need an
induction over the clicks ahead in the channel, over an age, and over the steps
left. Every other property of a passing run is a theorem, the liveness
properties `EveryoneIsAnswered` and `ShutdownEnds` with one of the two
invariants above as a hypothesis.

## 6. Abstractions

- Names, URLs, rows and messages are model values. JSON, logging, wording and
  metrics are left out.
- MySQL executes a statement in one step and answers a commit truthfully.
  An answer of Redis may be lost.
- Redis rounds a lifetime to milliseconds and a JWT its expiry to seconds;
  the models' clock has no finer unit.
- The clock is one for the process, Redis and MySQL, and never goes back.
- A body is written in one step, and the middlewares of a group are one stage.
  What a request with an inherited context is answered is not promised by the
  code and not by a property.
- Codes and UUIDs are drawn freely; a UUID is drawn once.
- `net/url` is taken at its word: parsing is left out, what `u.String` prints is
  taken to be read back as the same parts, and the parts of a URL that the code
  leaves alone are one field. The stored URL is compared part by part.
- One process. Restarts are modelled where state survives them (`Sessions`);
  `ClickTracker` follows a process to its end.
- `AuthService.Login` is taken with the right password.

## 7. Not modelled, and what could follow

- **Roles, passwords, the payload of tokens.** Nothing in the code changes a
  role, and bcrypt is a library. That a role or a deleted user lives on in a
  token is visible in `NoOrphanLinks` and `LinkWriters`, which both
  let such requests write.
- **TrySubmit** of the pool has no caller outside the tests.
- **Configuration, start-up, database set-up, health, metrics, logging, trace
  ids, error values** are sequential set-up and pure I/O, with no state that
  another part reads.
- **The code generator** is randomness; its collisions are `Collided`.
- **Click counts of cached links.** A cache hit returns before the click is
  sent (`url_service.go:194`), so the counter counts fillings of the cache.
  `ClickTracker` has the hit as `ReturnUntracked`; no text in the repository
  says what a hit should count, so there is no property.

What would add most next: a composition of `RequestCycle` with `ClickTracker`,
so that a shutdown meets requests with inherited contexts.
