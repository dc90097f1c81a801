------------------------------ MODULE LinkCache ------------------------------
(***************************************************************************)
(* Lookups of short codes through the Redis cache (cache-aside):           *)
(* URLService.GetByShortCode run by any number of requests at once, while  *)
(* links are created and deleted beside them.                              *)
(*                                                                         *)
(* Every call to Redis and to MySQL is a step of its own, and may fail.  A *)
(* call takes effect only while the request's context is alive: the        *)
(* Timeout middleware cancels it ReqTimeout after the request began.  The  *)
(* handler itself is not stopped then, it runs on with calls that fail.    *)
(*                                                                         *)
(* The last step of the handler, counting the click, is module             *)
(* ClickTracker; it changes nothing that this module keeps.                *)
(***************************************************************************)
EXTENDS LinkStore

CONSTANTS
  Requests,     \* concurrent lookups
  TTL,          \* urlCacheTTL
  ReqTimeout    \* how long the context of a request lives

ASSUME CacheAssumption == /\ TTL \in Nat \ {0}
                          /\ ReqTimeout \in Nat

VARIABLES
  cache,        \* cache[c]: the entry of key "shortcode:" + c, or None
  pc,           \* pc[r]: where request r is in GetByShortCode
  code,         \* code[r]: the short code it asks for
  start,        \* start[r]: when it began
  got,          \* got[r]: the link it holds, and in the end the one it serves
  answer        \* answer[r]: what it answered

requestVars == <<pc, code, start, got, answer>>
vars == <<storeVars, cache, requestVars>>

(* A cached link: the row as it was read, and when Redis drops it.         *)
Entry == [id : Ids, until : Time]

Steps   == {"idle", "get", "hit", "evict", "query", "check", "fill", "track"}
Answers == {"none", "found", "gone", "notfound", "error"}

TypeOK ==
  /\ StoreTypeOK
  /\ cache \in [Codes -> Entry \cup {None}]
  /\ pc \in [Requests -> Steps]
  /\ code \in [Requests -> Codes]
  /\ start \in [Requests -> Time]
  /\ got \in [Requests -> Ids \cup {None}]
  /\ answer \in [Requests -> Answers]

Init ==
  /\ StoreInit
  /\ cache = [c \in Codes |-> None]
  /\ pc = [r \in Requests |-> "idle"]
  /\ code \in [Requests -> Codes]
  /\ start = [r \in Requests |-> 0]
  /\ got = [r \in Requests |-> None]
  /\ answer = [r \in Requests |-> "none"]

----------------------------------------------------------------------------
(* Helpers: the state of one request.                                      *)

At(r, step) == pc[r] = step

(* The context handed to Redis and MySQL has not been cancelled.           *)
Alive(r) == now <= start[r] + ReqTimeout

Goto(r, step, i) ==
  /\ pc' = [pc EXCEPT ![r] = step]
  /\ got' = [got EXCEPT ![r] = i]
  /\ UNCHANGED <<storeVars, code, start, answer>>

Return(r, a) ==
  /\ pc' = [pc EXCEPT ![r] = "idle"]
  /\ answer' = [answer EXCEPT ![r] = a]
  /\ UNCHANGED <<storeVars, code, start>>

----------------------------------------------------------------------------
(* Redis: GET, SET with a TTL and DEL on one key.                          *)

Cached(c) == cache[c] # None /\ now < cache[c].until

(* A SET without an expiration.                                            *)
CacheSetForever(c, i) == cache' = [cache EXCEPT ![c] = [id |-> i, until |-> Never]]

CacheSet(c, i) == cache' = [cache EXCEPT ![c] = [id |-> i, until |-> now + TTL]]

CacheDelete(c) == cache' = [cache EXCEPT ![c] = None]

----------------------------------------------------------------------------
(* The steps of GetByShortCode.                                            *)

Begin(r, c) ==
  /\ At(r, "idle")
  /\ pc' = [pc EXCEPT ![r] = "get"]
  /\ code' = [code EXCEPT ![r] = c]
  /\ start' = [start EXCEPT ![r] = now]
  /\ got' = [got EXCEPT ![r] = None]
  /\ answer' = [answer EXCEPT ![r] = "none"]
  /\ UNCHANGED <<storeVars, cache>>

(* A cache that renews the expiration of an entry on every hit.            *)
CacheHitRenewing(r) ==
  /\ At(r, "get") /\ Alive(r) /\ Cached(code[r])
  /\ Goto(r, "hit", cache[code[r]].id)
  /\ CacheSet(code[r], cache[code[r]].id)

CacheHit(r) ==
  /\ At(r, "get") /\ Alive(r) /\ Cached(code[r])
  /\ Goto(r, "hit", cache[code[r]].id)
  /\ UNCHANGED cache

(* A miss; an error of Redis counts as one, whatever is stored there.      *)
CacheMiss(r) ==
  /\ At(r, "get")
  /\ Goto(r, "query", None)
  /\ UNCHANGED cache

(* A hit served without another look at its expiry.                        *)
ServeHitUnchecked(r) ==
  /\ At(r, "hit")
  /\ Return(r, "found")
  /\ UNCHANGED <<cache, got>>

ServeHit(r) ==
  /\ At(r, "hit") /\ ~ExpiredAt(got[r], now)
  /\ Return(r, "found")
  /\ UNCHANGED <<cache, got>>

ExpiredHit(r) ==
  /\ At(r, "hit") /\ ExpiredAt(got[r], now)
  /\ Goto(r, "evict", got[r])
  /\ UNCHANGED cache

(* The error of cache.Delete is ignored.                                   *)
Evict(r) ==
  /\ At(r, "evict")
  /\ \/ Alive(r) /\ CacheDelete(code[r])
     \/ UNCHANGED cache
  /\ Return(r, "gone")
  /\ UNCHANGED got

FindRow(r) == \E i \in RowsOf(code[r]) :
  /\ At(r, "query") /\ Alive(r)
  /\ Goto(r, "check", i)
  /\ UNCHANGED cache

FindNone(r) ==
  /\ At(r, "query") /\ Alive(r) /\ RowsOf(code[r]) = {}
  /\ Return(r, "notfound")
  /\ UNCHANGED <<cache, got>>

(* Every error of the database taken for ErrNotFound.                      *)
FindFailsAsNotFound(r) ==
  /\ At(r, "query")
  /\ Return(r, "notfound")
  /\ UNCHANGED <<cache, got>>

FindFails(r) ==
  /\ At(r, "query")
  /\ Return(r, "error")
  /\ UNCHANGED <<cache, got>>

CheckExpired(r) ==
  /\ At(r, "check") /\ ExpiredAt(got[r], now)
  /\ Return(r, "gone")
  /\ UNCHANGED <<cache, got>>

CheckLive(r) ==
  /\ At(r, "check") /\ ~ExpiredAt(got[r], now)
  /\ Goto(r, "fill", got[r])
  /\ UNCHANGED cache

(* A fill that does not run under the context of the request.              *)
FillDetached(r) ==
  /\ At(r, "fill")
  /\ CacheSet(code[r], got[r]) \/ UNCHANGED cache
  /\ Goto(r, "track", got[r])

(* The error of cache.Set is ignored.                                      *)
Fill(r) ==
  /\ At(r, "fill")
  /\ \/ Alive(r) /\ CacheSet(code[r], got[r])
     \/ UNCHANGED cache
  /\ Goto(r, "track", got[r])

Track(r) ==
  /\ At(r, "track")
  /\ Return(r, "found")
  /\ UNCHANGED <<cache, got>>

Lookup(r) ==
  \/ \E c \in Codes : Begin(r, c)
  \/ CacheHit(r) \/ CacheMiss(r)
  \/ ServeHit(r) \/ ExpiredHit(r) \/ Evict(r)
  \/ FindRow(r) \/ FindNone(r) \/ FindFails(r)
  \/ CheckExpired(r) \/ CheckLive(r)
  \/ Fill(r) \/ Track(r)

(* Links come and go; none of these handlers touches the cache.            *)
StoreStep == StoreNext /\ UNCHANGED <<cache, requestVars>>

Next == (\E r \in Requests : Lookup(r)) \/ StoreStep

Spec == Init /\ [][Next]_vars

----------------------------------------------------------------------------
(* Properties.                                                             *)

Served(r) == At(r, "idle") /\ answer[r] = "found"

(* No redirect to a link that had already expired when the request came    *)
(* in: the entry of a link may outlive it in the cache, for up to TTL.     *)
NeverServesExpired ==
  \A r \in Requests : Served(r) => ~ExpiredAt(got[r], start[r])

(* A deleted link is served by mistake for a bounded time only.  A reader  *)
(* that read the row before the deletion may fill the cache after it; its  *)
(* context bounds how late, and TTL bounds how long the entry lives.       *)
BoundedStaleness ==
  \A r \in Requests :
    Served(r) => \/ deletedAt[got[r]] = Never
                 \/ start[r] < deletedAt[got[r]] + TTL + ReqTimeout

(* A link that was stored before the lookup began and is stored still is   *)
(* never answered 404: no failure of the cache reads as an absent link.    *)
NotFoundWasFree ==
  \A r \in Requests :
    At(r, "idle") /\ answer[r] = "notfound" =>
      \A i \in RowsOf(code[r]) : link[i].created >= start[r]

(* Lookups as a visitor sees them: in progress or answered.                *)
Abstract == INSTANCE LinkLookup WITH
  Staleness <- TTL + ReqTimeout,
  pending   <- {r \in Requests : ~At(r, "idle")},
  got       <- [r \in Requests |-> IF At(r, "idle") THEN got[r] ELSE None]

(* The cached lookup does nothing the cacheless one may not do.            *)
ImplementsLookup == Abstract!Spec
============================================================================
