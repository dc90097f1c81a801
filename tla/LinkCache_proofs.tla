-------------------------- MODULE LinkCache_proofs --------------------------
(***************************************************************************)
(* The cached lookup is type correct and keeps its three promises          *)
(* (NeverServesExpired, BoundedStaleness, NotFoundWasFree) for any number  *)
(* of links, codes, users and requests, and for any TTL and request        *)
(* timeout.                                                                *)
(*                                                                         *)
(* None of the promises is inductive: a stale redirect is prepared by an   *)
(* earlier reader, through the cache.  The strengthening IInv says what    *)
(* every entry of the cache and every request under way knows about the    *)
(* link it names.                                                          *)
(***************************************************************************)
EXTENDS LinkCache, TLAPS

(* Nothing is deleted before it exists, nor in the future.                 *)
HistoryOK == \A i \in Ids :
  /\ link[i] # None => link[i].created <= now
  /\ deletedAt[i] # Never => link[i] # None /\ deletedAt[i] <= now

(* Link i was inserted under code c.                                       *)
Known(i, c) == i \in Ids /\ link[i] # None /\ link[i].code = c

(* Link i was stored at time t or later.                                   *)
StoredAtOrAfter(i, t) == deletedAt[i] = Never \/ t <= deletedAt[i]

(* Link i was stored at t, or so shortly before that a cache may hold it.  *)
FreshAt(i, t) == deletedAt[i] = Never \/ t < deletedAt[i] + TTL + ReqTimeout

(* An entry outlives the deletion of its link by TTL + ReqTimeout at most. *)
EntryOK(c) ==
  cache[c] # None =>
    /\ Known(cache[c].id, c)
    /\ cache[c].until <= now + TTL
    /\ \/ deletedAt[cache[c].id] = Never
       \/ cache[c].until <= deletedAt[cache[c].id] + TTL + ReqTimeout

(* What request r knows of the link it holds, step by step.                *)
RequestOK(r) ==
  /\ start[r] <= now
  /\ pc[r] \in {"get", "query"} => got[r] = None
  /\ pc[r] \in {"hit", "evict", "check", "fill", "track"} =>
       Known(got[r], code[r]) /\ FreshAt(got[r], start[r])
  /\ pc[r] \in {"check", "fill", "track"} => StoredAtOrAfter(got[r], start[r])
  /\ pc[r] \in {"fill", "track"} => ~ExpiredAt(got[r], start[r])
  /\ pc[r] = "evict" => ExpiredAt(got[r], now)

(* What the answer of request r says.                                      *)
AnswerOK(r) ==
  pc[r] = "idle" =>
    /\ answer[r] = "found" =>
         /\ Known(got[r], code[r])
         /\ FreshAt(got[r], start[r])
         /\ ~ExpiredAt(got[r], start[r])
    /\ answer[r] = "notfound" =>
         \A i \in RowsOf(code[r]) : link[i].created >= start[r]

IInv ==
  /\ TypeOK
  /\ HistoryOK
  /\ \A c \in Codes : EntryOK(c)
  /\ \A r \in Requests : RequestOK(r) /\ AnswerOK(r)
----------------------------------------------------------------------------
(* The store: rows are only added, deletions only recorded, time advances. *)

(* What a step of the store may do to the rows a cache or a request names. *)
StoreGrows ==
  /\ now \in Time /\ now' \in Time /\ now <= now'
  /\ \A i \in Ids :
       /\ link[i] # None => link'[i] = link[i]
       /\ link[i] = None /\ link'[i] # None => link'[i].created = now
       /\ deletedAt[i] # Never => deletedAt'[i] = deletedAt[i]
       /\ deletedAt[i] = Never => deletedAt'[i] \in {Never, now}

(* A row inserted, deleted, or the clock: the tables stay well formed and  *)
(* only grow.                                                              *)
LEMMA StoreStepGrows ==
  ASSUME StoreTypeOK, HistoryOK, StoreNext
  PROVE  StoreTypeOK' /\ HistoryOK' /\ StoreGrows
<1>. USE DEF Time
<1>1. CASE Shorten
  <2>1. PICK u \in Users, e \in Expiries, i \in Ids, c \in Codes : Create(i, c, u, e)
    BY <1>1 DEF Shorten, ShortenURL
  <2>2. [code |-> c, owner |-> u, expires |-> e, created |-> now] \in Link
    BY StoreAssumption DEF StoreTypeOK, Link
  <2>3. StoreTypeOK'
    BY <2>1, <2>2 DEF StoreTypeOK, Create
  <2>4. StoreGrows
    BY <2>1, <2>2 DEF StoreTypeOK, StoreGrows, Create
  <2>5. HistoryOK'
    BY <2>1, <2>2, StoreAssumption DEF StoreTypeOK, HistoryOK, Create
  <2>. QED BY <2>3, <2>4, <2>5
<1>2. CASE RemoveLink
  BY <1>2, StoreAssumption DEF StoreTypeOK, HistoryOK, StoreGrows, RemoveLink, DeleteLink, Stored
<1>3. CASE RemoveUser
  BY <1>3, StoreAssumption DEF StoreTypeOK, HistoryOK, StoreGrows, RemoveUser, DeleteUser, Stored
<1>4. CASE Tick
  <2>. USE <1>4 DEF Tick
  <2>1. StoreTypeOK' /\ StoreGrows
    BY DEF StoreTypeOK, StoreGrows
  <2>2. HistoryOK'
    <3>. SUFFICES ASSUME NEW i \in Ids
                  PROVE  /\ link[i] # None => link[i].created <= now + 1
                         /\ deletedAt[i] # Never => link[i] # None /\ deletedAt[i] <= now + 1
      BY DEF HistoryOK
    <3>1. link[i] # None => link[i].created \in Nat
      BY DEF StoreTypeOK, Link
    <3>2. deletedAt[i] # Never => deletedAt[i] \in Nat
      BY DEF StoreTypeOK
    <3>. QED BY <3>1, <3>2 DEF HistoryOK, StoreTypeOK
  <2>. QED BY <2>1, <2>2
<1>. QED BY <1>1, <1>2, <1>3, <1>4 DEF StoreNext

(* A link that is named keeps its code, its expiry and, up to a deletion   *)
(* now, its standing towards a time that has passed.                       *)
LEMMA NamedLinkKept ==
  ASSUME StoreTypeOK, HistoryOK, StoreGrows,
         NEW c, NEW i, Known(i, c), NEW t \in Time, t <= now
  PROVE  /\ Known(i, c)'
         /\ StoredAtOrAfter(i, t) => StoredAtOrAfter(i, t)'
         /\ FreshAt(i, t) => FreshAt(i, t)'
         /\ ExpiredAt(i, t)' = ExpiredAt(i, t)
         /\ ExpiredAt(i, now) => ExpiredAt(i, now)'
<1>. USE DEF Time, Known
<1>1. Known(i, c)' /\ ExpiredAt(i, t)' = ExpiredAt(i, t)
  BY DEF StoreGrows, ExpiredAt
<1>2. StoredAtOrAfter(i, t) => StoredAtOrAfter(i, t)'
  BY DEF StoreGrows, StoredAtOrAfter
<1>3. FreshAt(i, t) => FreshAt(i, t)'
  BY CacheAssumption DEF StoreGrows, FreshAt, StoreTypeOK
<1>4. ExpiredAt(i, now) => ExpiredAt(i, now)'
  <2>1. link[i].expires \in Nat \cup {Never}
    BY DEF StoreTypeOK, Link
  <2>. QED BY <2>1 DEF StoreGrows, ExpiredAt
<1>. QED BY <1>1, <1>2, <1>3, <1>4

(* A step of the store keeps what the cache and the requests know.         *)
LEMMA StoreStepKeepsIInv ==
  ASSUME IInv, StoreStep
  PROVE  IInv'
<1>. USE DEF IInv, StoreStep, requestVars
<1>1. StoreTypeOK' /\ HistoryOK' /\ StoreGrows
  BY StoreStepGrows DEF TypeOK
<1>2. TypeOK'
  BY <1>1 DEF TypeOK
<1>3. ASSUME NEW c \in Codes PROVE EntryOK(c)'
  <2>. SUFFICES ASSUME cache[c] # None
                PROVE  /\ Known(cache[c].id, c)'
                       /\ cache[c].until <= now' + TTL
                       /\ \/ deletedAt'[cache[c].id] = Never
                          \/ cache[c].until <= deletedAt'[cache[c].id] + TTL + ReqTimeout
    BY DEF EntryOK
  <2>1. cache[c].id \in Ids /\ cache[c].until \in Nat
    BY DEF TypeOK, Entry, Time
  <2>2. EntryOK(c)
    OBVIOUS
  <2>3. Known(cache[c].id, c)'
    BY <1>1, <2>1, <2>2 DEF EntryOK, Known, StoreGrows
  <2>4. cache[c].until <= now' + TTL
    BY <1>1, <2>1, <2>2, CacheAssumption DEF EntryOK, StoreGrows, Time
  <2>5. \/ deletedAt'[cache[c].id] = Never
        \/ cache[c].until <= deletedAt'[cache[c].id] + TTL + ReqTimeout
    BY <1>1, <2>1, <2>2, CacheAssumption DEF EntryOK, StoreGrows, Time
  <2>. QED BY <2>3, <2>4, <2>5
<1>4. ASSUME NEW r \in Requests PROVE RequestOK(r)'
  <2>1. start[r] \in Time /\ start[r] <= now /\ start[r] <= now'
    BY <1>1 DEF TypeOK, RequestOK, StoreGrows, Time
  <2>2. RequestOK(r) /\ StoreTypeOK
    BY DEF TypeOK
  <2>. QED BY <1>1, <2>1, <2>2, NamedLinkKept DEF RequestOK
<1>5. ASSUME NEW r \in Requests PROVE AnswerOK(r)'
  <2>1. start[r] \in Time /\ start[r] <= now
    BY DEF TypeOK, RequestOK
  <2>2. AnswerOK(r) /\ StoreTypeOK
    BY DEF TypeOK
  <2>3. ASSUME pc[r] = "idle", answer[r] = "found"
        PROVE  /\ Known(got[r], code[r])'
               /\ FreshAt(got[r], start[r])'
               /\ ~ExpiredAt(got[r], start[r])'
    BY <1>1, <2>1, <2>2, <2>3, NamedLinkKept DEF AnswerOK
  <2>4. ASSUME pc[r] = "idle", answer[r] = "notfound",
               NEW i \in RowsOf(code[r])'
        PROVE  link'[i].created >= start[r]
    BY <1>1, <2>1, <2>2, <2>4 DEF AnswerOK, RowsOf, Stored, StoreGrows, Time
  <2>. QED BY <2>3, <2>4 DEF AnswerOK
<1>. QED BY <1>1, <1>2, <1>3, <1>4, <1>5
----------------------------------------------------------------------------
(* The steps of a lookup leave the store and the other requests alone.     *)

OnlyRequest(r) ==
  /\ UNCHANGED storeVars
  /\ \A q \in Requests \ {r} :
       /\ pc'[q] = pc[q] /\ code'[q] = code[q] /\ start'[q] = start[q]
       /\ got'[q] = got[q] /\ answer'[q] = answer[q]

(* What is left to show of a step of request r: its own state, and the     *)
(* entries of the cache.                                                   *)
LEMMA RequestStepFrame ==
  ASSUME IInv, NEW r \in Requests, OnlyRequest(r), TypeOK',
         RequestOK(r)', AnswerOK(r)', \A c \in Codes : EntryOK(c)'
  PROVE  IInv'
<1>. USE DEF OnlyRequest, storeVars
<1>1. HistoryOK'
  BY DEF IInv, HistoryOK
<1>2. ASSUME NEW q \in Requests \ {r} PROVE RequestOK(q)' /\ AnswerOK(q)'
  <2>1. RequestOK(q)'
    BY DEF IInv, RequestOK, Known, FreshAt, StoredAtOrAfter, ExpiredAt
  <2>2. AnswerOK(q)'
    BY DEF IInv, AnswerOK, Known, FreshAt, ExpiredAt, RowsOf, Stored
  <2>. QED BY <2>1, <2>2
<1>. QED BY <1>1, <1>2 DEF IInv

(* An entry that a step does not touch stays good while the store is.      *)
LEMMA EntryKept ==
  ASSUME UNCHANGED storeVars, NEW c \in Codes, EntryOK(c), UNCHANGED cache[c]
  PROVE  EntryOK(c)'
BY DEF EntryOK, Known, storeVars

(* A step that only moves a request on, holding the link i.                *)
LEMMA GotoFrame ==
  ASSUME TypeOK, NEW r \in Requests, NEW step \in Steps, NEW i \in Ids \cup {None},
         Goto(r, step, i), cache' \in [Codes -> Entry \cup {None}]
  PROVE  /\ OnlyRequest(r) /\ TypeOK'
         /\ pc'[r] = step /\ got'[r] = i
         /\ code'[r] = code[r] /\ start'[r] = start[r] /\ answer'[r] = answer[r]
BY DEF TypeOK, StoreTypeOK, Goto, OnlyRequest, storeVars

(* A step that answers a request.                                          *)
LEMMA ReturnFrame ==
  ASSUME TypeOK, NEW r \in Requests, NEW a \in Answers, Return(r, a), UNCHANGED got,
         cache' \in [Codes -> Entry \cup {None}]
  PROVE  /\ OnlyRequest(r) /\ TypeOK'
         /\ pc'[r] = "idle" /\ got'[r] = got[r]
         /\ code'[r] = code[r] /\ start'[r] = start[r] /\ answer'[r] = a
BY DEF TypeOK, StoreTypeOK, Return, OnlyRequest, storeVars, Steps

(* A new lookup knows nothing yet.                                         *)
LEMMA BeginKeepsIInv ==
  ASSUME IInv, NEW r \in Requests, NEW c \in Codes, Begin(r, c)
  PROVE  IInv'
<1>1. OnlyRequest(r) /\ TypeOK'
  BY DEF IInv, TypeOK, StoreTypeOK, Begin, OnlyRequest, storeVars, Steps, Answers
<1>2. RequestOK(r)' /\ AnswerOK(r)'
  BY <1>1 DEF IInv, TypeOK, StoreTypeOK, Time, Begin, RequestOK, AnswerOK, storeVars
<1>3. \A d \in Codes : EntryOK(d)'
  BY EntryKept DEF IInv, Begin
<1>. QED BY <1>1, <1>2, <1>3, RequestStepFrame

(* A hit holds a link that the entry knows to be fresh enough.             *)
LEMMA CacheHitKeepsIInv ==
  ASSUME IInv, NEW r \in Requests, CacheHit(r)
  PROVE  IInv'
<1>. DEFINE c == code[r]
           i == cache[c].id
<1>1. c \in Codes /\ i \in Ids /\ cache[c].until \in Nat /\ Known(i, c)
  BY DEF IInv, TypeOK, CacheHit, Cached, EntryOK, Entry, Time
<1>2. /\ OnlyRequest(r) /\ TypeOK'
      /\ pc'[r] = "hit" /\ got'[r] = i
      /\ code'[r] = code[r] /\ start'[r] = start[r]
  BY <1>1, GotoFrame DEF IInv, TypeOK, CacheHit, Steps
<1>3. FreshAt(i, start[r])
  <2>1. start[r] \in Nat /\ now \in Nat /\ start[r] <= now /\ now < cache[c].until
    BY DEF IInv, TypeOK, StoreTypeOK, Time, RequestOK, CacheHit, Cached
  <2>2. deletedAt[i] \in Nat \cup {Never}
    BY <1>1 DEF IInv, TypeOK, StoreTypeOK, Time
  <2>3. deletedAt[i] # Never => cache[c].until <= deletedAt[i] + TTL + ReqTimeout
    BY <1>1 DEF IInv, EntryOK, CacheHit, Cached
  <2>. QED BY <1>1, <2>1, <2>2, <2>3, CacheAssumption DEF FreshAt
<1>4. RequestOK(r)' /\ AnswerOK(r)'
  BY <1>1, <1>2, <1>3
  DEF IInv, RequestOK, AnswerOK, Known, FreshAt, OnlyRequest, storeVars
<1>5. \A d \in Codes : EntryOK(d)'
  BY <1>2, EntryKept DEF IInv, CacheHit, OnlyRequest
<1>. QED BY <1>2, <1>4, <1>5, RequestStepFrame

(* The steps between, which move the request on and leave the cache alone. *)
LEMMA MoveKeepsIInv ==
  ASSUME IInv, NEW r \in Requests,
         CacheMiss(r) \/ ExpiredHit(r) \/ FindRow(r) \/ CheckLive(r)
  PROVE  IInv'
<1>. USE DEF IInv, RequestOK, AnswerOK
<1>e. ASSUME UNCHANGED cache, UNCHANGED storeVars PROVE \A d \in Codes : EntryOK(d)'
  BY <1>e, EntryKept
<1>k. ASSUME UNCHANGED storeVars, NEW i, NEW c, NEW t
      PROVE  /\ Known(i, c)' = Known(i, c) /\ FreshAt(i, t)' = FreshAt(i, t)
             /\ StoredAtOrAfter(i, t)' = StoredAtOrAfter(i, t)
             /\ ExpiredAt(i, t)' = ExpiredAt(i, t)
  BY <1>k DEF storeVars, Known, FreshAt, StoredAtOrAfter, ExpiredAt
<1>1. CASE CacheMiss(r)
  <2>1. OnlyRequest(r) /\ TypeOK' /\ pc'[r] = "query" /\ got'[r] = None /\ start'[r] = start[r]
    BY <1>1, GotoFrame DEF CacheMiss, TypeOK, Steps
  <2>2. RequestOK(r)' /\ AnswerOK(r)'
    BY <2>1 DEF OnlyRequest, storeVars
  <2>. QED BY <1>1, <1>e, <2>1, <2>2, RequestStepFrame DEF CacheMiss, OnlyRequest
<1>2. CASE ExpiredHit(r)
  <2>1. /\ OnlyRequest(r) /\ TypeOK' /\ pc'[r] = "evict" /\ got'[r] = got[r]
        /\ code'[r] = code[r] /\ start'[r] = start[r]
    BY <1>2, GotoFrame DEF ExpiredHit, TypeOK, Steps
  <2>2. RequestOK(r)' /\ AnswerOK(r)'
    BY <1>2, <1>k, <2>1 DEF OnlyRequest, storeVars, ExpiredHit, At
  <2>. QED BY <1>2, <1>e, <2>1, <2>2, RequestStepFrame DEF ExpiredHit, OnlyRequest
<1>3. CASE FindRow(r)
  <2>1. PICK i \in RowsOf(code[r]) : Alive(r) /\ Goto(r, "check", i) /\ UNCHANGED cache
    BY <1>3 DEF FindRow
  <2>2. /\ OnlyRequest(r) /\ TypeOK' /\ pc'[r] = "check" /\ got'[r] = i
        /\ code'[r] = code[r] /\ start'[r] = start[r]
    BY <2>1, GotoFrame DEF RowsOf, TypeOK, Steps
  <2>3. Known(i, code[r]) /\ FreshAt(i, start[r]) /\ StoredAtOrAfter(i, start[r])
    BY <2>1 DEF RowsOf, Stored, Known, FreshAt, StoredAtOrAfter
  <2>4. RequestOK(r)' /\ AnswerOK(r)'
    BY <1>k, <2>2, <2>3 DEF OnlyRequest, storeVars
  <2>. QED BY <1>e, <2>1, <2>2, <2>4, RequestStepFrame DEF OnlyRequest
<1>4. CASE CheckLive(r)
  <2>1. /\ OnlyRequest(r) /\ TypeOK' /\ pc'[r] = "fill" /\ got'[r] = got[r]
        /\ code'[r] = code[r] /\ start'[r] = start[r]
    BY <1>4, GotoFrame DEF CheckLive, TypeOK, Steps
  <2>2. ~ExpiredAt(got[r], start[r])
    <3>1. got[r] \in Ids /\ link[got[r]] \in Link
      BY <1>4 DEF CheckLive, At, Known, TypeOK, StoreTypeOK
    <3>. QED BY <1>4, <3>1 DEF CheckLive, ExpiredAt, TypeOK, StoreTypeOK, Time, Link
  <2>3. RequestOK(r)' /\ AnswerOK(r)'
    BY <1>4, <1>k, <2>1, <2>2 DEF OnlyRequest, storeVars, CheckLive, At
  <2>. QED BY <1>4, <1>e, <2>1, <2>3, RequestStepFrame DEF CheckLive, OnlyRequest
<1>. QED BY <1>1, <1>2, <1>3, <1>4

(* A redirect, from the cache or from the database.                        *)
LEMMA FoundKeepsIInv ==
  ASSUME IInv, NEW r \in Requests, ServeHit(r) \/ Track(r)
  PROVE  IInv'
<1>1. /\ OnlyRequest(r) /\ TypeOK' /\ pc'[r] = "idle" /\ got'[r] = got[r]
      /\ code'[r] = code[r] /\ start'[r] = start[r] /\ answer'[r] = "found"
  BY ReturnFrame DEF IInv, ServeHit, Track, TypeOK, Answers
<1>2. Known(got[r], code[r]) /\ FreshAt(got[r], start[r])
  BY DEF IInv, RequestOK, ServeHit, Track, At
<1>3. ~ExpiredAt(got[r], start[r])
  <2>1. CASE Track(r)
    BY <2>1 DEF IInv, RequestOK, Track, At
  <2>2. CASE ServeHit(r)
    <3>1. link[got[r]] \in Link
      BY <1>2 DEF IInv, Known, TypeOK, StoreTypeOK
    <3>. QED BY <2>2, <3>1
         DEF ServeHit, ExpiredAt, IInv, RequestOK, TypeOK, StoreTypeOK, Time, Link
  <2>. QED BY <2>1, <2>2
<1>4. RequestOK(r)' /\ AnswerOK(r)'
  BY <1>1, <1>2, <1>3
  DEF IInv, OnlyRequest, storeVars, RequestOK, AnswerOK, Known, FreshAt, ExpiredAt
<1>5. \A d \in Codes : EntryOK(d)'
  BY <1>1, EntryKept DEF IInv, OnlyRequest, ServeHit, Track
<1>. QED BY <1>1, <1>4, <1>5, RequestStepFrame

(* The other answers.                                                      *)
LEMMA RefusalKeepsIInv ==
  ASSUME IInv, NEW r \in Requests,
         Evict(r) \/ CheckExpired(r) \/ FindNone(r) \/ FindFails(r)
  PROVE  IInv'
<1>1. PICK a \in {"gone", "notfound", "error"} :
        /\ Return(r, a) /\ UNCHANGED got
        /\ a = "notfound" => RowsOf(code[r]) = {}
  BY DEF Evict, CheckExpired, FindNone, FindFails
<1>2. cache' \in [Codes -> Entry \cup {None}] /\ \A c \in Codes : cache'[c] \in {cache[c], None}
  BY DEF IInv, TypeOK, Evict, CacheDelete, CheckExpired, FindNone, FindFails
<1>3. /\ OnlyRequest(r) /\ TypeOK' /\ pc'[r] = "idle"
      /\ code'[r] = code[r] /\ start'[r] = start[r] /\ answer'[r] = a
  BY <1>1, <1>2, ReturnFrame DEF IInv, Answers
<1>4. RequestOK(r)' /\ AnswerOK(r)'
  BY <1>1, <1>3 DEF IInv, OnlyRequest, storeVars, RequestOK, AnswerOK, RowsOf, Stored
<1>5. ASSUME NEW d \in Codes PROVE EntryOK(d)'
  BY <1>2, <1>3 DEF IInv, OnlyRequest, storeVars, EntryOK, Known
<1>. QED BY <1>3, <1>4, <1>5, RequestStepFrame

(* A fill is late by ReqTimeout at most, and stores for TTL from then on.  *)
LEMMA FillKeepsIInv ==
  ASSUME IInv, NEW r \in Requests, Fill(r)
  PROVE  IInv'
<1>1. /\ pc[r] = "fill" /\ code[r] \in Codes /\ got[r] \in Ids
      /\ Known(got[r], code[r]) /\ StoredAtOrAfter(got[r], start[r])
      /\ now \in Nat /\ start[r] \in Nat
  BY DEF IInv, TypeOK, StoreTypeOK, Time, RequestOK, Known, Fill, At
<1>2. \/ Alive(r) /\ CacheSet(code[r], got[r])
      \/ UNCHANGED cache
  BY DEF Fill
<1>3. cache' \in [Codes -> Entry \cup {None}]
  BY <1>1, <1>2, CacheAssumption DEF IInv, TypeOK, CacheSet, Entry, Time
<1>4. /\ OnlyRequest(r) /\ TypeOK' /\ pc'[r] = "track" /\ got'[r] = got[r]
      /\ code'[r] = code[r] /\ start'[r] = start[r]
  BY <1>1, <1>3, GotoFrame DEF IInv, TypeOK, Fill, Steps
<1>5. RequestOK(r)' /\ AnswerOK(r)'
  BY <1>1, <1>4 DEF IInv, OnlyRequest, storeVars, RequestOK, AnswerOK, Known,
                    FreshAt, StoredAtOrAfter, ExpiredAt
<1>6. ASSUME NEW d \in Codes PROVE EntryOK(d)'
  <2>1. CASE UNCHANGED cache[d]
    BY <1>4, <2>1, EntryKept DEF IInv, OnlyRequest
  <2>2. CASE cache'[d] # cache[d]
    <3>1. /\ d = code[r] /\ Alive(r)
          /\ cache'[d] = [id |-> got[r], until |-> now + TTL]
      BY <1>2, <2>2 DEF IInv, TypeOK, CacheSet
    <3>2. deletedAt[got[r]] # Never => now + TTL <= deletedAt[got[r]] + TTL + ReqTimeout
      BY <1>1, <3>1, CacheAssumption
      DEF IInv, TypeOK, StoreTypeOK, Time, StoredAtOrAfter, Alive
    <3>3. now + TTL <= now + TTL
      BY <1>1, CacheAssumption
    <3>. QED BY <1>1, <1>4, <3>1, <3>2, <3>3 DEF OnlyRequest, storeVars, EntryOK, Known
  <2>. QED BY <2>1, <2>2
<1>. QED BY <1>4, <1>5, <1>6, RequestStepFrame

----------------------------------------------------------------------------
(* The invariant holds at the start, and every step keeps it.              *)
LEMMA InitEstablishesIInv == Init => IInv
<1>. SUFFICES ASSUME Init PROVE IInv
  OBVIOUS
<1>1. TypeOK
  BY DEF Init, StoreInit, TypeOK, StoreTypeOK, Time, Steps, Answers
<1>2. HistoryOK /\ \A c \in Codes : EntryOK(c)
  BY DEF Init, StoreInit, HistoryOK, EntryOK
<1>3. \A r \in Requests : RequestOK(r) /\ AnswerOK(r)
  BY DEF Init, StoreInit, RequestOK, AnswerOK
<1>. QED BY <1>1, <1>2, <1>3 DEF IInv

LEMMA NextKeepsIInv == IInv /\ [Next]_vars => IInv'
<1>. SUFFICES ASSUME IInv, [Next]_vars PROVE IInv'
  OBVIOUS
<1>1. ASSUME NEW r \in Requests, Lookup(r) PROVE IInv'
  <2>1. CASE \E c \in Codes : Begin(r, c)
    BY <2>1, BeginKeepsIInv
  <2>2. CASE CacheHit(r)
    BY <2>2, CacheHitKeepsIInv
  <2>3. CASE CacheMiss(r) \/ ExpiredHit(r) \/ FindRow(r) \/ CheckLive(r)
    BY <2>3, MoveKeepsIInv
  <2>4. CASE ServeHit(r) \/ Track(r)
    BY <2>4, FoundKeepsIInv
  <2>5. CASE Evict(r) \/ CheckExpired(r) \/ FindNone(r) \/ FindFails(r)
    BY <2>5, RefusalKeepsIInv
  <2>6. CASE Fill(r)
    BY <2>6, FillKeepsIInv
  <2>. QED BY <1>1, <2>1, <2>2, <2>3, <2>4, <2>5, <2>6 DEF Lookup
<1>2. CASE StoreStep
  BY <1>2, StoreStepKeepsIInv
<1>3. CASE UNCHANGED vars
  BY <1>3 DEF vars, storeVars, requestVars, IInv, TypeOK, StoreTypeOK, HistoryOK,
              EntryOK, RequestOK, AnswerOK, Known, FreshAt, StoredAtOrAfter,
              ExpiredAt, RowsOf, Stored
<1>. QED BY <1>1, <1>2, <1>3 DEF Next

(* The strengthened invariant holds in every reachable state.              *)
THEOREM InductiveInvariant == Spec => []IInv
BY InitEstablishesIInv, NextKeepsIInv, PTL DEF Spec

(* Every variable keeps its type.                                          *)
THEOREM TypeCorrect == Spec => []TypeOK
BY InductiveInvariant, PTL DEF IInv

(* No redirect to a link that had expired when the request came in.        *)
THEOREM ExpiryRespected == Spec => []NeverServesExpired
<1>1. IInv => NeverServesExpired
  BY DEF IInv, AnswerOK, NeverServesExpired, Served, At
<1>. QED BY <1>1, InductiveInvariant, PTL

(* A deleted link is served for less than TTL + ReqTimeout more.           *)
THEOREM StalenessBounded == Spec => []BoundedStaleness
<1>1. IInv => BoundedStaleness
  BY DEF IInv, AnswerOK, FreshAt, BoundedStaleness, Served, At
<1>. QED BY <1>1, InductiveInvariant, PTL

(* A 404 is only given for a code that was free during the lookup.         *)
THEOREM NotFoundJustified == Spec => []NotFoundWasFree
<1>1. IInv => NotFoundWasFree
  BY DEF IInv, AnswerOK, NotFoundWasFree, At
<1>. QED BY <1>1, InductiveInvariant, PTL

(* NoOrphanLinks is inductive given the types: a row is only inserted for  *)
(* an account that exists, and the account takes its rows with it.         *)
LEMMA StoreStepKeepsOwners ==
  ASSUME StoreTypeOK, NoOrphanLinks, StoreNext
  PROVE  NoOrphanLinks'
<1>. USE DEF NoOrphanLinks, Stored, StoreTypeOK
<1>1. CASE Shorten
  <2>1. PICK u \in Users, e \in Expiries, i \in Ids, c \in Codes : Create(i, c, u, e)
    BY <1>1 DEF Shorten, ShortenURL
  <2>. QED BY <2>1 DEF Create
<1>2. CASE RemoveLink
  BY <1>2, StoreAssumption DEF RemoveLink, DeleteLink, Time
<1>3. CASE RemoveUser
  BY <1>3, StoreAssumption DEF RemoveUser, DeleteUser, Time
<1>4. CASE Tick
  BY <1>4 DEF Tick
<1>. QED BY <1>1, <1>2, <1>3, <1>4 DEF StoreNext

(* No link survives its user, however requests and deletions interleave.   *)
THEOREM NoLinkSurvivesItsUser == Spec => []NoOrphanLinks
<1>1. Init => NoOrphanLinks
  BY DEF Init, StoreInit, NoOrphanLinks, Stored
<1>2. TypeOK /\ NoOrphanLinks /\ [Next]_vars => NoOrphanLinks'
  <2>. SUFFICES ASSUME TypeOK, NoOrphanLinks, [Next]_vars PROVE NoOrphanLinks'
    OBVIOUS
  <2>1. CASE StoreStep
    BY <2>1, StoreStepKeepsOwners DEF StoreStep, TypeOK
  <2>2. CASE UNCHANGED storeVars
    BY <2>2 DEF storeVars, NoOrphanLinks, Stored
  <2>3. ASSUME NEW r \in Requests, Lookup(r) PROVE UNCHANGED storeVars
    BY <2>3 DEF Lookup, Begin, CacheHit, CacheMiss, ServeHit, ExpiredHit, Evict, FindRow,
                FindNone, FindFails, CheckExpired, CheckLive, Fill, Track, Goto, Return
  <2>. QED BY <2>1, <2>2, <2>3 DEF Next, vars
<1>. QED BY <1>1, <1>2, TypeCorrect, PTL DEF Spec

----------------------------------------------------------------------------
(* The refinement.  A lookup is pending from Begin to Return, and Return   *)
(* is the abstract answer; the steps between are stutters.                 *)

Pending == {r \in Requests : ~At(r, "idle")}
Shown   == [r \in Requests |-> IF At(r, "idle") THEN got[r] ELSE None]

(* The abstract module has its own copy of the store, which is the same.   *)
LEMMA SameStore ==
  /\ StoreInit <=> Abstract!StoreInit
  /\ StoreNext <=> Abstract!StoreNext
BY DEF StoreInit, Abstract!StoreInit, StoreNext, Abstract!StoreNext,
       Shorten, Abstract!Shorten, ShortenURL, Abstract!ShortenURL, RemoveLink,
       Abstract!RemoveLink, RemoveUser, Abstract!RemoveUser, Create, Abstract!Create,
       RowsOf, Abstract!RowsOf, Stored, Abstract!Stored,
       DeleteLink, Abstract!DeleteLink, DeleteUser, Abstract!DeleteUser,
       Tick, Abstract!Tick

LEMMA InitRefines == Init => Abstract!Init
BY SameStore DEF Init, Abstract!Init, At

(* A step of the store is one of the abstract store.                       *)
LEMMA StoreStepRefines == StoreStep => Abstract!StoreStep
BY SameStore DEF StoreStep, requestVars, Abstract!StoreStep, Abstract!lookupVars, At

LEMMA BeginRefines ==
  ASSUME TypeOK, NEW r \in Requests, NEW c \in Codes, Begin(r, c)
  PROVE  Abstract!Begin(r, c)
<1>1. r \notin Pending /\ Pending' = Pending \cup {r}
  BY DEF Begin, TypeOK, Pending, At
<1>2. Shown' = [Shown EXCEPT ![r] = None]
  BY DEF Begin, TypeOK, Shown, At
<1>. QED BY <1>1, <1>2 DEF Begin, Abstract!Begin, storeVars, Abstract!storeVars,
                           Pending, Shown

(* A step that keeps the request busy changes nothing a visitor sees.      *)
LEMMA GotoStutters ==
  ASSUME TypeOK, NEW r \in Requests, ~At(r, "idle"),
         NEW step \in Steps \ {"idle"}, NEW i, Goto(r, step, i)
  PROVE  UNCHANGED Abstract!vars
<1>1. Pending' = Pending /\ Shown' = Shown
  BY DEF Goto, TypeOK, Pending, Shown, At
<1>. QED BY <1>1 DEF Goto, storeVars, Abstract!vars, Abstract!storeVars,
                     Abstract!lookupVars, Pending, Shown

(* A return is the abstract reply.                                         *)
LEMMA ReturnRefines ==
  ASSUME TypeOK, NEW r \in Requests, ~At(r, "idle"), NEW a, Return(r, a), UNCHANGED got,
         NEW i, i = got[r]
  PROVE  Abstract!Reply(r, a, i)
<1>1. r \in Pending /\ Pending' = Pending \ {r}
  BY DEF Return, TypeOK, Pending, At
<1>2. Shown' = [Shown EXCEPT ![r] = i]
  BY DEF Return, TypeOK, Shown, At
<1>. QED BY <1>1, <1>2 DEF Return, Abstract!Reply, storeVars, Abstract!storeVars,
                           Pending, Shown

(* What the request knows of its link is what the abstract answer asks.    *)
LEMMA FoundRefines ==
  ASSUME IInv, NEW r \in Requests, ServeHit(r) \/ Track(r)
  PROVE  Abstract!AnswerFound(r)
<1>1. Return(r, "found") /\ UNCHANGED got /\ ~At(r, "idle")
  BY DEF ServeHit, Track, At
<1>i. PICK i : i = got[r]
  OBVIOUS
<1>2. Abstract!Reply(r, "found", i)
  BY <1>1, <1>i, ReturnRefines DEF IInv
<1>3. Known(i, code[r]) /\ FreshAt(i, start[r]) /\ ~ExpiredAt(i, start[r])
  <2>1. AnswerOK(r)'
    BY FoundKeepsIInv DEF IInv
  <2>2. pc'[r] = "idle" /\ answer'[r] = "found"
    BY <1>1 DEF Return, IInv, TypeOK
  <2>. QED BY <1>1, <1>i, <2>1, <2>2
       DEF Return, storeVars, AnswerOK, Known, FreshAt, ExpiredAt
<1>4. Abstract!RecentEnough(i, start[r])
  BY <1>3, CacheAssumption
  DEF Abstract!RecentEnough, FreshAt, Known, IInv, TypeOK, StoreTypeOK, Time
<1>. QED BY <1>2, <1>3, <1>4 DEF Abstract!AnswerFound, Abstract!ExpiredAt, ExpiredAt, Known

LEMMA GoneRefines ==
  ASSUME IInv, NEW r \in Requests, Evict(r) \/ CheckExpired(r)
  PROVE  Abstract!AnswerGone(r)
<1>1. Return(r, "gone") /\ UNCHANGED got /\ pc[r] \in {"evict", "check"}
  BY DEF Evict, CheckExpired, At
<1>i. PICK i : i = got[r]
  OBVIOUS
<1>2. Abstract!Reply(r, "gone", i)
  BY <1>1, <1>i, ReturnRefines DEF IInv, At
<1>3. Known(i, code[r]) /\ FreshAt(i, start[r]) /\ ExpiredAt(i, now)
  BY <1>1, <1>i DEF IInv, RequestOK, Evict, CheckExpired, At
<1>4. Abstract!RecentEnough(i, start[r])
  BY <1>3, CacheAssumption
  DEF Abstract!RecentEnough, FreshAt, Known, IInv, TypeOK, StoreTypeOK, Time
<1>. QED BY <1>2, <1>3, <1>4 DEF Abstract!AnswerGone, Abstract!ExpiredAt, ExpiredAt, Known

LEMMA NoLinkRefines ==
  ASSUME IInv, NEW r \in Requests
  PROVE  /\ FindNone(r) => Abstract!AnswerNotFound(r)
         /\ FindFails(r) => Abstract!AnswerError(r)
<1>1. At(r, "query") => ~At(r, "idle") /\ got[r] = None
  BY DEF At, IInv, RequestOK
<1>2. ASSUME FindNone(r) PROVE Abstract!AnswerNotFound(r)
  <2>1. Abstract!Reply(r, "notfound", None)
    BY <1>1, <1>2, ReturnRefines DEF FindNone, IInv
  <2>. QED BY <1>2, <2>1
       DEF FindNone, RowsOf, Stored, Abstract!AnswerNotFound, Abstract!FreeSince,
           Abstract!RowsOf, Abstract!Stored
<1>3. ASSUME FindFails(r) PROVE Abstract!AnswerError(r)
  BY <1>1, <1>3, ReturnRefines DEF FindFails, IInv, Abstract!AnswerError
<1>. QED BY <1>2, <1>3

(* Every step of the cached lookup is an abstract step or a stutter.       *)
LEMMA NextRefines == IInv /\ [Next]_vars => [Abstract!Next]_(Abstract!vars)
<1>. SUFFICES ASSUME IInv, [Next]_vars PROVE [Abstract!Next]_(Abstract!vars)
  OBVIOUS
<1>. USE DEF Abstract!Next
<1>1. ASSUME NEW r \in Requests, Lookup(r) PROVE [Abstract!Next]_(Abstract!vars)
  <2>1. CASE \E c \in Codes : Begin(r, c)
    BY <2>1, BeginRefines DEF IInv
  <2>2. CASE CacheHit(r) \/ CacheMiss(r) \/ ExpiredHit(r) \/ FindRow(r) \/ CheckLive(r) \/ Fill(r)
    <3>1. PICK step \in Steps \ {"idle"} : \E i : Goto(r, step, i)
      BY <2>2 DEF CacheHit, CacheMiss, ExpiredHit, FindRow, CheckLive, Fill, Steps
    <3>2. ~At(r, "idle")
      BY <2>2 DEF CacheHit, CacheMiss, ExpiredHit, FindRow, CheckLive, Fill, At
    <3>. QED BY <3>1, <3>2, GotoStutters DEF IInv
  <2>3. CASE ServeHit(r) \/ Track(r)
    BY <2>3, FoundRefines
  <2>4. CASE Evict(r) \/ CheckExpired(r)
    BY <2>4, GoneRefines
  <2>5. CASE FindNone(r) \/ FindFails(r)
    BY <2>5, NoLinkRefines
  <2>. QED BY <1>1, <2>1, <2>2, <2>3, <2>4, <2>5 DEF Lookup
<1>2. CASE StoreStep
  BY <1>2, StoreStepRefines
<1>3. CASE UNCHANGED vars
  BY <1>3 DEF vars, storeVars, requestVars, Abstract!vars, Abstract!storeVars,
              Abstract!lookupVars, At
<1>. QED BY <1>1, <1>2, <1>3 DEF Next

(* The cached lookup implements the one without a cache, with a staleness  *)
(* of TTL + ReqTimeout.                                                    *)
THEOREM CacheRefinesLookup == Spec => ImplementsLookup
BY InitRefines, NextRefines, InductiveInvariant, PTL
DEF Spec, ImplementsLookup, Abstract!Spec
============================================================================
