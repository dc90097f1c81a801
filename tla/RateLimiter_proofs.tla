------------------------- MODULE RateLimiter_proofs -------------------------
(* Proofs about RateLimiter, for any limit, window and number of clients,    *)
(* requests and visitors: types, the limit in every window, of a client that *)
(* is served through the map and of a visitor, and that a client is refused  *)
(* only when its own grants have used the limit up.                          *)
EXTENDS RateLimiter, FiniteSetTheorems, FunctionTheorems, TLAPS

ReqState == {Idle}
       \cup [pc : {"lookup", "create"}, key : Keys, call : Call]
       \cup [pc : {"allow"}, key : Keys, call : Call, visitor : Visitors]

FinInv == IsFiniteSet(grants) /\ \A v \in Visitors : IsFiniteSet(stamps[v])

(* Every call is granted once at most.                                       *)
CallInv ==
  /\ \A g \in grants : g.call <= calls
  /\ \A g, h \in grants : g.call = h.call => g = h
  /\ \A r \in Requests : req[r].pc # "idle" =>
       req[r].call <= calls /\ \A g \in grants : g.call # req[r].call
  /\ \A r, q \in Requests :
       req[r].pc # "idle" /\ req[q].pc # "idle" /\ req[r].call = req[q].call => r = q

PastInv ==
  /\ \A g \in grants : g.at <= now
  /\ sweep.pc = "sweep" => sweep.at <= now

(* A grant in the window has its timestamp in its visitor; and its visitor,  *)
(* if it was the map's, is still the map's: a sweep drops it only later.     *)
StampInv == \A g \in grants : g.at > now - Window =>
  [at |-> g.at, call |-> g.call] \in stamps[g.visitor]

MapInv == \A g \in grants : g.at > now - Window /\ ~g.stray =>
  visitors[g.key] = g.visitor

Inv == /\ TypeOK /\ FinInv /\ CallInv /\ PastInv /\ StampInv /\ MapInv
       /\ WithinLimitThroughMap /\ WithinLimitPerVisitor

LEMMA InitInv == Init => Inv
<1> SUFFICES ASSUME Init PROVE Inv
  OBVIOUS
<1>1. TypeOK
  <2>1. req \in [Requests -> ReqState] /\ sweep \in {Idle}
    BY DEF Init, ReqState
  <2>2. now \in 0 .. MaxTime /\ calls \in 0 .. MaxCalls
    BY LimiterAssumption DEF Init
  <2>3. visitors \in [Keys -> Visitors \cup {None}] /\ stamps \in [Visitors -> SUBSET Stamp]
    BY DEF Init
  <2> QED BY <2>1, <2>2, <2>3 DEF Init, TypeOK, ReqState
<1>2. FinInv
  BY FS_EmptySet DEF Init, FinInv
<1>3. CallInv /\ PastInv /\ StampInv /\ MapInv
  BY DEF Init, CallInv, PastInv, StampInv, MapInv, Idle
<1>4. ASSUME NEW P, P \subseteq grants, NEW t PROVE Cardinality(GrantedIn(P, t)) <= Limit
  <2>1. GrantedIn(P, t) = {}
    BY <1>4 DEF Init, GrantedIn
  <2> QED BY <2>1, FS_EmptySet, LimiterAssumption
<1>5. WithinLimitThroughMap /\ WithinLimitPerVisitor
  BY <1>4 DEF WithinLimitThroughMap, WithinLimitPerVisitor
<1> QED BY <1>1, <1>2, <1>3, <1>5 DEF Inv

(* What a request holds, by where it is.                                     *)
LEMMA ReqType ==
  ASSUME TypeOK, NEW r \in Requests
  PROVE  /\ req[r] \in ReqState
         /\ req[r].pc \in {"idle", "lookup", "create", "allow"}
         /\ req[r].pc # "idle" => req[r].key \in Keys /\ req[r].call \in Call
         /\ req[r].pc = "allow" => req[r].visitor \in Visitors
<1>1. req[r] \in ReqState
  BY DEF TypeOK, ReqState
<1>2. CASE req[r] = Idle
  BY <1>1, <1>2 DEF Idle
<1>3. CASE req[r] \in [pc : {"lookup", "create"}, key : Keys, call : Call]
  BY <1>1, <1>3
<1>4. CASE req[r] \in [pc : {"allow"}, key : Keys, call : Call, visitor : Visitors]
  BY <1>1, <1>4
<1> QED BY <1>1, <1>2, <1>3, <1>4 DEF ReqState

----------------------------------------------------------------------------
(* A request on its way to its visitor.                                      *)
LEMMA OnTheWay ==
  ASSUME Inv, NEW r \in Requests, NEW next \in ReqState,
         req[r].pc # "idle", next.pc # "idle", next.call = req[r].call,
         req' = [req EXCEPT ![r] = next],
         created' \in SUBSET Visitors, visitors' \in [Keys -> Visitors \cup {None}],
         \A k \in Keys : visitors'[k] = visitors[k] \/ visitors[k] = None,
         UNCHANGED <<now, stamps, calls, sweep, tickReady, grants>>
  PROVE  Inv'
<1>1. TypeOK /\ CallInv /\ MapInv
  BY DEF Inv
<1>2. req' \in [Requests -> ReqState]
  BY <1>1 DEF TypeOK, ReqState
<1>3. TypeOK'
  BY <1>1, <1>2 DEF TypeOK, ReqState
<1>4. \A q \in Requests : req'[q] = IF q = r THEN next ELSE req[q]
  BY <1>1 DEF TypeOK
<1>5. CallInv'
  BY <1>1, <1>4 DEF CallInv
<1>6. MapInv'
  <2> SUFFICES ASSUME NEW g \in grants, g.at > now - Window, ~g.stray
               PROVE  visitors'[g.key] = g.visitor
    BY DEF MapInv
  <2>1. g \in Grant
    BY <1>1 DEF TypeOK
  <2>2. g.visitor \in Visitors /\ g.key \in Keys
    BY <2>1 DEF Grant
  <2>3. visitors[g.key] = g.visitor
    BY <1>1 DEF MapInv
  <2> QED BY <2>2, <2>3, LimiterAssumption
<1>7. FinInv' /\ PastInv' /\ StampInv'
  BY DEF Inv, FinInv, PastInv, StampInv
<1>8. WithinLimitThroughMap' /\ WithinLimitPerVisitor'
  BY DEF Inv, WithinLimitThroughMap, WithinLimitPerVisitor
<1> QED BY <1>3, <1>5, <1>6, <1>7, <1>8 DEF Inv

LEMMA LookupKeeps ==
  ASSUME Inv, NEW r \in Requests, Lookup(r) \/ FoundAfterAll(r) \/ Create(r)
  PROVE  Inv'
<1>1. TypeOK
  BY DEF Inv
<1>2. /\ req[r].pc \in {"lookup", "create"}
      /\ req[r].key \in Keys /\ req[r].call \in Call
      /\ UNCHANGED <<now, stamps, calls, sweep, tickReady, grants>>
  BY <1>1, ReqType DEF Lookup, FoundAfterAll, Create
<1>3. ASSUME NEW v \in Visitors
      PROVE  /\ Holding(r, v) \in ReqState /\ Holding(r, v).pc = "allow"
             /\ Holding(r, v).call = req[r].call
  BY <1>2 DEF Holding, ReqState
<1>4. visitors[req[r].key] \in Visitors \cup {None}
  BY <1>1, <1>2 DEF TypeOK
<1>5. CASE Lookup(r) /\ visitors[req[r].key] = None
  <2> DEFINE next == [pc |-> "create", key |-> req[r].key, call |-> req[r].call]
  <2>1. req[r] \in [pc : {"lookup", "create"}, key : Keys, call : Call]
    BY <1>1, <1>2, ReqType DEF ReqState, Idle
  <2>2. [req[r] EXCEPT !.pc = "create"] = next
    BY <2>1
  <2>3. req' = [req EXCEPT ![r] = next] /\ UNCHANGED <<created, visitors>>
    BY <1>5, <2>2 DEF Lookup
  <2>4. next \in ReqState /\ next.pc # "idle" /\ next.call = req[r].call
    BY <1>2 DEF ReqState
  <2> HIDE DEF next
  <2> QED BY <1>1, <1>2, <2>3, <2>4, OnTheWay DEF TypeOK
<1>6. CASE (Lookup(r) \/ FoundAfterAll(r)) /\ visitors[req[r].key] # None
  <2>1. req' = [req EXCEPT ![r] = Holding(r, visitors[req[r].key])] /\ UNCHANGED <<created, visitors>>
    BY <1>6 DEF Lookup, FoundAfterAll
  <2> QED BY <1>1, <1>2, <1>3, <1>4, <1>6, <2>1, OnTheWay DEF TypeOK
<1>7. CASE Create(r)
  <2>1. PICK v \in Visitors : /\ created' = created \cup {v}
                              /\ visitors' = [visitors EXCEPT ![req[r].key] = v]
                              /\ req' = [req EXCEPT ![r] = Holding(r, v)]
    BY <1>7 DEF Create
  <2>2. \A k \in Keys : visitors'[k] = visitors[k] \/ visitors[k] = None
    BY <1>1, <1>7, <2>1 DEF Create, TypeOK
  <2>3. created' \in SUBSET Visitors /\ visitors' \in [Keys -> Visitors \cup {None}]
    BY <1>1, <2>1 DEF TypeOK
  <2> QED BY <1>2, <1>3, <2>1, <2>2, <2>3, OnTheWay
<1> QED BY <1>5, <1>6, <1>7 DEF FoundAfterAll

(* A request that comes has a call of its own.                               *)
LEMMA ArriveKeeps ==
  ASSUME Inv, NEW r \in Requests, NEW k \in Keys, Arrive(r, k)
  PROVE  Inv'
<1> DEFINE next == [pc |-> "lookup", key |-> k, call |-> calls + 1]
<1>1. /\ req[r] = Idle /\ calls < MaxCalls /\ calls' = calls + 1
      /\ req' = [req EXCEPT ![r] = next]
      /\ UNCHANGED <<now, visitors, stamps, created, sweep, tickReady, grants>>
  BY DEF Arrive
<1>2. TypeOK /\ CallInv
  BY DEF Inv
<1>3. calls \in Nat /\ calls + 1 \in Call /\ calls' \in 0 .. MaxCalls
  BY <1>1, <1>2, LimiterAssumption DEF TypeOK, Call
<1>4. next \in ReqState /\ next.pc # "idle" /\ next.call = calls + 1
  BY <1>3 DEF ReqState
<1> HIDE DEF next
<1>5. req' \in [Requests -> ReqState]
  BY <1>1, <1>2, <1>4 DEF TypeOK, ReqState
<1>6. TypeOK'
  BY <1>1, <1>2, <1>3, <1>5 DEF TypeOK, ReqState
<1>7. \A q \in Requests : req'[q] = IF q = r THEN next ELSE req[q]
  BY <1>1, <1>2 DEF TypeOK
<1>8. CallInv'
  <2>1. \A g \in grants : g.call \in Nat
    <3> TAKE g \in grants
    <3>1. g \in Grant
      BY <1>2 DEF TypeOK
    <3> QED BY <3>1 DEF Grant, Call
  <2>2. \A q \in Requests : req[q].pc # "idle" => req[q].call \in Nat
    BY <1>2, ReqType DEF Call
  <2>3. \A g \in grants : g.call <= calls' /\ g.call # calls + 1
    BY <1>1, <1>2, <1>3, <2>1 DEF CallInv
  <2>4. \A q \in Requests : req[q].pc # "idle" => req[q].call <= calls' /\ req[q].call # calls + 1
    BY <1>1, <1>2, <1>3, <2>2 DEF CallInv
  <2>5. calls + 1 <= calls'
    BY <1>1, <1>3
  <2> QED BY <1>1, <1>2, <1>4, <1>7, <2>3, <2>4, <2>5 DEF CallInv
<1>9. FinInv' /\ PastInv' /\ StampInv' /\ MapInv'
  BY <1>1 DEF Inv, FinInv, PastInv, StampInv, MapInv
<1>10. WithinLimitThroughMap' /\ WithinLimitPerVisitor'
  BY <1>1 DEF Inv, WithinLimitThroughMap, WithinLimitPerVisitor
<1> QED BY <1>6, <1>8, <1>9, <1>10 DEF Inv

----------------------------------------------------------------------------
(* What is within the window of a visitor stays there.                       *)
LEMMA WindowType ==
  ASSUME TypeOK, FinInv, NEW v \in Visitors
  PROVE  LET valid == InWindow(stamps[v], now)
         IN  /\ valid \subseteq Stamp /\ IsFiniteSet(valid) /\ Cardinality(valid) \in Nat
             /\ \A s \in stamps[v] : s.at > now - Window => s \in valid
<1>1. InWindow(stamps[v], now) \subseteq stamps[v] /\ stamps[v] \subseteq Stamp
  BY DEF InWindow, TypeOK
<1>2. IsFiniteSet(InWindow(stamps[v], now))
  BY <1>1, FS_Subset DEF FinInv
<1> QED BY <1>1, <1>2, FS_CardinalityType DEF InWindow

(* A request whose call is over.                                             *)
LEMMA CallOver ==
  ASSUME TypeOK, CallInv, NEW r \in Requests, req' = [req EXCEPT ![r] = Idle]
  PROVE  /\ req' \in [Requests -> ReqState]
         /\ \A q \in Requests : req'[q].pc # "idle" => q # r /\ req'[q] = req[q]
<1>1. Idle \in ReqState /\ Idle.pc = "idle"
  BY DEF ReqState, Idle
<1>2. \A q \in Requests : req'[q] = IF q = r THEN Idle ELSE req[q]
  BY DEF TypeOK
<1> QED BY <1>1, <1>2 DEF TypeOK, ReqState

LEMMA RefuseKeeps ==
  ASSUME Inv, NEW r \in Requests, Refuse(r)
  PROVE  Inv'
<1> DEFINE v == req[r].visitor
           valid == InWindow(stamps[v], now)
<1>1. /\ req[r].pc = "allow"
      /\ stamps' = [stamps EXCEPT ![v] = valid]
      /\ req' = [req EXCEPT ![r] = Idle]
      /\ UNCHANGED <<now, visitors, created, calls, sweep, tickReady, grants>>
  BY DEF Refuse
<1>2. TypeOK /\ FinInv /\ CallInv /\ StampInv
  BY DEF Inv
<1>3. v \in Visitors
  BY <1>1, <1>2, ReqType
<1>4. /\ valid \subseteq Stamp /\ IsFiniteSet(valid)
      /\ \A s \in stamps[v] : s.at > now - Window => s \in valid
  BY <1>2, <1>3, WindowType
<1> HIDE DEF valid, v
<1>5. /\ stamps' \in [Visitors -> SUBSET Stamp]
      /\ \A u \in Visitors : stamps'[u] = IF u = v THEN valid ELSE stamps[u]
  BY <1>1, <1>2, <1>3, <1>4 DEF TypeOK
<1>6. TypeOK'
  BY <1>1, <1>2, <1>5, CallOver DEF TypeOK, ReqState
<1>7. FinInv'
  BY <1>1, <1>2, <1>4, <1>5 DEF FinInv
<1>8. CallInv'
  BY <1>1, <1>2, CallOver DEF CallInv
<1>9. StampInv'
  <2> SUFFICES ASSUME NEW g \in grants, g.at > now - Window
               PROVE  [at |-> g.at, call |-> g.call] \in stamps'[g.visitor]
    BY <1>1 DEF StampInv
  <2>1. g \in Grant
    BY <1>2 DEF TypeOK
  <2>2. g.visitor \in Visitors /\ [at |-> g.at, call |-> g.call].at = g.at
    BY <2>1 DEF Grant
  <2>3. [at |-> g.at, call |-> g.call] \in stamps[g.visitor]
    BY <1>2 DEF StampInv
  <2> QED BY <1>4, <1>5, <2>2, <2>3
<1>10. PastInv' /\ MapInv' /\ WithinLimitThroughMap' /\ WithinLimitPerVisitor'
  BY <1>1 DEF Inv, PastInv, MapInv, WithinLimitThroughMap, WithinLimitPerVisitor
<1> QED BY <1>6, <1>7, <1>8, <1>9, <1>10 DEF Inv

(* A visitor has a timestamp for each of its grants in the window.           *)
LEMMA GrantsHaveStamps ==
  ASSUME Inv, NEW v \in Visitors
  PROVE  LET recent == GrantedIn({g \in grants : g.visitor = v}, now)
         IN  IsFiniteSet(recent) /\ Cardinality(recent) <= Cardinality(InWindow(stamps[v], now))
<1> DEFINE recent == GrantedIn({g \in grants : g.visitor = v}, now)
           valid == InWindow(stamps[v], now)
           f == [g \in recent |-> [at |-> g.at, call |-> g.call]]
<1>1. TypeOK /\ FinInv /\ CallInv /\ StampInv
  BY DEF Inv
<1>2. IsFiniteSet(valid) /\ \A s \in stamps[v] : s.at > now - Window => s \in valid
  BY <1>1, WindowType
<1>3. now \in Int /\ Window \in Int
  BY <1>1, LimiterAssumption DEF TypeOK
<1>4. ASSUME NEW g \in recent PROVE [at |-> g.at, call |-> g.call] \in valid
  <2>1. g \in grants /\ g.visitor = v /\ now - Window < g.at
    BY DEF GrantedIn
  <2>2. g.at \in Int
    <3>1. g \in Grant
      BY <1>1, <2>1 DEF TypeOK
    <3> QED BY <3>1, LimiterAssumption DEF Grant
  <2>3. g.at > now - Window
    BY <1>3, <2>1, <2>2
  <2>4. [at |-> g.at, call |-> g.call] \in stamps[v]
    BY <1>1, <2>1, <2>3 DEF StampInv
  <2>5. [at |-> g.at, call |-> g.call].at = g.at
    OBVIOUS
  <2> HIDE DEF valid
  <2> QED BY <1>2, <2>3, <2>4, <2>5
<1>5. f \in [recent -> valid]
  BY <1>4
<1>6. \A g, h \in recent : f[g] = f[h] => g = h
  <2> TAKE g, h \in recent
  <2> HAVE f[g] = f[h]
  <2>1. g.call = h.call
    <3>1. [at |-> g.at, call |-> g.call] = [at |-> h.at, call |-> h.call]
      OBVIOUS
    <3> QED BY <3>1
  <2> QED BY <1>1, <2>1 DEF CallInv, GrantedIn
<1>7. f \in Injection(recent, valid)
  <2> HIDE DEF f, recent, valid
  <2> QED BY <1>5, <1>6 DEF Injection, IsInjective
<1> HIDE DEF f, recent, valid
<1>8. IsFiniteSet(recent) /\ Cardinality(recent) <= Cardinality(valid)
  BY <1>2, <1>7, FS_Injection
<1> QED BY <1>8 DEF recent, valid

(* A grant is one more of its visitor in the window that ends now, and of    *)
(* its client if the visitor is the map's.                                   *)
LEMMA AllowKeeps ==
  ASSUME Inv, NEW r \in Requests, Allow(r)
  PROVE  Inv'
<1> DEFINE v == req[r].visitor
           valid == InWindow(stamps[v], now)
           stamp == [at |-> now, call |-> req[r].call]
           new == [at |-> now, call |-> req[r].call, key |-> req[r].key, visitor |-> v,
                   stray |-> visitors[req[r].key] # v]
<1>1. /\ req[r].pc = "allow" /\ Cardinality(valid) < Limit
      /\ stamps' = [stamps EXCEPT ![v] = valid \cup {stamp}]
      /\ grants' = grants \cup {new}
      /\ req' = [req EXCEPT ![r] = Idle]
      /\ UNCHANGED <<now, visitors, created, calls, sweep, tickReady>>
  BY DEF Allow
<1>2. /\ TypeOK /\ FinInv /\ CallInv /\ PastInv /\ StampInv /\ MapInv
      /\ WithinLimitThroughMap /\ WithinLimitPerVisitor
  BY DEF Inv
<1>3. v \in Visitors /\ req[r].key \in Keys /\ req[r].call \in Call
  BY <1>1, <1>2, ReqType
<1>4. /\ valid \subseteq Stamp /\ IsFiniteSet(valid) /\ Cardinality(valid) \in Nat
      /\ \A s \in stamps[v] : s.at > now - Window => s \in valid
  BY <1>2, <1>3, WindowType
<1>5. now \in 0 .. MaxTime /\ now \in Int /\ Window \in Nat \ {0} /\ Limit \in Nat
  BY <1>2, LimiterAssumption DEF TypeOK
<1>6. /\ stamp \in Stamp /\ new \in Grant
      /\ new.at = now /\ new.call = req[r].call /\ new.key = req[r].key /\ new.visitor = v
      /\ new.stray = (visitors[req[r].key] # v)
  BY <1>3, <1>5 DEF Stamp, Grant
<1>7. [at |-> new.at, call |-> new.call] = stamp
  OBVIOUS
<1>8. /\ IsFiniteSet(GrantedIn({g \in grants : g.visitor = v}, now))
      /\ Cardinality(GrantedIn({g \in grants : g.visitor = v}, now)) <= Cardinality(valid)
  BY <1>2, <1>3, GrantsHaveStamps
<1> HIDE DEF v, valid, stamp, new
<1>9. /\ stamps' \in [Visitors -> SUBSET Stamp]
      /\ \A u \in Visitors : stamps'[u] = IF u = v THEN valid \cup {stamp} ELSE stamps[u]
  BY <1>1, <1>2, <1>3, <1>4, <1>6 DEF TypeOK
<1>10. TypeOK'
  BY <1>1, <1>2, <1>6, <1>9, CallOver DEF TypeOK, ReqState
<1>11. FinInv'
  <2>1. IsFiniteSet(valid \cup {stamp}) /\ IsFiniteSet(grants \cup {new})
    BY <1>2, <1>4, FS_AddElement DEF FinInv
  <2> QED BY <1>1, <1>2, <1>9, <2>1 DEF FinInv
<1>12. CallInv'
  <2>1. \A q \in Requests : req'[q].pc # "idle" => q # r /\ req'[q] = req[q]
    BY <1>1, <1>2, CallOver
  <2>2. new.call <= calls /\ \A g \in grants : g.call # new.call
    BY <1>1, <1>2, <1>6 DEF CallInv
  <2>3. \A q \in Requests : req'[q].pc # "idle" => req'[q].call # new.call
    BY <1>1, <1>2, <1>6, <2>1 DEF CallInv
  <2>4. \A g, h \in grants' : g.call = h.call => g = h
    BY <1>1, <1>2, <2>2 DEF CallInv
  <2> QED BY <1>1, <1>2, <2>1, <2>2, <2>3, <2>4 DEF CallInv
<1>13. PastInv'
  BY <1>1, <1>2, <1>5, <1>6 DEF PastInv
<1>14. StampInv'
  <2> SUFFICES ASSUME NEW g \in grants', g.at > now - Window
               PROVE  [at |-> g.at, call |-> g.call] \in stamps'[g.visitor]
    BY <1>1 DEF StampInv
  <2>1. CASE g = new
    BY <1>3, <1>6, <1>7, <1>9, <2>1
  <2>2. CASE g \in grants
    <3>1. g \in Grant
      BY <1>2, <2>2 DEF TypeOK
    <3>2. g.visitor \in Visitors /\ [at |-> g.at, call |-> g.call].at = g.at
      BY <3>1 DEF Grant
    <3>3. [at |-> g.at, call |-> g.call] \in stamps[g.visitor]
      BY <1>2, <2>2 DEF StampInv
    <3> QED BY <1>4, <1>9, <3>2, <3>3
  <2> QED BY <1>1, <2>1, <2>2
<1>15. MapInv'
  BY <1>1, <1>2, <1>6 DEF MapInv
<1>16. ASSUME NEW P, NEW Q, NEW t \in 0 .. now, Q \subseteq P \cup {new},
              t # now => Cardinality(GrantedIn(P, t)) <= Limit,
              t # now => IsFiniteSet(GrantedIn(P, t)),
              P \subseteq grants,
              t = now => GrantedIn(P, t) \subseteq GrantedIn({g \in grants : g.visitor = v}, now)
       PROVE  Cardinality(GrantedIn(Q, t)) <= Limit
  <2>1. CASE t = now
    <3> DEFINE A == GrantedIn({g \in grants : g.visitor = v}, now)
    <3>1. IsFiniteSet(A) /\ Cardinality(A) \in Nat
      BY <1>8, FS_CardinalityType
    <3>2. IsFiniteSet(A \cup {new}) /\ Cardinality(A \cup {new}) <= Cardinality(A) + 1
          /\ Cardinality(A \cup {new}) \in Nat
      <4> HIDE DEF A
      <4>1. IsFiniteSet(A \cup {new})
            /\ Cardinality(A \cup {new}) = IF new \in A THEN Cardinality(A) ELSE Cardinality(A) + 1
        BY <3>1, FS_AddElement
      <4> QED BY <3>1, <4>1
    <3>3. GrantedIn(Q, t) \subseteq A \cup {new}
      <4>1. GrantedIn(Q, t) \subseteq GrantedIn(P, t) \cup {new}
        BY <1>16 DEF GrantedIn
      <4> QED BY <1>16, <2>1, <4>1
    <3>4. Cardinality(GrantedIn(Q, t)) <= Cardinality(A \cup {new})
          /\ Cardinality(GrantedIn(Q, t)) \in Nat
      <4> HIDE DEF A
      <4> QED BY <3>2, <3>3, FS_Subset, FS_CardinalityType
    <3>5. Cardinality(A) <= Cardinality(valid)
      BY <1>8
    <3> HIDE DEF A
    <3> QED BY <1>1, <1>4, <1>5, <3>1, <3>2, <3>4, <3>5
  <2>2. CASE t # now
    <3>1. t \in Int /\ ~(now <= t)
      BY <1>5, <2>2
    <3>2. GrantedIn(Q, t) \subseteq GrantedIn(P, t)
      BY <1>6, <1>16, <3>1 DEF GrantedIn
    <3>3. Cardinality(GrantedIn(Q, t)) \in Nat /\ Cardinality(GrantedIn(P, t)) \in Nat
          /\ Cardinality(GrantedIn(Q, t)) <= Cardinality(GrantedIn(P, t))
      BY <1>16, <2>2, <3>2, FS_Subset, FS_CardinalityType
    <3> QED BY <1>5, <1>16, <2>2, <3>3
  <2> QED BY <2>1, <2>2
<1>17. ASSUME NEW P, P \subseteq grants, NEW t PROVE IsFiniteSet(GrantedIn(P, t))
  <2>1. GrantedIn(P, t) \subseteq grants
    BY <1>17 DEF GrantedIn
  <2> QED BY <1>2, <2>1, FS_Subset DEF FinInv
<1>18. WithinLimitPerVisitor'
  <2> SUFFICES ASSUME NEW u \in Visitors, NEW t \in 0 .. now
               PROVE  Cardinality(GrantedIn({g \in grants' : g.visitor = u}, t)) <= Limit
    BY <1>1 DEF WithinLimitPerVisitor, GrantedIn
  <2> DEFINE P == {g \in grants : g.visitor = u}
             Q == {g \in grants' : g.visitor = u}
  <2>1. P \subseteq grants /\ Cardinality(GrantedIn(P, t)) <= Limit
    BY <1>2 DEF WithinLimitPerVisitor
  <2>2. CASE u = v
    <3>1. Q \subseteq P \cup {new}
      BY <1>1
    <3>2. GrantedIn(P, now) \subseteq GrantedIn({g \in grants : g.visitor = v}, now)
      BY <2>2
    <3> QED BY <1>16, <1>17, <2>1, <3>1, <3>2
  <2>3. CASE u # v
    <3>1. Q = P
      BY <1>1, <1>6, <2>3
    <3> QED BY <2>1, <3>1
  <2> QED BY <2>2, <2>3
<1>19. WithinLimitThroughMap'
  <2> SUFFICES ASSUME NEW k \in Keys, NEW t \in 0 .. now
               PROVE  Cardinality(GrantedIn({g \in grants' : g.key = k /\ ~g.stray}, t)) <= Limit
    BY <1>1 DEF WithinLimitThroughMap, GrantedIn
  <2> DEFINE P == {g \in grants : g.key = k /\ ~g.stray}
             Q == {g \in grants' : g.key = k /\ ~g.stray}
  <2>1. P \subseteq grants /\ Cardinality(GrantedIn(P, t)) <= Limit
    BY <1>2 DEF WithinLimitThroughMap
  <2>2. CASE new.key = k /\ ~new.stray
    <3>1. Q \subseteq P \cup {new}
      BY <1>1
    <3>2. visitors[k] = v
      BY <1>6, <2>2
    <3>3. GrantedIn(P, now) \subseteq GrantedIn({g \in grants : g.visitor = v}, now)
      <4> SUFFICES ASSUME NEW g \in GrantedIn(P, now)
                   PROVE  g \in GrantedIn({h \in grants : h.visitor = v}, now)
        OBVIOUS
      <4>1. g \in grants /\ g.key = k /\ ~g.stray /\ now - Window < g.at /\ g.at <= now
        BY DEF GrantedIn
      <4>2. g.at \in Int
        <5>1. g \in Grant
          BY <1>2, <4>1 DEF TypeOK
        <5> QED BY <5>1, LimiterAssumption DEF Grant
      <4>3. g.at > now - Window
        BY <1>5, <4>1, <4>2
      <4>4. g.visitor = v
        BY <1>2, <3>2, <4>1, <4>3 DEF MapInv
      <4> QED BY <4>1, <4>4 DEF GrantedIn
    <3> QED BY <1>16, <1>17, <2>1, <3>1, <3>3
  <2>3. CASE ~(new.key = k /\ ~new.stray)
    <3>1. Q = P
      BY <1>1, <2>3
    <3> QED BY <2>1, <3>1
  <2> QED BY <2>2, <2>3
<1> QED BY <1>10, <1>11, <1>12, <1>13, <1>14, <1>15, <1>18, <1>19 DEF Inv

----------------------------------------------------------------------------
(* The cleanup: what it drops has no timestamp in the window any more.       *)
LEMMA SweepKeeps ==
  ASSUME Inv, StartSweep \/ (\E k \in Keys : SweepKey(k)) \/ EndSweep
  PROVE  Inv'
<1>1. /\ TypeOK /\ FinInv /\ CallInv /\ PastInv /\ StampInv /\ MapInv
      /\ WithinLimitThroughMap /\ WithinLimitPerVisitor
  BY DEF Inv
<1>2. UNCHANGED <<now, stamps, created, calls, req, grants>>
  BY DEF StartSweep, SweepKey, EndSweep
<1>3. now \in 0 .. MaxTime /\ now \in Int /\ Window \in Nat \ {0}
  BY <1>1, LimiterAssumption DEF TypeOK
<1>4. /\ sweep' \in {Idle} \cup [pc : {"sweep"}, todo : SUBSET Keys, at : 0 .. MaxTime]
      /\ sweep'.pc = "sweep" => sweep'.at <= now
      /\ tickReady' \in BOOLEAN
  <2>1. CASE StartSweep
    <3>1. sweep' = [pc |-> "sweep", todo |-> {k \in Keys : visitors[k] # None}, at |-> now]
          /\ tickReady' = FALSE
      BY <2>1 DEF StartSweep
    <3>2. sweep' \in [pc : {"sweep"}, todo : SUBSET Keys, at : 0 .. MaxTime] /\ sweep'.at = now
      <4> DEFINE todo == {k \in Keys : visitors[k] # None}
      <4>1. sweep' = [pc |-> "sweep", todo |-> todo, at |-> now] /\ todo \in SUBSET Keys
        BY <3>1
      <4> HIDE DEF todo
      <4> QED BY <1>3, <4>1
    <3>3. now <= now
      BY <1>3
    <3> QED BY <3>1, <3>2, <3>3
  <2>2. CASE \E k \in Keys : SweepKey(k)
    <3>1. PICK k \in Keys : SweepKey(k)
      BY <2>2
    <3>2. sweep \in [pc : {"sweep"}, todo : SUBSET Keys, at : 0 .. MaxTime]
      BY <1>1, <3>1 DEF SweepKey, TypeOK, Idle
    <3>3. sweep' = [sweep EXCEPT !.todo = sweep.todo \ {k}] /\ tickReady' = tickReady
      BY <3>1 DEF SweepKey
    <3>4. sweep' \in [pc : {"sweep"}, todo : SUBSET Keys, at : 0 .. MaxTime] /\ sweep'.at = sweep.at
      BY <3>2, <3>3
    <3> QED BY <1>1, <3>2, <3>3, <3>4 DEF PastInv, TypeOK
  <2>3. CASE EndSweep
    BY <1>1, <2>3 DEF EndSweep, Idle, TypeOK
  <2> QED BY <2>1, <2>2, <2>3
<1>5. \A k \in Keys :
        \/ visitors'[k] = visitors[k]
        \/ visitors'[k] = None /\ sweep.pc = "sweep" /\ Stale(visitors[k])
  BY <1>1 DEF StartSweep, SweepKey, EndSweep, TypeOK
<1>6. visitors' \in [Keys -> Visitors \cup {None}]
  BY <1>1 DEF StartSweep, SweepKey, EndSweep, TypeOK
<1>7. TypeOK'
  BY <1>1, <1>2, <1>4, <1>6 DEF TypeOK
<1>8. MapInv'
  <2> SUFFICES ASSUME NEW g \in grants, g.at > now - Window, ~g.stray
               PROVE  visitors'[g.key] = g.visitor
    BY <1>2 DEF MapInv
  <2>1. g \in Grant
    BY <1>1 DEF TypeOK
  <2>2. g.visitor \in Visitors /\ g.key \in Keys /\ g.at \in Int
    BY <2>1, LimiterAssumption DEF Grant
  <2>3. visitors[g.key] = g.visitor /\ [at |-> g.at, call |-> g.call] \in stamps[g.visitor]
    BY <1>1 DEF MapInv, StampInv
  <2>4. CASE visitors'[g.key] = visitors[g.key]
    BY <2>3, <2>4
  <2>5. CASE sweep.pc = "sweep" /\ Stale(visitors[g.key])
    <3>1. [at |-> g.at, call |-> g.call].at < sweep.at - Window
      BY <2>3, <2>5 DEF Stale
    <3>2. sweep.at \in Int /\ sweep.at <= now
      <4>1. sweep \in [pc : {"sweep"}, todo : SUBSET Keys, at : 0 .. MaxTime]
        BY <1>1, <2>5 DEF TypeOK, Idle
      <4> QED BY <1>1, <2>5, <4>1, LimiterAssumption DEF PastInv
    <3>3. g.at < sweep.at - Window
      BY <3>1
    <3> QED BY <1>3, <2>2, <3>2, <3>3
  <2> QED BY <1>5, <2>2, <2>4, <2>5
<1>9. FinInv' /\ CallInv' /\ PastInv' /\ StampInv'
  BY <1>1, <1>2, <1>4 DEF FinInv, CallInv, PastInv, StampInv
<1>10. WithinLimitThroughMap' /\ WithinLimitPerVisitor'
  BY <1>1, <1>2 DEF WithinLimitThroughMap, WithinLimitPerVisitor
<1> QED BY <1>7, <1>8, <1>9, <1>10 DEF Inv

(* A window that ends later holds no more, until there are later grants.     *)
LEMMA TickKeeps == ASSUME Inv, Tick PROVE Inv'
<1>1. /\ now < MaxTime /\ now' = now + 1 /\ tickReady' = (tickReady \/ now' % Window = 0)
      /\ UNCHANGED <<visitors, stamps, created, calls, req, sweep, grants>>
  BY DEF Tick
<1>2. /\ TypeOK /\ FinInv /\ CallInv /\ PastInv /\ StampInv /\ MapInv
      /\ WithinLimitThroughMap /\ WithinLimitPerVisitor
  BY DEF Inv
<1>3. now \in Nat /\ MaxTime \in Nat /\ Window \in Nat \ {0} /\ Limit \in Nat
  BY <1>2, LimiterAssumption DEF TypeOK
<1>4. now' \in 0 .. MaxTime /\ now' \in Nat
  BY <1>1, <1>3
<1>5. tickReady' \in BOOLEAN
  BY <1>1, Zenon
<1>6. TypeOK'
  BY <1>1, <1>2, <1>4, <1>5 DEF TypeOK
<1>7. \A g \in grants : g.at \in Int
  <2> TAKE g \in grants
  <2>1. g \in Grant
    BY <1>2 DEF TypeOK
  <2> QED BY <2>1, <1>3 DEF Grant
<1>8. PastInv'
  <2>1. sweep.pc = "sweep" => sweep.at \in Int
    <3>1. ASSUME sweep.pc = "sweep" PROVE sweep \in [pc : {"sweep"}, todo : SUBSET Keys, at : 0 .. MaxTime]
      BY <1>2, <3>1 DEF TypeOK, Idle
    <3> QED BY <1>3, <3>1
  <2> QED BY <1>1, <1>2, <1>3, <1>7, <2>1 DEF PastInv
<1>9. \A g \in grants : g.at > now' - Window => g.at > now - Window
  BY <1>1, <1>3, <1>7
<1>10. FinInv' /\ CallInv' /\ StampInv' /\ MapInv'
  BY <1>1, <1>2, <1>9 DEF FinInv, CallInv, StampInv, MapInv
<1>11. ASSUME NEW P, P \subseteq grants, NEW t \in 0 .. now',
              \A u \in 0 .. now : Cardinality(GrantedIn(P, u)) <= Limit
       PROVE  Cardinality(GrantedIn(P, t)) <= Limit
  <2>1. CASE t \in 0 .. now
    BY <1>11, <2>1
  <2>2. CASE t = now'
    <3>1. GrantedIn(P, t) \subseteq GrantedIn(P, now)
      <4> SUFFICES ASSUME NEW g \in P, t - Window < g.at
                   PROVE  now - Window < g.at /\ g.at <= now
        BY DEF GrantedIn
      <4>1. g \in grants /\ g.at \in Int /\ g.at <= now
        BY <1>2, <1>7, <1>11 DEF PastInv
      <4> QED BY <1>1, <1>3, <2>2, <4>1
    <3>2. IsFiniteSet(GrantedIn(P, now))
      <4>1. GrantedIn(P, now) \subseteq grants
        BY <1>11 DEF GrantedIn
      <4> QED BY <1>2, <4>1, FS_Subset DEF FinInv
    <3>3. /\ Cardinality(GrantedIn(P, t)) \in Nat /\ Cardinality(GrantedIn(P, now)) \in Nat
          /\ Cardinality(GrantedIn(P, t)) <= Cardinality(GrantedIn(P, now))
      BY <3>1, <3>2, FS_Subset, FS_CardinalityType
    <3>4. Cardinality(GrantedIn(P, now)) <= Limit
      BY <1>3, <1>11
    <3> QED BY <1>3, <3>3, <3>4
  <2>3. t \in 0 .. now \/ t = now'
    BY <1>1, <1>3
  <2> QED BY <2>1, <2>2, <2>3
<1>12. WithinLimitThroughMap'
  BY <1>1, <1>2, <1>11 DEF WithinLimitThroughMap, GrantedIn
<1>13. WithinLimitPerVisitor'
  BY <1>1, <1>2, <1>11 DEF WithinLimitPerVisitor, GrantedIn
<1> QED BY <1>6, <1>8, <1>10, <1>12, <1>13 DEF Inv

LEMMA NextInv == Inv /\ [Next]_vars => Inv'
<1> SUFFICES ASSUME Inv, [Next]_vars PROVE Inv'
  OBVIOUS
<1>1. CASE Finished \/ UNCHANGED vars
  BY <1>1 DEF Finished, vars, Inv, TypeOK, FinInv, CallInv, PastInv, StampInv, MapInv,
     WithinLimitThroughMap, WithinLimitPerVisitor
<1>2. CASE Tick
  BY <1>2, TickKeeps
<1> QED BY <1>1, <1>2, ArriveKeeps, LookupKeeps, AllowKeeps, RefuseKeeps, SweepKeeps DEF Next

LEMMA InvAlways == Spec => []Inv
BY InitInv, NextInv, PTL DEF Spec

----------------------------------------------------------------------------
(* The other direction: what is refused. Every visitor was created for one    *)
(* key, under which alone it is in the map, in a hand or in a grant; and every *)
(* timestamp it keeps is that of a grant.                                     *)
OwnedBy(own) ==
  /\ \A k \in Keys : visitors[k] # None => visitors[k] \in created /\ own[visitors[k]] = k
  /\ \A r \in Requests : req[r].pc = "allow" =>
       req[r].visitor \in created /\ own[req[r].visitor] = req[r].key
  /\ \A g \in grants : g.visitor \in created /\ own[g.visitor] = g.key

OwnInv == \E own \in [Visitors -> Keys \cup {None}] : OwnedBy(own)

StampsAreGrants == \A v \in Visitors : \A s \in stamps[v] :
  \E g \in grants : g.visitor = v /\ g.at = s.at /\ g.call = s.call

(* A key that comes for the first time finds a visitor nobody owned before.   *)
LEMMA CreateOwns ==
  ASSUME Inv, NEW own \in [Visitors -> Keys \cup {None}], OwnedBy(own), NEW r \in Requests, Create(r)
  PROVE  OwnInv'
<1>1. TypeOK
  BY DEF Inv
<1>2. PICK v \in Visitors \ created :
        /\ created' = created \cup {v}
        /\ visitors' = [visitors EXCEPT ![req[r].key] = v]
        /\ req' = [req EXCEPT ![r] = Holding(r, v)]
        /\ req[r].pc = "create" /\ visitors[req[r].key] = None /\ UNCHANGED grants
  BY DEF Create
<1>3. req[r].key \in Keys
  BY <1>1, <1>2, ReqType
<1>4. PICK next \in [Visitors -> Keys \cup {None}] :
        \A u \in Visitors : next[u] = IF u = v THEN req[r].key ELSE own[u]
  <2> DEFINE new == [own EXCEPT ![v] = req[r].key]
  <2>1. /\ new \in [Visitors -> Keys \cup {None}]
        /\ \A u \in Visitors : new[u] = IF u = v THEN req[r].key ELSE own[u]
    BY <1>2, <1>3
  <2> HIDE DEF new
  <2> QED BY <2>1
<1>5. /\ Holding(r, v).key = req[r].key /\ Holding(r, v).visitor = v
  BY DEF Holding
<1>6. \A q \in Requests : req'[q] = IF q = r THEN Holding(r, v) ELSE req[q]
  BY <1>1, <1>2 DEF TypeOK
<1>7. \A k \in Keys : visitors'[k] = IF k = req[r].key THEN v ELSE visitors[k]
  BY <1>1, <1>2 DEF TypeOK
<1>8. created \subseteq Visitors /\ v \notin created
  BY <1>1, <1>2 DEF TypeOK
<1>9. \A k \in Keys :
        visitors'[k] # None => visitors'[k] \in created' /\ next[visitors'[k]] = k
  BY <1>2, <1>4, <1>7, <1>8 DEF OwnedBy
<1>10. \A q \in Requests : req'[q].pc = "allow" =>
         req'[q].visitor \in created' /\ next[req'[q].visitor] = req'[q].key
  BY <1>2, <1>4, <1>5, <1>6, <1>8 DEF OwnedBy
<1>11. \A g \in grants' : g.visitor \in created' /\ next[g.visitor] = g.key
  BY <1>2, <1>4, <1>8 DEF OwnedBy
<1>12. OwnedBy(next)'
  BY <1>9, <1>10, <1>11 DEF OwnedBy
<1> QED BY <1>4, <1>12 DEF OwnInv

(* All other steps leave the owners as they are.                              *)
LEMMA OwnersStay ==
  ASSUME Inv, Inv', NEW own \in [Visitors -> Keys \cup {None}], OwnedBy(own),
         [Next]_vars, \A r \in Requests : ~Create(r)
  PROVE  OwnInv'
<1>1. TypeOK
  BY DEF Inv
<1>2. created' = created
  BY DEF Next, Arrive, Lookup, FoundAfterAll, Allow, Refuse, StartSweep, SweepKey, EndSweep,
     Tick, Finished, vars
<1>3. \A k \in Keys : visitors'[k] = visitors[k] \/ visitors'[k] = None
  BY <1>1 DEF Next, Arrive, Lookup, FoundAfterAll, Allow, Refuse, StartSweep, SweepKey,
     EndSweep, Tick, Finished, vars, TypeOK
<1>4. \A r \in Requests : req'[r].pc = "allow" =>
        req'[r].visitor \in created /\ own[req'[r].visitor] = req'[r].key
  <2>1. CASE req' = req
    BY <2>1 DEF OwnedBy
  <2>2. CASE \E r \in Requests, k \in Keys : Arrive(r, k)
    <3>1. PICK r \in Requests, k \in Keys :
            req' = [req EXCEPT ![r] = [pc |-> "lookup", key |-> k, call |-> calls + 1]]
      BY <2>2 DEF Arrive
    <3>2. \A q \in Requests : q # r => req'[q] = req[q]
      BY <1>1, <3>1 DEF TypeOK
    <3>3. req'[r].pc = "lookup"
      BY <1>1, <3>1 DEF TypeOK
    <3> QED BY <3>2, <3>3 DEF OwnedBy
  <2>3. CASE \E r \in Requests : Lookup(r) \/ FoundAfterAll(r)
    <3>1. PICK r \in Requests : Lookup(r) \/ FoundAfterAll(r)
      BY <2>3
    <3>2. req[r].pc \in {"lookup", "create"}
      BY <3>1 DEF Lookup, FoundAfterAll
    <3>3. req[r].key \in Keys
      BY <1>1, <3>2, ReqType
    <3>4. CASE visitors[req[r].key] # None
      <4>1. req' = [req EXCEPT ![r] = Holding(r, visitors[req[r].key])]
        BY <3>1, <3>4 DEF Lookup, FoundAfterAll
      <4>2. \A q \in Requests :
              req'[q] = IF q = r THEN Holding(r, visitors[req[r].key]) ELSE req[q]
        BY <1>1, <4>1 DEF TypeOK
      <4>3. /\ Holding(r, visitors[req[r].key]).key = req[r].key
            /\ Holding(r, visitors[req[r].key]).visitor = visitors[req[r].key]
        BY DEF Holding
      <4> QED BY <3>3, <3>4, <4>2, <4>3 DEF OwnedBy
    <3>5. CASE visitors[req[r].key] = None
      <4>1. req' = [req EXCEPT ![r] = [req[r] EXCEPT !.pc = "create"]] /\ req[r].pc = "lookup"
        BY <1>1, <3>1, <3>5 DEF Lookup, FoundAfterAll, TypeOK
      <4>2. req[r] \in [pc : {"lookup", "create"}, key : Keys, call : Call]
        BY <1>1, <4>1, ReqType DEF ReqState, Idle
      <4>3. [req[r] EXCEPT !.pc = "create"].pc = "create"
        BY <4>2
      <4>4. \A q \in Requests :
              req'[q] = IF q = r THEN [req[r] EXCEPT !.pc = "create"] ELSE req[q]
        BY <1>1, <4>1 DEF TypeOK
      <4> QED BY <4>3, <4>4 DEF OwnedBy
    <3> QED BY <3>4, <3>5
  <2>4. CASE \E r \in Requests : Allow(r) \/ Refuse(r)
    <3>1. PICK r \in Requests : req' = [req EXCEPT ![r] = Idle]
      BY <2>4 DEF Allow, Refuse
    <3>2. \A q \in Requests : req'[q] = IF q = r THEN Idle ELSE req[q]
      BY <1>1, <3>1 DEF TypeOK
    <3> QED BY <3>2 DEF OwnedBy, Idle
  <2>5. CASE StartSweep \/ (\E k \in Keys : SweepKey(k)) \/ EndSweep \/ Tick \/ Finished
             \/ UNCHANGED vars
    <3>1. req' = req
      BY <2>5 DEF StartSweep, SweepKey, EndSweep, Tick, Finished, vars
    <3> QED BY <2>1, <3>1
  <2> QED BY <2>2, <2>3, <2>4, <2>5 DEF Next
<1>5. \A g \in grants' : g.visitor \in created /\ own[g.visitor] = g.key
  <2>1. CASE grants' = grants
    BY <2>1 DEF OwnedBy
  <2>2. CASE \E r \in Requests : Allow(r)
    <3>1. PICK r \in Requests : Allow(r)
      BY <2>2
    <3>2. /\ req[r].pc = "allow"
          /\ grants' = grants \cup
               {[at |-> now, call |-> req[r].call, key |-> req[r].key,
                 visitor |-> req[r].visitor, stray |-> visitors[req[r].key] # req[r].visitor]}
      BY <3>1 DEF Allow
    <3>3. \A g \in grants' :
            g \in grants \/ (g.visitor = req[r].visitor /\ g.key = req[r].key)
      BY <3>2
    <3> QED BY <3>2, <3>3 DEF OwnedBy
  <2>3. grants' = grants \/ \E r \in Requests : Allow(r)
    BY DEF Next, Arrive, Lookup, FoundAfterAll, Refuse, StartSweep, SweepKey, EndSweep, Tick,
       Finished, vars
  <2> QED BY <2>1, <2>2, <2>3
<1>6. OwnedBy(own)'
  BY <1>2, <1>3, <1>4, <1>5 DEF OwnedBy
<1> QED BY <1>6 DEF OwnInv

LEMMA OwnAlways == Spec => []OwnInv
<1>1. ASSUME Init PROVE OwnInv
  <2>1. \A k \in Keys : visitors[k] = None
    BY <1>1 DEF Init
  <2>2. \A r \in Requests : req[r].pc = "idle"
    BY <1>1 DEF Init, Idle
  <2>3. \A own : OwnedBy(own)
    BY <1>1, <2>1, <2>2 DEF OwnedBy, Init
  <2>4. [v \in Visitors |-> None] \in [Visitors -> Keys \cup {None}]
    OBVIOUS
  <2> QED BY <2>3, <2>4 DEF OwnInv
<1>2. Inv /\ Inv' /\ OwnInv /\ [Next]_vars => OwnInv'
  BY CreateOwns, OwnersStay DEF OwnInv
<1> QED BY <1>1, <1>2, InvAlways, PTL DEF Spec

(* A trim adds no timestamp, and a grant adds the one it is recorded with.    *)
LEMMA StampsStayGrants ==
  ASSUME Inv, StampsAreGrants, [Next]_vars
  PROVE  StampsAreGrants'
<1>1. TypeOK
  BY DEF Inv
<1>2. CASE stamps' = stamps /\ grants' = grants
  BY <1>2 DEF StampsAreGrants
<1>3. CASE \E r \in Requests : Refuse(r)
  <2>1. PICK r \in Requests : Refuse(r)
    BY <1>3
  <2> DEFINE v == req[r].visitor
             valid == InWindow(stamps[v], now)
  <2>2. stamps' = [stamps EXCEPT ![v] = valid] /\ grants' = grants
    BY <2>1 DEF Refuse
  <2>3. valid \subseteq stamps[v]
    BY DEF InWindow
  <2> HIDE DEF v, valid
  <2>4. \A u \in Visitors : stamps'[u] \subseteq stamps[u]
    BY <1>1, <2>2, <2>3 DEF TypeOK
  <2> QED BY <2>2, <2>4 DEF StampsAreGrants
<1>4. CASE \E r \in Requests : Allow(r)
  <2>1. PICK r \in Requests : Allow(r)
    BY <1>4
  <2> DEFINE v == req[r].visitor
             valid == InWindow(stamps[v], now)
             stamp == [at |-> now, call |-> req[r].call]
             new == [at |-> now, call |-> req[r].call, key |-> req[r].key, visitor |-> v,
                     stray |-> visitors[req[r].key] # v]
  <2>2. stamps' = [stamps EXCEPT ![v] = valid \cup {stamp}] /\ grants' = grants \cup {new}
    BY <2>1 DEF Allow
  <2>3. valid \subseteq stamps[v]
    BY DEF InWindow
  <2>4. new.visitor = v /\ new.at = stamp.at /\ new.call = stamp.call
    OBVIOUS
  <2> HIDE DEF v, valid, stamp, new
  <2>5. \A u \in Visitors : \A s \in stamps'[u] : s \in stamps[u] \/ (u = v /\ s = stamp)
    BY <1>1, <2>2, <2>3 DEF TypeOK
  <2> QED BY <2>2, <2>4, <2>5 DEF StampsAreGrants
<1>5. \/ stamps' = stamps /\ grants' = grants
      \/ \E r \in Requests : Allow(r) \/ Refuse(r)
  BY DEF Next, Arrive, Lookup, FoundAfterAll, Create, StartSweep, SweepKey, EndSweep, Tick,
     Finished, vars
<1> QED BY <1>2, <1>3, <1>4, <1>5

LEMMA StampsAlways == Spec => []StampsAreGrants
<1>1. Init => StampsAreGrants
  BY DEF Init, StampsAreGrants
<1>2. Inv /\ StampsAreGrants /\ [Next]_vars => StampsAreGrants'
  BY StampsStayGrants
<1> QED BY <1>1, <1>2, InvAlways, PTL DEF Spec

(* The timestamps in the window of a visitor are those of as many grants of   *)
(* the client it was created for.                                             *)
LEMMA StampsAreOfOneClient ==
  ASSUME Inv, OwnInv, StampsAreGrants, NEW r \in Requests, req[r].pc = "allow"
  PROVE  Cardinality(InWindow(stamps[req[r].visitor], now)) <=
           Cardinality(GrantedIn({g \in grants : g.key = req[r].key}, now))
<1> DEFINE v == req[r].visitor
           k == req[r].key
           valid == InWindow(stamps[v], now)
           recent == GrantedIn({g \in grants : g.key = k}, now)
<1>1. TypeOK /\ FinInv /\ PastInv
  BY DEF Inv
<1>2. v \in Visitors /\ k \in Keys
  BY <1>1, ReqType
<1>3. PICK own \in [Visitors -> Keys \cup {None}] : OwnedBy(own)
  BY DEF OwnInv
<1>4. own[v] = k
  BY <1>3 DEF OwnedBy
<1>5. now \in Int /\ Window \in Int
  BY <1>1, LimiterAssumption DEF TypeOK
<1>6. IsFiniteSet(recent)
  <2>1. recent \subseteq grants
    BY DEF GrantedIn
  <2> QED BY <1>1, <2>1, FS_Subset DEF FinInv
<1>7. ASSUME NEW s \in valid PROVE \E g \in recent : g.at = s.at /\ g.call = s.call
  <2>1. s \in stamps[v] /\ s.at > now - Window
    BY DEF InWindow
  <2>2. PICK g \in grants : g.visitor = v /\ g.at = s.at /\ g.call = s.call
    BY <1>2, <2>1 DEF StampsAreGrants
  <2>3. g.key = k
    BY <1>3, <1>4, <2>2 DEF OwnedBy
  <2>4. g.at \in Int
    <3>1. g \in Grant
      BY <1>1, <2>2 DEF TypeOK
    <3> QED BY <3>1, LimiterAssumption DEF Grant
  <2>5. now - Window < g.at /\ g.at <= now
    BY <1>1, <1>5, <2>1, <2>2, <2>4 DEF PastInv
  <2>6. g \in recent
    BY <2>2, <2>3, <2>5 DEF GrantedIn
  <2> QED BY <2>2, <2>6
<1>8. \A s, t \in valid : s.at = t.at /\ s.call = t.call => s = t
  <2>1. valid \subseteq Stamp
    BY <1>1, <1>2 DEF InWindow, TypeOK
  <2> QED BY <2>1 DEF Stamp
<1> DEFINE f == [s \in valid |-> CHOOSE g \in recent : g.at = s.at /\ g.call = s.call]
<1> HIDE DEF valid, recent
<1>9. \A s \in valid : f[s] \in recent /\ f[s].at = s.at /\ f[s].call = s.call
  <2> TAKE s \in valid
  <2>1. f[s] = CHOOSE g \in recent : g.at = s.at /\ g.call = s.call
    OBVIOUS
  <2> QED BY <1>7, <2>1
<1>10. f \in [valid -> recent]
  BY <1>9
<1> HIDE DEF f
<1>11. f \in Injection(valid, recent)
  BY <1>8, <1>9, <1>10 DEF Injection, IsInjective
<1> QED BY <1>6, <1>11, FS_Injection DEF valid, recent

LEMMA RefusedWhenFull ==
  ASSUME Inv, OwnInv, StampsAreGrants, NEW r \in Requests, Refuse(r)
  PROVE  Cardinality(GrantedIn({g \in grants : g.key = req[r].key}, now)) >= Limit
<1>1. req[r].pc = "allow" /\ Cardinality(InWindow(stamps[req[r].visitor], now)) >= Limit
  BY DEF Refuse
<1>2. Cardinality(InWindow(stamps[req[r].visitor], now)) <=
        Cardinality(GrantedIn({g \in grants : g.key = req[r].key}, now))
  BY <1>1, StampsAreOfOneClient
<1>3. TypeOK /\ FinInv
  BY DEF Inv
<1>4. Cardinality(InWindow(stamps[req[r].visitor], now)) \in Nat
  BY <1>1, <1>3, ReqType, WindowType
<1>5. Cardinality(GrantedIn({g \in grants : g.key = req[r].key}, now)) \in Nat
  <2>1. GrantedIn({g \in grants : g.key = req[r].key}, now) \subseteq grants
    BY DEF GrantedIn
  <2> QED BY <1>3, <2>1, FS_Subset, FS_CardinalityType DEF FinInv
<1> QED BY <1>1, <1>2, <1>4, <1>5, LimiterAssumption

----------------------------------------------------------------------------
(* The map, the visitors and the cleanup stay well typed.                    *)
THEOREM TypeCorrect == Spec => []TypeOK
BY InvAlways, PTL DEF Inv

(* A client served through the map never has more requests granted than the  *)
(* limit in any window, whatever the cleanup drops meanwhile                 *)
(* (middleware/ratelimit.go, allow and cleanupLoop).                         *)
THEOREM ClientWithinLimit == Spec => []WithinLimitThroughMap
BY InvAlways, PTL DEF Inv

(* Nor does a visitor grant more, dropped from the map or not.               *)
THEOREM VisitorWithinLimit == Spec => []WithinLimitPerVisitor
BY InvAlways, PTL DEF Inv

(* The limit is kept on both sides, to a client and by a visitor, in every   *)
(* window (middleware/ratelimit.go, allow, getVisitor and cleanupLoop).      *)
THEOREM LimitIsKept == Spec => []WithinLimit
BY InvAlways, PTL DEF Inv, WithinLimit

(* And the limiter refuses nobody early: 429 only to a client that was       *)
(* granted the whole limit in the window that ends now. What others asked,   *)
(* what was itself refused and what is older is not held against it          *)
(* (middleware/ratelimit.go, allow).                                         *)
THEOREM RefusalsAreJustified == Spec => NeverRefusesEarly
<1>1. ASSUME Inv, OwnInv, StampsAreGrants
      PROVE  \A r \in Requests : Refuse(r) =>
               Cardinality(GrantedIn({g \in grants : g.key = req[r].key}, now)) >= Limit
  BY <1>1, RefusedWhenFull
<1> QED BY <1>1, InvAlways, OwnAlways, StampsAlways, PTL DEF NeverRefusesEarly

=============================================================================
