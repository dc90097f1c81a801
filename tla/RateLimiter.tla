----------------------------- MODULE RateLimiter -----------------------------
(***************************************************************************)
(* The sliding-window limiter of internal/middleware: a map from client    *)
(* keys to visitors, each with the times of its granted requests.          *)
(*                                                                         *)
(* Two kinds of lock order the steps.  The map's RWMutex: getVisitor looks *)
(* up under the read lock, creates under the write lock after a second     *)
(* look, and the cleanup holds the write lock from end to end.  The        *)
(* visitor's mutex: one request at a time counts and stamps, and the       *)
(* cleanup takes it for each visitor in turn.  A request that already has  *)
(* its visitor needs the map no more, so it can stamp between two steps of *)
(* the cleanup, or after its visitor was dropped: it is then a stray.      *)
(*                                                                         *)
(* Each critical section is one step; nothing in it waits for anything     *)
(* but the lock.                                                           *)
(***************************************************************************)
EXTENDS Integers, FiniteSets

CONSTANTS
  Keys,         \* client IPs and "user:" ids
  Requests,     \* handlers running the middleware
  Visitors,     \* visitor objects, each created once
  Limit,        \* requests granted per window
  Window,       \* the window, and the period of the cleanup: a minute each
  None,         \* no visitor
  MaxTime,      \* bound: the clock stops here
  MaxCalls      \* bound: requests that come in

ASSUME LimiterAssumption == /\ Limit \in Nat \ {0} /\ Window \in Nat \ {0}
                            /\ MaxTime \in Nat /\ MaxCalls \in Nat
                            /\ None \notin Visitors

VARIABLES
  now,          \* the clock
  visitors,     \* visitors[k]: the visitor of key k in the map, or None
  stamps,       \* stamps[v]: the timestamps of v, each with its call number
  created,      \* visitors created so far
  calls,        \* calls so far
  req,          \* req[r]: where request r is in allow, and what it holds
  sweep,        \* the cleanup: idle, or the keys still to visit and its now
  tickReady,    \* a tick waits in the cleanup's ticker
  grants        \* history: every call that was granted

vars == <<now, visitors, stamps, created, calls, req, sweep, tickReady, grants>>

Call  == 1 .. MaxCalls
Stamp == [at : 0 .. MaxTime, call : Call]
Grant == [at : 0 .. MaxTime, call : Call, key : Keys, visitor : Visitors,
          stray : BOOLEAN]
Idle  == [pc |-> "idle"]

TypeOK ==
  /\ now \in 0 .. MaxTime
  /\ visitors \in [Keys -> Visitors \cup {None}]
  /\ stamps \in [Visitors -> SUBSET Stamp]
  /\ created \in SUBSET Visitors
  /\ calls \in 0 .. MaxCalls
  /\ req \in [Requests -> {Idle}
       \cup [pc : {"lookup", "create"}, key : Keys, call : Call]
       \cup [pc : {"allow"}, key : Keys, call : Call, visitor : Visitors]]
  /\ sweep \in {Idle} \cup [pc : {"sweep"}, todo : SUBSET Keys, at : 0 .. MaxTime]
  /\ tickReady \in BOOLEAN
  /\ grants \in SUBSET Grant

Init ==
  /\ now = 0
  /\ visitors = [k \in Keys |-> None]
  /\ stamps = [v \in Visitors |-> {}]
  /\ created = {} /\ calls = 0
  /\ req = [r \in Requests |-> Idle]
  /\ sweep = Idle /\ tickReady = FALSE
  /\ grants = {}

----------------------------------------------------------------------------
(* allow(key).                                                             *)

MapUnlocked == sweep = Idle

(* The key is the user's when Auth has run, the client's address if not.   *)
Arrive(r, k) ==
  /\ req[r] = Idle /\ calls < MaxCalls
  /\ calls' = calls + 1
  /\ req' = [req EXCEPT ![r] = [pc |-> "lookup", key |-> k, call |-> calls + 1]]
  /\ UNCHANGED <<now, visitors, stamps, created, sweep, tickReady, grants>>

Holding(r, v) == [pc |-> "allow", key |-> req[r].key, call |-> req[r].call,
                  visitor |-> v]

(* A getVisitor that takes a missing visitor for a visitor.                *)
LookupUnchecked(r) ==
  /\ req[r].pc = "lookup" /\ MapUnlocked
  /\ req' = [req EXCEPT ![r] = Holding(r, visitors[req[r].key])]
  /\ UNCHANGED <<now, visitors, stamps, created, calls, sweep, tickReady, grants>>

(* getVisitor under the read lock.                                         *)
Lookup(r) ==
  /\ req[r].pc = "lookup" /\ MapUnlocked
  /\ LET v == visitors[req[r].key]
     IN  req' = [req EXCEPT ![r] = IF v # None THEN Holding(r, v)
                                               ELSE [@ EXCEPT !.pc = "create"]]
  /\ UNCHANGED <<now, visitors, stamps, created, calls, sweep, tickReady, grants>>

(* getVisitor under the write lock: the second look.                       *)
FoundAfterAll(r) ==
  /\ req[r].pc = "create" /\ MapUnlocked
  /\ visitors[req[r].key] # None
  /\ req' = [req EXCEPT ![r] = Holding(r, visitors[req[r].key])]
  /\ UNCHANGED <<now, visitors, stamps, created, calls, sweep, tickReady, grants>>

(* A getVisitor that does not look again under the write lock.             *)
CreateUnchecked(r) ==
  /\ req[r].pc = "create" /\ MapUnlocked
  /\ \E v \in Visitors \ created :
       /\ created' = created \cup {v}
       /\ visitors' = [visitors EXCEPT ![req[r].key] = v]
       /\ req' = [req EXCEPT ![r] = Holding(r, v)]
  /\ UNCHANGED <<now, stamps, calls, sweep, tickReady, grants>>

Create(r) ==
  /\ req[r].pc = "create" /\ MapUnlocked
  /\ visitors[req[r].key] = None
  /\ \E v \in Visitors \ created :
       /\ created' = created \cup {v}
       /\ visitors' = [visitors EXCEPT ![req[r].key] = v]
       /\ req' = [req EXCEPT ![r] = Holding(r, v)]
  /\ UNCHANGED <<now, stamps, calls, sweep, tickReady, grants>>

(* A window that leaves nothing behind.                                    *)
InWindowForEver(set, t) == set

(* t.After(now.Add(-window))                                               *)
InWindow(set, t) == {s \in set : s.at > t - Window}

(* Under the visitor's mutex: trim, count, stamp.                          *)
Allow(r) ==
  /\ req[r].pc = "allow"
  /\ LET v == req[r].visitor
         valid == InWindow(stamps[v], now)
     IN  /\ Cardinality(valid) < Limit
         /\ stamps' = [stamps EXCEPT ![v] = valid \cup {[at |-> now, call |-> req[r].call]}]
         /\ grants' = grants \cup
              {[at |-> now, call |-> req[r].call, key |-> req[r].key, visitor |-> v,
                stray |-> visitors[req[r].key] # v]}
  /\ req' = [req EXCEPT ![r] = Idle]
  /\ UNCHANGED <<now, visitors, created, calls, sweep, tickReady>>

(* 429: the trimmed timestamps are kept.                                   *)
Refuse(r) ==
  /\ req[r].pc = "allow"
  /\ LET v == req[r].visitor
         valid == InWindow(stamps[v], now)
     IN  /\ Cardinality(valid) >= Limit
         /\ stamps' = [stamps EXCEPT ![v] = valid]
  /\ req' = [req EXCEPT ![r] = Idle]
  /\ UNCHANGED <<now, visitors, created, calls, sweep, tickReady, grants>>

----------------------------------------------------------------------------
(* cleanupLoop.                                                            *)

StartSweep ==
  /\ sweep = Idle /\ tickReady
  /\ tickReady' = FALSE
  /\ sweep' = [pc |-> "sweep", todo |-> {k \in Keys : visitors[k] # None}, at |-> now]
  /\ UNCHANGED <<now, visitors, stamps, created, calls, req, grants>>

(* The last timestamp, the latest, is before the window of the sweep; or   *)
(* there is none.                                                          *)
Stale(v) == \A s \in stamps[v] : s.at < sweep.at - Window

SweepKey(k) ==
  /\ sweep.pc = "sweep" /\ k \in sweep.todo
  /\ visitors' = [visitors EXCEPT ![k] = IF Stale(@) THEN None ELSE @]
  /\ sweep' = [sweep EXCEPT !.todo = @ \ {k}]
  /\ UNCHANGED <<now, stamps, created, calls, req, tickReady, grants>>

EndSweep ==
  /\ sweep.pc = "sweep" /\ sweep.todo = {}
  /\ sweep' = Idle
  /\ UNCHANGED <<now, visitors, stamps, created, calls, req, tickReady, grants>>

(* The ticker keeps one tick that nobody has taken.                        *)
Tick ==
  /\ now < MaxTime
  /\ now' = now + 1
  /\ tickReady' = (tickReady \/ now' % Window = 0)
  /\ UNCHANGED <<visitors, stamps, created, calls, req, sweep, grants>>

(* The end of the exploration, not of the limiter.                         *)
Finished ==
  /\ now = MaxTime /\ calls = MaxCalls /\ sweep = Idle /\ ~tickReady
  /\ \A r \in Requests : req[r] = Idle
  /\ UNCHANGED vars

Next ==
  \/ \E r \in Requests :
       \/ \E k \in Keys : Arrive(r, k)
       \/ Lookup(r) \/ FoundAfterAll(r) \/ Create(r)
       \/ Allow(r) \/ Refuse(r)
  \/ StartSweep \/ (\E k \in Keys : SweepKey(k)) \/ EndSweep
  \/ Tick
  \/ Finished

Spec == Init /\ [][Next]_vars

----------------------------------------------------------------------------
(* Properties.                                                             *)

(* The grants of a set that fall in the window that ends at t.             *)
GrantedIn(set, t) == {g \in set : t - Window < g.at /\ g.at <= t}

(* Whatever the cleanup does, requests served through the map stay within  *)
(* the limit in every window: a visitor is only dropped, and replaced by a *)
(* fresh one, when its window is empty, and it is created once.            *)
WithinLimitThroughMap ==
  \A k \in Keys, t \in 0 .. now :
    Cardinality(GrantedIn({g \in grants : g.key = k /\ ~g.stray}, t)) <= Limit

(* Nor does one visitor, dropped or not, ever grant more than the limit:   *)
(* the strays of one cleanup share what their visitor has left.            *)
WithinLimitPerVisitor ==
  \A v \in Visitors, t \in 0 .. now :
    Cardinality(GrantedIn({g \in grants : g.visitor = v}, t)) <= Limit

(* What the limiter grants: in no window more than the limit, to a client  *)
(* through the map nor by a visitor.                                       *)
WithinLimit == WithinLimitThroughMap /\ WithinLimitPerVisitor

(* And what it refuses: 429 only to a client that was granted the limit in *)
(* the window that ends now, never for the requests of another client, for *)
(* what was itself refused or for what the window has left behind.         *)
NeverRefusesEarly ==
  [][\A r \in Requests : Refuse(r) =>
       Cardinality(GrantedIn({g \in grants : g.key = req[r].key}, now)) >= Limit]_vars
============================================================================
