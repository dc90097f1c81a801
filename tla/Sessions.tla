------------------------------ MODULE Sessions ------------------------------
(***************************************************************************)
(* The life of the JSON web tokens: login, refresh, the Auth middleware,   *)
(* logout, and the two blacklists.                                         *)
(*                                                                         *)
(* Which blacklist the process uses is settled when it starts: Redis if it *)
(* answers a ping, a map in memory otherwise.  The tokens themselves are   *)
(* stored nowhere: any signed token that has not expired is valid.         *)
(*                                                                         *)
(* A request runs in steps, and time passes between them; every call to    *)
(* Redis can fail.  Whose token it is, and the role in it, make no         *)
(* difference to any of this and are left out.                             *)
(***************************************************************************)
EXTENDS Integers

CONSTANTS
  Tokens,       \* JTIs
  Requests,     \* handlers running at once
  AccessTTL,    \* how long an access token lives
  RefreshTTL,   \* how long a refresh token lives
  Never,        \* no expiration
  None,         \* no token, no entry
  MaxTime       \* bound: the clock stops here

ASSUME SessionAssumption == /\ AccessTTL \in Nat \ {0}
                            /\ RefreshTTL \in Nat \ {0}
                            /\ Never \notin Int /\ None \notin Int
                            /\ None # Never /\ None \notin Tokens
                            /\ MaxTime \in Nat

VARIABLES
  now,          \* the clock
  token,        \* token[t]: the token with JTI t, or None: not issued yet
  backend,      \* the blacklist the process uses
  redis,        \* redis[t]: when the key "blacklist:" + t expires, or None
  memory,       \* memory[t]: the same for the map in memory
  req,          \* req[r]: where request r is, and what it holds
  closed        \* history: closed[b], tokens logged out with backend b

storeVars == <<redis, memory>>
vars == <<now, token, backend, storeVars, req, closed>>

Time  == Nat
Kinds == {"access", "refresh"}
Token == [kind : Kinds, exp : Time, from : Tokens \cup {None}]
NoToken == [kind |-> "none", exp |-> 0, from |-> None]
Backends == {"redis", "memory"}
Idle  == [pc |-> "idle"]

TypeOK ==
  /\ now \in Time
  /\ token \in [Tokens -> Token \cup {NoToken}]
  /\ backend \in Backends
  /\ redis \in [Tokens -> Time \cup {Never, None}]
  /\ memory \in [Tokens -> Time \cup {None}]
  /\ req \in [Requests -> {Idle}
       \cup [pc : {"check", "granted"}, token : Tokens, late : BOOLEAN]
       \cup [pc : {"measure"}, token : Tokens]
       \cup [pc : {"revoke"}, token : Tokens, left : Int]]
  /\ closed \in [Backends -> SUBSET Tokens]

Init ==
  /\ now = 0
  /\ token = [t \in Tokens |-> NoToken]
  /\ backend \in Backends
  /\ redis = [t \in Tokens |-> None]
  /\ memory = [t \in Tokens |-> None]
  /\ req = [r \in Requests |-> Idle]
  /\ closed = [b \in Backends |-> {}]

----------------------------------------------------------------------------
(* Tokens.                                                                 *)

Issued(t) == token[t] # NoToken

(* Manager.Validate: signed here and not expired, of either type.          *)
Valid(t) == Issued(t) /\ now < token[t].exp

(* A fresh pair, in exchange for the refresh token f, or for a password.   *)
IssuePair(f) == \E a, b \in Tokens :
  /\ a # b /\ ~Issued(a) /\ ~Issued(b)
  /\ token' = [token EXCEPT
       ![a] = [kind |-> "access",  exp |-> now + AccessTTL,  from |-> f],
       ![b] = [kind |-> "refresh", exp |-> now + RefreshTTL, from |-> f]]
  /\ UNCHANGED <<now, backend, storeVars, req, closed>>

(* AuthService.Login with the right password.                              *)
Login == IssuePair(None)

(* AuthService.Refresh: the old token is looked at, and left as it is.     *)
Refresh(t) ==
  /\ Valid(t) /\ token[t].kind = "refresh"
  /\ IssuePair(t)

----------------------------------------------------------------------------
(* The blacklists.                                                         *)

RedisHolds(t) == redis[t] # None

(* IsRevoked of the backend in use.                                        *)
Revoked(t) ==
  IF backend = "redis" THEN RedisHolds(t) ELSE memory[t] # None /\ now < memory[t]

(* Revoke of the backend in use.  Redis takes a lifetime that is not       *)
(* positive for none: the key never expires.                               *)
Revoke(t, left) ==
  IF backend = "redis"
  THEN /\ redis' = [redis EXCEPT ![t] = IF left > 0 THEN now + left ELSE Never]
       /\ UNCHANGED memory
  ELSE /\ memory' = [memory EXCEPT ![t] = now + left]
       /\ UNCHANGED redis

(* A clean-up that drops the entries that still count.                     *)
CleanupReversed ==
  /\ memory' = [t \in Tokens |->
       IF memory[t] # None /\ now < memory[t] THEN None ELSE memory[t]]
  /\ UNCHANGED <<now, token, backend, redis, req, closed>>

(* Blacklist.cleanupLoop, which runs whether or not the map is in use.     *)
Cleanup ==
  /\ memory' = [t \in Tokens |->
       IF memory[t] # None /\ now > memory[t] THEN None ELSE memory[t]]
  /\ UNCHANGED <<now, token, backend, redis, req, closed>>

----------------------------------------------------------------------------
(* Requests.                                                               *)

Goto(r, s) ==
  /\ req' = [req EXCEPT ![r] = s]
  /\ UNCHANGED <<now, token, backend>>

(* middleware.Auth: a valid access token, and then the blacklist.  Any     *)
(* other token is refused at once.                                         *)
Arrive(r, t) ==
  /\ req[r] = Idle /\ Valid(t) /\ token[t].kind = "access"
  /\ Goto(r, [pc |-> "check", token |-> t, late |-> t \in closed[backend]])
  /\ UNCHANGED <<storeVars, closed>>

Grant(r) ==
  /\ req[r].pc = "check" /\ ~Revoked(req[r].token)
  /\ Goto(r, [req[r] EXCEPT !.pc = "granted"])
  /\ UNCHANGED <<storeVars, closed>>

(* Redis cannot be reached, and the middleware shrugs.                     *)
RefuseFailOpen(r) ==
  /\ req[r].pc = "check"
  /\ \/ Revoked(req[r].token) /\ Goto(r, Idle)
     \/ backend = "redis" /\ Goto(r, [req[r] EXCEPT !.pc = "granted"])
  /\ UNCHANGED <<storeVars, closed>>

(* Revoked, or Redis cannot tell: err != nil || revoked.                   *)
Refuse(r) ==
  /\ req[r].pc = "check"
  /\ Revoked(req[r].token) \/ backend = "redis"
  /\ Goto(r, Idle)
  /\ UNCHANGED <<storeVars, closed>>

Finish(r) ==
  /\ req[r].pc = "granted"
  /\ Goto(r, Idle)
  /\ UNCHANGED <<storeVars, closed>>

(* The logout of a valid token is answered 200.                            *)
Closed(t) == closed' = [closed EXCEPT ![backend] = @ \cup {t}]

(* AuthService.Logout with a token of either type.  One that is not valid  *)
(* any more has nothing to revoke: 200, and no change.                     *)
BeginLogout(r, t) ==
  /\ req[r] = Idle /\ Valid(t)
  /\ Goto(r, [pc |-> "measure", token |-> t])
  /\ UNCHANGED <<storeVars, closed>>

(* time.Since in the place of time.Until.                                  *)
MeasureReversed(r) ==
  /\ req[r].pc = "measure"
  /\ Goto(r, [pc |-> "revoke", token |-> req[r].token,
              left |-> now - token[req[r].token].exp])
  /\ UNCHANGED <<storeVars, closed>>

(* time.Until(claims.ExpiresAt.Time)                                       *)
Measure(r) ==
  /\ req[r].pc = "measure"
  /\ Goto(r, [pc |-> "revoke", token |-> req[r].token,
              left |-> token[req[r].token].exp - now])
  /\ UNCHANGED <<storeVars, closed>>

LogoutRevokes(r) ==
  /\ req[r].pc = "revoke"
  /\ Revoke(req[r].token, req[r].left)
  /\ Closed(req[r].token)
  /\ Goto(r, Idle)

(* A logout that answers 200 whatever Redis said.                          *)
LogoutFailsSilently(r) ==
  /\ req[r].pc = "revoke" /\ backend = "redis"
  /\ Closed(req[r].token)
  /\ Goto(r, Idle)
  /\ UNCHANGED storeVars

(* 500, "failed to revoke token", though Redis may have taken the key.     *)
LogoutFails(r) ==
  /\ req[r].pc = "revoke" /\ backend = "redis"
  /\ Revoke(req[r].token, req[r].left) \/ UNCHANGED storeVars
  /\ Goto(r, Idle)
  /\ UNCHANGED closed

RequestStep(r) ==
  \/ \E t \in Tokens : Arrive(r, t) \/ BeginLogout(r, t)
  \/ Grant(r) \/ Refuse(r) \/ Finish(r)
  \/ Measure(r) \/ LogoutRevokes(r) \/ LogoutFails(r)

----------------------------------------------------------------------------
(* The process ends at any moment, and its next start pings Redis again.   *)
(* What it kept in memory is gone.                                         *)
Restart ==
  /\ backend' \in Backends
  /\ memory' = [t \in Tokens |-> None]
  /\ req' = [r \in Requests |-> Idle]
  /\ closed' = [closed EXCEPT !["memory"] = {}]
  /\ UNCHANGED <<now, token, redis>>

(* Redis drops a key when its time has come.                               *)
Tick ==
  /\ now < MaxTime
  /\ now' = now + 1
  /\ redis' = [t \in Tokens |-> IF redis[t] = now' THEN None ELSE redis[t]]
  /\ UNCHANGED <<token, backend, memory, req, closed>>

Next ==
  \/ Login
  \/ \E t \in Tokens : Refresh(t)
  \/ \E r \in Requests : RequestStep(r)
  \/ Cleanup \/ Restart \/ Tick

Spec == Init /\ [][Next]_vars

----------------------------------------------------------------------------
(* Properties.                                                             *)

(* A logout that was answered 200 is final: no request that comes in later *)
(* is let through with the token.  The blacklist forgets the token in the  *)
(* end, but never before the token itself expires; a request is only let   *)
(* through after that if it came in before and was held up.  Logouts kept  *)
(* in memory last as long as the process does.                             *)
LogoutIsFinal ==
  \A r \in Requests :
    req[r].pc = "granted" /\ req[r].late => token[req[r].token].exp <= now

(* README "old refresh token is now invalid": a refresh token is exchanged *)
(* once.  Refresh revokes nothing and consults no blacklist.               *)
RotationInvalidates ==
  \A s, t \in Tokens :
    /\ Issued(s) /\ token[s].kind = "refresh" /\ token[s].from # None
    /\ Issued(t) /\ token[t].kind = "refresh" /\ token[t].from = token[s].from
    => s = t
=============================================================================
