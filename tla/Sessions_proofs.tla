--------------------------- MODULE Sessions_proofs ---------------------------
(***************************************************************************)
(* Proofs about Sessions: the type invariant, that a logout is final, and  *)
(* how far a refresh token used again reaches, for any number of tokens    *)
(* and requests and any lifetimes.                                         *)
(***************************************************************************)
EXTENDS Sessions, TLAPS

(* The entry e of a blacklist counts at least as long as token t does.     *)
Covers(e, t) == e = Never \/ (e \in Int /\ token[t].exp <= e)

(* What was revoked in Redis is covered there until the token expires.     *)
RedisInv == \A t \in closed["redis"] :
  /\ Issued(t)
  /\ Covers(redis[t], t) \/ token[t].exp <= now

(* In memory the entry may have been cleaned up after the token expired.   *)
MemoryInv == \A t \in closed["memory"] :
  /\ Issued(t)
  /\ Covers(memory[t], t) \/ token[t].exp < now

(* What a request holds: a lifetime measured too early is too long.        *)
HeldInv == \A r \in Requests :
  /\ req[r] # Idle => Issued(req[r].token)
  /\ req[r].pc = "revoke" => token[req[r].token].exp <= now + req[r].left

(* A late request finds its token among the closed ones of the backend in  *)
(* use, and is granted only once the token has expired.                    *)
LateInv == \A r \in Requests : req[r].pc \in {"check", "granted"} /\ req[r].late =>
  /\ req[r].token \in closed[backend]
  /\ req[r].pc = "granted" => token[req[r].token].exp <= now

IInv == TypeOK /\ RedisInv /\ MemoryInv /\ HeldInv /\ LateInv

----------------------------------------------------------------------------
(* A token in the state of a request is one of Tokens.                     *)
LEMMA Holds ==
  ASSUME TypeOK, NEW r \in Requests, req[r] # Idle
  PROVE  req[r].token \in Tokens
BY DEF TypeOK, Idle

(* An issued token is a token, with an expiry on the clock.                *)
LEMMA IssuedIsToken ==
  ASSUME TypeOK, NEW t \in Tokens, Issued(t)
  PROVE  token[t] \in Token /\ token[t].exp \in Int
BY DEF TypeOK, Issued, Token, NoToken, Time

LEMMA InitInv == Init => IInv
BY SessionAssumption
DEF Init, IInv, TypeOK, RedisInv, MemoryInv, HeldInv, LateInv, Backends, Idle,
    Time, Token, NoToken

----------------------------------------------------------------------------
(* What the stores and the closed tokens depend on.                        *)
LEMMA StoresInv ==
  ASSUME RedisInv, MemoryInv, UNCHANGED <<now, token, storeVars, closed>>
  PROVE  RedisInv' /\ MemoryInv'
BY DEF RedisInv, MemoryInv, Covers, Issued, storeVars

(* Issued tokens keep what they are.                                       *)
LEMMA IssuePairInv ==
  ASSUME IInv, NEW f \in Tokens \cup {None}, IssuePair(f)
  PROVE  IInv'
<1> PICK a \in Tokens, b \in Tokens :
      /\ a # b /\ ~Issued(a) /\ ~Issued(b)
      /\ token' = [token EXCEPT
           ![a] = [kind |-> "access",  exp |-> now + AccessTTL,  from |-> f],
           ![b] = [kind |-> "refresh", exp |-> now + RefreshTTL, from |-> f]]
      /\ UNCHANGED <<now, backend, storeVars, req, closed>>
  BY DEF IssuePair
<1> USE DEF IInv
<1>1. TypeOK'
  <2>1. /\ [kind |-> "access",  exp |-> now + AccessTTL,  from |-> f] \in Token
        /\ [kind |-> "refresh", exp |-> now + RefreshTTL, from |-> f] \in Token
    BY SessionAssumption DEF TypeOK, Token, Time, Kinds
  <2> QED BY <2>1 DEF TypeOK, storeVars
<1>2. \A t \in Tokens : Issued(t) => Issued(t)' /\ token'[t] = token[t]
  BY DEF Issued, TypeOK
<1>3. closed["redis"] \subseteq Tokens /\ closed["memory"] \subseteq Tokens
  BY DEF TypeOK, Backends
<1>4. RedisInv'
  BY <1>2, <1>3 DEF RedisInv, Covers, storeVars
<1>5. MemoryInv'
  BY <1>2, <1>3 DEF MemoryInv, Covers, storeVars
<1>6. \A r \in Requests : req[r] # Idle =>
        req[r].token \in Tokens /\ Issued(req[r].token)
  BY Holds DEF HeldInv
<1>7. HeldInv'
  <2> SUFFICES ASSUME NEW r \in Requests
               PROVE  /\ req[r] # Idle => Issued(req[r].token)'
                      /\ req[r].pc = "revoke" =>
                           token'[req[r].token].exp <= now + req[r].left
    BY DEF HeldInv
  <2>1. req[r].pc = "revoke" => req[r] # Idle
    BY DEF Idle
  <2> QED BY <1>2, <1>6, <2>1 DEF HeldInv
<1>8. LateInv'
  <2> SUFFICES ASSUME NEW r \in Requests, req[r].pc \in {"check", "granted"}, req[r].late
               PROVE  /\ req[r].token \in closed[backend]
                      /\ req[r].pc = "granted" => token'[req[r].token].exp <= now
    BY DEF LateInv
  <2>1. req[r] # Idle
    BY DEF Idle
  <2> QED BY <1>2, <1>6, <2>1 DEF LateInv
<1> QED BY <1>1, <1>4, <1>5, <1>7, <1>8

LEMMA CleanupInv == IInv /\ Cleanup => IInv'
<1> SUFFICES ASSUME IInv, Cleanup PROVE IInv'
  OBVIOUS
<1> USE DEF IInv, Cleanup
<1>1. TypeOK'
  BY DEF TypeOK
<1>2. RedisInv'
  BY DEF RedisInv, Covers, Issued
<1>3. MemoryInv'
  <2> SUFFICES ASSUME NEW t \in closed["memory"]
               PROVE  /\ Issued(t)
                      /\ Covers(memory'[t], t) \/ token[t].exp < now
    BY DEF MemoryInv, Covers, Issued
  <2>1. t \in Tokens
    BY DEF TypeOK, Backends
  <2>2. token[t].exp \in Int /\ Issued(t)
    BY <2>1, IssuedIsToken DEF MemoryInv
  <2>3. now \in Int /\ memory[t] \in Nat \cup {None}
    BY <2>1 DEF TypeOK, Time
  <2>4. memory'[t] = IF memory[t] # None /\ now > memory[t] THEN None ELSE memory[t]
    BY <2>1
  <2>5. Covers(memory[t], t) \/ token[t].exp < now
    BY DEF MemoryInv
  <2> QED BY <2>2, <2>3, <2>4, <2>5, SessionAssumption DEF Covers
<1>4. HeldInv'
  BY DEF HeldInv, Issued
<1>5. LateInv'
  BY DEF LateInv
<1> QED BY <1>1, <1>2, <1>3, <1>4, <1>5

LEMMA RestartInv == IInv /\ Restart => IInv'
<1> SUFFICES ASSUME IInv, Restart PROVE IInv'
  OBVIOUS
<1> USE DEF IInv, Restart
<1>1. TypeOK'
  BY DEF TypeOK, Backends
<1>2. RedisInv'
  <2>1. closed'["redis"] = closed["redis"]
    BY DEF TypeOK, Backends
  <2> QED BY <2>1 DEF RedisInv, Covers, Issued
<1>3. MemoryInv'
  <2>1. closed'["memory"] = {}
    BY DEF TypeOK, Backends
  <2> QED BY <2>1 DEF MemoryInv
<1>4. HeldInv' /\ LateInv'
  BY DEF HeldInv, LateInv, Idle
<1> QED BY <1>1, <1>2, <1>3, <1>4

LEMMA TickInv == IInv /\ Tick => IInv'
<1> SUFFICES ASSUME IInv, Tick PROVE IInv'
  OBVIOUS
<1> USE DEF IInv, Tick
<1>1. TypeOK'
  BY DEF TypeOK, Time
<1>2. now \in Int
  BY DEF TypeOK, Time
<1>3. RedisInv'
  <2> SUFFICES ASSUME NEW t \in closed["redis"]
               PROVE  Covers(redis'[t], t) \/ token[t].exp <= now + 1
    BY DEF RedisInv, Covers, Issued
  <2>1. t \in Tokens /\ Issued(t)
    BY DEF TypeOK, Backends, RedisInv
  <2>2. token[t].exp \in Int /\ redis'[t] \in {redis[t], None}
    BY <2>1, IssuedIsToken
  <2>3. CASE redis'[t] = redis[t]
    BY <1>2, <2>2, <2>3 DEF RedisInv, Covers
  <2>4. CASE redis'[t] # redis[t]
    <3>1. redis[t] = now + 1
      BY <2>1, <2>4
    <3> QED BY <1>2, <2>2, <3>1, SessionAssumption DEF RedisInv, Covers
  <2> QED BY <2>3, <2>4
<1>4. MemoryInv'
  <2> SUFFICES ASSUME NEW t \in closed["memory"], token[t].exp < now
               PROVE  token[t].exp < now + 1
    BY DEF MemoryInv, Covers, Issued, storeVars
  <2>1. t \in Tokens /\ Issued(t)
    BY DEF TypeOK, Backends, MemoryInv
  <2> QED BY <1>2, <2>1, IssuedIsToken
<1>5. \A r \in Requests : req[r] # Idle =>
        Issued(req[r].token) /\ token[req[r].token].exp \in Int
  BY Holds, IssuedIsToken DEF HeldInv
<1>6. HeldInv'
  <2> SUFFICES ASSUME NEW r \in Requests, req[r].pc = "revoke"
               PROVE  token[req[r].token].exp <= now + 1 + req[r].left
    BY <1>5 DEF HeldInv, Issued
  <2>1. req[r] # Idle /\ req[r].left \in Int
    BY DEF TypeOK, Idle
  <2> QED BY <1>2, <1>5, <2>1 DEF HeldInv
<1>7. LateInv'
  <2> SUFFICES ASSUME NEW r \in Requests, req[r].pc = "granted", req[r].late
               PROVE  token[req[r].token].exp <= now + 1
    BY DEF LateInv
  <2>1. req[r] # Idle
    BY DEF Idle
  <2> QED BY <1>2, <1>5, <2>1 DEF LateInv
<1> QED BY <1>1, <1>3, <1>4, <1>6, <1>7

----------------------------------------------------------------------------
(* The steps of the Auth middleware.                                       *)

LEMMA ArriveInv ==
  ASSUME IInv, NEW r \in Requests, NEW t \in Tokens, Arrive(r, t)
  PROVE  IInv'
<1> USE DEF IInv, Arrive, Goto
<1>1. TypeOK'
  BY DEF TypeOK, storeVars
<1>2. RedisInv' /\ MemoryInv'
  BY StoresInv
<1>3. \A q \in Requests \ {r} : req'[q] = req[q]
  BY DEF TypeOK
<1>4. req'[r] = [pc |-> "check", token |-> t, late |-> t \in closed[backend]]
  BY DEF TypeOK
<1>5. HeldInv'
  BY <1>3, <1>4 DEF HeldInv, Valid, Issued
<1>6. LateInv'
  <2>1. /\ req'[r].pc = "check" /\ req'[r].token = t
        /\ req'[r].late => t \in closed[backend]
    <3>1. CASE t \in closed[backend]
      BY <1>4, <3>1
    <3>2. CASE t \notin closed[backend]
      <4>1. (t \in closed[backend]) = FALSE
        BY <3>2
      <4>2. req'[r] = [pc |-> "check", token |-> t, late |-> FALSE]
        BY <1>4, <4>1, Zenon
      <4> QED BY <4>2
    <3> QED BY <3>1, <3>2
  <2>2. \A q \in Requests : req'[q].pc \in {"check", "granted"} /\ req'[q].late =>
          /\ req'[q].token \in closed[backend]
          /\ req'[q].pc = "granted" => token[req'[q].token].exp <= now
    BY <1>3, <2>1 DEF LateInv
  <2> QED BY <2>2 DEF LateInv
<1> QED BY <1>1, <1>2, <1>5, <1>6

(* A token that is closed and found in no blacklist has expired.           *)
LEMMA GrantInv ==
  ASSUME IInv, NEW r \in Requests, Grant(r)
  PROVE  IInv'
<1> DEFINE t == req[r].token
<1> USE DEF IInv, Grant, Goto
<1>1. /\ req[r] \in [pc : {"check"}, token : Tokens, late : BOOLEAN]
      /\ t \in Tokens /\ Issued(t)
  BY DEF TypeOK, Idle, HeldInv
<1>2. req'[r] = [pc |-> "granted", token |-> t, late |-> req[r].late]
  BY <1>1 DEF TypeOK
<1>3. \A q \in Requests \ {r} : req'[q] = req[q]
  BY DEF TypeOK
<1>4. TypeOK'
  <2>1. req'[r] \in [pc : {"check", "granted"}, token : Tokens, late : BOOLEAN]
    BY <1>1, <1>2
  <2> QED BY <2>1 DEF TypeOK, storeVars
<1>5. RedisInv' /\ MemoryInv'
  BY StoresInv
<1>6. HeldInv'
  BY <1>1, <1>2, <1>3 DEF HeldInv, Issued
<1>7. ASSUME req[r].late
      PROVE  t \in closed[backend] /\ token[t].exp <= now
  <2>1. t \in closed[backend]
    BY <1>7, <1>1 DEF LateInv
  <2>2. now \in Int /\ token[t].exp \in Int
    BY <1>1, IssuedIsToken DEF TypeOK, Time
  <2>3. CASE backend = "redis"
    <3>1. (Covers(redis[t], t) \/ token[t].exp <= now) /\ ~RedisHolds(t)
      BY <2>1, <2>3 DEF RedisInv, Revoked
    <3> QED BY <2>1, <2>2, <3>1, SessionAssumption DEF Covers, RedisHolds
  <2>4. CASE backend = "memory"
    <3>1. /\ Covers(memory[t], t) \/ token[t].exp < now
          /\ ~(memory[t] # None /\ now < memory[t])
      BY <2>1, <2>4 DEF MemoryInv, Revoked
    <3>2. memory[t] \in Nat \cup {None}
      BY <1>1 DEF TypeOK, Time
    <3> QED BY <2>1, <2>2, <3>1, <3>2, SessionAssumption DEF Covers
  <2> QED BY <2>3, <2>4 DEF TypeOK, Backends
<1>8. LateInv'
  BY <1>2, <1>3, <1>7 DEF LateInv
<1> QED BY <1>4, <1>5, <1>6, <1>8

(* A step of request r that changes nothing else and ends it.              *)
LEMMA EndInv ==
  ASSUME IInv, NEW r \in Requests, Goto(r, Idle), UNCHANGED <<storeVars, closed>>
  PROVE  IInv'
<1> USE DEF IInv, Goto
<1>1. TypeOK'
  BY DEF TypeOK, storeVars
<1>2. RedisInv' /\ MemoryInv'
  BY StoresInv
<1>3. /\ \A q \in Requests \ {r} : req'[q] = req[q]
      /\ req'[r] = Idle
  BY DEF TypeOK
<1>4. HeldInv'
  BY <1>3 DEF HeldInv, Issued, Idle
<1>5. LateInv'
  BY <1>3 DEF LateInv, Idle
<1> QED BY <1>1, <1>2, <1>4, <1>5

----------------------------------------------------------------------------
(* The steps of a logout.                                                  *)

LEMMA BeginLogoutInv ==
  ASSUME IInv, NEW r \in Requests, NEW t \in Tokens, BeginLogout(r, t)
  PROVE  IInv'
<1> USE DEF IInv, BeginLogout, Goto
<1>1. TypeOK'
  BY DEF TypeOK, storeVars
<1>2. RedisInv' /\ MemoryInv'
  BY StoresInv
<1>3. /\ \A q \in Requests \ {r} : req'[q] = req[q]
      /\ req'[r] = [pc |-> "measure", token |-> t]
  BY DEF TypeOK
<1>4. HeldInv'
  BY <1>3 DEF HeldInv, Valid, Issued
<1>5. LateInv'
  BY <1>3 DEF LateInv
<1> QED BY <1>1, <1>2, <1>4, <1>5

LEMMA MeasureInv ==
  ASSUME IInv, NEW r \in Requests, Measure(r)
  PROVE  IInv'
<1> DEFINE t == req[r].token
<1> USE DEF IInv, Measure, Goto
<1>1. t \in Tokens /\ Issued(t)
  BY Holds DEF HeldInv, Idle
<1>2. now \in Int /\ token[t].exp \in Int
  BY <1>1, IssuedIsToken DEF TypeOK, Time
<1>3. /\ \A q \in Requests \ {r} : req'[q] = req[q]
      /\ req'[r] = [pc |-> "revoke", token |-> t, left |-> token[t].exp - now]
  BY DEF TypeOK
<1>4. TypeOK'
  <2>1. req'[r] \in [pc : {"revoke"}, token : Tokens, left : Int]
    BY <1>1, <1>2, <1>3
  <2> QED BY <2>1 DEF TypeOK, storeVars
<1>5. RedisInv' /\ MemoryInv'
  BY StoresInv
<1>6. HeldInv'
  <2>1. token[t].exp <= now + (token[t].exp - now)
    BY <1>2
  <2> QED BY <1>1, <1>3, <2>1 DEF HeldInv, Issued
<1>7. LateInv'
  BY <1>3 DEF LateInv
<1> QED BY <1>4, <1>5, <1>6, <1>7

(* The entry that is written covers the token, however late it is written. *)
LEMMA RevokeInv ==
  ASSUME IInv, NEW r \in Requests, req[r].pc = "revoke",
         Revoke(req[r].token, req[r].left), Goto(r, Idle),
         Closed(req[r].token) \/ UNCHANGED closed
  PROVE  IInv'
<1> DEFINE t == req[r].token
           left == req[r].left
<1> USE DEF IInv, Goto
<1>1. t \in Tokens /\ Issued(t) /\ left \in Int
  BY Holds DEF HeldInv, TypeOK, Idle
<1>2. now \in Nat /\ token[t].exp \in Nat /\ token[t].exp <= now + left
  BY <1>1, IssuedIsToken DEF TypeOK, Time, Token, HeldInv
<1>3. /\ \A q \in Requests \ {r} : req'[q] = req[q]
      /\ req'[r] = Idle
  BY DEF TypeOK
<1>4. /\ closed' \in [Backends -> SUBSET Tokens]
      /\ closed[backend] \subseteq closed'[backend]
      /\ closed'[backend] \subseteq closed[backend] \cup {t}
      /\ \A b \in Backends : b # backend => closed'[b] = closed[b]
  BY <1>1 DEF TypeOK, Closed
<1>5. CASE backend = "redis"
  <2>1. /\ redis' = [redis EXCEPT ![t] = IF left > 0 THEN now + left ELSE Never]
        /\ memory' = memory
    BY <1>5 DEF Revoke
  <2>2. Covers(redis'[t], t)
    BY <1>1, <1>2, <2>1 DEF Covers, TypeOK
  <2>3. redis' \in [Tokens -> Time \cup {Never, None}]
    BY <1>1, <1>2, <2>1 DEF TypeOK, Time
  <2>4. TypeOK'
    BY <1>3, <1>4, <2>1, <2>3 DEF TypeOK
  <2>5. RedisInv'
    <3>1. \A s \in Tokens : s # t => redis'[s] = redis[s]
      BY <2>1 DEF TypeOK
    <3>2. closed'["redis"] \subseteq closed["redis"] \cup {t} /\ closed["redis"] \subseteq Tokens
      BY <1>4, <1>5 DEF TypeOK, Backends
    <3> QED BY <1>1, <2>2, <3>1, <3>2 DEF RedisInv, Covers, Issued
  <2>6. MemoryInv'
    BY <1>4, <1>5, <2>1 DEF MemoryInv, Covers, Issued, Backends
  <2> QED BY <1>3, <1>4, <2>4, <2>5, <2>6 DEF HeldInv, LateInv, Issued, Idle
<1>6. CASE backend = "memory"
  <2>1. /\ memory' = [memory EXCEPT ![t] = now + left]
        /\ redis' = redis
    BY <1>6 DEF Revoke
  <2>2. Covers(memory'[t], t)
    BY <1>1, <1>2, <2>1 DEF Covers, TypeOK
  <2>3. memory' \in [Tokens -> Time \cup {None}]
    <3>1. now + left \in Nat
      BY <1>1, <1>2
    <3> QED BY <1>1, <2>1, <3>1 DEF TypeOK, Time
  <2>4. TypeOK'
    BY <1>3, <1>4, <2>1, <2>3 DEF TypeOK
  <2>5. RedisInv'
    BY <1>4, <1>6, <2>1 DEF RedisInv, Covers, Issued, Backends
  <2>6. MemoryInv'
    <3>1. \A s \in Tokens : s # t => memory'[s] = memory[s]
      BY <2>1 DEF TypeOK
    <3>2. closed'["memory"] \subseteq closed["memory"] \cup {t} /\ closed["memory"] \subseteq Tokens
      BY <1>4, <1>6 DEF TypeOK, Backends
    <3> QED BY <1>1, <2>2, <3>1, <3>2 DEF MemoryInv, Covers, Issued
  <2> QED BY <1>3, <1>4, <2>4, <2>5, <2>6 DEF HeldInv, LateInv, Issued, Idle
<1> QED BY <1>5, <1>6 DEF TypeOK, Backends

----------------------------------------------------------------------------
LEMMA StepInv == IInv /\ [Next]_vars => IInv'
<1> SUFFICES ASSUME IInv, [Next]_vars PROVE IInv'
  OBVIOUS
<1>1. CASE Login
  BY <1>1, IssuePairInv DEF Login
<1>2. ASSUME NEW t \in Tokens, Refresh(t) PROVE IInv'
  BY <1>2, IssuePairInv DEF Refresh
<1>3. ASSUME NEW r \in Requests, RequestStep(r) PROVE IInv'
  <2>1. ASSUME NEW t \in Tokens, Arrive(r, t) PROVE IInv'
    BY <2>1, ArriveInv
  <2>2. ASSUME NEW t \in Tokens, BeginLogout(r, t) PROVE IInv'
    BY <2>2, BeginLogoutInv
  <2>3. CASE Grant(r)
    BY <2>3, GrantInv
  <2>4. CASE Refuse(r)
    BY <2>4, EndInv DEF Refuse
  <2>5. CASE Finish(r)
    BY <2>5, EndInv DEF Finish
  <2>6. CASE Measure(r)
    BY <2>6, MeasureInv
  <2>7. CASE LogoutRevokes(r)
    BY <2>7, RevokeInv DEF LogoutRevokes
  <2>8. CASE LogoutFails(r)
    <3>1. CASE Revoke(req[r].token, req[r].left)
      BY <2>8, <3>1, RevokeInv DEF LogoutFails
    <3>2. CASE UNCHANGED storeVars
      BY <2>8, <3>2, EndInv DEF LogoutFails
    <3> QED BY <2>8, <3>1, <3>2 DEF LogoutFails
  <2> QED BY <1>3, <2>1, <2>2, <2>3, <2>4, <2>5, <2>6, <2>7, <2>8 DEF RequestStep
<1>4. CASE Cleanup
  BY <1>4, CleanupInv
<1>5. CASE Restart
  BY <1>5, RestartInv
<1>6. CASE Tick
  BY <1>6, TickInv
<1>7. CASE UNCHANGED vars
  BY <1>7 DEF IInv, TypeOK, RedisInv, MemoryInv, HeldInv, LateInv, Covers, Issued,
              vars, storeVars
<1> QED BY <1>1, <1>2, <1>3, <1>4, <1>5, <1>6, <1>7 DEF Next

(* The conjunction of the type invariant and of what the stores and the    *)
(* requests owe each other is inductive.                                   *)
THEOREM InductiveInvariant == Spec => []IInv
BY InitInv, StepInv, PTL DEF Spec

(* Every state of the tokens, the blacklists and the requests is typed.    *)
THEOREM TypeCorrect == Spec => []TypeOK
<1>1. IInv => TypeOK
  BY DEF IInv
<1> QED BY <1>1, InductiveInvariant, PTL

(* A logout answered with success is final, for any lifetimes of the       *)
(* tokens and any interleaving of logouts, requests, clean-ups and         *)
(* restarts.                                                               *)
THEOREM LogoutStays == Spec => []LogoutIsFinal
<1>1. IInv => LogoutIsFinal
  BY DEF IInv, LateInv, LogoutIsFinal
<1> QED BY <1>1, InductiveInvariant, PTL

----------------------------------------------------------------------------
(* What a refresh token that is used again is good for.                    *)
Lifetime(t) == IF token[t].kind = "access" THEN AccessTTL ELSE RefreshTTL

(* A token is exchanged for others only while it lives, so that these end  *)
(* less than their lifetime after it; and access tokens are not exchanged. *)
ExchangeInv == \A t \in Tokens : Issued(t) =>
  /\ token[t].exp <= now + Lifetime(t)
  /\ token[t].from # None =>
       /\ token[t].from \in Tokens /\ Issued(token[t].from)
       /\ token[token[t].from].kind = "refresh"
       /\ token[t].exp < token[token[t].from].exp + Lifetime(t)

(* A new pair is a lifetime long, and what it was exchanged for alive.     *)
LEMMA IssuedInExchange ==
  ASSUME TypeOK, ExchangeInv, NEW f \in Tokens \cup {None}, IssuePair(f),
         f # None => Valid(f) /\ token[f].kind = "refresh"
  PROVE  ExchangeInv'
<1> PICK a \in Tokens, b \in Tokens :
      /\ a # b /\ ~Issued(a) /\ ~Issued(b)
      /\ token' = [token EXCEPT
           ![a] = [kind |-> "access",  exp |-> now + AccessTTL,  from |-> f],
           ![b] = [kind |-> "refresh", exp |-> now + RefreshTTL, from |-> f]]
      /\ UNCHANGED <<now, backend, storeVars, req, closed>>
  BY DEF IssuePair
<1>1. /\ token'[a] = [kind |-> "access",  exp |-> now + AccessTTL,  from |-> f]
      /\ token'[b] = [kind |-> "refresh", exp |-> now + RefreshTTL, from |-> f]
      /\ \A t \in Tokens \ {a, b} : token'[t] = token[t]
  BY DEF TypeOK
<1>2. now \in Int /\ AccessTTL \in Int /\ RefreshTTL \in Int
  BY SessionAssumption DEF TypeOK, Time
<1>3. f # None =>
        /\ f \in Tokens \ {a, b} /\ Issued(f)' /\ token'[f].kind = "refresh"
        /\ token'[f].exp \in Int /\ now < token'[f].exp
  BY <1>1, IssuedIsToken DEF Valid, Issued
<1>4. ASSUME NEW t \in Tokens \ {a, b}, Issued(t)'
      PROVE  /\ token'[t].exp <= now + Lifetime(t)'
             /\ token'[t].from # None =>
                  /\ token'[t].from \in Tokens /\ token'[token'[t].from] # NoToken
                  /\ token'[token'[t].from].kind = "refresh"
                  /\ token'[t].exp < token'[token'[t].from].exp + Lifetime(t)'
  <2>1. Issued(t) /\ token'[t] = token[t] /\ Lifetime(t)' = Lifetime(t)
    BY <1>1, <1>4 DEF Issued, Lifetime
  <2>2. token[t].from # None =>
          /\ token[t].from \in Tokens \ {a, b}
          /\ Issued(token[t].from)
          /\ token'[token[t].from] = token[token[t].from]
    BY <1>1, <2>1 DEF ExchangeInv
  <2> QED BY <2>1, <2>2 DEF ExchangeInv, Issued
<1>5. /\ token'[a].exp = now + AccessTTL /\ Lifetime(a)' = AccessTTL
      /\ token'[b].exp = now + RefreshTTL /\ Lifetime(b)' = RefreshTTL
      /\ token'[a].from = f /\ token'[b].from = f
  BY <1>1 DEF Lifetime
<1>6. ASSUME NEW t \in {a, b}
      PROVE  /\ token'[t].exp <= now + Lifetime(t)'
             /\ token'[t].from # None =>
                  /\ token'[t].from \in Tokens /\ token'[token'[t].from] # NoToken
                  /\ token'[token'[t].from].kind = "refresh"
                  /\ token'[t].exp < token'[token'[t].from].exp + Lifetime(t)'
  <2>1. token'[t].exp = now + Lifetime(t)' /\ token'[t].from = f /\ Lifetime(t)' \in Int
    BY <1>2, <1>5
  <2>2. f # None =>
          /\ f \in Tokens /\ token'[f] # NoToken /\ token'[f].kind = "refresh"
          /\ now + Lifetime(t)' < token'[f].exp + Lifetime(t)'
    BY <1>2, <1>3, <2>1 DEF Issued
  <2>3. now + Lifetime(t)' <= now + Lifetime(t)'
    BY <1>2, <2>1
  <2> QED BY <2>1, <2>2, <2>3
<1>7. now' = now
  OBVIOUS
<1> QED BY <1>4, <1>6, <1>7 DEF ExchangeInv, Issued

(* All other steps leave the tokens, and time goes on.                     *)
LEMMA StepKeepsExchange ==
  ASSUME TypeOK, ExchangeInv, [Next]_vars
  PROVE  ExchangeInv'
<1>1. CASE Login
  BY <1>1, IssuedInExchange DEF Login
<1>2. CASE \E t \in Tokens : Refresh(t)
  <2>1. PICK t \in Tokens : Refresh(t)
    BY <1>2
  <2> QED BY <2>1, IssuedInExchange DEF Refresh
<1>3. CASE token' = token /\ (now' = now \/ now' = now + 1)
  <2>1. \A t \in Tokens : Lifetime(t) \in Int
    BY SessionAssumption DEF Lifetime
  <2>2. \A t \in Tokens : Issued(t) => token[t].exp \in Int
    BY IssuedIsToken
  <2>3. now \in Int
    BY DEF TypeOK, Time
  <2>4. \A t \in Tokens : Issued(t) => token[t].exp <= now' + Lifetime(t)
    BY <1>3, <2>1, <2>2, <2>3 DEF ExchangeInv
  <2>5. \A t : (Issued(t)' <=> Issued(t)) /\ Lifetime(t)' = Lifetime(t)
    BY <1>3 DEF Issued, Lifetime
  <2> QED BY <1>3, <2>4, <2>5 DEF ExchangeInv
<1>4. \/ Login \/ \E t \in Tokens : Refresh(t)
      \/ token' = token /\ (now' = now \/ now' = now + 1)
  BY DEF Next, RequestStep, Arrive, BeginLogout, Grant, Refuse, Finish, Measure,
     LogoutRevokes, LogoutFails, Revoke, Goto, Cleanup, Restart, Tick, vars
<1> QED BY <1>1, <1>2, <1>3, <1>4

(* RotationInvalidates does not hold: a refresh token is exchanged as      *)
(* often as it is shown. What does: it is exchanged while it lives only,   *)
(* and never an access token in its place, so that whatever it is          *)
(* exchanged for ends less than a lifetime after it                        *)
(* (auth_service.go, Refresh; README.md:252-260).                          *)
THEOREM ReuseIsBounded == Spec => []ExchangeInv
<1>1. Init => ExchangeInv
  BY DEF Init, ExchangeInv, Issued
<1>2. IInv /\ ExchangeInv /\ [Next]_vars => ExchangeInv'
  BY StepKeepsExchange DEF IInv
<1> QED BY <1>1, <1>2, InductiveInvariant, PTL DEF Spec
=============================================================================
