----------------------------- MODULE LinkLookup -----------------------------
(***************************************************************************)
(* What a visitor of GET /:code is promised, with no cache in sight.  A    *)
(* lookup begins, and at some later moment one atomic step answers it:     *)
(*                                                                         *)
(*  - found:    a link that was inserted under the code asked for, that    *)
(*              had not expired when the lookup began, and that was not    *)
(*              deleted Staleness or longer before that;                   *)
(*  - gone:     such a link, which has expired by now;                     *)
(*  - notfound: at some moment since the lookup began no link was stored   *)
(*              under the code;                                            *)
(*  - error:    the database could not be read.                            *)
(*                                                                         *)
(* LinkCache is shown to implement it with Staleness = TTL + ReqTimeout.   *)
(***************************************************************************)
EXTENDS LinkStore

CONSTANTS Requests, Staleness

VARIABLES pending, code, start, got, answer

lookupVars == <<pending, code, start, got, answer>>
vars == <<storeVars, lookupVars>>

Answers == {"none", "found", "gone", "notfound", "error"}

TypeOK ==
  /\ StoreTypeOK
  /\ pending \in SUBSET Requests
  /\ code \in [Requests -> Codes]
  /\ start \in [Requests -> Time]
  /\ got \in [Requests -> Ids \cup {None}]
  /\ answer \in [Requests -> Answers]

(* Link i may have been seen by a lookup that began at time t.             *)
RecentEnough(i, t) == deletedAt[i] = Never \/ t < deletedAt[i] + Staleness

(* The code was free at some moment not before t.                          *)
FreeSince(c, t) == \A i \in RowsOf(c) : link[i].created >= t

Init ==
  /\ StoreInit
  /\ pending = {}
  /\ code \in [Requests -> Codes]
  /\ start = [r \in Requests |-> 0]
  /\ got = [r \in Requests |-> None]
  /\ answer = [r \in Requests |-> "none"]

Begin(r, c) ==
  /\ r \notin pending
  /\ pending' = pending \cup {r}
  /\ code' = [code EXCEPT ![r] = c]
  /\ start' = [start EXCEPT ![r] = now]
  /\ got' = [got EXCEPT ![r] = None]
  /\ answer' = [answer EXCEPT ![r] = "none"]
  /\ UNCHANGED storeVars

Reply(r, a, i) ==
  /\ r \in pending
  /\ pending' = pending \ {r}
  /\ got' = [got EXCEPT ![r] = i]
  /\ answer' = [answer EXCEPT ![r] = a]
  /\ UNCHANGED <<storeVars, code, start>>

AnswerFound(r) == \E i \in Ids :
  /\ link[i] # None /\ link[i].code = code[r]
  /\ RecentEnough(i, start[r])
  /\ ~ExpiredAt(i, start[r])
  /\ Reply(r, "found", i)

AnswerGone(r) == \E i \in Ids :
  /\ link[i] # None /\ link[i].code = code[r]
  /\ RecentEnough(i, start[r])
  /\ ExpiredAt(i, now)
  /\ Reply(r, "gone", i)

AnswerNotFound(r) == FreeSince(code[r], start[r]) /\ Reply(r, "notfound", None)

AnswerError(r) == Reply(r, "error", None)

StoreStep == StoreNext /\ UNCHANGED lookupVars

Next ==
  \/ \E r \in Requests :
       \/ \E c \in Codes : Begin(r, c)
       \/ AnswerFound(r) \/ AnswerGone(r) \/ AnswerNotFound(r) \/ AnswerError(r)
  \/ StoreStep

Spec == Init /\ [][Next]_vars
============================================================================
