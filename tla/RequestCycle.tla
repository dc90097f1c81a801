---------------------------- MODULE RequestCycle ----------------------------
(* A request between net/http and its response: the goroutine of the server *)
(* (ErrorHandler, Timeout) and the one Timeout starts for the rest of the   *)
(* chain, on a gin context that both use and that gin hands on to a later   *)
(* request. The chain past Timeout has two stages: the middlewares of the   *)
(* group (Auth, Admin, a limiter) and the handler. Sources:                 *)
(* internal/middleware, internal/handler, internal/router/router.go.        *)
EXTENDS Naturals, Sequences, SequencesExt

CONSTANTS
    Requests, Contexts,   \* the gin contexts in the engine's pool
    None                  \* no request, no context

ASSUME NoneAssumption == None \notin Requests \cup Contexts

VARIABLES
    pc,        \* pc[r]: where the server's goroutine of r is
    stage,     \* stage[r]: what the goroutine that Timeout started runs
    work,      \* work[r]: the request that goroutine's stage was given
    ctx,       \* ctx[r]: the gin context of r
    holder,    \* holder[c]: the request c was handed to, None in the pool
    index,     \* index[c]: the stage the chain of c has reached
    errors,    \* errors[c]: c.Errors, as the requests they are about
    late,      \* the requests whose deadline passed or whose client left
    response,  \* response[r]: the bodies written for r, in order
    outcome,   \* history: what the stages of r decided about r
    inherited  \* history: requests given a context that a handler still used

vars == <<pc, stage, work, ctx, holder, index, errors, late, response,
          outcome, inherited>>

Group == 1
Handler == 2
PastTheEnd == 3   \* the end of the chain, and gin's abortIndex

Body == [of : Requests, kind : {"data", "refusal", "error", "timeout"}]

Init ==
    /\ pc = [r \in Requests |-> "idle"]
    /\ stage = [r \in Requests |-> "none"]
    /\ work = [r \in Requests |-> None]
    /\ ctx = [r \in Requests |-> None]
    /\ holder = [c \in Contexts |-> None]
    /\ index = [c \in Contexts |-> PastTheEnd]
    /\ errors = [c \in Contexts |-> <<>>]
    /\ late = {}
    /\ response = [r \in Requests |-> <<>>]
    /\ outcome = [r \in Requests |-> "none"]
    /\ inherited = {}

-----------------------------------------------------------------------------
(* The context. *)

\* The response behind c gains b. A context in the pool still has the writer
\* of its last request, whose response net/http has finished.
Write(c, b) ==
    response' = IF holder[c] = None THEN response
                ELSE [response EXCEPT ![holder[c]] = Append(@, b)]

Running(r) == stage[r] \in {"group", "handler"}

\* Bug: the index is not held at its end.
NextStageUnbounded(c) == index[c] + 1

\* The stage that c.Next goes on to.
NextStage(c) == IF index[c] < PastTheEnd THEN index[c] + 1 ELSE PastTheEnd

\* c.Next in the goroutine of r, and the loop behind it once a stage returns.
Advance(r) ==
    LET next == NextStage(ctx[r])
    IN  /\ index' = [index EXCEPT ![ctx[r]] = next]
        /\ stage' = [stage EXCEPT ![r] = IF next = Handler THEN "handler" ELSE "done"]
        /\ work' = [work EXCEPT ![r] = IF next < PastTheEnd THEN holder[ctx[r]] ELSE @]

\* c.Abort and the return through the chain.
AbortChain(r) ==
    /\ index' = [index EXCEPT ![ctx[r]] = PastTheEnd]
    /\ stage' = [stage EXCEPT ![r] = "done"]
    /\ UNCHANGED work

Decide(r, o) ==
    outcome' = IF work[r] = None THEN outcome ELSE [outcome EXCEPT ![work[r]] = o]

-----------------------------------------------------------------------------
(* The goroutine of the server. *)

\* ServeHTTP takes a context from the pool and resets it.
Take(r, c) ==
    /\ pc[r] = "idle"
    /\ holder[c] = None
    /\ ctx' = [ctx EXCEPT ![r] = c]
    /\ holder' = [holder EXCEPT ![c] = r]
    /\ errors' = [errors EXCEPT ![c] = <<>>]
    /\ inherited' = IF \E q \in Requests : ctx[q] = c /\ Running(q)
                    THEN inherited \cup {r} ELSE inherited

\* Trace, Logger, Recovery, ErrorHandler and the limiter pass the request on
\* to Timeout, which starts a goroutine for the rest of the chain.
Arrive(r, c) ==
    /\ Take(r, c)
    /\ index' = [index EXCEPT ![c] = Group]
    /\ stage' = [stage EXCEPT ![r] = "group"]
    /\ work' = [work EXCEPT ![r] = r]
    /\ pc' = [pc EXCEPT ![r] = "select"]
    /\ UNCHANGED <<late, response, outcome>>

\* The global limiter answers 429 and aborts; Timeout is not reached.
Limited(r, c) ==
    /\ Take(r, c)
    /\ index' = [index EXCEPT ![c] = PastTheEnd]
    /\ response' = [response EXCEPT ![r] = Append(@, [of |-> r, kind |-> "refusal"])]
    /\ outcome' = [outcome EXCEPT ![r] = "refusal"]
    /\ pc' = [pc EXCEPT ![r] = "errors"]
    /\ UNCHANGED <<stage, work, late>>

\* The deadline of Timeout passes, or the client goes away.
ContextOver(r) ==
    /\ pc[r] = "select"
    /\ r \notin late
    /\ late' = late \cup {r}
    /\ UNCHANGED <<pc, stage, work, ctx, holder, index, errors, response, outcome, inherited>>

\* case <-done.
HandlerDone(r) ==
    /\ pc[r] = "select"
    /\ stage[r] = "done"
    /\ pc' = [pc EXCEPT ![r] = "errors"]
    /\ UNCHANGED <<stage, work, ctx, holder, index, errors, late, response, outcome, inherited>>

\* Bug: 503 is written without an abort, and the chain goes on.
TimedOutWithoutAbort(r) ==
    /\ pc[r] = "select"
    /\ r \in late
    /\ Write(ctx[r], [of |-> r, kind |-> "timeout"])
    /\ pc' = [pc EXCEPT ![r] = "errors"]
    /\ UNCHANGED <<stage, work, ctx, holder, index, errors, late, outcome, inherited>>

\* Bug: the middleware still waits for the handler before it answers 503.
TimedOutWaiting(r) ==
    /\ pc[r] = "select"
    /\ r \in late
    /\ stage[r] = "done"
    /\ index' = [index EXCEPT ![ctx[r]] = PastTheEnd]
    /\ Write(ctx[r], [of |-> r, kind |-> "timeout"])
    /\ pc' = [pc EXCEPT ![r] = "errors"]
    /\ UNCHANGED <<stage, work, ctx, holder, errors, late, outcome, inherited>>

\* case <-ctx.Done: select may take it when the handler is done as well.
TimedOut(r) ==
    /\ pc[r] = "select"
    /\ r \in late
    /\ index' = [index EXCEPT ![ctx[r]] = PastTheEnd]
    /\ Write(ctx[r], [of |-> r, kind |-> "timeout"])
    /\ pc' = [pc EXCEPT ![r] = "errors"]
    /\ UNCHANGED <<stage, work, ctx, holder, errors, late, outcome, inherited>>

\* Bug: errors are not turned into an answer.
ErrorHandlerIdle(r) ==
    /\ pc[r] = "errors"
    /\ pc' = [pc EXCEPT ![r] = "leaving"]
    /\ UNCHANGED <<stage, work, ctx, holder, index, errors, late, response, outcome, inherited>>

\* ErrorHandler after c.Next: the last of c.Errors becomes the answer.
ErrorHandler(r) ==
    /\ pc[r] = "errors"
    /\ IF errors[ctx[r]] = <<>> THEN UNCHANGED response
       ELSE Write(ctx[r], [of |-> Last(errors[ctx[r]]), kind |-> "error"])
    /\ pc' = [pc EXCEPT ![r] = "leaving"]
    /\ UNCHANGED <<stage, work, ctx, holder, index, errors, late, outcome, inherited>>

\* ServeHTTP puts the context back and net/http finishes the response.
Leave(r) ==
    /\ pc[r] = "leaving"
    /\ holder' = [holder EXCEPT ![ctx[r]] = None]
    /\ pc' = [pc EXCEPT ![r] = "served"]
    /\ UNCHANGED <<stage, work, ctx, index, errors, late, response, outcome, inherited>>

ServerStep(r) == HandlerDone(r) \/ TimedOut(r) \/ ErrorHandler(r) \/ Leave(r)

-----------------------------------------------------------------------------
(* The goroutine of Timeout. *)

\* A middleware of the group lets the request pass: c.Next.
Pass(r) ==
    /\ stage[r] = "group"
    /\ Advance(r)
    /\ UNCHANGED <<pc, ctx, holder, errors, late, response, outcome, inherited>>

\* Bug: a refusal that does not abort the chain.
RefuseWithoutAbort(r) ==
    /\ stage[r] = "group"
    /\ Write(ctx[r], [of |-> work[r], kind |-> "refusal"])
    /\ Decide(r, "refusal")
    /\ Advance(r)
    /\ UNCHANGED <<pc, ctx, holder, errors, late, inherited>>

\* A middleware of the group answers 401, 403 or 429 itself and aborts.
Refuse(r) ==
    /\ stage[r] = "group"
    /\ Write(ctx[r], [of |-> work[r], kind |-> "refusal"])
    /\ Decide(r, "refusal")
    /\ AbortChain(r)
    /\ UNCHANGED <<pc, ctx, holder, errors, late, inherited>>

\* Auth leaves the answer for a revoked token to ErrorHandler and aborts.
RefuseByError(r) ==
    /\ stage[r] = "group"
    /\ errors' = [errors EXCEPT ![ctx[r]] = Append(@, work[r])]
    /\ Decide(r, "error")
    /\ AbortChain(r)
    /\ UNCHANGED <<pc, ctx, holder, late, response, inherited>>

\* The handler answers: respondData, Redirect or a page of CSV.
Answer(r) ==
    /\ stage[r] = "handler"
    /\ Write(ctx[r], [of |-> work[r], kind |-> "data"])
    /\ Decide(r, "data")
    /\ Advance(r)
    /\ UNCHANGED <<pc, ctx, holder, errors, late, inherited>>

\* The handler fails: c.Error, and ErrorHandler has the answer.
Fail(r) ==
    /\ stage[r] = "handler"
    /\ errors' = [errors EXCEPT ![ctx[r]] = Append(@, work[r])]
    /\ Decide(r, "error")
    /\ Advance(r)
    /\ UNCHANGED <<pc, ctx, holder, late, response, inherited>>

\* Two admin handlers return without a word when their service fails:
\* DeleteLink, and ExportLinksCSV before its first byte.
FailSilently(r) ==
    /\ stage[r] = "handler"
    /\ Decide(r, "silence")
    /\ Advance(r)
    /\ UNCHANGED <<pc, ctx, holder, errors, late, response, inherited>>

HandlerStep(r) ==
    Pass(r) \/ Refuse(r) \/ RefuseByError(r) \/ Answer(r) \/ Fail(r) \/ FailSilently(r)

-----------------------------------------------------------------------------
\* Every request has been served and no goroutine of theirs is left.
Finished ==
    /\ \A r \in Requests : pc[r] = "served" /\ ~Running(r)
    /\ UNCHANGED vars

Next ==
    \/ \E r \in Requests, c \in Contexts : Arrive(r, c) \/ Limited(r, c)
    \/ \E r \in Requests : ContextOver(r) \/ ServerStep(r) \/ HandlerStep(r)
    \/ Finished

Spec == Init /\ [][Next]_vars

\* The scheduler runs the server's goroutine of r, and its deadline comes.
Fairness(r) == WF_vars(ServerStep(r)) /\ WF_vars(ContextOver(r))

\* Nothing is assumed of the handlers, which may hang.
FairSpec == Spec /\ \A r \in Requests : Fairness(r)

-----------------------------------------------------------------------------
(* Properties. *)

\* Types; a context belongs to one request from Take to Leave, and the chain
\* of one in the pool is at its end.
TypeOK ==
    /\ pc \in [Requests -> {"idle", "select", "errors", "leaving", "served"}]
    /\ stage \in [Requests -> {"none", "group", "handler", "done"}]
    /\ work \in [Requests -> Requests \cup {None}]
    /\ ctx \in [Requests -> Contexts \cup {None}]
    /\ holder \in [Contexts -> Requests \cup {None}]
    /\ index \in [Contexts -> Group..PastTheEnd]
    /\ errors \in [Contexts -> Seq(Requests)]
    /\ late \subseteq Requests
    /\ inherited \subseteq Requests
    /\ response \in [Requests -> Seq(Body)]
    /\ outcome \in [Requests -> {"none", "data", "refusal", "error", "silence"}]
    /\ \A r \in Requests :
          /\ pc[r] # "idle" => ctx[r] \in Contexts
          /\ Running(r) => ctx[r] \in Contexts /\ work[r] \in Requests
          /\ pc[r] \in {"select", "errors", "leaving"} => holder[ctx[r]] = r
    /\ \A c \in Contexts : holder[c] = None => index[c] = PastTheEnd

\* What the stages of r have decided is to be written, and by whom: one body
\* at once, one that ErrorHandler is still to write, or none.
Owed(r) ==
    IF \/ outcome[r] \in {"none", "silence"}
       \/ outcome[r] = "error" /\ pc[r] \in {"idle", "select", "errors"}
    THEN <<>>
    ELSE <<[of |-> r, kind |-> outcome[r]]>>

\* A request that was given a context of its own is answered by its own
\* stages and only once: middlewares that refuse stop the chain, an error is
\* written by ErrorHandler, and a 503 is the answer of a late request
\* (middleware/error.go, middleware/timeout.go). A late request may get its
\* 503 beside that.
SoleAnswer ==
    \A r \in Requests \ inherited :
        /\ r \notin late => response[r] = Owed(r)
        /\ \A i \in 1..Len(response[r]) :
              /\ response[r][i].of = r
              /\ \/ response[r][i].kind = "timeout" /\ r \in late
                 \/ response[r][i].kind = outcome[r]
              /\ \A j \in 1..(i - 1) : response[r][j].kind # response[r][i].kind

\* Once a request is answered, 503 or not, no handler starts to work for it:
\* an orphan that is still in a middleware stops there, unless its context
\* serves another request by then (timeout.go:39, Abort).
StartsWhileOpen ==
    [][\A q \in Requests :
          stage'[q] = "handler" /\ stage[q] # "handler"
              => pc[work'[q]] = "select"]_vars

CanServe(r) == ENABLED <<ServerStep(r)>>_vars
CanTimeOut(r) == ENABLED <<ContextOver(r)>>_vars

\* The server's goroutine waits for nothing but its select, and there for no
\* more than the deadline: not for the handler, for another request or for a
\* context (timeout.go:34-42).
ServerNeverWaits ==
    \A r \in Requests :
        /\ pc[r] = "select" => IF r \in late THEN CanServe(r) ELSE CanTimeOut(r)
        /\ pc[r] \in {"errors", "leaving"} => CanServe(r)

IsAnswered(r) == pc[r] = "select" ~> pc[r] = "served"

\* A request that reached Timeout is answered, also when its handler hangs
\* and whatever orphans do with the context (timeout.go:35).
EveryoneIsAnswered == \A r \in Requests : IsAnswered(r)

\* The claim of README.md:113, one structure per response, does not hold: once
\* the deadline has passed Timeout writes its 503, and a middleware or handler
\* still at work writes its own body behind it, or has done so just before.
AtMostOneBody == \A r \in Requests : Len(response[r]) <= 1

=============================================================================
