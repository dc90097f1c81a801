------------------------ MODULE RequestCycle_proofs -------------------------
(* Proofs about RequestCycle, for any number of requests and contexts: types, *)
(* that no handler starts for an answered request, that a request with a      *)
(* context of its own is answered once and by its own stages, or twice when   *)
(* it is late, and that every request is answered in the end.                 *)
EXTENDS RequestCycle, TLAPS

Active == {"select", "errors", "leaving"}

(* A context is held by the request that works on it.                         *)
HolderInv == \A c \in Contexts :
    holder[c] # None => pc[holder[c]] \in Active /\ ctx[holder[c]] = c

(* Once a request is past its select, or its stages are, so is its chain.     *)
EndInv == \A r \in Requests :
    pc[r] \in {"errors", "leaving"} \/ (pc[r] = "select" /\ stage[r] = "done")
        => index[ctx[r]] = PastTheEnd

(* Nothing runs for a request that has not come.                              *)
IdleInv == \A r \in Requests : pc[r] = "idle" => stage[r] = "none"

Shape == TypeOK /\ HolderInv /\ EndInv /\ IdleInv

----------------------------------------------------------------------------
LEMMA InitShape == Init => Shape
BY NoneAssumption
DEF Init, Shape, TypeOK, HolderInv, EndInv, IdleInv, Active, Running, Body,
    Group, Handler, PastTheEnd

(* Two requests that are being served have contexts of their own.             *)
LEMMA OwnContext ==
  ASSUME TypeOK, NEW q \in Requests, NEW r \in Requests, q # r,
         pc[q] \in Active, pc[r] \in Active
  PROVE  ctx[q] # ctx[r]
BY DEF TypeOK, Active

(* What a Write changes, on a context or in the pool.                         *)
LEMMA WriteEffect ==
  ASSUME TypeOK, NEW c \in Contexts, NEW b \in Body, Write(c, b)
  PROVE  /\ response' \in [Requests -> Seq(Body)]
         /\ \A r \in Requests :
              response'[r] = IF holder[c] = r THEN Append(response[r], b) ELSE response[r]
<1>1. CASE holder[c] = None
  BY <1>1, NoneAssumption DEF Write, TypeOK
<1>2. CASE holder[c] # None
  <2>1. holder[c] \in Requests
    BY <1>2 DEF TypeOK
  <2>2. response' = [response EXCEPT ![holder[c]] = Append(response[holder[c]], b)]
    BY <1>2 DEF Write
  <2>3. Append(response[holder[c]], b) \in Seq(Body)
    BY <2>1 DEF TypeOK
  <2> QED BY <2>1, <2>2, <2>3 DEF TypeOK
<1> QED BY <1>1, <1>2

(* The chain only goes forward, and past Handler it ends.                     *)
LEMMA AdvanceEffect ==
  ASSUME Shape, NEW r \in Requests, Running(r), Advance(r)
  PROVE  LET c == ctx[r] IN
         /\ c \in Contexts
         /\ index' \in [Contexts -> Group..PastTheEnd]
         /\ \A d \in Contexts : d # c => index'[d] = index[d]
         /\ index[c] # Group => index'[c] = PastTheEnd
         /\ index[c] = Group => index'[c] = Handler
         /\ stage' = [stage EXCEPT ![r] = IF index[c] = Group THEN "handler" ELSE "done"]
         /\ work' = [work EXCEPT ![r] = IF index[c] = Group THEN holder[c] ELSE @]
         /\ index[c] = Group => holder[c] \in Requests
<1>1. ctx[r] \in Contexts
  BY DEF Shape, TypeOK
<1>2. index[ctx[r]] \in {1, 2, 3}
  BY <1>1 DEF Shape, TypeOK, Group, PastTheEnd
<1>3. index[ctx[r]] = Group => holder[ctx[r]] \in Requests
  BY <1>1 DEF Shape, TypeOK, Group, PastTheEnd
<1>4. CASE index[ctx[r]] = Group
  <2>1. NextStage(ctx[r]) = Handler
    BY <1>4 DEF NextStage, Group, Handler, PastTheEnd
  <2>2. Handler < PastTheEnd
    BY DEF Handler, PastTheEnd
  <2>3. /\ index' = [index EXCEPT ![ctx[r]] = Handler]
        /\ stage' = [stage EXCEPT ![r] = "handler"]
        /\ work' = [work EXCEPT ![r] = holder[ctx[r]]]
    BY <2>1, <2>2 DEF Advance
  <2> QED BY <1>1, <1>3, <1>4, <2>3 DEF Shape, TypeOK, Group, Handler, PastTheEnd
<1>5. CASE index[ctx[r]] # Group
  <2>1. NextStage(ctx[r]) = PastTheEnd
    BY <1>2, <1>5 DEF NextStage, Group, PastTheEnd
  <2>2. PastTheEnd # Handler /\ ~(PastTheEnd < PastTheEnd)
    BY DEF Handler, PastTheEnd
  <2>3. /\ index' = [index EXCEPT ![ctx[r]] = PastTheEnd]
        /\ stage' = [stage EXCEPT ![r] = "done"]
        /\ work' = [work EXCEPT ![r] = work[r]]
    BY <2>1, <2>2, Zenon DEF Advance
  <2> QED BY <1>1, <1>5, <2>3 DEF Shape, TypeOK, Group, Handler, PastTheEnd
<1> QED BY <1>4, <1>5

(* A stage that ends, by the chain or by an abort, keeps the shape.           *)
LEMMA StageEffect ==
  ASSUME Shape, NEW r \in Requests, Running(r), Advance(r) \/ AbortChain(r),
         UNCHANGED <<pc, ctx, holder>>
  PROVE  /\ stage' \in [Requests -> {"none", "group", "handler", "done"}]
         /\ work' \in [Requests -> Requests \cup {None}]
         /\ index' \in [Contexts -> Group..PastTheEnd]
         /\ \A q \in Requests : Running(q)' => ctx[q] \in Contexts /\ work'[q] \in Requests
         /\ \A c \in Contexts : index[c] = PastTheEnd => index'[c] = PastTheEnd
         /\ \A q \in Requests \ {r} : stage'[q] = stage[q]
         /\ stage'[r] = "done" => index'[ctx[r]] = PastTheEnd
<1>1. ctx[r] \in Contexts /\ work[r] \in Requests
  BY DEF Shape, TypeOK
<1>2. Group # PastTheEnd /\ PastTheEnd \in Group..PastTheEnd
  BY DEF Group, PastTheEnd
<1>3. CASE Advance(r)
  <2>1. /\ index' \in [Contexts -> Group..PastTheEnd]
        /\ \A d \in Contexts : d # ctx[r] => index'[d] = index[d]
        /\ index[ctx[r]] # Group => index'[ctx[r]] = PastTheEnd
        /\ stage' = [stage EXCEPT ![r] = IF index[ctx[r]] = Group THEN "handler" ELSE "done"]
        /\ work' = [work EXCEPT ![r] = IF index[ctx[r]] = Group THEN holder[ctx[r]] ELSE @]
        /\ index[ctx[r]] = Group => holder[ctx[r]] \in Requests
    BY <1>3, AdvanceEffect
  <2>2. CASE index[ctx[r]] = Group
    <3>1. /\ stage' = [stage EXCEPT ![r] = "handler"]
          /\ work' = [work EXCEPT ![r] = holder[ctx[r]]]
          /\ holder[ctx[r]] \in Requests
      BY <2>1, <2>2
    <3>2. \A c \in Contexts : index[c] = PastTheEnd => index'[c] = PastTheEnd
      BY <2>1, <2>2, <1>2
    <3> QED BY <1>1, <2>1, <3>1, <3>2 DEF Shape, TypeOK, Running
  <2>3. CASE index[ctx[r]] # Group
    <3>1. /\ stage' = [stage EXCEPT ![r] = "done"]
          /\ work' = [work EXCEPT ![r] = work[r]]
      BY <2>1, <2>3
    <3>2. \A c \in Contexts : index[c] = PastTheEnd => index'[c] = PastTheEnd
      BY <2>1, <2>3, <1>2
    <3> QED BY <1>1, <2>1, <2>3, <3>1, <3>2 DEF Shape, TypeOK, Running
  <2> QED BY <2>2, <2>3
<1>4. CASE AbortChain(r)
  BY <1>1, <1>2, <1>4 DEF AbortChain, Shape, TypeOK, Running
<1> QED BY <1>3, <1>4

(* The handler's goroutine keeps the shape.                                   *)
LEMMA HandlerShape ==
  ASSUME Shape, NEW r \in Requests, HandlerStep(r)
  PROVE  Shape'
<1>1. Running(r)
  BY DEF HandlerStep, Pass, Refuse, RefuseByError, Answer, Fail, FailSilently, Running
<1>2. /\ ctx[r] \in Contexts
      /\ work[r] \in Requests
  BY <1>1 DEF Shape, TypeOK
<1>3. /\ Advance(r) \/ AbortChain(r)
      /\ UNCHANGED <<pc, ctx, holder, late, inherited>>
  BY DEF HandlerStep, Pass, Refuse, RefuseByError, Answer, Fail, FailSilently
<1>4. response' \in [Requests -> Seq(Body)]
  <2>1. CASE Refuse(r)
    <3>1. [of |-> work[r], kind |-> "refusal"] \in Body
      BY <1>2 DEF Body
    <3> QED BY <1>2, <2>1, <3>1, WriteEffect DEF Refuse, Shape
  <2>2. CASE Answer(r)
    <3>1. [of |-> work[r], kind |-> "data"] \in Body
      BY <1>2 DEF Body
    <3> QED BY <1>2, <2>2, <3>1, WriteEffect DEF Answer, Shape
  <2>3. CASE UNCHANGED response
    BY <2>3 DEF Shape, TypeOK
  <2> QED BY <2>1, <2>2, <2>3 DEF HandlerStep, Pass, RefuseByError, Fail, FailSilently
<1>5. errors' \in [Contexts -> Seq(Requests)]
  <2>1. CASE UNCHANGED errors
    BY <2>1 DEF Shape, TypeOK
  <2>2. CASE errors' = [errors EXCEPT ![ctx[r]] = Append(@, work[r])]
    <3>1. Append(errors[ctx[r]], work[r]) \in Seq(Requests)
      BY <1>2 DEF Shape, TypeOK
    <3> QED BY <2>2, <3>1 DEF Shape, TypeOK
  <2> QED BY <2>1, <2>2 DEF HandlerStep, Pass, Refuse, Answer, RefuseByError, Fail, FailSilently
<1>6. outcome' \in [Requests -> {"none", "data", "refusal", "error", "silence"}]
  <2>1. CASE UNCHANGED outcome
    BY <2>1 DEF Shape, TypeOK
  <2>2. CASE \E o \in {"data", "refusal", "error", "silence"} : Decide(r, o)
    BY <1>2, <2>2, NoneAssumption DEF Decide, Shape, TypeOK
  <2> QED BY <2>1, <2>2 DEF HandlerStep, Pass, Refuse, Answer, RefuseByError, Fail, FailSilently
<1>7. TypeOK'
  BY <1>1, <1>3, <1>4, <1>5, <1>6, StageEffect DEF Shape, TypeOK
<1>8. HolderInv'
  BY <1>3 DEF Shape, HolderInv
<1>9. EndInv'
  BY <1>1, <1>3, StageEffect DEF Shape, EndInv, TypeOK
<1>10. IdleInv'
  BY <1>1, <1>3, StageEffect DEF Shape, IdleInv, Running
<1> QED BY <1>7, <1>8, <1>9, <1>10 DEF Shape

(* A request that comes takes a context of the pool, and keeps the shape.     *)
LEMMA ComeShape ==
  ASSUME Shape, NEW r \in Requests, NEW c \in Contexts, Arrive(r, c) \/ Limited(r, c)
  PROVE  Shape'
<1> USE NoneAssumption
<1>1. /\ pc[r] = "idle" /\ stage[r] = "none" /\ holder[c] = None
      /\ ctx' = [ctx EXCEPT ![r] = c]
      /\ holder' = [holder EXCEPT ![c] = r]
      /\ errors' = [errors EXCEPT ![c] = <<>>]
      /\ inherited' \in {inherited, inherited \cup {r}}
      /\ late' = late
  BY DEF Arrive, Limited, Take, Shape, IdleInv
<1>2. \A q \in Requests : pc[q] \in Active => ctx[q] # c
  BY <1>1 DEF Shape, TypeOK, Active
<1>3. CASE Arrive(r, c)
  <2>1. /\ index' = [index EXCEPT ![c] = Group]
        /\ stage' = [stage EXCEPT ![r] = "group"]
        /\ work' = [work EXCEPT ![r] = r]
        /\ pc' = [pc EXCEPT ![r] = "select"]
        /\ UNCHANGED <<response, outcome>>
    BY <1>3 DEF Arrive
  <2>2. TypeOK'
    BY <1>1, <1>2, <2>1 DEF Shape, TypeOK, Running, Active, Group, PastTheEnd
  <2>3. HolderInv'
    BY <1>1, <1>2, <2>1 DEF Shape, TypeOK, HolderInv, Active
  <2>4. EndInv'
    BY <1>1, <1>2, <2>1 DEF Shape, TypeOK, EndInv, Active
  <2>5. IdleInv'
    BY <2>1 DEF Shape, TypeOK, IdleInv
  <2> QED BY <2>2, <2>3, <2>4, <2>5 DEF Shape
<1>4. CASE Limited(r, c)
  <2>1. /\ index' = [index EXCEPT ![c] = PastTheEnd]
        /\ pc' = [pc EXCEPT ![r] = "errors"]
        /\ UNCHANGED <<stage, work>>
    BY <1>4 DEF Limited
  <2>2. outcome' \in [Requests -> {"none", "data", "refusal", "error", "silence"}]
    BY <1>4 DEF Limited, Shape, TypeOK
  <2>3. response' \in [Requests -> Seq(Body)]
    <3>1. [of |-> r, kind |-> "refusal"] \in Body
      BY DEF Body
    <3>2. Append(response[r], [of |-> r, kind |-> "refusal"]) \in Seq(Body)
      BY <3>1 DEF Shape, TypeOK
    <3> QED BY <1>4, <3>2 DEF Limited, Shape, TypeOK
  <2>4. TypeOK'
    <3>1. \A q \in Requests :
            /\ pc'[q] # "idle" => ctx'[q] \in Contexts
            /\ stage'[q] \in {"group", "handler"} => ctx'[q] \in Contexts /\ work'[q] \in Requests
      BY <1>1, <2>1 DEF Shape, TypeOK, Running
    <3>2. \A q \in Requests :
            pc'[q] \in {"select", "errors", "leaving"} => holder'[ctx'[q]] = q
      BY <1>1, <1>2, <2>1 DEF Shape, TypeOK, Active
    <3>3. index' \in [Contexts -> Group..PastTheEnd]
      BY <2>1 DEF Shape, TypeOK, Group, PastTheEnd
    <3>4. \A d \in Contexts : holder'[d] = None => index'[d] = PastTheEnd
      BY <1>1, <2>1 DEF Shape, TypeOK
    <3>5. errors' \in [Contexts -> Seq(Requests)]
      BY <1>1 DEF Shape, TypeOK
    <3>6. /\ pc' \in [Requests -> {"idle", "select", "errors", "leaving", "served"}]
          /\ stage' \in [Requests -> {"none", "group", "handler", "done"}]
          /\ work' \in [Requests -> Requests \cup {None}]
          /\ ctx' \in [Requests -> Contexts \cup {None}]
          /\ holder' \in [Contexts -> Requests \cup {None}]
          /\ late' \subseteq Requests
          /\ inherited' \subseteq Requests
      BY <1>1, <2>1 DEF Shape, TypeOK
    <3> QED BY <2>2, <2>3, <3>1, <3>2, <3>3, <3>4, <3>5, <3>6, Zenon DEF TypeOK, Running
  <2>5. HolderInv'
    BY <1>1, <1>2, <2>1 DEF Shape, TypeOK, HolderInv, Active
  <2>6. EndInv'
    BY <1>1, <1>2, <2>1 DEF Shape, TypeOK, EndInv, Active
  <2>7. IdleInv'
    BY <2>1 DEF Shape, TypeOK, IdleInv
  <2> QED BY <2>4, <2>5, <2>6, <2>7 DEF Shape
<1> QED BY <1>3, <1>4

(* The server's goroutine keeps the shape.                                    *)
LEMMA ServerShape ==
  ASSUME Shape, NEW r \in Requests, ServerStep(r)
  PROVE  Shape'
<1> USE NoneAssumption
<1>1. ctx[r] \in Contexts /\ pc[r] \in Active /\ holder[ctx[r]] = r
  BY DEF ServerStep, HandlerDone, TimedOut, ErrorHandler, Leave, Shape, TypeOK, Active
<1>2. UNCHANGED <<stage, work, ctx, errors, late, outcome, inherited>>
  BY DEF ServerStep, HandlerDone, TimedOut, ErrorHandler, Leave
<1>3. response' \in [Requests -> Seq(Body)]
  <2>1. CASE UNCHANGED response
    BY <2>1 DEF Shape, TypeOK
  <2>2. CASE TimedOut(r)
    <3>1. [of |-> r, kind |-> "timeout"] \in Body
      BY DEF Body
    <3> QED BY <1>1, <2>2, <3>1, WriteEffect DEF TimedOut, Shape
  <2>3. CASE ErrorHandler(r) /\ errors[ctx[r]] # <<>>
    <3>1. Last(errors[ctx[r]]) \in Requests
      BY <1>1, <2>3 DEF Shape, TypeOK, Last
    <3>2. [of |-> Last(errors[ctx[r]]), kind |-> "error"] \in Body
      BY <3>1 DEF Body
    <3> QED BY <1>1, <2>3, <3>2, WriteEffect DEF ErrorHandler, Shape
  <2> QED BY <2>1, <2>2, <2>3 DEF ServerStep, HandlerDone, ErrorHandler, Leave
<1>4. CASE HandlerDone(r)
  <2>1. /\ pc[r] = "select" /\ stage[r] = "done"
        /\ pc' = [pc EXCEPT ![r] = "errors"]
        /\ UNCHANGED <<holder, index>>
    BY <1>4 DEF HandlerDone
  <2>2. TypeOK'
    BY <1>1, <1>2, <1>3, <2>1 DEF Shape, TypeOK, Running
  <2> QED BY <1>1, <1>2, <2>1, <2>2
          DEF Shape, TypeOK, HolderInv, EndInv, IdleInv, Active
<1>5. CASE TimedOut(r)
  <2>1. /\ pc[r] = "select"
        /\ index' = [index EXCEPT ![ctx[r]] = PastTheEnd]
        /\ pc' = [pc EXCEPT ![r] = "errors"]
        /\ UNCHANGED holder
    BY <1>5 DEF TimedOut
  <2>2. TypeOK'
    BY <1>1, <1>2, <1>3, <2>1 DEF Shape, TypeOK, Running, Group, PastTheEnd
  <2>3. EndInv'
    BY <1>1, <1>2, <2>1 DEF Shape, TypeOK, EndInv
  <2> QED BY <1>1, <1>2, <2>1, <2>2, <2>3
          DEF Shape, TypeOK, HolderInv, IdleInv, Active
<1>6. CASE ErrorHandler(r)
  <2>1. /\ pc[r] = "errors"
        /\ pc' = [pc EXCEPT ![r] = "leaving"]
        /\ UNCHANGED <<holder, index>>
    BY <1>6 DEF ErrorHandler
  <2>2. TypeOK'
    BY <1>1, <1>2, <1>3, <2>1 DEF Shape, TypeOK, Running
  <2> QED BY <1>1, <1>2, <2>1, <2>2
          DEF Shape, TypeOK, HolderInv, EndInv, IdleInv, Active
<1>7. CASE Leave(r)
  <2>1. /\ pc[r] = "leaving"
        /\ holder' = [holder EXCEPT ![ctx[r]] = None]
        /\ pc' = [pc EXCEPT ![r] = "served"]
        /\ UNCHANGED index
    BY <1>7 DEF Leave
  <2>2. index[ctx[r]] = PastTheEnd
    BY <2>1 DEF Shape, EndInv
  <2>3. \A q \in Requests \ {r} : pc[q] \in Active => ctx[q] # ctx[r]
    BY <1>1 DEF Shape, TypeOK, Active
  <2>4. TypeOK'
    BY <1>1, <1>2, <1>3, <2>1, <2>2, <2>3 DEF Shape, TypeOK, Running, Active
  <2>5. HolderInv'
    BY <1>1, <1>2, <2>1, <2>3 DEF Shape, TypeOK, HolderInv, Active
  <2> QED BY <1>1, <1>2, <2>1, <2>4, <2>5 DEF Shape, TypeOK, EndInv, IdleInv
<1> QED BY <1>4, <1>5, <1>6, <1>7 DEF ServerStep

LEMMA NextShape == Shape /\ [Next]_vars => Shape'
<1> SUFFICES ASSUME Shape, [Next]_vars PROVE Shape'
  OBVIOUS
<1>1. CASE \E r \in Requests, c \in Contexts : Arrive(r, c) \/ Limited(r, c)
  BY <1>1, ComeShape
<1>2. CASE \E r \in Requests : ContextOver(r)
  BY <1>2 DEF ContextOver, Shape, TypeOK, HolderInv, EndInv, IdleInv, Running
<1>3. CASE \E r \in Requests : ServerStep(r)
  BY <1>3, ServerShape
<1>4. CASE \E r \in Requests : HandlerStep(r)
  BY <1>4, HandlerShape
<1>5. CASE Finished \/ UNCHANGED vars
  BY <1>5 DEF Finished, vars, Shape, TypeOK, HolderInv, EndInv, IdleInv, Running
<1> QED BY <1>1, <1>2, <1>3, <1>4, <1>5 DEF Next

(* The types of the request cycle, and whom a context belongs to.             *)
THEOREM TypeCorrect == Spec => []TypeOK
<1>1. Spec => []Shape
  BY InitShape, NextShape, PTL DEF Spec
<1> QED BY <1>1, PTL DEF Shape

----------------------------------------------------------------------------
(* A handler starts to work where the chain of its context has not ended: for *)
(* a request that the server still waits for.                                 *)
LEMMA StartIsOpen ==
  ASSUME Shape, [Next]_vars, NEW q \in Requests,
         stage'[q] = "handler", stage[q] # "handler"
  PROVE  pc[work'[q]] = "select"
<1>1. CASE \E r \in Requests, c \in Contexts : Arrive(r, c) \/ Limited(r, c)
  BY <1>1 DEF Arrive, Limited, Shape, TypeOK
<1>2. CASE UNCHANGED stage
  BY <1>2
<1>3. CASE \E r \in Requests : HandlerStep(r)
  <2>1. PICK r \in Requests : HandlerStep(r)
    BY <1>3
  <2>2. /\ Running(r)
        /\ Advance(r) \/ AbortChain(r)
        /\ UNCHANGED <<pc, ctx, holder>>
    BY <2>1
    DEF HandlerStep, Pass, Refuse, RefuseByError, Answer, Fail, FailSilently, Running
  <2>3. q = r
    BY <2>2, StageEffect
  <2>4. Advance(r)
    BY <2>2, <2>3 DEF AbortChain, Shape, TypeOK
  <2>5. /\ ctx[r] \in Contexts
        /\ stage' = [stage EXCEPT ![r] = IF index[ctx[r]] = Group THEN "handler" ELSE "done"]
        /\ work' = [work EXCEPT ![r] = IF index[ctx[r]] = Group THEN holder[ctx[r]] ELSE @]
        /\ index[ctx[r]] = Group => holder[ctx[r]] \in Requests
    BY <2>2, <2>4, AdvanceEffect
  <2>6. index[ctx[r]] = Group
    BY <2>3, <2>5 DEF Shape, TypeOK
  <2>7. work'[q] = holder[ctx[r]] /\ holder[ctx[r]] \in Requests
    BY <2>3, <2>5, <2>6 DEF Shape, TypeOK
  <2>8. pc[holder[ctx[r]]] \in Active /\ ctx[holder[ctx[r]]] = ctx[r]
    BY <2>5, <2>7, NoneAssumption DEF Shape, HolderInv
  <2>9. Group # PastTheEnd
    BY DEF Group, PastTheEnd
  <2> QED BY <2>6, <2>7, <2>8, <2>9 DEF Shape, EndInv, Active
<1> QED BY <1>1, <1>2, <1>3
        DEF Next, ServerStep, ContextOver, HandlerDone, TimedOut, ErrorHandler, Leave,
            Finished, vars

(* Once a request is answered, no handler starts to work for it: 503 aborts   *)
(* the chain, and what runs on a context passed on starts for its new request *)
(* only while that is open (timeout.go:39).                                   *)
THEOREM StartsAreOpen == Spec => StartsWhileOpen
<1>1. Spec => []Shape
  BY InitShape, NextShape, PTL DEF Spec
<1>2. Shape /\ [Next]_vars =>
        [\A q \in Requests :
           stage'[q] = "handler" /\ stage[q] # "handler" => pc[work'[q]] = "select"]_vars
  BY StartIsOpen
<1> QED BY <1>1, <1>2, PTL DEF Spec, StartsWhileOpen

----------------------------------------------------------------------------
(* SoleAnswer rests on three facts: a context that no orphan still uses is    *)
(* used by its request alone; an orphan works for its own request or for one  *)
(* that was given its context; and the request with a context of its own has  *)
(* decided nothing while its stages run.                                      *)
Own == Requests \ inherited

Alone == \A r \in Own, q \in Requests :
    pc[r] \in Active /\ Running(q) /\ ctx[q] = ctx[r] => q = r

WorkInv == \A q \in Requests : Running(q) => work[q] = q \/ work[q] \in inherited

(* What holds of a request r before its answer is decided.                    *)
Undecided(r) ==
    /\ Running(r) /\ pc[r] \in Active => work[r] = r
    /\ Running(r) /\ work[r] = r => outcome[r] = "none"
    /\ pc[r] = "select" /\ stage[r] = "handler" => index[ctx[r]] # Group
    /\ pc[r] = "idle" => outcome[r] = "none" /\ response[r] = <<>> /\ r \notin late
    /\ pc[r] \in {"errors", "leaving", "served"} /\ r \notin late => ~Running(r)
    /\ pc[r] \in {"select", "errors"} =>
         errors[ctx[r]] = IF outcome[r] = "error" THEN <<r>> ELSE <<>>

(* A body of r that is not written yet, by its kind.                          *)
Unwritten(r, k) ==
    \/ k = "timeout" /\ pc[r] = "select"
    \/ k = "error" /\ pc[r] \in {"select", "errors"}

Bodies(r) == \A i \in 1..Len(response[r]) :
    /\ response[r][i].of = r
    /\ \/ response[r][i].kind = "timeout" /\ r \in late
       \/ response[r][i].kind = outcome[r]
    /\ \A j \in 1..(i - 1) : response[r][j].kind # response[r][i].kind
    /\ ~Unwritten(r, response[r][i].kind)

Paid(r) == r \notin late => response[r] = Owed(r)

Fine(r) == Undecided(r) /\ Bodies(r) /\ Paid(r)

SoleInv == Shape /\ Alone /\ WorkInv /\ \A r \in Own : Fine(r)

Step(r) == \/ \E c \in Contexts : Arrive(r, c) \/ Limited(r, c)
           \/ ContextOver(r) \/ ServerStep(r) \/ HandlerStep(r)

LEMMA InitSole == Init => SoleInv
<1> SUFFICES ASSUME Init PROVE SoleInv
  OBVIOUS
<1>1. \A r \in Requests : Fine(r)
  BY DEF Init, Fine, Undecided, Bodies, Paid, Owed, Running, Active, Unwritten
<1> QED BY <1>1, InitShape DEF Init, SoleInv, Alone, WorkInv, Own, Running, Active

(* What one step of a handler's goroutine does, whichever it is.              *)
LEMMA HandlerFrame ==
  ASSUME Shape, NEW q \in Requests, HandlerStep(q)
  PROVE  /\ Running(q)
         /\ Advance(q) \/ AbortChain(q)
         /\ UNCHANGED <<pc, ctx, holder, late, inherited>>
         /\ \A r \in Requests : r # work[q] => outcome'[r] = outcome[r]
         /\ \A r \in Requests : r # holder[ctx[q]] => response'[r] = response[r]
         /\ \A c \in Contexts : c # ctx[q] => errors'[c] = errors[c] /\ index'[c] = index[c]
<1>1. Running(q)
  BY DEF HandlerStep, Pass, Refuse, RefuseByError, Answer, Fail, FailSilently, Running
<1>2. /\ Advance(q) \/ AbortChain(q)
      /\ UNCHANGED <<pc, ctx, holder, late, inherited>>
  BY DEF HandlerStep, Pass, Refuse, RefuseByError, Answer, Fail, FailSilently
<1>3. ctx[q] \in Contexts /\ work[q] \in Requests
  BY <1>1 DEF Shape, TypeOK
<1>4. \A r \in Requests : r # work[q] => outcome'[r] = outcome[r]
  BY <1>3 DEF HandlerStep, Pass, Refuse, RefuseByError, Answer, Fail, FailSilently,
              Decide, Shape, TypeOK
<1>5. \A r \in Requests : r # holder[ctx[q]] => response'[r] = response[r]
  BY <1>3 DEF HandlerStep, Pass, Refuse, RefuseByError, Answer, Fail, FailSilently,
              Write, Shape, TypeOK
<1>6. \A c \in Contexts : c # ctx[q] => errors'[c] = errors[c]
  BY <1>3 DEF HandlerStep, Pass, Refuse, RefuseByError, Answer, Fail, FailSilently,
              Shape, TypeOK
<1>7. \A c \in Contexts : c # ctx[q] => index'[c] = index[c]
  BY <1>2, <1>3 DEF Advance, AbortChain, Shape, TypeOK
<1> QED BY <1>1, <1>2, <1>4, <1>5, <1>6, <1>7

(* A step of another request leaves one with a context of its own alone.      *)
LEMMA OthersFrame ==
  ASSUME Shape, Alone, WorkInv, NEW r \in Own, NEW q \in Requests, q # r, Step(q)
  PROVE  /\ pc'[r] = pc[r] /\ stage'[r] = stage[r] /\ work'[r] = work[r]
         /\ ctx'[r] = ctx[r] /\ response'[r] = response[r] /\ outcome'[r] = outcome[r]
         /\ r \in late' <=> r \in late
         /\ pc[r] \in Active =>
              index'[ctx[r]] = index[ctx[r]] /\ errors'[ctx[r]] = errors[ctx[r]]
<1> USE NoneAssumption
<1> r \in Requests /\ r \notin inherited
  BY DEF Own
<1>0. pc[r] \in Active => ctx[r] \in Contexts /\ holder[ctx[r]] = r
  BY DEF Shape, TypeOK, Active
<1>1. CASE \E c \in Contexts : Arrive(q, c) \/ Limited(q, c)
  <2>1. PICK c \in Contexts : Arrive(q, c) \/ Limited(q, c)
    BY <1>1
  <2>2. pc[r] \in Active => ctx[r] # c
    BY <2>1, <1>0 DEF Arrive, Limited, Take
  <2> QED BY <2>1, <2>2, <1>0 DEF Arrive, Limited, Take, Shape, TypeOK
<1>2. CASE ContextOver(q)
  BY <1>2 DEF ContextOver
<1>3. CASE ServerStep(q)
  <2>1. /\ ctx[q] \in Contexts /\ pc[q] \in Active /\ holder[ctx[q]] = q
        /\ UNCHANGED <<stage, work, ctx, errors, late, outcome>>
    BY <1>3 DEF ServerStep, HandlerDone, TimedOut, ErrorHandler, Leave, Shape, TypeOK, Active
  <2>2. pc'[r] = pc[r]
    BY <1>3 DEF ServerStep, HandlerDone, TimedOut, ErrorHandler, Leave, Shape, TypeOK
  <2>3. response'[r] = response[r]
    BY <1>3, <2>1
    DEF ServerStep, HandlerDone, TimedOut, ErrorHandler, Leave, Write, Shape, TypeOK
  <2>4. pc[r] \in Active => index'[ctx[r]] = index[ctx[r]]
    BY <1>0, <1>3, <2>1
    DEF ServerStep, HandlerDone, TimedOut, ErrorHandler, Leave, Shape, TypeOK
  <2> QED BY <2>1, <2>2, <2>3, <2>4
<1>4. CASE HandlerStep(q)
  <2>1. Running(q) /\ (Advance(q) \/ AbortChain(q)) /\ UNCHANGED <<pc, ctx, late>>
    BY <1>4, HandlerFrame
  <2>2. stage'[r] = stage[r] /\ work'[r] = work[r]
    BY <2>1 DEF Advance, AbortChain, Shape, TypeOK
  <2>3. work[q] # r
    BY <2>1 DEF WorkInv
  <2>4. pc[r] \in Active => ctx[q] # ctx[r]
    BY <2>1 DEF Alone
  <2>5. holder[ctx[q]] # r
    <3>1. ctx[q] \in Contexts
      BY <2>1 DEF Shape, TypeOK
    <3> QED BY <2>4, <3>1 DEF Shape, HolderInv
  <2> QED BY <1>0, <1>4, <2>1, <2>2, <2>3, <2>4, <2>5, HandlerFrame
<1> QED BY <1>1, <1>2, <1>3, <1>4 DEF Step

LEMMA OthersFine ==
  ASSUME Shape, Alone, WorkInv, NEW r \in Own, NEW q \in Requests, q # r, Step(q), Fine(r)
  PROVE  Fine(r)'
<1>1. /\ pc'[r] = pc[r] /\ stage'[r] = stage[r] /\ work'[r] = work[r]
      /\ ctx'[r] = ctx[r] /\ response'[r] = response[r] /\ outcome'[r] = outcome[r]
      /\ r \in late' <=> r \in late
      /\ pc[r] \in Active =>
           index'[ctx[r]] = index[ctx[r]] /\ errors'[ctx[r]] = errors[ctx[r]]
  BY OthersFrame
<1>2. Undecided(r)'
  BY <1>1 DEF Fine, Undecided, Running, Active
<1>3. Bodies(r)'
  BY <1>1 DEF Fine, Bodies, Unwritten
<1>4. Paid(r)'
  BY <1>1 DEF Fine, Paid, Owed
<1> QED BY <1>2, <1>3, <1>4 DEF Fine

(* A body of a kind not yet written may be appended to those of a request.    *)
LEMMA AppendBody ==
  ASSUME NEW r \in Requests, response[r] \in Seq(Body), NEW b \in Body, b.of = r,
         \A i \in 1..Len(response[r]) : response[r][i].kind # b.kind,
         response'[r] = Append(response[r], b), Bodies(r),
         r \in late => r \in late', b.kind = "timeout" => r \in late',
         b.kind # "timeout" => outcome'[r] = b.kind,
         outcome'[r] = outcome[r] \/ outcome[r] = "none",
         ~Unwritten(r, b.kind)',
         \A k \in {"data", "refusal", "error", "timeout"} : Unwritten(r, k)' => Unwritten(r, k)
  PROVE  Bodies(r)'
<1> DEFINE s == response[r]
           t == response'[r]
<1>1. Len(t) = Len(s) + 1 /\ Len(s) \in Nat /\ t[Len(s) + 1] = b
  OBVIOUS
<1>2. \A i \in 1..Len(s) : t[i] = s[i] /\ s[i] \in Body
  OBVIOUS
<1>3. \A i \in 1..Len(t) : i \in 1..Len(s) \/ i = Len(s) + 1
  BY <1>1
<1>4. \A i \in 1..Len(s) : s[i].kind \in {"data", "refusal", "error", "timeout"}
  BY <1>2 DEF Body
<1>5. \A i \in 1..Len(s) :
        /\ t[i].of = r
        /\ \/ t[i].kind = "timeout" /\ r \in late'
           \/ t[i].kind = outcome'[r]
        /\ \A j \in 1..(i - 1) : t[j].kind # t[i].kind
        /\ t[i].kind = "timeout" => pc'[r] # "select"
        /\ t[i].kind = "error" => pc'[r] \notin {"select", "errors"}
  <2> TAKE i \in 1..Len(s)
  <2>1. t[i] = s[i] /\ s[i].kind \in {"data", "refusal", "error", "timeout"}
    BY <1>2, <1>4
  <2>2. /\ s[i].of = r
        /\ (s[i].kind = "timeout" /\ r \in late) \/ s[i].kind = outcome[r]
        /\ \A j \in 1..(i - 1) : s[j].kind # s[i].kind
        /\ ~Unwritten(r, s[i].kind)
    BY DEF Bodies
  <2>3. outcome[r] # "none" => outcome'[r] = outcome[r]
    OBVIOUS
  <2>4. \A j \in 1..(i - 1) : t[j].kind # t[i].kind
    <3>1. \A j \in 1..(i - 1) : j \in 1..Len(s)
      BY <1>1
    <3> QED BY <1>2, <2>1, <2>2, <3>1
  <2>5. /\ s[i].kind = "timeout" => pc'[r] # "select"
        /\ s[i].kind = "error" => pc'[r] \notin {"select", "errors"}
    BY <2>2 DEF Unwritten
  <2> QED BY <2>1, <2>2, <2>3, <2>4, <2>5
<1>6. /\ t[Len(s) + 1].of = r
      /\ \/ b.kind = "timeout" /\ r \in late'
         \/ b.kind = outcome'[r]
      /\ \A j \in 1..Len(s) : t[j].kind # b.kind
  BY <1>1, <1>2
<1>7. (Len(s) + 1) - 1 = Len(s)
  BY <1>1
<1> QED BY <1>1, <1>3, <1>5, <1>6, <1>7 DEF Bodies, Unwritten

LEMMA SameBodies ==
  ASSUME NEW r \in Requests, response'[r] = response[r], Bodies(r),
         \A i \in 1..Len(response[r]) : response[r][i].kind = outcome[r] => outcome'[r] = outcome[r],
         r \in late => r \in late',
         pc'[r] = pc[r] \/ pc'[r] \notin {"select"},
         pc'[r] = "errors" => pc[r] \in {"select", "errors"}
  PROVE  Bodies(r)'
BY DEF Bodies, Unwritten

(* The first two facts: a step keeps contexts apart, and orphans to those     *)
(* that were given their context.                                             *)
LEMMA AloneStep ==
  ASSUME Shape, Alone, WorkInv, NEW r \in Requests, Step(r)
  PROVE  Alone' /\ WorkInv'
<1> USE NoneAssumption
<1>1. CASE \E c \in Contexts : Arrive(r, c) \/ Limited(r, c)
  <2>1. PICK c \in Contexts : Arrive(r, c) \/ Limited(r, c)
    BY <1>1
  <2>2. /\ pc[r] = "idle" /\ stage[r] = "none" /\ holder[c] = None
        /\ ctx' = [ctx EXCEPT ![r] = c]
        /\ pc' \in {[pc EXCEPT ![r] = "select"], [pc EXCEPT ![r] = "errors"]}
        /\ inherited' = IF \E q \in Requests : ctx[q] = c /\ Running(q)
                        THEN inherited \cup {r} ELSE inherited
    BY <2>1 DEF Arrive, Limited, Take, Shape, IdleInv
  <2>3. \/ /\ stage' = [stage EXCEPT ![r] = "group"]
           /\ work' = [work EXCEPT ![r] = r]
        \/ UNCHANGED <<stage, work>>
    BY <2>1 DEF Arrive, Limited
  <2>4. \A q \in Requests : pc[q] \in Active => ctx[q] # c
    BY <2>2 DEF Shape, TypeOK, Active
  <2>5. \A q \in Requests \ {r} : /\ pc'[q] = pc[q] /\ ctx'[q] = ctx[q]
                                  /\ stage'[q] = stage[q] /\ work'[q] = work[q]
    BY <2>2, <2>3 DEF Shape, TypeOK
  <2>6. inherited \subseteq inherited' /\ ctx'[r] = c /\ ~Running(r)
    BY <2>2 DEF Shape, TypeOK, Running
  <2>7. Alone'
    <3> SUFFICES ASSUME NEW p \in Requests, p \notin inherited', NEW q \in Requests,
                        pc'[p] \in Active, stage'[q] \in {"group", "handler"},
                        ctx'[q] = ctx'[p]
                 PROVE  q = p
      BY DEF Alone, Own, Running
    <3>1. CASE p = r /\ q # r
      BY <3>1, <2>2, <2>5, <2>6 DEF Running
    <3>2. CASE p # r /\ q = r
      BY <3>2, <2>4, <2>5, <2>6
    <3>3. CASE p # r /\ q # r
      BY <3>3, <2>5, <2>6 DEF Alone, Own, Running
    <3> QED BY <3>1, <3>2, <3>3
  <2>8. WorkInv'
    <3> SUFFICES ASSUME NEW q \in Requests, stage'[q] \in {"group", "handler"}
                 PROVE  work'[q] = q \/ work'[q] \in inherited'
      BY DEF WorkInv, Running
    <3>1. CASE q = r
      BY <3>1, <2>2, <2>3 DEF Shape, TypeOK
    <3>2. CASE q # r
      BY <3>2, <2>5, <2>6 DEF WorkInv, Running
    <3> QED BY <3>1, <3>2
  <2> QED BY <2>7, <2>8
<1>2. CASE ContextOver(r)
  BY <1>2 DEF ContextOver, Alone, WorkInv, Own, Running
<1>3. CASE ServerStep(r)
  <2>1. UNCHANGED <<stage, work, ctx, inherited>>
    BY <1>3 DEF ServerStep, HandlerDone, TimedOut, ErrorHandler, Leave
  <2>2. \A q \in Requests : pc'[q] \in Active => pc[q] \in Active
    BY <1>3 DEF ServerStep, HandlerDone, TimedOut, ErrorHandler, Leave, Shape, TypeOK, Active
  <2> QED BY <2>1, <2>2 DEF Alone, WorkInv, Own, Running
<1>4. CASE HandlerStep(r)
  <2>1. Running(r) /\ (Advance(r) \/ AbortChain(r)) /\ UNCHANGED <<pc, ctx, holder, inherited>>
    BY <1>4, HandlerFrame
  <2>2. \A q \in Requests \ {r} : stage'[q] = stage[q] /\ work'[q] = work[q]
    BY <2>1 DEF Advance, AbortChain, Shape, TypeOK
  <2>3. Alone'
    BY <2>1, <2>2 DEF Alone, Own, Running
  <2>4. stage'[r] \in {"group", "handler"} => work'[r] = r \/ work'[r] \in inherited
    <3>1. CASE AbortChain(r)
      BY <3>1 DEF AbortChain, Shape, TypeOK
    <3>2. CASE Advance(r)
      <4>1. /\ ctx[r] \in Contexts
            /\ stage' = [stage EXCEPT ![r] = IF index[ctx[r]] = Group THEN "handler" ELSE "done"]
            /\ work' = [work EXCEPT ![r] = IF index[ctx[r]] = Group THEN holder[ctx[r]] ELSE @]
            /\ index[ctx[r]] = Group => holder[ctx[r]] \in Requests
        BY <2>1, <3>2, AdvanceEffect
      <4>2. CASE index[ctx[r]] # Group
        BY <4>1, <4>2 DEF Shape, TypeOK
      <4>3. CASE index[ctx[r]] = Group
        <5>1. work'[r] = holder[ctx[r]] /\ holder[ctx[r]] \in Requests
          BY <4>1, <4>3 DEF Shape, TypeOK
        <5>2. pc[holder[ctx[r]]] \in Active /\ ctx[holder[ctx[r]]] = ctx[r]
          BY <4>1, <5>1 DEF Shape, HolderInv
        <5> QED BY <2>1, <5>1, <5>2 DEF Alone, Own
      <4> QED BY <4>2, <4>3
    <3> QED BY <2>1, <3>1, <3>2
  <2>5. WorkInv'
    BY <2>1, <2>2, <2>4 DEF WorkInv, Running
  <2> QED BY <2>3, <2>5
<1> QED BY <1>1, <1>2, <1>3, <1>4 DEF Step

(* The stages of a request with a context of its own: what they decide, they  *)
(* decide once.                                                               *)
LEMMA HandlerUndecided ==
  ASSUME Shape, Alone, WorkInv, NEW r \in Own, Fine(r), HandlerStep(r)
  PROVE  Undecided(r)'
<1> USE NoneAssumption
<1> r \in Requests /\ r \notin inherited
  BY DEF Own
<1>1. /\ Running(r) /\ (Advance(r) \/ AbortChain(r))
      /\ UNCHANGED <<pc, ctx, holder, late, inherited>>
      /\ r # work[r] => outcome'[r] = outcome[r]
      /\ r # holder[ctx[r]] => response'[r] = response[r]
  BY HandlerFrame
<1>2. /\ ctx[r] \in Contexts /\ work[r] \in Requests
      /\ pc[r] \in Active \cup {"served"}
      /\ pc[r] \in Active <=> holder[ctx[r]] = r
  BY <1>1 DEF Shape, TypeOK, HolderInv, IdleInv, Active, Running
<1>3. Undecided(r)
  BY DEF Fine
<1>4. pc[r] \in Active => work[r] = r
  BY <1>1, <1>3 DEF Undecided
<1>5. stage'[r] \in {"group", "handler"} =>
        /\ Advance(r) /\ index[ctx[r]] = Group /\ index'[ctx[r]] = Handler
        /\ work'[r] = holder[ctx[r]]
  <2>1. CASE Advance(r)
    BY <1>1, <1>2, <2>1, AdvanceEffect DEF Shape, TypeOK
  <2>2. CASE AbortChain(r)
    BY <2>2 DEF AbortChain, Shape, TypeOK
  <2> QED BY <1>1, <2>1, <2>2
<1>6. Running(r)' /\ pc'[r] \in Active => work'[r] = r
  BY <1>1, <1>2, <1>5 DEF Running
<1>7. Running(r)' /\ work'[r] = r => outcome'[r] = "none"
  <2>1. SUFFICES ASSUME stage'[r] \in {"group", "handler"}, work'[r] = r
                 PROVE  outcome'[r] = "none"
    BY DEF Running
  <2>2. pc[r] \in Active /\ work[r] = r /\ index[ctx[r]] = Group
    BY <2>1, <1>2, <1>4, <1>5
  <2>3. Group # PastTheEnd
    BY DEF Group, PastTheEnd
  <2>4. pc[r] = "select"
    BY <2>2, <2>3 DEF Shape, EndInv, Active
  <2>5. stage[r] = "group"
    BY <1>1, <1>3, <2>2, <2>4 DEF Undecided, Running
  <2>6. Advance(r) /\ ~AbortChain(r)
    BY <2>1, <1>1, <1>5 DEF AbortChain, Shape, TypeOK
  <2>7. Pass(r)
    BY <2>5, <2>6 DEF HandlerStep, Refuse, RefuseByError, Answer, Fail, FailSilently
  <2> QED BY <1>1, <1>3, <2>2, <2>7 DEF Undecided, Pass
<1>8. pc'[r] = "select" /\ stage'[r] = "handler" => index'[ctx'[r]] # Group
  BY <1>1, <1>5 DEF Group, Handler
<1>9. pc'[r] # "idle"
  BY <1>1, <1>2 DEF Active
<1>10. pc'[r] \in {"errors", "leaving", "served"} => r \in late'
  BY <1>1, <1>3 DEF Undecided
<1>11. pc'[r] \in {"select", "errors"} =>
         errors'[ctx'[r]] = IF outcome'[r] = "error" THEN <<r>> ELSE <<>>
  <2>1. SUFFICES ASSUME pc[r] \in {"select", "errors"}
                 PROVE  errors'[ctx[r]] = IF outcome'[r] = "error" THEN <<r>> ELSE <<>>
    BY <1>1
  <2>2. work[r] = r
    BY <1>4, <2>1 DEF Active
  <2>3. outcome[r] = "none"
    BY <1>1, <1>3, <2>2 DEF Undecided
  <2>4. errors[ctx[r]] = <<>>
    BY <1>3, <2>1, <2>3 DEF Undecided
  <2>5. CASE Pass(r)
    BY <2>3, <2>4, <2>5 DEF Pass
  <2>6. CASE Refuse(r) \/ Answer(r) \/ FailSilently(r)
    <3>1. outcome'[r] # "error" /\ errors' = errors
      BY <2>2, <2>6 DEF Refuse, Answer, FailSilently, Decide, Shape, TypeOK
    <3> QED BY <2>4, <3>1
  <2>7. CASE RefuseByError(r) \/ Fail(r)
    <3>1. outcome'[r] = "error" /\ errors'[ctx[r]] = Append(errors[ctx[r]], r)
      BY <1>2, <2>2, <2>7 DEF RefuseByError, Fail, Decide, Shape, TypeOK
    <3> QED BY <2>4, <3>1
  <2> QED BY <2>5, <2>6, <2>7 DEF HandlerStep
<1> QED BY <1>6, <1>7, <1>8, <1>9, <1>10, <1>11 DEF Undecided

LEMMA HandlerBodies ==
  ASSUME Shape, Alone, WorkInv, NEW r \in Own, Fine(r), HandlerStep(r)
  PROVE  Bodies(r)' /\ Paid(r)'
<1> USE NoneAssumption
<1> r \in Requests /\ r \notin inherited
  BY DEF Own
<1>1. /\ Running(r)
      /\ UNCHANGED <<pc, ctx, holder, late, inherited>>
      /\ r # work[r] => outcome'[r] = outcome[r]
      /\ r # holder[ctx[r]] => response'[r] = response[r]
  BY HandlerFrame
<1>2. /\ ctx[r] \in Contexts /\ work[r] \in Requests
      /\ pc[r] \in Active \cup {"served"}
      /\ pc[r] \in Active <=> holder[ctx[r]] = r
  BY <1>1 DEF Shape, TypeOK, HolderInv, IdleInv, Active, Running
<1>3. Undecided(r) /\ Bodies(r) /\ Paid(r)
  BY DEF Fine
<1>4. pc[r] \in Active => work[r] = r
  BY <1>1, <1>3 DEF Undecided
<1>5. work[r] = r => outcome[r] = "none"
  BY <1>1, <1>3 DEF Undecided
<1>6. r \notin late => pc[r] = "select"
  BY <1>1, <1>2, <1>3 DEF Undecided, Active
<1>7. response[r] \in Seq(Body)
  BY DEF Shape, TypeOK
<1>8. \A i \in 1..Len(response[r]) : response[r][i].kind # "none"
  <2> TAKE i \in 1..Len(response[r])
  <2>1. response[r][i] \in Body
    BY <1>7
  <2> QED BY <2>1 DEF Body
<1>9. CASE response'[r] = response[r]
  <2>1. Bodies(r)'
    <3>1. \A i \in 1..Len(response[r]) :
            response[r][i].kind = outcome[r] => outcome'[r] = outcome[r]
      BY <1>1, <1>5, <1>8
    <3> QED BY <1>1, <1>3, <1>9, <3>1, SameBodies
  <2>2. Paid(r)'
    <3>1. SUFFICES ASSUME r \notin late PROVE response'[r] = Owed(r)'
      BY <1>1 DEF Paid
    <3>2. pc[r] = "select" /\ work[r] = r /\ holder[ctx[r]] = r /\ outcome[r] = "none"
      BY <1>2, <1>4, <1>5, <1>6, <3>1 DEF Active
    <3>3. response[r] = <<>>
      BY <1>3, <3>1, <3>2 DEF Paid, Owed
    <3>4. outcome'[r] \in {"none", "error", "silence"}
      <4>1. CASE Refuse(r) \/ Answer(r)
        <5>1. \E b \in {[of |-> work[r], kind |-> "refusal"], [of |-> work[r], kind |-> "data"]} :
                response'[r] = Append(response[r], b)
          BY <4>1, <3>2 DEF Refuse, Answer, Write, Shape, TypeOK
        <5> QED BY <1>9, <3>3, <5>1
      <4>2. CASE Pass(r) \/ RefuseByError(r) \/ Fail(r) \/ FailSilently(r)
        BY <3>2, <4>2 DEF Pass, RefuseByError, Fail, FailSilently, Decide, Shape, TypeOK
      <4> QED BY <4>1, <4>2 DEF HandlerStep
    <3> QED BY <1>1, <1>9, <3>2, <3>3, <3>4 DEF Owed
  <2> QED BY <2>1, <2>2
<1>10. CASE response'[r] # response[r]
  <2>1. holder[ctx[r]] = r /\ work[r] = r /\ outcome[r] = "none" /\ pc[r] \in Active
    BY <1>1, <1>2, <1>4, <1>5, <1>10
  <2>2. PICK k \in {"refusal", "data"} :
          /\ response'[r] = Append(response[r], [of |-> r, kind |-> k])
          /\ outcome'[r] = k
    <3>1. CASE Refuse(r)
      BY <2>1, <3>1 DEF Refuse, Write, Decide, Shape, TypeOK
    <3>2. CASE Answer(r)
      BY <2>1, <3>2 DEF Answer, Write, Decide, Shape, TypeOK
    <3> QED BY <1>10, <3>1, <3>2
            DEF HandlerStep, Pass, RefuseByError, Fail, FailSilently
  <2> DEFINE b == [of |-> r, kind |-> k]
  <2>3. b \in Body /\ b.of = r /\ b.kind = k
    BY DEF Body
  <2>4. \A i \in 1..Len(response[r]) : response[r][i].kind # k
    BY <1>3, <2>1, <1>8 DEF Bodies
  <2>5. Bodies(r)'
    <3>1. \A i \in {"data", "refusal", "error", "timeout"} : Unwritten(r, i)' => Unwritten(r, i)
      BY <1>1 DEF Unwritten
    <3>2. ~Unwritten(r, b.kind)'
      BY <2>3 DEF Unwritten
    <3> HIDE DEF b
    <3>3. /\ response'[r] = Append(response[r], b)
          /\ outcome'[r] = b.kind
          /\ b.kind # "timeout"
          /\ \A i \in 1..Len(response[r]) : response[r][i].kind # b.kind
      BY <2>2, <2>3, <2>4 DEF b
    <3> QED BY <1>1, <1>3, <1>7, <2>1, <2>3, <3>1, <3>2, <3>3, AppendBody
  <2>6. Paid(r)'
    <3>1. SUFFICES ASSUME r \notin late PROVE response'[r] = Owed(r)'
      BY <1>1 DEF Paid
    <3>2. response[r] = <<>>
      BY <1>3, <2>1, <3>1 DEF Paid, Owed
    <3>3. response'[r] = <<b>>
      BY <2>2, <3>2
    <3> QED BY <2>2, <3>3 DEF Owed
  <2> QED BY <2>5, <2>6
<1> QED BY <1>9, <1>10

(* The server's goroutine writes a 503 or the error it finds, each once.      *)
LEMMA ServerFine ==
  ASSUME Shape, Alone, WorkInv, NEW r \in Own, Fine(r), ServerStep(r)
  PROVE  Fine(r)'
<1> USE NoneAssumption
<1> r \in Requests /\ r \notin inherited
  BY DEF Own
<1>1. /\ ctx[r] \in Contexts /\ pc[r] \in Active /\ holder[ctx[r]] = r
      /\ UNCHANGED <<stage, work, ctx, errors, late, outcome, inherited>>
  BY DEF ServerStep, HandlerDone, TimedOut, ErrorHandler, Leave, Shape, TypeOK, Active
<1>2. Undecided(r) /\ Bodies(r) /\ Paid(r)
  BY DEF Fine
<1>3. response[r] \in Seq(Body)
  BY DEF Shape, TypeOK
<1>4. pc'[r] \in {"errors", "leaving", "served"} /\ (pc'[r] = "errors" => pc[r] = "select")
  BY DEF ServerStep, HandlerDone, TimedOut, ErrorHandler, Leave, Shape, TypeOK
<1>5. Undecided(r)'
  <2>1. Running(r)' => Running(r)
    BY <1>1 DEF Running
  <2>2. r \notin late => ~Running(r)
    BY <1>1, <1>2 DEF ServerStep, HandlerDone, TimedOut, ErrorHandler, Leave,
                      Undecided, Running
  <2> QED BY <1>1, <1>2, <1>4, <2>1, <2>2 DEF Undecided
<1>6. \A k \in {"data", "refusal", "error", "timeout"} : Unwritten(r, k)' => Unwritten(r, k)
  BY <1>4 DEF Unwritten
<1>7. CASE response'[r] = response[r]
  <2>1. Bodies(r)'
    BY <1>1, <1>2, <1>4, <1>7, SameBodies
  <2>2. Paid(r)'
    <3>1. SUFFICES ASSUME r \notin late PROVE response'[r] = Owed(r)'
      BY <1>1 DEF Paid
    <3>2. CASE pc'[r] = "errors"
      BY <1>1, <1>2, <1>4, <1>7, <3>1, <3>2 DEF Paid, Owed
    <3>3. CASE Leave(r)
      <4>1. pc[r] = "leaving" /\ pc'[r] = "served"
        BY <3>3 DEF Leave, Shape, TypeOK
      <4> QED BY <1>1, <1>2, <1>7, <3>1, <4>1 DEF Paid, Owed
    <3>4. CASE ErrorHandler(r)
      <4>1. pc[r] = "errors" /\ pc'[r] = "leaving"
        BY <3>4 DEF ErrorHandler, Shape, TypeOK
      <4>2. outcome[r] # "error"
        <5>1. SUFFICES ASSUME outcome[r] = "error" PROVE FALSE
          OBVIOUS
        <5>2. errors[ctx[r]] = <<r>>
          BY <1>2, <4>1, <5>1 DEF Undecided
        <5>3. errors[ctx[r]] # <<>>
          BY <5>2
        <5>4. Write(ctx[r], [of |-> Last(errors[ctx[r]]), kind |-> "error"])
          BY <3>4, <5>3 DEF ErrorHandler
        <5>5. response'[r] = Append(response[r], [of |-> Last(errors[ctx[r]]), kind |-> "error"])
          BY <1>1, <5>4, Zenon DEF Write, Shape, TypeOK
        <5> QED BY <1>3, <1>7, <5>5
      <4> QED BY <1>1, <1>2, <1>7, <3>1, <4>1, <4>2 DEF Paid, Owed
    <3> QED BY <1>4, <3>2, <3>3, <3>4
            DEF ServerStep, HandlerDone, TimedOut, Shape, TypeOK
  <2> QED BY <1>5, <2>1, <2>2 DEF Fine
<1>8. CASE TimedOut(r)
  <2> DEFINE b == [of |-> r, kind |-> "timeout"]
  <2>1. b \in Body /\ b.of = r /\ b.kind = "timeout"
    BY DEF Body
  <2>2. response'[r] = Append(response[r], b) /\ r \in late /\ pc[r] = "select" /\ pc'[r] = "errors"
    BY <1>1, <1>8 DEF TimedOut, Write, Shape, TypeOK
  <2>3. \A i \in 1..Len(response[r]) : response[r][i].kind # "timeout"
    BY <1>2, <2>2 DEF Bodies, Unwritten
  <2>4. ~Unwritten(r, b.kind)'
    BY <2>1, <2>2 DEF Unwritten
  <2> HIDE DEF b
  <2>5. Bodies(r)'
    BY <1>1, <1>2, <1>3, <1>6, <2>1, <2>2, <2>3, <2>4, AppendBody
  <2> QED BY <1>1, <1>5, <2>2, <2>5 DEF Fine, Paid
<1>9. CASE ErrorHandler(r) /\ response'[r] # response[r]
  <2> DEFINE b == [of |-> r, kind |-> "error"]
  <2>1. b \in Body /\ b.of = r /\ b.kind = "error"
    BY DEF Body
  <2>2. pc[r] = "errors" /\ pc'[r] = "leaving" /\ errors[ctx[r]] # <<>>
    BY <1>9 DEF ErrorHandler, Shape, TypeOK
  <2>3. outcome[r] = "error" /\ errors[ctx[r]] = <<r>>
    BY <1>2, <2>2 DEF Undecided
  <2>4. Last(errors[ctx[r]]) = r
    BY <2>3 DEF Last
  <2>5. response'[r] = Append(response[r], b)
    BY <1>1, <1>9, <2>2, <2>4 DEF ErrorHandler, Write, Shape, TypeOK
  <2>6. \A i \in 1..Len(response[r]) : response[r][i].kind # "error"
    BY <1>2, <2>2 DEF Bodies, Unwritten
  <2>7. ~Unwritten(r, b.kind)'
    BY <2>1, <2>2 DEF Unwritten
  <2>8. Paid(r)'
    <3>1. SUFFICES ASSUME r \notin late PROVE response'[r] = Owed(r)'
      BY <1>1 DEF Paid
    <3>2. response[r] = <<>>
      BY <1>2, <2>2, <2>3, <3>1 DEF Paid, Owed
    <3>3. response'[r] = <<b>>
      BY <2>5, <3>2
    <3> QED BY <1>1, <2>2, <2>3, <3>3 DEF Owed
  <2> HIDE DEF b
  <2>9. Bodies(r)'
    BY <1>1, <1>2, <1>3, <1>6, <2>1, <2>3, <2>5, <2>6, <2>7, AppendBody
  <2> QED BY <1>5, <2>8, <2>9 DEF Fine
<1> QED BY <1>7, <1>8, <1>9 DEF ServerStep, HandlerDone, Leave

(* A request that comes is answered by the global limiter or not yet.         *)
LEMMA ComeFine ==
  ASSUME Shape, NEW r \in Requests, NEW c \in Contexts, Fine(r),
         Arrive(r, c) \/ Limited(r, c)
  PROVE  Fine(r)'
<1> USE NoneAssumption
<1>1. /\ pc[r] = "idle" /\ ctx'[r] = c /\ errors'[c] = <<>> /\ late' = late
      /\ outcome[r] = "none" /\ response[r] = <<>> /\ r \notin late /\ stage[r] = "none"
  BY DEF Arrive, Limited, Take, Fine, Undecided, Shape, TypeOK, IdleInv
<1>2. CASE Arrive(r, c)
  <2>1. /\ pc'[r] = "select" /\ stage'[r] = "group" /\ work'[r] = r
        /\ outcome'[r] = "none" /\ response'[r] = <<>>
    BY <1>1, <1>2 DEF Arrive, Shape, TypeOK
  <2> QED BY <1>1, <2>1 DEF Fine, Undecided, Bodies, Paid, Owed, Active, Running
<1>3. CASE Limited(r, c)
  <2>1. /\ pc'[r] = "errors" /\ stage'[r] = "none" /\ outcome'[r] = "refusal"
        /\ response'[r] = <<[of |-> r, kind |-> "refusal"]>>
    BY <1>1, <1>3 DEF Limited, Shape, TypeOK
  <2>2. Undecided(r)' /\ Paid(r)'
    BY <1>1, <2>1 DEF Undecided, Paid, Owed, Active, Running
  <2>3. Bodies(r)'
    BY <2>1 DEF Bodies, Unwritten
  <2> QED BY <2>2, <2>3 DEF Fine
<1> QED BY <1>2, <1>3

LEMMA NextSole == SoleInv /\ [Next]_vars => SoleInv'
<1> SUFFICES ASSUME SoleInv, [Next]_vars PROVE SoleInv'
  OBVIOUS
<1>1. Shape /\ Alone /\ WorkInv /\ \A r \in Own : Fine(r)
  BY DEF SoleInv
<1>2. Shape'
  BY <1>1, NextShape
<1>3. CASE UNCHANGED vars
  BY <1>1, <1>3 DEF vars, SoleInv, Shape, TypeOK, HolderInv, EndInv, IdleInv, Alone,
     WorkInv, Own, Fine, Undecided, Bodies, Paid, Owed, Unwritten, Running
<1>4. CASE \E q \in Requests : Step(q)
  <2>1. PICK q \in Requests : Step(q)
    BY <1>4
  <2>2. Alone' /\ WorkInv'
    BY <1>1, <2>1, AloneStep
  <2>3. inherited \subseteq inherited'
    BY <2>1 DEF Step, Arrive, Limited, Take, ContextOver, ServerStep, HandlerDone, TimedOut,
       ErrorHandler, Leave, HandlerStep, Pass, Refuse, RefuseByError, Answer, Fail, FailSilently
  <2>4. ASSUME NEW r \in Own' PROVE Fine(r)'
    <3>1. r \in Own
      BY <2>3 DEF Own
    <3>2. CASE r # q
      BY <1>1, <2>1, <3>1, <3>2, OthersFine
    <3>3. CASE r = q /\ ContextOver(r)
      <4>1. /\ pc[r] = "select" /\ r \in late'
            /\ UNCHANGED <<pc, stage, work, ctx, index, errors, response, outcome>>
        BY <3>3 DEF ContextOver
      <4>2. Fine(r)
        BY <1>1, <3>1
      <4> QED BY <4>1, <4>2 DEF Fine, Undecided, Bodies, Paid, Unwritten, Running
    <3>4. CASE r = q /\ ServerStep(r)
      BY <1>1, <3>1, <3>4, ServerFine
    <3>5. CASE r = q /\ HandlerStep(r)
      BY <1>1, <3>1, <3>5, HandlerUndecided, HandlerBodies DEF Fine
    <3>6. CASE r = q /\ \E c \in Contexts : Arrive(r, c) \/ Limited(r, c)
      BY <1>1, <3>1, <3>6, ComeFine DEF Own
    <3> QED BY <2>1, <3>2, <3>3, <3>4, <3>5, <3>6 DEF Step
  <2> QED BY <1>2, <2>2, <2>4 DEF SoleInv
<1> QED BY <1>3, <1>4 DEF Next, Step, Finished

(* A request with a context of its own is answered once and by its own        *)
(* stages, however the deadline, the handlers and the orphans of other        *)
(* requests interleave (middleware/error.go, middleware/timeout.go).          *)
THEOREM AnswersAreSole == Spec => []SoleAnswer
<1>1. Spec => []SoleInv
  BY InitSole, NextSole, PTL DEF Spec
<1>2. SoleInv => SoleAnswer
  BY DEF SoleInv, Own, Fine, Bodies, Paid, SoleAnswer
<1> QED BY <1>1, <1>2, PTL

----------------------------------------------------------------------------
(* How far AtMostOneBody is off: a request with a context of its own gets one *)
(* body, and a second one only if it is late; there never is a third          *)
(* (middleware/timeout.go:37, README.md:113).                                 *)
AtMostTwoBodies == \A r \in Requests \ inherited :
    /\ Len(response[r]) <= 2
    /\ r \notin late => Len(response[r]) <= 1

THEOREM SecondBodyIsLate == Spec => []AtMostTwoBodies
<1>1. ASSUME TypeOK, SoleAnswer, NEW r \in Requests \ inherited
      PROVE  Len(response[r]) <= 2 /\ (r \notin late => Len(response[r]) <= 1)
  <2>1. Len(response[r]) \in Nat
    BY <1>1 DEF TypeOK
  <2>2. CASE r \notin late
    <3>1. response[r] = Owed(r)
      BY <1>1, <2>2 DEF SoleAnswer
    <3>2. Owed(r) = <<>> \/ Owed(r) = <<[of |-> r, kind |-> outcome[r]]>>
      BY DEF Owed
    <3>3. Len(response[r]) = 0 \/ Len(response[r]) = 1
      BY <3>1, <3>2
    <3>4. \A n : n = 0 \/ n = 1 => n <= 2 /\ n <= 1
      OBVIOUS
    <3> QED BY <3>3, <3>4
  <2>3. CASE r \in late
    <3> SUFFICES ASSUME ~(Len(response[r]) <= 2) PROVE FALSE
      BY <2>3
    <3> DEFINE kind(i) == response[r][i].kind
    <3>1. 1 \in 1..Len(response[r]) /\ 2 \in 1..Len(response[r]) /\ 3 \in 1..Len(response[r])
      BY <2>1
    <3>2. \A i \in 1..Len(response[r]) :
            /\ kind(i) = "timeout" \/ kind(i) = outcome[r]
            /\ \A j \in 1..(i - 1) : kind(j) # kind(i)
      BY <1>1 DEF SoleAnswer
    <3>3. 1 \in 1..(2 - 1) /\ 1 \in 1..(3 - 1) /\ 2 \in 1..(3 - 1)
      OBVIOUS
    <3> HIDE DEF kind
    <3>4. kind(1) # kind(2) /\ kind(1) # kind(3) /\ kind(2) # kind(3)
      BY <3>1, <3>2, <3>3
    <3> QED BY <3>1, <3>2, <3>4
  <2> QED BY <2>2, <2>3
<1>2. TypeOK /\ SoleAnswer => AtMostTwoBodies
  BY <1>1 DEF AtMostTwoBodies
<1> QED BY <1>2, TypeCorrect, AnswersAreSole, PTL

----------------------------------------------------------------------------
(* Liveness. The goroutine of the server goes through four places, and the    *)
(* deadline takes it out of the first: a fixed number of steps, each of which *)
(* fairness makes happen.                                                     *)

Waits(r)   == pc[r] = "select" /\ r \notin late
Expired(r) == pc[r] = "select" /\ r \in late
Serves(r)  == pc[r] = "errors"
Leaves(r)  == pc[r] = "leaving"
Served(r)  == pc[r] = "served"

(* No step of anybody takes r back, or anywhere but to its next place.        *)
LEMMA OnlyForward ==
  ASSUME NEW r \in Requests, TypeOK, [Next]_vars
  PROVE  /\ Waits(r) => Waits(r)' \/ Expired(r)' \/ Serves(r)'
         /\ Expired(r) => Expired(r)' \/ Serves(r)'
         /\ Serves(r) => Serves(r)' \/ Leaves(r)'
         /\ Leaves(r) => Leaves(r)' \/ Served(r)'
<1> USE DEF Waits, Expired, Serves, Leaves, Served
<1>1. CASE UNCHANGED <<pc, late>>
  BY <1>1
<1>2. CASE \E q \in Requests, c \in Contexts : Arrive(q, c) \/ Limited(q, c)
  <2>1. PICK q \in Requests, c \in Contexts : Arrive(q, c) \/ Limited(q, c)
    BY <1>2
  <2>2. /\ pc[q] = "idle" /\ late' = late
        /\ \E p \in {"select", "errors"} : pc' = [pc EXCEPT ![q] = p]
    BY <2>1 DEF Arrive, Limited, Take
  <2> QED BY <2>2 DEF TypeOK
<1>3. CASE \E q \in Requests : ContextOver(q)
  BY <1>3 DEF ContextOver
<1>4. CASE \E q \in Requests : ServerStep(q)
  <2>1. PICK q \in Requests : ServerStep(q)
    BY <1>4
  <2>2. /\ late' = late
        /\ \/ pc[q] = "select" /\ pc' = [pc EXCEPT ![q] = "errors"]
           \/ pc[q] = "errors" /\ pc' = [pc EXCEPT ![q] = "leaving"]
           \/ pc[q] = "leaving" /\ pc' = [pc EXCEPT ![q] = "served"]
    BY <2>1 DEF ServerStep, HandlerDone, TimedOut, ErrorHandler, Leave
  <2> QED BY <2>2 DEF TypeOK
<1> QED BY <1>1, <1>2, <1>3, <1>4
        DEF Next, HandlerStep, Pass, Refuse, RefuseByError, Answer, Fail, FailSilently,
            Finished, vars

(* The steps of r itself, and the deadline, take it there.                    *)
LEMMA StepForward ==
  ASSUME NEW r \in Requests, TypeOK
  PROVE  /\ Waits(r) /\ ContextOver(r) => Expired(r)'
         /\ Expired(r) /\ ServerStep(r) => Serves(r)'
         /\ Serves(r) /\ ServerStep(r) => Leaves(r)'
         /\ Leaves(r) /\ ServerStep(r) => Served(r)'
BY DEF Waits, Expired, Serves, Leaves, Served, ContextOver, ServerStep, HandlerDone,
       TimedOut, ErrorHandler, Leave, TypeOK

LEMMA AnsweredOne ==
  ASSUME NEW r \in Requests
  PROVE  Spec /\ Fairness(r) /\ []ServerNeverWaits => IsAnswered(r)
<1>1. Spec => []TypeOK
  BY TypeCorrect
<1>2. TypeOK /\ [Next]_vars =>
        /\ Waits(r) => Waits(r)' \/ Expired(r)' \/ Serves(r)'
        /\ Expired(r) => Expired(r)' \/ Serves(r)'
        /\ Serves(r) => Serves(r)' \/ Leaves(r)'
        /\ Leaves(r) => Leaves(r)' \/ Served(r)'
  BY OnlyForward
<1>3. TypeOK =>
        /\ Waits(r) /\ ContextOver(r) => Expired(r)'
        /\ Expired(r) /\ ServerStep(r) => Serves(r)'
        /\ Serves(r) /\ ServerStep(r) => Leaves(r)'
        /\ Leaves(r) /\ ServerStep(r) => Served(r)'
  BY StepForward
<1>4. ServerNeverWaits =>
        /\ Waits(r) => CanTimeOut(r)
        /\ Expired(r) \/ Serves(r) \/ Leaves(r) => CanServe(r)
  BY DEF ServerNeverWaits, Waits, Expired, Serves, Leaves
<1>5. Spec /\ Fairness(r) /\ []ServerNeverWaits => (Waits(r) \/ Expired(r) ~> Served(r))
  BY <1>1, <1>2, <1>3, <1>4, PTL DEF Spec, Fairness, CanTimeOut, CanServe
<1>6. pc[r] = "select" => Waits(r) \/ Expired(r)
  BY DEF Waits, Expired
<1>7. Served(r) => pc[r] = "served"
  BY DEF Served
<1> QED BY <1>5, <1>6, <1>7, PTL DEF IsAnswered

(* A request that reached Timeout is answered, whatever its handler does: a   *)
(* consequence of the fairness of the server's own goroutine and of           *)
(* ServerNeverWaits, the one fact about ENABLED it rests on (timeout.go:35).  *)
THEOREM EveryoneGetsAnswered == FairSpec /\ []ServerNeverWaits => EveryoneIsAnswered
<1>1. ASSUME NEW r \in Requests
      PROVE  FairSpec /\ []ServerNeverWaits => IsAnswered(r)
  <2>1. Spec /\ Fairness(r) /\ []ServerNeverWaits => IsAnswered(r)
    BY AnsweredOne
  <2>2. FairSpec => Spec /\ Fairness(r)
    BY DEF FairSpec
  <2> QED BY <2>1, <2>2, PTL
<1>2. FairSpec /\ []ServerNeverWaits => \A r \in Requests : IsAnswered(r)
  BY <1>1
<1> QED BY <1>2 DEF EveryoneIsAnswered
=============================================================================
