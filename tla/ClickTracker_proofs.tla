------------------------ MODULE ClickTracker_proofs ------------------------
(***************************************************************************)
(* The click tracker is type correct, loses and doubles no click between   *)
(* the handlers and MySQL, and is closed only after the handlers: for any  *)
(* number of links and requests, any capacity and any clean-up period.     *)
(* A shutdown ends, and loses little.                                      *)
(*                                                                         *)
(* ClicksConserved is inductive with the types.  The order of the shutdown *)
(* needs ShutdownOrder: srv.Shutdown reports done once no request is in    *)
(* flight or its context has expired, main stops only on that report, and  *)
(* no request comes in after the signal.                                   *)
(***************************************************************************)
EXTENDS ClickTracker, FiniteSetTheorems, FunctionTheorems,
        SequenceTheorems, TLAPS

(* The order of the shutdown, from the signal to close(clickCh).           *)
ShutdownOrder ==
  /\ done => main # "serving" /\ (InFlight = {} \/ expired)
  /\ main = "stopped" => done
  /\ ~chOpen => done

IInv == TypeOK /\ ClicksConserved /\ ShutdownOrder

----------------------------------------------------------------------------
(* Counting in a channel.                                                  *)

(* The positions counted are finitely many.                                *)
LEMMA CountFinite ==
  ASSUME NEW s \in Seq(Ids), NEW i
  PROVE  /\ IsFiniteSet({n \in DOMAIN s : s[n] = i})
         /\ Count(s, i) \in Nat
<1>1. IsFiniteSet(1 .. Len(s))
  BY FS_Interval
<1>2. {n \in DOMAIN s : s[n] = i} \in SUBSET (1 .. Len(s))
  OBVIOUS
<1>3. IsFiniteSet({n \in DOMAIN s : s[n] = i})
  BY <1>1, <1>2, FS_Subset
<1>. QED BY <1>3, FS_CardinalityType DEF Count

LEMMA CountIsNat ==
  ASSUME NEW s \in Seq(Ids), NEW i
  PROVE  Count(s, i) \in Nat
BY CountFinite

(* A send adds one to the count of its id.                                 *)
LEMMA CountAppend ==
  ASSUME NEW s \in Seq(Ids), NEW x \in Ids, NEW i
  PROVE  Count(Append(s, x), i) = Count(s, i) + (IF x = i THEN 1 ELSE 0)
<1>. DEFINE P == {n \in DOMAIN s : s[n] = i}
           Q == {n \in DOMAIN Append(s, x) : Append(s, x)[n] = i}
           l == Len(s) + 1
<1>1. Count(s, i) = Cardinality(P) /\ Count(Append(s, x), i) = Cardinality(Q)
  BY DEF Count
<1>2. Count(s, i) \in Nat /\ IsFiniteSet(P)
  BY CountFinite
<1>3. l \notin P
  OBVIOUS
<1>4. CASE x = i
  <2>1. Q = P \cup {l}
    BY <1>4
  <2>2. Cardinality(P \cup {l}) = Cardinality(P) + 1
    BY <1>2, <1>3, FS_AddElement
  <2>. QED BY <1>1, <1>4, <2>1, <2>2
<1>5. CASE x # i
  <2>1. Q = P
    BY <1>5
  <2>. HIDE DEF P, Q
  <2>. QED BY <1>1, <1>2, <1>5, <2>1
<1>. QED BY <1>4, <1>5

(* A receive takes one from the count of its id.                           *)
LEMMA CountTail ==
  ASSUME NEW s \in Seq(Ids), s # <<>>, NEW i
  PROVE  Count(Tail(s), i) = Count(s, i) - (IF Head(s) = i THEN 1 ELSE 0)
<1>. DEFINE P == {n \in DOMAIN s : s[n] = i}
           Q == {n \in DOMAIN Tail(s) : Tail(s)[n] = i}
           f == [n \in Q |-> n + 1]
<1>1. IsFiniteSet(P)
  BY CountFinite
<1>c. Count(s, i) = Cardinality(P) /\ Count(Tail(s), i) = Cardinality(Q)
  BY DEF Count
<1>n. IsFiniteSet(Q) /\ Count(s, i) \in Nat /\ Count(Tail(s), i) \in Nat
  <2>1. Tail(s) \in Seq(Ids)
    OBVIOUS
  <2>. QED BY <2>1, CountFinite
<1>2. f \in Bijection(Q, P \ {1})
  <2>1. \A n \in Q : n \in Nat /\ n + 1 \in P \ {1}
    OBVIOUS
  <2>2. \A m \in P \ {1} : m - 1 \in Q /\ (m - 1) + 1 = m
    OBVIOUS
  <2>3. f \in [Q -> P \ {1}]
    BY <2>1
  <2>4. \A a, b \in Q : f[a] = f[b] => a = b
    BY <2>1
  <2>5. \A m \in P \ {1} : \E n \in Q : f[n] = m
    BY <2>2
  <2>. QED BY <2>3, <2>4, <2>5, Fun_IsBij
<1>3. Cardinality(Q) = Cardinality(P \ {1})
  <2>1. ExistsBijection(Q, P \ {1})
    BY <1>2, Fun_ExistsBij
  <2>. QED BY <1>n, <2>1, FS_Bijection
<1>4. 1 \in P <=> Head(s) = i
  OBVIOUS
<1>5. Cardinality(P \ {1}) = IF 1 \in P THEN Cardinality(P) - 1 ELSE Cardinality(P)
  BY <1>1, FS_RemoveElement
<1>. HIDE DEF P, Q
<1>. QED BY <1>c, <1>n, <1>3, <1>4, <1>5

----------------------------------------------------------------------------
(* Types.                                                                  *)

LEMMA TypeInit == Init => TypeOK
<1>. SUFFICES ASSUME Init PROVE TypeOK
  OBVIOUS
<1>. USE TrackerAssumption DEF Init
<1>1. clickCh \in Seq(Ids) /\ Len(clickCh) <= ChanCap
  OBVIOUS
<1>2. /\ recentIDs \in [Ids -> 0 .. Forgotten] /\ processed \in 0 .. CleanEvery - 1
      /\ sinceTick \in 0 .. Minute - 1
  BY DEF Forgotten
<1>3. req \in [Requests -> [pc : {"idle", "lookup"}] \cup [pc : {"load", "send"}, id : Ids]]
  OBVIOUS
<1>4. worker \in [pc : {"select", "stopped"}] /\ owed \in [Ids -> Int]
  OBVIOUS
<1>5. orphan \in [Requests -> BOOLEAN]
  OBVIOUS
<1>. QED BY <1>1, <1>2, <1>3, <1>4, <1>5 DEF TypeOK

(* The steps of the requests keep the types.                               *)
LEMMA RequestTypes ==
  ASSUME TypeOK, NEW r \in Requests, Arrive(r) \/ HandlerStep(r) \/ Timeout(r)
  PROVE  TypeOK'
<1>. USE DEF TypeOK, chanVars, clockVars, workerVars, mainVars, reqVars
<1>1. CASE Arrive(r)
  BY <1>1 DEF Arrive, Goto
<1>2. CASE ReturnUntracked(r)
  BY <1>2 DEF ReturnUntracked, Return
<1>3. CASE \E i \in Ids : ReadFromDB(r, i)
  BY <1>3 DEF ReadFromDB, Goto
<1>4. CASE NotClickedLately(r)
  <2>1. req[r].id \in Ids
    BY <1>4 DEF NotClickedLately
  <2>. QED BY <1>4, <2>1 DEF NotClickedLately, Goto
<1>5. CASE AlreadyClicked(r)
  BY <1>5 DEF AlreadyClicked, Return
<1>6. CASE Send(r)
  <2>1. req[r].id \in Ids
    BY <1>6 DEF Send
  <2>2. clickCh' \in Seq(Ids) /\ Len(clickCh') <= ChanCap
    BY <1>6, <2>1, TrackerAssumption DEF Send
  <2>3. owed' \in [Ids -> Int]
    BY <1>6, <2>1 DEF Send
  <2>. QED BY <1>6, <2>2, <2>3 DEF Send, Return
<1>7. CASE Drop(r)
  BY <1>7 DEF Drop, Return
<1>8. CASE SendOnClosed(r)
  BY <1>8 DEF SendOnClosed, Return
<1>9. CASE Timeout(r)
  BY <1>9 DEF Timeout
<1>. QED BY <1>1, <1>2, <1>3, <1>4, <1>5, <1>6, <1>7, <1>8, <1>9 DEF HandlerStep

(* The steps of the worker and of the clock keep the types.                *)
LEMMA WorkerTypes ==
  ASSUME TypeOK,
         \/ Receive \/ ReceiveClosed \/ Increment \/ Store
         \/ CleanOnTick \/ Cancelled \/ Pass
  PROVE  TypeOK'
<1>. USE TrackerAssumption DEF TypeOK, chanVars, clockVars, workerVars, mainVars, reqVars
<1>c. ASSUME NEW ids \in [Ids -> 0 .. Forgotten] PROVE Cleaned(ids) \in [Ids -> 0 .. Forgotten]
  BY DEF Cleaned, Forgotten
<1>1. CASE Receive
  <2>1. /\ Head(clickCh) \in Ids /\ Tail(clickCh) \in Seq(Ids)
        /\ Len(Tail(clickCh)) <= ChanCap
    BY <1>1 DEF Receive
  <2>. QED BY <1>1, <2>1 DEF Receive
<1>2. CASE ReceiveClosed \/ Cancelled
  BY <1>2 DEF ReceiveClosed, Cancelled
<1>3. CASE Increment
  <2>1. worker.id \in Ids
    BY <1>3 DEF Increment
  <2>. QED BY <1>3, <2>1 DEF Increment
<1>4. CASE Store
  <2>1. worker.id \in Ids
    BY <1>4 DEF Store
  <2>2. [recentIDs EXCEPT ![worker.id] = 0] \in [Ids -> 0 .. Forgotten]
    BY <2>1 DEF Forgotten
  <2>3. recentIDs' \in [Ids -> 0 .. Forgotten]
    BY <1>4, <2>2, <1>c DEF Store
  <2>4. processed' \in 0 .. CleanEvery - 1
    BY <1>4 DEF Store
  <2>. QED BY <1>4, <2>3, <2>4 DEF Store
<1>5. CASE CleanOnTick
  BY <1>5, <1>c DEF CleanOnTick
<1>6. CASE Pass
  <2>1. recentIDs' \in [Ids -> 0 .. Forgotten]
    BY <1>6 DEF Pass, Old, Forgotten
  <2>2. sinceTick' \in 0 .. Minute - 1
    BY <1>6 DEF Pass
  <2>3. tickReady' \in BOOLEAN
    BY <1>6 DEF Pass
  <2>. QED BY <1>6, <2>1, <2>2, <2>3 DEF Pass
<1>. QED BY <1>1, <1>2, <1>3, <1>4, <1>5, <1>6

(* The steps of main keep the types.                                       *)
LEMMA MainTypes ==
  ASSUME TypeOK,
         \/ Signal \/ ShutdownReturns \/ ShutdownExpires
         \/ ServerStopped \/ ForceExit \/ Close \/ Cancel \/ Exit
  PROVE  TypeOK'
BY DEF TypeOK, chanVars, clockVars, workerVars, mainVars, reqVars, MainStep,
       Signal, ShutdownReturns, ShutdownExpires, ServerStopped, ForceExit,
       Close, Cancel, Exit
LEMMA NextTypes == TypeOK /\ [Next]_vars => TypeOK'
<1>1. TypeOK /\ UNCHANGED vars => TypeOK'
  BY DEF TypeOK, vars, chanVars, clockVars, workerVars, mainVars, reqVars
<1>. QED BY <1>1, RequestTypes, WorkerTypes, MainTypes DEF Next

----------------------------------------------------------------------------
(* Conservation: a send and a receive move the count, an increment takes   *)
(* the click out of the worker's hand; no other step touches it.           *)

LEMMA ConservedInit == Init => ClicksConserved
<1>. SUFFICES ASSUME Init, NEW i \in Ids PROVE owed[i] = Count(clickCh, i) + InHand(i)
  BY DEF ClicksConserved
<1>1. {n \in DOMAIN clickCh : clickCh[n] = i} = {}
  BY DEF Init
<1>2. Count(clickCh, i) = 0
  BY <1>1, FS_EmptySet DEF Count
<1>. QED BY <1>2 DEF Init, InHand

LEMMA SendConserves ==
  ASSUME TypeOK, ClicksConserved, NEW r \in Requests, Send(r)
  PROVE  ClicksConserved'
<1>. SUFFICES ASSUME NEW i \in Ids PROVE owed'[i] = Count(clickCh', i) + InHand(i)'
  BY DEF ClicksConserved
<1>1. clickCh \in Seq(Ids) /\ req[r].id \in Ids /\ owed \in [Ids -> Int]
  BY DEF TypeOK, Send
<1>2. Count(clickCh', i) = Count(clickCh, i) + (IF req[r].id = i THEN 1 ELSE 0)
  BY <1>1, CountAppend DEF Send
<1>3. InHand(i)' = InHand(i) /\ InHand(i) \in Int
  BY DEF Send, Return, workerVars, InHand
<1>4. owed'[i] = owed[i] + (IF req[r].id = i THEN 1 ELSE 0)
  BY <1>1 DEF Send
<1>5. owed[i] = Count(clickCh, i) + InHand(i) /\ Count(clickCh, i) \in Int
  BY <1>1, CountIsNat DEF ClicksConserved
<1>. QED BY <1>2, <1>3, <1>4, <1>5

LEMMA ReceiveConserves ==
  ASSUME TypeOK, ClicksConserved, Receive
  PROVE  ClicksConserved'
<1>. SUFFICES ASSUME NEW i \in Ids PROVE owed'[i] = Count(clickCh', i) + InHand(i)'
  BY DEF ClicksConserved
<1>1. clickCh \in Seq(Ids) /\ clickCh # <<>> /\ Head(clickCh) \in Ids
  BY DEF TypeOK, Receive
<1>2. Count(clickCh', i) = Count(clickCh, i) - (IF Head(clickCh) = i THEN 1 ELSE 0)
  BY <1>1, CountTail DEF Receive
<1>3. InHand(i) = 0 /\ InHand(i)' = IF Head(clickCh) = i THEN 1 ELSE 0
  BY DEF Receive, Select, InHand
<1>4. owed' = owed /\ owed[i] = Count(clickCh, i) + InHand(i) /\ Count(clickCh, i) \in Int
  BY <1>1, CountIsNat DEF Receive, ClicksConserved
<1>. QED BY <1>2, <1>3, <1>4

LEMMA IncrementConserves ==
  ASSUME TypeOK, ClicksConserved, Increment
  PROVE  ClicksConserved'
<1>. SUFFICES ASSUME NEW i \in Ids PROVE owed'[i] = Count(clickCh', i) + InHand(i)'
  BY DEF ClicksConserved
<1>1. worker \in [pc : {"increment", "store"}, id : Ids] /\ worker.pc = "increment"
  BY DEF TypeOK, Increment
<1>2. InHand(i)' = 0 /\ InHand(i) = IF worker.id = i THEN 1 ELSE 0
  BY <1>1 DEF Increment, InHand
<1>3. owed'[i] = owed[i] - (IF worker.id = i THEN 1 ELSE 0)
  BY <1>1 DEF TypeOK, Increment
<1>4. clickCh' = clickCh /\ Count(clickCh, i) \in Int
  BY CountIsNat DEF TypeOK, Increment, chanVars
<1>5. owed[i] = Count(clickCh, i) + InHand(i)
  BY DEF ClicksConserved
<1>. QED BY <1>2, <1>3, <1>4, <1>5

(* The other steps leave the channel and the worker's hand as they are.    *)
LEMMA OthersConserve ==
  ASSUME TypeOK, ClicksConserved, UNCHANGED <<clickCh, owed>>,
         \A i \in Ids : InHand(i)' = InHand(i)
  PROVE  ClicksConserved'
BY DEF ClicksConserved

LEMMA NextConserves == TypeOK /\ ClicksConserved /\ [Next]_vars => ClicksConserved'
<1>. SUFFICES ASSUME TypeOK, ClicksConserved, [Next]_vars PROVE ClicksConserved'
  OBVIOUS
<1>. USE DEF chanVars, clockVars, workerVars, mainVars, reqVars
<1>1. ASSUME NEW r \in Requests, Arrive(r) \/ HandlerStep(r) \/ Timeout(r)
      PROVE  ClicksConserved'
  <2>1. CASE Send(r)
    BY <2>1, SendConserves
  <2>2. CASE ~Send(r)
    <3>1. UNCHANGED <<clickCh, owed, worker>>
      BY <1>1, <2>2 DEF Arrive, HandlerStep, Timeout, ReturnUntracked, ReadFromDB,
         NotClickedLately, AlreadyClicked, Drop, SendOnClosed, Goto, Return
    <3>. QED BY <3>1, OthersConserve DEF InHand
  <2>. QED BY <2>1, <2>2
<1>2. CASE Store \/ ReceiveClosed \/ Cancelled
  <2>1. UNCHANGED <<clickCh, owed>>
    BY <1>2 DEF Store, ReceiveClosed, Cancelled
  <2>2. worker.pc # "increment" /\ worker'.pc # "increment"
    BY <1>2 DEF Store, ReceiveClosed, Cancelled, Select
  <2>. QED BY <2>1, <2>2, OthersConserve DEF InHand
<1>3. CASE \/ CleanOnTick \/ Pass
           \/ Signal \/ ShutdownReturns \/ ShutdownExpires
           \/ ServerStopped \/ ForceExit \/ Close \/ Cancel \/ Exit
           \/ UNCHANGED vars
  <2>1. UNCHANGED <<clickCh, owed, worker>>
    BY <1>3 DEF CleanOnTick, Pass, Signal, ShutdownReturns, ShutdownExpires,
       ServerStopped, ForceExit, Close, Cancel, Exit, MainStep, vars
  <2>. QED BY <2>1, OthersConserve DEF InHand
<1>. QED BY <1>1, <1>2, <1>3, ReceiveConserves, IncrementConserves DEF Next

----------------------------------------------------------------------------
(* The order of the shutdown.                                              *)

(* Once the server no longer serves, requests in flight only become fewer. *)
LEMMA InFlightShrinks ==
  ASSUME TypeOK, main # "serving", [Next]_vars
  PROVE  InFlight' \subseteq InFlight
<1>. USE DEF chanVars, clockVars, workerVars, mainVars, reqVars
<1>1. CASE UNCHANGED <<req, orphan>>
  BY <1>1 DEF InFlight
<1>2. ASSUME NEW r \in Requests, HandlerStep(r) \/ Timeout(r)
      PROVE  InFlight' \subseteq InFlight
  <2>1. /\ \A q \in Requests \ {r} : req'[q] = req[q] /\ orphan'[q] = orphan[q]
        /\ req[r].pc # "idle"
        /\ orphan'[r] = orphan[r] \/ req'[r].pc = "idle" \/ orphan'[r]
    BY <1>2 DEF TypeOK, HandlerStep, Timeout, ReturnUntracked, ReadFromDB,
       NotClickedLately, AlreadyClicked, Send, Drop, SendOnClosed, Goto, Return
  <2>. QED BY <2>1 DEF InFlight
<1>3. \/ UNCHANGED <<req, orphan>>
      \/ \E r \in Requests : HandlerStep(r) \/ Timeout(r)
  BY DEF Next, Arrive, Receive, ReceiveClosed, Increment, Store, CleanOnTick,
     Cancelled, Pass, Signal, ShutdownReturns, ShutdownExpires, ServerStopped,
     ForceExit, Close, Cancel, Exit, MainStep, vars
<1>. QED BY <1>1, <1>2, <1>3

LEMMA NextKeepsOrder == TypeOK /\ ShutdownOrder /\ [Next]_vars => ShutdownOrder'
<1>. SUFFICES ASSUME TypeOK, ShutdownOrder, [Next]_vars PROVE ShutdownOrder'
  OBVIOUS
<1>. USE DEF chanVars, clockVars, workerVars, mainVars, reqVars
<1>1. CASE UNCHANGED <<main, expired, done, chOpen>>
  BY <1>1, InFlightShrinks DEF ShutdownOrder
<1>2. CASE \E r \in Requests : SendOnClosed(r)
  BY <1>2, InFlightShrinks DEF ShutdownOrder, SendOnClosed
<1>3. CASE \/ Signal \/ ShutdownReturns \/ ShutdownExpires
           \/ ServerStopped \/ ForceExit \/ Close \/ Cancel \/ Exit
  <2>1. UNCHANGED InFlight
    BY <1>3 DEF Signal, ShutdownReturns, ShutdownExpires, ServerStopped, ForceExit,
       Close, Cancel, Exit, MainStep, InFlight
  <2>. QED BY <1>3, <2>1 DEF ShutdownOrder, Signal, ShutdownReturns, ShutdownExpires,
       ServerStopped, ForceExit, Close, Cancel, Exit
<1>4. \/ UNCHANGED <<main, expired, done, chOpen>>
      \/ \E r \in Requests : SendOnClosed(r)
      \/ Signal \/ ShutdownReturns \/ ShutdownExpires
      \/ ServerStopped \/ ForceExit \/ Close \/ Cancel \/ Exit
  BY DEF Next, Arrive, HandlerStep, Timeout, ReturnUntracked, ReadFromDB,
     NotClickedLately, AlreadyClicked, Send, Drop, Goto, Return, Receive,
     ReceiveClosed, Increment, Store, CleanOnTick, Cancelled, Pass, vars
<1>. QED BY <1>1, <1>2, <1>3, <1>4

----------------------------------------------------------------------------
(* The invariant, and what follows from it.                                *)

THEOREM InductiveInvariant == Spec => []IInv
<1>1. Init => IInv
  BY TypeInit, ConservedInit DEF IInv, ShutdownOrder, Init
<1>2. IInv /\ [Next]_vars => IInv'
  BY NextTypes, NextConserves, NextKeepsOrder DEF IInv
<1>. QED BY <1>1, <1>2, PTL DEF Spec

(* Every variable keeps its type.                                          *)
THEOREM TypeCorrect == Spec => []TypeOK
BY InductiveInvariant, PTL DEF IInv

(* No click is lost or doubled between the handlers and MySQL.             *)
THEOREM ClicksAreConserved == Spec => []ClicksConserved
BY InductiveInvariant, PTL DEF IInv

(* The channel is closed after the handlers the server still waits for.    *)
THEOREM ClosedLast == Spec => []ClosedAfterHandlers
<1>1. IInv => ClosedAfterHandlers
  BY DEF IInv, ShutdownOrder, ClosedAfterHandlers
<1>. QED BY <1>1, InductiveInvariant, PTL

----------------------------------------------------------------------------
(* What a shutdown can lose. ShutdownDrains does not hold: main does not   *)
(* wait for the worker. A worker that stops before main cancels it has     *)
(* found the channel closed and empty, and no one can fill it again.       *)
DrainInv ==
  /\ main \in {"closed", "cancelled", "exited"} => ~chOpen
  /\ worker.pc = "stopped" =>
       /\ ~chOpen
       /\ clickCh = <<>> \/ main \in {"cancelled", "exited", "panicked"}

LEMMA NextDrains == TypeOK /\ DrainInv /\ [Next]_vars => DrainInv'
<1>. SUFFICES ASSUME TypeOK, DrainInv, [Next]_vars PROVE DrainInv'
  OBVIOUS
<1>. USE DEF chanVars, clockVars, workerVars, mainVars, reqVars, DrainInv
<1>1. ASSUME NEW r \in Requests, Arrive(r) \/ HandlerStep(r) \/ Timeout(r)
      PROVE  DrainInv'
  <2>1. CASE Send(r)
    BY <2>1 DEF Send, Return
  <2>2. CASE SendOnClosed(r)
    BY <2>2 DEF SendOnClosed, Return
  <2>3. CASE ~Send(r) /\ ~SendOnClosed(r)
    <3>1. UNCHANGED <<clickCh, chOpen, main, worker>>
      BY <1>1, <2>3 DEF Arrive, HandlerStep, Timeout, ReturnUntracked, ReadFromDB,
         NotClickedLately, AlreadyClicked, Drop, Goto, Return
    <3>. QED BY <3>1
  <2>. QED BY <2>1, <2>2, <2>3
<1>2. CASE Receive \/ Increment \/ Store
  BY <1>2 DEF Receive, Increment, Store, Select
<1>3. CASE ReceiveClosed \/ Cancelled
  BY <1>3 DEF ReceiveClosed, Cancelled, Select
<1>4. CASE CleanOnTick \/ Pass \/ UNCHANGED vars
  BY <1>4 DEF CleanOnTick, Pass, vars
<1>5. CASE Signal \/ ShutdownReturns \/ ShutdownExpires \/ ServerStopped \/ ForceExit
  BY <1>5 DEF Signal, ShutdownReturns, ShutdownExpires, ServerStopped, ForceExit, MainStep
<1>6. CASE Close \/ Cancel \/ Exit
  BY <1>6 DEF Close, Cancel, Exit, MainStep
<1>. QED BY <1>1, <1>2, <1>3, <1>4, <1>5, <1>6 DEF Next

(* No link has more clicks in the channel than the channel holds.          *)
LEMMA CountIsBounded ==
  ASSUME NEW s \in Seq(Ids), NEW i
  PROVE  Count(s, i) <= Len(s) /\ (s = <<>> => Count(s, i) = 0)
<1>1. {n \in DOMAIN s : s[n] = i} \subseteq 1 .. Len(s)
  OBVIOUS
<1>2. IsFiniteSet(1 .. Len(s)) /\ Cardinality(1 .. Len(s)) = Len(s)
  <2>1. Len(s) \in Nat
    OBVIOUS
  <2>. QED BY <2>1, FS_Interval
<1>3. Count(s, i) <= Len(s)
  BY <1>1, <1>2, FS_Subset DEF Count
<1>4. s = <<>> => Len(s) = 0
  OBVIOUS
<1>. QED BY <1>3, <1>4, CountIsNat

(* Of no link are more clicks lost than the channel holds and one, and     *)
(* none if the worker stops before it is cancelled.                        *)
LossIsBounded ==
  /\ \A i \in Ids : owed[i] <= ChanCap + 1
  /\ worker.pc = "stopped" /\ main \notin {"cancelled", "exited", "panicked"} =>
       \A i \in Ids : owed[i] = 0

(* However the process ends, of each link it loses at most the clicks the  *)
(* channel holds and the one in the worker's hand; and it loses none that  *)
(* was accepted if the worker is given the time to find the channel closed *)
(* and empty before the deferred workerCancel (main.go:149-161,            *)
(* url_service.go, clickWorker and Close).                                 *)
THEOREM ShutdownLosesLittle == Spec => []LossIsBounded
<1>1. Init => DrainInv
  BY DEF Init, DrainInv
<1>2. IInv /\ DrainInv /\ [Next]_vars => DrainInv'
  BY NextDrains DEF IInv
<1>3. IInv /\ DrainInv => LossIsBounded
  <2>. SUFFICES ASSUME IInv, DrainInv PROVE LossIsBounded
    OBVIOUS
  <2>1. ASSUME NEW i \in Ids
        PROVE  /\ owed[i] = Count(clickCh, i) + InHand(i)
               /\ Count(clickCh, i) \in Nat /\ Count(clickCh, i) <= ChanCap
               /\ InHand(i) \in {0, 1}
               /\ worker.pc = "stopped" => InHand(i) = 0
               /\ clickCh = <<>> => Count(clickCh, i) = 0
    <3>1. clickCh \in Seq(Ids) /\ Len(clickCh) <= ChanCap
      BY DEF IInv, TypeOK
    <3>2. /\ Count(clickCh, i) \in Nat /\ Count(clickCh, i) <= Len(clickCh)
          /\ clickCh = <<>> => Count(clickCh, i) = 0
      BY <3>1, CountIsNat, CountIsBounded
    <3>3. Len(clickCh) \in Nat
      BY <3>1
    <3>4. InHand(i) \in {0, 1} /\ (worker.pc = "stopped" => InHand(i) = 0)
      BY DEF InHand
    <3>5. owed[i] = Count(clickCh, i) + InHand(i)
      BY DEF IInv, ClicksConserved
    <3>. QED BY <3>1, <3>2, <3>3, <3>4, <3>5, TrackerAssumption
  <2>2. \A i \in Ids : owed[i] <= ChanCap + 1
    BY <2>1, TrackerAssumption
  <2>3. worker.pc = "stopped" /\ main \notin {"cancelled", "exited", "panicked"} =>
          \A i \in Ids : owed[i] = 0
    <3>. SUFFICES ASSUME worker.pc = "stopped",
                         main \notin {"cancelled", "exited", "panicked"},
                         NEW i \in Ids
                  PROVE  owed[i] = 0
      OBVIOUS
    <3>1. clickCh = <<>>
      BY DEF DrainInv
    <3>2. Count(clickCh, i) = 0 /\ InHand(i) = 0 /\ owed[i] = Count(clickCh, i) + InHand(i)
      BY <2>1, <3>1
    <3>. QED BY <3>2
  <2>. QED BY <2>2, <2>3 DEF LossIsBounded
<1>. QED BY <1>1, <1>2, <1>3, InductiveInvariant, PTL DEF Spec

----------------------------------------------------------------------------
(* Liveness. From the signal on main goes through four places, the first   *)
(* one of which the end of its patience cuts short.                        *)

Patient   == main = "draining" /\ ~expired
Impatient == main = "draining" /\ expired
Stopped   == main = "stopped"
Closed    == main = "closed"
Leaving   == main = "cancelled"

(* No step takes main back; a panic is an end too.                         *)
LEMMA MainOnlyForward ==
  ASSUME [Next]_vars
  PROVE  /\ Patient => Patient' \/ Impatient' \/ Stopped' \/ Over'
         /\ Impatient => Impatient' \/ Stopped' \/ Over'
         /\ Stopped => Stopped' \/ Closed' \/ Over'
         /\ Closed => Closed' \/ Leaving' \/ Over'
         /\ Leaving => Leaving' \/ Over'
<1>. USE DEF Patient, Impatient, Stopped, Closed, Leaving, Over
<1>1. CASE UNCHANGED <<main, expired>>
  BY <1>1
<1>2. CASE \E r \in Requests : SendOnClosed(r)
  BY <1>2 DEF SendOnClosed
<1>3. CASE \/ Signal \/ ShutdownReturns \/ ShutdownExpires
           \/ ServerStopped \/ ForceExit \/ Close \/ Cancel \/ Exit
  BY <1>3 DEF Signal, ShutdownReturns, ShutdownExpires, ServerStopped, ForceExit, Close,
     Cancel, Exit
<1>4. \/ UNCHANGED <<main, expired>>
      \/ \E r \in Requests : SendOnClosed(r)
      \/ Signal \/ ShutdownReturns \/ ShutdownExpires
      \/ ServerStopped \/ ForceExit \/ Close \/ Cancel \/ Exit
  BY DEF Next, Arrive, HandlerStep, Timeout, ReturnUntracked, ReadFromDB,
     NotClickedLately, AlreadyClicked, Send, Drop, Goto, Return, Receive,
     ReceiveClosed, Increment, Store, CleanOnTick, Cancelled, Pass, vars, mainVars
<1>. QED BY <1>1, <1>2, <1>3, <1>4

(* What fairness makes happen takes main on.                               *)
LEMMA MainForward ==
  /\ Patient /\ ShutdownExpires => Impatient'
  /\ Impatient /\ MainMoves => Stopped' \/ Over'
  /\ Stopped /\ MainMoves => Closed'
  /\ Closed /\ MainMoves => Leaving'
  /\ Leaving /\ MainMoves => Over'
BY DEF Patient, Impatient, Stopped, Closed, Leaving, Over, MainMoves, ShutdownExpires,
   ServerStopped, ForceExit, Close, Cancel, Exit

(* A signal ends the process, whatever hangs: a consequence of the         *)
(* fairness of main and of NoneWaitForWorker, which says what is enabled   *)
(* (main.go:151-157, the select, and what follows it).                     *)
THEOREM ShutdownsEnd == FairSpec /\ []NoneWaitForWorker => ShutdownEnds
<1>1. [Next]_vars =>
         /\ Patient => Patient' \/ Impatient' \/ Stopped' \/ Over'
         /\ Impatient => Impatient' \/ Stopped' \/ Over'
         /\ Stopped => Stopped' \/ Closed' \/ Over'
         /\ Closed => Closed' \/ Leaving' \/ Over'
         /\ Leaving => Leaving' \/ Over'
  BY MainOnlyForward
<1>2. /\ Patient /\ (~Over /\ ShutdownExpires) => Impatient'
      /\ Impatient /\ MainMoves => Stopped' \/ Over'
      /\ Stopped /\ MainMoves => Closed'
      /\ Closed /\ MainMoves => Leaving'
      /\ Leaving /\ MainMoves => Over'
  BY MainForward
<1>3. NoneWaitForWorker =>
         /\ Patient => ShutdownCanExpire
         /\ Impatient \/ Stopped \/ Closed \/ Leaving => MainCanMove
  BY DEF NoneWaitForWorker, Patient, Impatient, Stopped, Closed, Leaving
<1>4. FairSpec /\ []NoneWaitForWorker => (Patient \/ Impatient ~> Over)
  BY <1>1, <1>2, <1>3, PTL
  DEF FairSpec, Spec, MainFairness, ShutdownCanExpire, MainCanMove
<1>5. main = "draining" => Patient \/ Impatient
  BY DEF Patient, Impatient
<1>. QED BY <1>4, <1>5, PTL DEF ShutdownEnds
============================================================================
