---------------------------- MODULE ClickTracker ----------------------------
(***************************************************************************)
(* Click counting and the shutdown of the server.                          *)
(*                                                                         *)
(* The last step of GetByShortCode hands the link's id to a buffered       *)
(* channel, unless the id was clicked lately or the channel is full; one   *)
(* worker goroutine takes the ids out, increments the counters in MySQL    *)
(* and remembers when.  On SIGTERM main stops the HTTP server, closes the  *)
(* channel and returns, which ends the process and every goroutine in it.  *)
(*                                                                         *)
(* A handler runs in a goroutine of the Timeout middleware: when the       *)
(* timeout comes first the server has answered for it and no longer waits  *)
(* for it, but it runs on (an orphan).                                     *)
(*                                                                         *)
(* Time is kept as ages, in units of which Minute make a minute.           *)
(***************************************************************************)
EXTENDS Integers, FiniteSets, Sequences

CONSTANTS
  Ids,          \* links
  Requests,     \* concurrent requests for GET /:code
  ChanCap,      \* capacity of clickCh (100)
  CleanEvery,   \* clicks between two clean-ups (100)
  Minute        \* the period of the ticker, and how long a click suppresses

ASSUME TrackerAssumption == /\ ChanCap \in Nat \ {0}
                            /\ CleanEvery \in Nat \ {0}
                            /\ Minute \in Nat \ {0}

VARIABLES
  clickCh,      \* buffered ids
  chOpen,       \* clickCh has not been closed
  recentIDs,    \* recentIDs[i]: age of the click remembered for i; or Forgotten
  worker,       \* where clickWorker is, and the id it works on
  processed,    \* processedCount
  sinceTick,    \* time since the last tick of cleanTicker
  tickReady,    \* a tick waits in cleanTicker.C
  req,          \* req[r]: where request r is, and the id it tracks
  orphan,       \* orphan[r]: r's timeout has come, the server let go of it
  main,         \* where main is
  expired,      \* shutdownCtx has expired
  done,         \* srv.Shutdown has returned
  owed          \* history: owed[i], sends of i that no increment answered yet

workerVars == <<worker, processed>>
clockVars  == <<recentIDs, sinceTick, tickReady>>
chanVars   == <<clickCh, chOpen>>
mainVars   == <<main, expired, done>>
reqVars    == <<req, orphan>>
vars == <<chanVars, clockVars, workerVars, reqVars, mainVars, owed>>

Old       == Minute + 1         \* any age over a minute
Forgotten == Minute + 2         \* no entry in recentIDs

Over == main \in {"exited", "killed", "panicked"}

TypeOK ==
  /\ clickCh \in Seq(Ids) /\ Len(clickCh) <= ChanCap
  /\ chOpen \in BOOLEAN
  /\ recentIDs \in [Ids -> 0 .. Forgotten]
  /\ worker \in [pc : {"increment", "store"}, id : Ids]
                  \cup [pc : {"select", "stopped"}]
  /\ processed \in 0 .. CleanEvery - 1
  /\ sinceTick \in 0 .. Minute - 1
  /\ tickReady \in BOOLEAN
  /\ req \in [Requests -> [pc : {"idle", "lookup"}]
                            \cup [pc : {"load", "send"}, id : Ids]]
  /\ orphan \in [Requests -> BOOLEAN]
  /\ main \in {"serving", "draining", "stopped", "closed", "cancelled",
               "exited", "killed", "panicked"}
  /\ expired \in BOOLEAN /\ done \in BOOLEAN
  /\ owed \in [Ids -> Int]

Init ==
  /\ clickCh = <<>> /\ chOpen = TRUE
  /\ recentIDs = [i \in Ids |-> Forgotten]
  /\ worker = [pc |-> "select"] /\ processed = 0
  /\ sinceTick = 0 /\ tickReady = FALSE
  /\ req = [r \in Requests |-> [pc |-> "idle"]]
  /\ orphan = [r \in Requests |-> FALSE]
  /\ main = "serving" /\ expired = FALSE /\ done = FALSE
  /\ owed = [i \in Ids |-> 0]

----------------------------------------------------------------------------
(* Requests.                                                               *)

Goto(r, s) ==
  /\ req' = [req EXCEPT ![r] = s]
  /\ UNCHANGED <<clockVars, workerVars, mainVars, orphan>>

(* The handler returns; an orphan just ends.                               *)
Return(r) ==
  /\ req' = [req EXCEPT ![r] = [pc |-> "idle"]]
  /\ orphan' = [orphan EXCEPT ![r] = FALSE]
  /\ UNCHANGED <<clockVars, workerVars>>

(* srv.Shutdown closes the listener first: no request comes in after it.   *)
Arrive(r) ==
  /\ main = "serving" /\ req[r].pc = "idle"
  /\ Goto(r, [pc |-> "lookup"])
  /\ UNCHANGED <<chanVars, owed>>

(* A cache hit, a refusal or an error: the lookup returns before step 5.   *)
ReturnUntracked(r) ==
  /\ req[r].pc = "lookup"
  /\ Return(r)
  /\ UNCHANGED <<chanVars, mainVars, owed>>

ReadFromDB(r, i) ==
  /\ req[r].pc = "lookup"
  /\ Goto(r, [pc |-> "load", id |-> i])
  /\ UNCHANGED <<chanVars, owed>>

(* recentIDs.Load(url.ID) finds nothing, and the select is next.           *)
NotClickedLately(r) ==
  /\ req[r].pc = "load" /\ recentIDs[req[r].id] = Forgotten
  /\ Goto(r, [pc |-> "send", id |-> req[r].id])
  /\ UNCHANGED <<chanVars, owed>>

AlreadyClicked(r) ==
  /\ req[r].pc = "load" /\ recentIDs[req[r].id] # Forgotten
  /\ Return(r)
  /\ UNCHANGED <<chanVars, mainVars, owed>>

Send(r) ==
  /\ req[r].pc = "send" /\ chOpen /\ Len(clickCh) < ChanCap
  /\ clickCh' = Append(clickCh, req[r].id)
  /\ owed' = [owed EXCEPT ![req[r].id] = @ + 1]
  /\ Return(r)
  /\ UNCHANGED <<chOpen, mainVars>>

(* A send that waits for room: what the default branch is there to avoid.  *)
DropBlocking(r) == FALSE

(* The default branch of the select: the channel is full.                  *)
Drop(r) ==
  /\ req[r].pc = "send" /\ chOpen /\ Len(clickCh) = ChanCap
  /\ Return(r)
  /\ UNCHANGED <<chanVars, mainVars, owed>>

(* A send on a closed channel panics even with a default branch, in a      *)
(* goroutine that no recover guards: the process dies.                     *)
SendOnClosed(r) ==
  /\ req[r].pc = "send" /\ ~chOpen
  /\ main' = "panicked"
  /\ Return(r)
  /\ UNCHANGED <<chanVars, expired, done, owed>>

(* The Timeout middleware answers 503 in the handler's place.              *)
Timeout(r) ==
  /\ req[r].pc # "idle" /\ ~orphan[r]
  /\ orphan' = [orphan EXCEPT ![r] = TRUE]
  /\ UNCHANGED <<chanVars, clockVars, workerVars, req, mainVars, owed>>

HandlerStep(r) ==
  \/ ReturnUntracked(r)
  \/ \E i \in Ids : ReadFromDB(r, i)
  \/ NotClickedLately(r) \/ AlreadyClicked(r)
  \/ Send(r) \/ Drop(r) \/ SendOnClosed(r)

----------------------------------------------------------------------------
(* clickWorker: one step per case of its select, and per call in a case.   *)

Select == worker.pc = "select"

Receive ==
  /\ Select /\ clickCh # <<>>
  /\ worker' = [pc |-> "increment", id |-> Head(clickCh)]
  /\ clickCh' = Tail(clickCh)
  /\ UNCHANGED <<chOpen, clockVars, processed, reqVars, mainVars, owed>>

(* A closed channel gives out what it still holds before it says so.       *)
ReceiveClosed ==
  /\ Select /\ ~chOpen /\ clickCh = <<>>
  /\ worker' = [pc |-> "stopped"]
  /\ UNCHANGED <<chanVars, clockVars, processed, reqVars, mainVars, owed>>

(* A worker that gives a failed increment another try through the channel. *)
IncrementRequeuing ==
  /\ worker.pc = "increment"
  /\ worker' = [pc |-> "store", id |-> worker.id]
  /\ owed' = [owed EXCEPT ![worker.id] = @ - 1]
  /\ clickCh' \in {clickCh, Append(clickCh, worker.id)}
  /\ UNCHANGED <<chOpen, clockVars, processed, reqVars, mainVars>>

(* A worker that returns on the first error.                               *)
IncrementOrStop ==
  /\ worker.pc = "increment"
  /\ worker' \in {[pc |-> "store", id |-> worker.id], [pc |-> "stopped"]}
  /\ owed' = [owed EXCEPT ![worker.id] = @ - 1]
  /\ UNCHANGED <<chanVars, clockVars, processed, reqVars, mainVars>>

(* IncrementClicks, under a context of its own of 5 s.  An error is only   *)
(* logged: whether the counter was incremented changes nothing that        *)
(* follows.                                                                *)
Increment ==
  /\ worker.pc = "increment"
  /\ worker' = [pc |-> "store", id |-> worker.id]
  /\ owed' = [owed EXCEPT ![worker.id] = @ - 1]
  /\ UNCHANGED <<chanVars, clockVars, processed, reqVars, mainVars>>

(* cleanRecentIDs drops what is older than a minute.                       *)
Cleaned(ids) == [i \in Ids |-> IF ids[i] = Old THEN Forgotten ELSE ids[i]]

(* A worker that forgets to start counting again.                          *)
StoreWithoutReset ==
  /\ worker.pc = "store"
  /\ worker' = [pc |-> "select"]
  /\ LET ids == [recentIDs EXCEPT ![worker.id] = 0]
     IN  recentIDs' = IF processed + 1 < CleanEvery THEN ids ELSE Cleaned(ids)
  /\ processed' = processed + 1
  /\ UNCHANGED <<chanVars, sinceTick, tickReady, reqVars, mainVars, owed>>

(* recentIDs.Store, and a clean-up after every CleanEvery clicks.          *)
Store ==
  /\ worker.pc = "store"
  /\ worker' = [pc |-> "select"]
  /\ LET ids == [recentIDs EXCEPT ![worker.id] = 0]
     IN  \/ /\ processed + 1 < CleanEvery
            /\ recentIDs' = ids /\ processed' = processed + 1
         \/ /\ processed + 1 = CleanEvery
            /\ recentIDs' = Cleaned(ids) /\ processed' = 0
  /\ UNCHANGED <<chanVars, sinceTick, tickReady, reqVars, mainVars, owed>>

(* A worker without the minute clean-up: only clicks drive it.             *)
CleanOnTickIdle ==
  /\ Select /\ tickReady
  /\ tickReady' = FALSE
  /\ UNCHANGED <<chanVars, recentIDs, sinceTick, workerVars, reqVars, mainVars, owed>>

CleanOnTick ==
  /\ Select /\ tickReady
  /\ tickReady' = FALSE
  /\ recentIDs' = Cleaned(recentIDs)
  /\ UNCHANGED <<chanVars, sinceTick, workerVars, reqVars, mainVars, owed>>

(* ctx.Done: main cancels the worker's context in a deferred call.         *)
Cancelled ==
  /\ Select /\ main = "cancelled"
  /\ worker' = [pc |-> "stopped"]
  /\ UNCHANGED <<chanVars, clockVars, processed, reqVars, mainVars, owed>>

----------------------------------------------------------------------------
(* Time: entries age, and the ticker drops a tick nobody has taken.        *)
Pass ==
  /\ recentIDs' = [i \in Ids |-> IF recentIDs[i] < Old THEN recentIDs[i] + 1
                                                     ELSE recentIDs[i]]
  /\ sinceTick' = (sinceTick + 1) % Minute
  /\ tickReady' = (tickReady \/ sinceTick' = 0)
  /\ UNCHANGED <<chanVars, workerVars, reqVars, mainVars, owed>>

----------------------------------------------------------------------------
(* main, from the signal on.                                               *)

MainStep == UNCHANGED <<clickCh, clockVars, workerVars, reqVars, owed>>

Signal ==
  /\ main = "serving" /\ main' = "draining"
  /\ UNCHANGED <<chOpen, expired, done>> /\ MainStep

(* The requests srv.Shutdown waits for: an orphan's connection is idle.    *)
InFlight == {r \in Requests : req[r].pc # "idle" /\ ~orphan[r]}

(* srv.Close in the place of srv.Shutdown: it waits for no request.        *)
ShutdownReturnsAtOnce ==
  /\ main = "draining" /\ ~done
  /\ done' = TRUE
  /\ UNCHANGED <<chOpen, main, expired>> /\ MainStep

(* srv.Shutdown returns with the last request, or with its context.        *)
ShutdownReturns ==
  /\ main = "draining" /\ ~done
  /\ InFlight = {} \/ expired
  /\ done' = TRUE
  /\ UNCHANGED <<chOpen, main, expired>> /\ MainStep

(* A shutdown under context.Background().                                  *)
ShutdownNeverExpires == FALSE

ShutdownExpires ==
  /\ main = "draining" /\ ~expired
  /\ expired' = TRUE
  /\ UNCHANGED <<chOpen, main, done>> /\ MainStep

(* The select of main; when both channels are ready it takes either.       *)
ServerStopped ==
  /\ main = "draining" /\ done
  /\ main' = "stopped"
  /\ UNCHANGED <<chOpen, expired, done>> /\ MainStep

ForceExit ==
  /\ main = "draining" /\ expired
  /\ main' = "killed"
  /\ UNCHANGED <<chOpen, expired, done>> /\ MainStep

(* urlService.Close()                                                      *)
Close ==
  /\ main = "stopped"
  /\ main' = "closed" /\ chOpen' = FALSE
  /\ UNCHANGED <<expired, done>> /\ MainStep

(* The deferred workerCancel, and the return of main.                      *)
Cancel ==
  /\ main = "closed" /\ main' = "cancelled"
  /\ UNCHANGED <<chOpen, expired, done>> /\ MainStep

Exit ==
  /\ main = "cancelled" /\ main' = "exited"
  /\ UNCHANGED <<chOpen, expired, done>> /\ MainStep

----------------------------------------------------------------------------
(* Nothing runs once the process is over.                                  *)
Next ==
  /\ ~Over
  /\ \/ \E r \in Requests : Arrive(r) \/ HandlerStep(r) \/ Timeout(r)
     \/ Receive \/ ReceiveClosed \/ Increment \/ Store
     \/ CleanOnTick \/ Cancelled
     \/ Pass
     \/ Signal \/ ShutdownReturns \/ ShutdownExpires
     \/ ServerStopped \/ ForceExit \/ Close \/ Cancel \/ Exit

Spec == Init /\ [][Next]_vars

(* The worker is scheduled, its MySQL call ends within 5 s, time passes;   *)
(* a select with several ready cases picks one at random, so it passes no  *)
(* case over for ever.                                                     *)
WorkerFairness ==
  /\ WF_vars(~Over /\ (ReceiveClosed \/ Increment \/ Store))
  /\ SF_vars(~Over /\ Receive)
  /\ SF_vars(~Over /\ CleanOnTick)
  /\ WF_vars(~Over /\ Pass)

(* main is scheduled, and its 30 s of patience run out.                    *)
MainMoves == ~Over /\ (ServerStopped \/ ForceExit \/ Close \/ Cancel \/ Exit)
MainFairness ==
  /\ WF_vars(MainMoves)
  /\ WF_vars(~Over /\ ShutdownReturns)
  /\ WF_vars(~Over /\ ShutdownExpires)

(* No handler has to be scheduled: a request may hang for ever.            *)
FairSpec == Spec /\ WorkerFairness /\ MainFairness

----------------------------------------------------------------------------
(* Properties.                                                             *)

Count(s, i) == Cardinality({n \in DOMAIN s : s[n] = i})
InHand(i) == IF worker = [pc |-> "increment", id |-> i] THEN 1 ELSE 0

(* No click is lost or counted twice between a handler and MySQL: what was *)
(* sent and not yet attempted is in the channel or in the worker's hand.   *)
ClicksConserved == \A i \in Ids : owed[i] = Count(clickCh, i) + InHand(i)

(* The channel is closed after every handler the server still waits for;   *)
(* only an orphan can be left to send on it, or a handler that was given   *)
(* up when the shutdown itself timed out.                                  *)
ClosedAfterHandlers == ~chOpen => InFlight = {} \/ expired

(* Every click that was accepted is attempted, or the process ends.        *)
ClicksAreAttempted ==
  \A i \in Ids : owed[i] > 0 ~> worker = [pc |-> "increment", id |-> i] \/ Over

(* A click suppresses the next ones for a while, never for ever: its entry *)
(* goes once the clicks still under way for it are through.                *)
SuppressionEnds ==
  \A i \in Ids : recentIDs[i] # Forgotten ~> recentIDs[i] = Forgotten \/ ~chOpen \/ Over

ShutdownCanExpire == ENABLED <<~Over /\ ShutdownExpires>>_vars
MainCanMove == ENABLED <<MainMoves>>_vars

(* Neither a redirect nor the shutdown waits for the worker, even one that *)
(* has stalled: a handler always has a step of its own to take, and main   *)
(* has one as soon as its patience has run out.                            *)
NoneWaitForWorker ==
  /\ \A r \in Requests : req[r].pc # "idle" /\ ~Over => ENABLED HandlerStep(r)
  /\ main = "draining" => IF expired THEN MainCanMove ELSE ShutdownCanExpire
  /\ main \in {"stopped", "closed", "cancelled"} => MainCanMove

(* A signal ends the process, also when handlers hang.                     *)
ShutdownEnds == main = "draining" ~> Over

(* cmd/server/main.go, before urlService.Close(): "Drain remaining click   *)
(* increments after HTTP server stopped".  Nothing waits for the worker.   *)
ShutdownDrains == main = "exited" => \A i \in Ids : owed[i] = 0
============================================================================
