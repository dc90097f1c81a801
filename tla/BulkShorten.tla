----------------------------- MODULE BulkShorten -----------------------------
(***************************************************************************)
(* URLService.BulkShorten: one transaction, in which a worker pool creates *)
(* one link per URL, and the handler that answers for it.                  *)
(*                                                                         *)
(* The pool's goroutines share the transaction and outlive it: the service *)
(* stops reading results at the first failure and rolls back while workers *)
(* still create.  The context of the request can be cancelled at any time; *)
(* database/sql then rolls the transaction back by itself, and refuses to  *)
(* commit.  MySQL is taken to answer a commit truthfully.                  *)
(***************************************************************************)
EXTENDS WorkerPool

VARIABLES
  service,      \* where BulkShorten and its handler are
  submitted,    \* jobs handed to the pool
  collected,    \* results read so far
  tx,           \* the transaction
  rows,         \* rows created in it: the jobs they stand for
  outcome,      \* what BulkShorten returned
  status        \* the status of the response, 0: none yet

serviceVars == <<service, submitted, collected, outcome, status>>
txVars == <<tx, rows>>
vars == <<poolVars, serviceVars, txVars>>

TypeOK ==
  /\ PoolTypeOK
  /\ service \in {"begin", "submit", "collect", "commit", "rollback",
                  "returned", "answered"}
  /\ submitted \in 0 .. NumJobs
  /\ collected \in SUBSET Result
  /\ tx \in {"none", "open", "committed", "rolledback"}
  /\ rows \in SUBSET Jobs
  /\ outcome \in {"none", "results", "failed"}
  /\ status \in {0, 201}

Init ==
  /\ PoolInit
  /\ service = "begin" /\ submitted = 0 /\ collected = {}
  /\ tx = "none" /\ rows = {}
  /\ outcome = "none" /\ status = 0

----------------------------------------------------------------------------
(* The service.                                                            *)

Goto(step) ==
  /\ service' = step
  /\ UNCHANGED <<submitted, collected, outcome, status>>

Return(result) ==
  /\ service' = "returned" /\ outcome' = result
  /\ UNCHANGED <<submitted, collected, status>>

(* The workers start with the transaction; nothing is theirs to do yet.    *)
BeginTx ==
  /\ service = "begin" /\ ~ctxDone
  /\ tx' = "open" /\ UNCHANGED rows
  /\ Goto("submit")
  /\ UNCHANGED poolVars

BeginFails ==
  /\ service = "begin"
  /\ Return("failed")
  /\ UNCHANGED <<poolVars, txVars>>

SubmitNext ==
  /\ service = "submit" /\ submitted < NumJobs
  /\ submitted' = submitted + 1
  /\ Submit(submitted + 1)
  /\ UNCHANGED <<service, collected, outcome, status, txVars>>

(* go pool.Close(), then the range over the results.                       *)
StartClosing ==
  /\ service = "submit" /\ submitted = NumJobs
  /\ Goto("collect")
  /\ GoClose
  /\ UNCHANGED txVars

(* A failure noted among the results, and no more.                         *)
CollectOn ==
  /\ service = "collect"
  /\ Receive
  /\ collected' = collected \cup {Head(results)}
  /\ UNCHANGED <<service, submitted, outcome, status, txVars>>

(* The first failure ends the callback.                                    *)
Collect ==
  /\ service = "collect"
  /\ Receive
  /\ collected' = collected \cup {Head(results)}
  /\ service' = IF Head(results).ok THEN "collect" ELSE "rollback"
  /\ UNCHANGED <<submitted, outcome, status, txVars>>

(* A receive without the second value: the end reads as an empty result.   *)
EndReadAsResult ==
  /\ service = "collect" /\ results = <<>> /\ ~resultsOpen
  /\ collected' = collected \cup {[job |-> 0, ok |-> TRUE]}
  /\ service' = "commit"
  /\ UNCHANGED <<submitted, outcome, status, poolVars, txVars>>

EndOfResults ==
  /\ service = "collect" /\ results = <<>> /\ ~resultsOpen
  /\ Goto("commit")
  /\ UNCHANGED <<poolVars, txVars>>

(* A transaction that does not carry the context of the request.           *)
CommitDetached ==
  /\ service = "commit" /\ tx = "open"
  /\ tx' = "committed" /\ UNCHANGED rows
  /\ Return("results")
  /\ UNCHANGED poolVars

Commit ==
  /\ service = "commit" /\ tx = "open" /\ ~ctxDone
  /\ tx' = "committed" /\ UNCHANGED rows
  /\ Return("results")
  /\ UNCHANGED poolVars

(* Refused for the context, or by MySQL.                                   *)
CommitFails ==
  /\ service = "commit"
  /\ tx' = "rolledback" /\ UNCHANGED rows
  /\ Return("failed")
  /\ UNCHANGED poolVars

Rollback ==
  /\ service = "rollback"
  /\ tx' = "rolledback" /\ UNCHANGED rows
  /\ Return("failed")
  /\ UNCHANGED poolVars

(* URLHandler.BulkShorten: 201 and "links created", whatever came back.    *)
Respond ==
  /\ service = "returned"
  /\ service' = "answered" /\ status' = 201
  /\ UNCHANGED <<submitted, collected, outcome, poolVars, txVars>>

----------------------------------------------------------------------------
(* The jobs, in the transaction.                                           *)

(* txRepo.Create, on a live transaction and under a live context.          *)
CreateRow(w) ==
  /\ tx = "open" /\ ~ctxDone
  /\ Process(w, TRUE)
  /\ rows' = rows \cup {worker[w].job}
  /\ UNCHANGED <<tx, serviceVars>>

(* A code that is taken, an error of MySQL, a transaction that is over.    *)
CreateFails(w) ==
  /\ Process(w, FALSE)
  /\ UNCHANGED <<txVars, serviceVars>>

PoolStep(w) ==
  \/ /\ \/ Take(w) \/ NoMoreJobs(w) \/ Quit(w) \/ GoOn(w) \/ Deliver(w)
     /\ UNCHANGED <<serviceVars, txVars>>
  \/ CreateRow(w) \/ CreateFails(w)

CloserStep ==
  /\ CloseJobs \/ Wait \/ CloseResults
  /\ UNCHANGED <<serviceVars, txVars>>

(* The request times out, or its client leaves, or it is over.             *)
ContextCancelled == Cancel /\ UNCHANGED <<serviceVars, txVars>>

(* database/sql watches the context and rolls back.                        *)
TxCancelled ==
  /\ tx = "open" /\ ctxDone
  /\ tx' = "rolledback"
  /\ UNCHANGED <<rows, poolVars, serviceVars>>

ServiceStep ==
  \/ BeginTx \/ BeginFails \/ SubmitNext \/ StartClosing
  \/ Collect \/ EndOfResults \/ Commit \/ CommitFails \/ Rollback \/ Respond

(* The response is out, and no goroutine of the pool is left.              *)
Quiet ==
  /\ service = "answered" /\ ctxDone
  /\ tx = "none" \/ (Exited /\ closer = "done")

Finished == Quiet /\ UNCHANGED vars

Next ==
  \/ ServiceStep
  \/ \E w \in Workers : PoolStep(w)
  \/ CloserStep
  \/ ContextCancelled \/ TxCancelled
  \/ Finished

Spec == Init /\ [][Next]_vars

(* Every goroutine is scheduled; no context has to be cancelled.           *)
FairSpec ==
  /\ Spec
  /\ WF_vars(ServiceStep)
  /\ \A w \in Workers : WF_vars(PoolStep(w))
  /\ WF_vars(CloserStep)

----------------------------------------------------------------------------
(* Properties.                                                             *)

(* "If any URL fails to create - all are rolled back": what is committed   *)
(* is the whole request, whatever failed, was cancelled or came late.      *)
AllOrNothing == tx = "committed" => rows = Jobs

(* BulkShorten reports what the database holds: one good result per URL if *)
(* and only if they were committed.                                        *)
ReportIsTrue ==
  /\ outcome = "results" => tx = "committed" /\ collected = [job : Jobs, ok : {TRUE}]
  /\ outcome = "failed"  => tx # "committed"

(* "safe to close now - no more writes": a worker with a result in hand    *)
(* neither panics, sending on the closed channel, nor waits for room in it, *)
(* whether or not anyone still reads.                                      *)
SendsGoThrough ==
  \A w \in Workers : At(w, "send") => resultsOpen /\ Len(results) < ResultsCap

(* The service always returns and the handler answers, and no goroutine of *)
(* the pool is left behind, also when the service stops reading at the     *)
(* first failure.                                                          *)
BulkEnds == service = "submit" ~> service = "answered" /\ Exited /\ closer = "done"

(* The handler's message is "links were created successfully"              *)
(* (url_handler.go:164), and README.md:113 keeps success true for what      *)
(* succeeded.  It does not hold: the error marker "all URLs rolled back"    *)
(* of url_service.go:329 is answered 201, with that message.                *)
RolledBackIsNoSuccess == tx = "rolledback" => status # 201
============================================================================
