----------------------------- MODULE WorkerPool -----------------------------
(***************************************************************************)
(* internal/worker: a pool of goroutines that take jobs from one buffered  *)
(* channel and send their results to another.  The module has the state    *)
(* of the pool and one action per step of its goroutines; BulkShorten,     *)
(* its only user, says what a job does and who reads the results.          *)
(***************************************************************************)
EXTENDS Naturals, Sequences, FiniteSets

CONSTANTS
  Workers,      \* the goroutines Start launches
  NumJobs       \* the jobs of one run, and the size of both channels

ASSUME PoolAssumption == NumJobs \in Nat \ {0} /\ Workers # {}

VARIABLES
  jobs,         \* buffered jobs
  jobsOpen,     \* the jobs channel has not been closed
  results,      \* buffered results
  resultsOpen,  \* the results channel has not been closed
  worker,       \* worker[w]: where w is, and its job
  closer,       \* the goroutine that runs Close
  ctxDone       \* the context of the pool has been cancelled

poolVars == <<jobs, jobsOpen, results, resultsOpen, worker, closer, ctxDone>>

Jobs   == 1 .. NumJobs
Result == [job : Jobs, ok : BOOLEAN]

ResultsCapOne == 1
ResultsCap    == NumJobs

PoolTypeOK ==
  /\ jobs \in Seq(Jobs) /\ jobsOpen \in BOOLEAN
  /\ results \in Seq(Result) /\ Len(results) <= ResultsCap
  /\ resultsOpen \in BOOLEAN
  /\ worker \in [Workers -> [pc : {"range", "exited"}]
                              \cup [pc : {"check", "process"}, job : Jobs]
                              \cup [pc : {"send"}, result : Result]]
  /\ closer \in {"off", "close", "wait", "finish", "done"}
  /\ ctxDone \in BOOLEAN

PoolInit ==
  /\ jobs = <<>> /\ jobsOpen = TRUE
  /\ results = <<>> /\ resultsOpen = TRUE
  /\ worker = [w \in Workers |-> [pc |-> "range"]]
  /\ closer = "off" /\ ctxDone = FALSE

At(w, step)  == worker[w].pc = step
Exited       == \A w \in Workers : At(w, "exited")
Become(w, s) == worker' = [worker EXCEPT ![w] = s]

----------------------------------------------------------------------------
(* The client's side.  The jobs channel holds every job: Submit never      *)
(* blocks.                                                                 *)
Submit(j) ==
  /\ jobs' = Append(jobs, j)
  /\ UNCHANGED <<jobsOpen, results, resultsOpen, worker, closer, ctxDone>>

Receive ==
  /\ results # <<>>
  /\ results' = Tail(results)
  /\ UNCHANGED <<jobs, jobsOpen, resultsOpen, worker, closer, ctxDone>>

----------------------------------------------------------------------------
(* A worker: for job := range p.jobs.                                      *)

Take(w) ==
  /\ At(w, "range") /\ jobs # <<>>
  /\ Become(w, [pc |-> "check", job |-> Head(jobs)])
  /\ jobs' = Tail(jobs)
  /\ UNCHANGED <<jobsOpen, results, resultsOpen, closer, ctxDone>>

NoMoreJobs(w) ==
  /\ At(w, "range") /\ jobs = <<>> /\ ~jobsOpen
  /\ Become(w, [pc |-> "exited"])
  /\ UNCHANGED <<jobs, jobsOpen, results, resultsOpen, closer, ctxDone>>

(* Cancelled: the job in hand is dropped, without a result.                *)
Quit(w) ==
  /\ At(w, "check") /\ ctxDone
  /\ Become(w, [pc |-> "exited"])
  /\ UNCHANGED <<jobs, jobsOpen, results, resultsOpen, closer, ctxDone>>

GoOn(w) ==
  /\ At(w, "check") /\ ~ctxDone
  /\ Become(w, [pc |-> "process", job |-> worker[w].job])
  /\ UNCHANGED <<jobs, jobsOpen, results, resultsOpen, closer, ctxDone>>

Process(w, ok) ==
  /\ At(w, "process")
  /\ Become(w, [pc |-> "send", result |-> [job |-> worker[w].job, ok |-> ok]])
  /\ UNCHANGED <<jobs, jobsOpen, results, resultsOpen, closer, ctxDone>>

Deliver(w) ==
  /\ At(w, "send") /\ Len(results) < ResultsCap
  /\ results' = Append(results, worker[w].result)
  /\ Become(w, [pc |-> "range"])
  /\ UNCHANGED <<jobs, jobsOpen, resultsOpen, closer, ctxDone>>

----------------------------------------------------------------------------
(* Close, in a goroutine of its own.                                       *)

GoClose ==
  /\ closer' = "close"
  /\ UNCHANGED <<jobs, jobsOpen, results, resultsOpen, worker, ctxDone>>

(* A Close that leaves the jobs channel open.                              *)
CloseJobsForgotten ==
  /\ closer = "close" /\ closer' = "wait"
  /\ UNCHANGED <<jobs, jobsOpen, results, resultsOpen, worker, ctxDone>>

CloseJobs ==
  /\ closer = "close" /\ closer' = "wait"
  /\ jobsOpen' = FALSE
  /\ UNCHANGED <<jobs, results, resultsOpen, worker, ctxDone>>

(* A Close that does not wait for the workers.                             *)
NoWait ==
  /\ closer = "wait" /\ closer' = "finish"
  /\ UNCHANGED <<jobs, jobsOpen, results, resultsOpen, worker, ctxDone>>

Wait ==
  /\ closer = "wait" /\ Exited
  /\ closer' = "finish"
  /\ UNCHANGED <<jobs, jobsOpen, results, resultsOpen, worker, ctxDone>>

CloseResults ==
  /\ closer = "finish" /\ closer' = "done"
  /\ resultsOpen' = FALSE
  /\ UNCHANGED <<jobs, jobsOpen, results, worker, ctxDone>>

Cancel ==
  /\ ~ctxDone /\ ctxDone' = TRUE
  /\ UNCHANGED <<jobs, jobsOpen, results, resultsOpen, worker, closer>>
============================================================================
