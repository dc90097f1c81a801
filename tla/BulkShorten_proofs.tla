------------------------- MODULE BulkShorten_proofs -------------------------
(* Proofs about BulkShorten, for any number of URLs and workers: types, that *)
(* a commit is the whole request and that the service reports what is in the *)
(* database; that no worker sends on the closed channel or waits for room in *)
(* it, that the goroutines never wait in a circle, and that they have a      *)
(* bounded number of steps to take.                                          *)
EXTENDS BulkShorten, FiniteSetTheorems, FunctionTheorems, TLAPS

Among(x, s) == \E i \in 1 .. Len(s) : s[i] = x

LEMMA AmongAppend ==
  ASSUME NEW S, NEW s \in Seq(S), NEW e \in S
  PROVE  /\ Append(s, e) \in Seq(S)
         /\ Len(Append(s, e)) = Len(s) + 1
         /\ Among(e, Append(s, e))
         /\ \A x : Among(x, s) => Among(x, Append(s, e))
         /\ \A x : Among(x, Append(s, e)) => x = e \/ Among(x, s)
<1>1. Append(s, e) \in Seq(S) /\ Len(Append(s, e)) = Len(s) + 1 /\ Len(s) \in Nat
  OBVIOUS
<1>2. Append(s, e)[Len(s) + 1] = e
  OBVIOUS
<1>3. \A i \in 1 .. Len(s) : Append(s, e)[i] = s[i]
  OBVIOUS
<1>4. \A i \in 1 .. Len(Append(s, e)) : i \in 1 .. Len(s) \/ i = Len(s) + 1
  BY <1>1
<1>5. \A i \in 1 .. Len(s) : i \in 1 .. Len(Append(s, e))
  BY <1>1
<1>6. Len(s) + 1 \in 1 .. Len(Append(s, e))
  BY <1>1
<1>7. Among(e, Append(s, e))
  BY <1>2, <1>6 DEF Among
<1>8. ASSUME NEW x, Among(x, s) PROVE Among(x, Append(s, e))
  BY <1>3, <1>5, <1>8 DEF Among
<1>9. ASSUME NEW x, Among(x, Append(s, e)) PROVE x = e \/ Among(x, s)
  BY <1>2, <1>3, <1>4, <1>9 DEF Among
<1> QED BY <1>1, <1>7, <1>8, <1>9

LEMMA AmongTail ==
  ASSUME NEW S, NEW s \in Seq(S), s # <<>>
  PROVE  /\ Head(s) \in S /\ Tail(s) \in Seq(S) /\ Len(Tail(s)) = Len(s) - 1
         /\ Among(Head(s), s)
         /\ \A x : Among(x, s) => x = Head(s) \/ Among(x, Tail(s))
         /\ \A x : Among(x, Tail(s)) => Among(x, s)
<1>1. /\ Head(s) \in S /\ Tail(s) \in Seq(S) /\ Len(Tail(s)) = Len(s) - 1
      /\ Len(s) \in Nat \ {0} /\ Head(s) = s[1]
  OBVIOUS
<1>2. \A i \in 1 .. Len(Tail(s)) : Tail(s)[i] = s[i + 1]
  OBVIOUS
<1>3. \A i \in 1 .. Len(Tail(s)) : i + 1 \in 1 .. Len(s)
  BY <1>1
<1>4. \A i \in 1 .. Len(s) : i = 1 \/ (i - 1 \in 1 .. Len(Tail(s)) /\ (i - 1) + 1 = i)
  BY <1>1
<1>5. 1 \in 1 .. Len(s)
  BY <1>1
<1>6. Among(Head(s), s)
  BY <1>1, <1>5 DEF Among
<1>7. ASSUME NEW x, Among(x, s) PROVE x = Head(s) \/ Among(x, Tail(s))
  <2>1. PICK i \in 1 .. Len(s) : s[i] = x
    BY <1>7 DEF Among
  <2>2. CASE i = 1
    BY <1>1, <2>1, <2>2
  <2>3. CASE i # 1
    <3>1. i - 1 \in 1 .. Len(Tail(s)) /\ Tail(s)[i - 1] = s[(i - 1) + 1] /\ (i - 1) + 1 = i
      BY <1>2, <1>4, <2>3
    <3> QED BY <2>1, <3>1 DEF Among
  <2> QED BY <2>2, <2>3
<1>8. ASSUME NEW x, Among(x, Tail(s)) PROVE Among(x, s)
  BY <1>2, <1>3, <1>8 DEF Among
<1> QED BY <1>1, <1>6, <1>7, <1>8

----------------------------------------------------------------------------
(* The invariant follows each job from Submit to the results: under a live    *)
(* context it is queued, in a worker's hand or reported; a result that says   *)
(* ok stands for a row; the results end only after the last worker.           *)

Handed(j) == \/ Among(j, jobs)
             \/ \E w \in Workers : (At(w, "check") \/ At(w, "process")) /\ worker[w].job = j

Reported(x) == \/ Among(x, results) \/ x \in collected
               \/ \E w \in Workers : At(w, "send") /\ worker[w].result = x

EndInv ==
  /\ closer \in {"finish", "done"} => Exited
  /\ ~resultsOpen => closer = "done"
  /\ \A w \in Workers : At(w, "exited") /\ ~ctxDone => jobs = <<>> /\ ~jobsOpen

RowInv == \A x \in Result : Reported(x) /\ x.ok => x.job \in rows

NoneLost == ~ctxDone =>
  \A j \in 1 .. submitted : Handed(j) \/ \E x \in Result : x.job = j /\ Reported(x)

ServiceInv ==
  /\ service \in {"begin", "submit"} => closer = "off" /\ jobsOpen /\ collected = {}
  /\ service \in {"collect", "commit"} => submitted = NumJobs
  /\ service \in {"collect", "commit"} => \A x \in collected : x.ok
  /\ service = "commit" /\ ~ctxDone => \A j \in Jobs : \E x \in collected : x.job = j
  /\ outcome # "none" => service \in {"returned", "answered"}
  /\ tx = "committed" => outcome = "results"
  /\ outcome = "results" =>
       tx = "committed" /\ rows = Jobs /\ collected = [job : Jobs, ok : {TRUE}]

Inv == TypeOK /\ EndInv /\ RowInv /\ NoneLost /\ ServiceInv

LEMMA InitInv == Init => Inv
<1> SUFFICES ASSUME Init PROVE Inv
  OBVIOUS
<1>1. TypeOK
  <2>1. \A w \in Workers : worker[w] \in [pc : {"range", "exited"}]
    BY DEF Init, PoolInit
  <2>2. worker \in [Workers -> [pc : {"range", "exited"}]
                              \cup [pc : {"check", "process"}, job : Jobs]
                              \cup [pc : {"send"}, result : Result]]
    BY <2>1 DEF Init, PoolInit
  <2>3. jobs \in Seq(Jobs) /\ results \in Seq(Result) /\ Len(results) <= NumJobs /\ 0 \in 0 .. NumJobs
    BY PoolAssumption DEF Init, PoolInit
  <2>4. PoolTypeOK
    BY <2>2, <2>3 DEF Init, PoolInit, PoolTypeOK, ResultsCap
  <2> QED BY <2>3, <2>4 DEF Init, TypeOK
<1>2. \A w \in Workers : worker[w].pc = "range"
  BY DEF Init, PoolInit
<1>3. \A x : ~Reported(x)
  BY <1>2 DEF Init, PoolInit, Reported, Among, At
<1>4. EndInv /\ RowInv /\ NoneLost
  BY <1>2, <1>3 DEF Init, PoolInit, EndInv, RowInv, NoneLost, At
<1>5. ServiceInv
  BY DEF Init, PoolInit, ServiceInv
<1> QED BY <1>1, <1>4, <1>5 DEF Inv

(* What a worker holds, by where it is.                                       *)
LEMMA WorkerType ==
  ASSUME TypeOK, NEW w \in Workers
  PROVE  /\ worker[w].pc \in {"range", "exited", "check", "process", "send"}
         /\ worker[w].pc \in {"check", "process"} => worker[w].job \in Jobs
         /\ worker[w].pc = "send" => worker[w].result \in Result
<1>1. worker[w] \in [pc : {"range", "exited"}]
          \cup [pc : {"check", "process"}, job : Jobs]
          \cup [pc : {"send"}, result : Result]
  BY DEF TypeOK, PoolTypeOK
<1>2. CASE worker[w] \in [pc : {"range", "exited"}]
  BY <1>2
<1>3. CASE worker[w] \in [pc : {"check", "process"}, job : Jobs]
  BY <1>3
<1>4. CASE worker[w] \in [pc : {"send"}, result : Result]
  BY <1>4
<1> QED BY <1>1, <1>2, <1>3, <1>4

----------------------------------------------------------------------------
(* A worker's own step.                                                       *)

WorkerState == [pc : {"range", "exited"}]
                  \cup [pc : {"check", "process"}, job : Jobs]
                  \cup [pc : {"send"}, result : Result]

(* What is left to show of a step in which one worker moves from one place to *)
(* another, with the service standing still.                                  *)
LEMMA Moves ==
  ASSUME Inv, NEW w \in Workers, NEW next \in WorkerState, Become(w, next),
         ~At(w, "exited"),
         UNCHANGED <<service, submitted, collected, outcome, status, tx,
                     jobsOpen, resultsOpen, closer, ctxDone>>,
         jobs' \in Seq(Jobs), results' \in Seq(Result), Len(results') <= ResultsCap,
         rows' \in SUBSET Jobs, rows \subseteq rows', tx = "open" \/ rows' = rows,
         next.pc = "exited" /\ ~ctxDone => jobs = <<>> /\ ~jobsOpen,
         jobs = <<>> => jobs' = <<>>
  PROVE  TypeOK' /\ EndInv' /\ ServiceInv'
<1>1. TypeOK /\ EndInv /\ ServiceInv
  BY DEF Inv
<1>2. worker' = [worker EXCEPT ![w] = next]
  BY DEF Become
<1>3. worker' \in [Workers -> WorkerState]
  BY <1>1, <1>2 DEF TypeOK, PoolTypeOK, WorkerState
<1>4. TypeOK'
  BY <1>1, <1>3 DEF TypeOK, PoolTypeOK, WorkerState
<1>5. \A v \in Workers : worker'[v] = IF v = w THEN next ELSE worker[v]
  BY <1>1, <1>2 DEF TypeOK, PoolTypeOK
<1>6. ~Exited
  BY DEF Exited
<1>7. EndInv'
  BY <1>1, <1>5, <1>6 DEF EndInv, Exited, At
<1>8. ServiceInv'
  BY <1>1 DEF ServiceInv
<1> QED BY <1>4, <1>7, <1>8

LEMMA TakeKeeps ==
  ASSUME Inv, NEW w \in Workers, Take(w), UNCHANGED <<serviceVars, txVars>>
  PROVE  Inv'
<1> DEFINE next == [pc |-> "check", job |-> Head(jobs)]
<1>1. /\ At(w, "range") /\ jobs # <<>> /\ jobs' = Tail(jobs)
      /\ Become(w, next)
      /\ UNCHANGED <<jobsOpen, results, resultsOpen, closer, ctxDone>>
      /\ UNCHANGED <<service, submitted, collected, outcome, status, tx, rows>>
  BY DEF Take, serviceVars, txVars
<1>2. TypeOK /\ RowInv /\ NoneLost
  BY DEF Inv
<1>3. /\ Head(jobs) \in Jobs /\ Tail(jobs) \in Seq(Jobs)
      /\ \A x : Among(x, jobs) => x = Head(jobs) \/ Among(x, Tail(jobs))
  BY <1>1, <1>2, AmongTail DEF TypeOK, PoolTypeOK
<1>4. next \in WorkerState /\ next.pc = "check" /\ next.job = Head(jobs)
  BY <1>3 DEF WorkerState
<1> HIDE DEF next
<1>5. TypeOK' /\ EndInv' /\ ServiceInv'
  BY <1>1, <1>2, <1>3, <1>4, Moves DEF At, TypeOK, PoolTypeOK
<1>6. \A v \in Workers : worker'[v] = IF v = w THEN next ELSE worker[v]
  BY <1>1, <1>2 DEF Become, TypeOK, PoolTypeOK
<1>7. \A x : Reported(x)' <=> Reported(x)
  BY <1>1, <1>4, <1>6 DEF Reported, At
<1>8. \A j : Handed(j) => Handed(j)'
  BY <1>1, <1>3, <1>4, <1>6 DEF Handed, At
<1>9. RowInv' /\ NoneLost'
  BY <1>1, <1>2, <1>7, <1>8 DEF RowInv, NoneLost
<1> QED BY <1>5, <1>9 DEF Inv

LEMMA ExitKeeps ==
  ASSUME Inv, NEW w \in Workers, NoMoreJobs(w) \/ Quit(w), UNCHANGED <<serviceVars, txVars>>
  PROVE  Inv'
<1> DEFINE next == [pc |-> "exited"]
<1>1. /\ At(w, "range") \/ (At(w, "check") /\ ctxDone)
      /\ ~ctxDone => jobs = <<>> /\ ~jobsOpen
      /\ Become(w, next)
      /\ UNCHANGED <<jobs, jobsOpen, results, resultsOpen, closer, ctxDone>>
      /\ UNCHANGED <<service, submitted, collected, outcome, status, tx, rows>>
  BY DEF NoMoreJobs, Quit, serviceVars, txVars
<1>2. TypeOK /\ RowInv /\ NoneLost
  BY DEF Inv
<1>3. next \in WorkerState /\ next.pc = "exited"
  BY DEF WorkerState
<1> HIDE DEF next
<1>4. TypeOK' /\ EndInv' /\ ServiceInv'
  BY <1>1, <1>2, <1>3, Moves DEF At, TypeOK, PoolTypeOK
<1>5. \A v \in Workers : worker'[v] = IF v = w THEN next ELSE worker[v]
  BY <1>1, <1>2 DEF Become, TypeOK, PoolTypeOK
<1>6. \A x : Reported(x)' <=> Reported(x)
  BY <1>1, <1>3, <1>5 DEF Reported, At
<1>7. ~ctxDone => \A j : Handed(j) => Handed(j)'
  BY <1>1, <1>3, <1>5 DEF Handed, At
<1>8. RowInv' /\ NoneLost'
  BY <1>1, <1>2, <1>6, <1>7 DEF RowInv, NoneLost
<1> QED BY <1>4, <1>8 DEF Inv

LEMMA GoOnKeeps ==
  ASSUME Inv, NEW w \in Workers, GoOn(w), UNCHANGED <<serviceVars, txVars>>
  PROVE  Inv'
<1> DEFINE next == [pc |-> "process", job |-> worker[w].job]
<1>1. /\ At(w, "check") /\ Become(w, next)
      /\ UNCHANGED <<jobs, jobsOpen, results, resultsOpen, closer, ctxDone>>
      /\ UNCHANGED <<service, submitted, collected, outcome, status, tx, rows>>
  BY DEF GoOn, serviceVars, txVars
<1>2. TypeOK /\ RowInv /\ NoneLost
  BY DEF Inv
<1>3. worker[w].job \in Jobs
  BY <1>1, <1>2, WorkerType DEF At
<1>4. next \in WorkerState /\ next.pc = "process" /\ next.job = worker[w].job
  BY <1>3 DEF WorkerState
<1> HIDE DEF next
<1>5. TypeOK' /\ EndInv' /\ ServiceInv'
  BY <1>1, <1>2, <1>4, Moves DEF At, TypeOK, PoolTypeOK
<1>6. \A v \in Workers : worker'[v] = IF v = w THEN next ELSE worker[v]
  BY <1>1, <1>2 DEF Become, TypeOK, PoolTypeOK
<1>7. \A x : Reported(x)' <=> Reported(x)
  BY <1>1, <1>4, <1>6 DEF Reported, At
<1>8. \A j : Handed(j) => Handed(j)'
  BY <1>1, <1>4, <1>6 DEF Handed, At
<1>9. RowInv' /\ NoneLost'
  BY <1>1, <1>2, <1>7, <1>8 DEF RowInv, NoneLost
<1> QED BY <1>5, <1>9 DEF Inv

(* The job in hand becomes a result, ok only with its row.                    *)
LEMMA CreateKeeps ==
  ASSUME Inv, NEW w \in Workers, CreateRow(w) \/ CreateFails(w)
  PROVE  Inv'
<1>1. PICK ok \in BOOLEAN :
        /\ Process(w, ok)
        /\ ok => rows' = rows \cup {worker[w].job} /\ tx = "open"
        /\ ~ok => rows' = rows
        /\ UNCHANGED <<tx, serviceVars>>
  <2>1. CASE CreateRow(w)
    BY <2>1 DEF CreateRow
  <2>2. CASE CreateFails(w)
    BY <2>2 DEF CreateFails, txVars
  <2> QED BY <2>1, <2>2
<1> DEFINE e == [job |-> worker[w].job, ok |-> ok]
           next == [pc |-> "send", result |-> e]
<1>2. /\ At(w, "process") /\ Become(w, next)
      /\ UNCHANGED <<jobs, jobsOpen, results, resultsOpen, closer, ctxDone>>
      /\ UNCHANGED <<service, submitted, collected, outcome, status>>
  BY <1>1 DEF Process, serviceVars
<1>3. TypeOK /\ RowInv /\ NoneLost
  BY DEF Inv
<1>4. worker[w].job \in Jobs
  BY <1>2, <1>3, WorkerType DEF At
<1>5. e \in Result /\ e.job = worker[w].job /\ e.ok = ok
  BY <1>4 DEF Result
<1> HIDE DEF e
<1>6. next \in WorkerState /\ next.pc = "send" /\ next.result = e
  BY <1>5 DEF WorkerState
<1> HIDE DEF next
<1>7. rows \subseteq rows' /\ rows' \subseteq Jobs /\ (ok => worker[w].job \in rows')
      /\ (tx = "open" \/ rows' = rows)
  BY <1>1, <1>3, <1>4 DEF TypeOK
<1>8. TypeOK' /\ EndInv' /\ ServiceInv'
  BY <1>1, <1>2, <1>3, <1>6, <1>7, Moves DEF At, TypeOK, PoolTypeOK
<1>9. \A v \in Workers : worker'[v] = IF v = w THEN next ELSE worker[v]
  BY <1>2, <1>3 DEF Become, TypeOK, PoolTypeOK
<1>10. /\ \A x : Reported(x)' => Reported(x) \/ x = e
       /\ \A x : Reported(x) => Reported(x)'
       /\ \A x : x = e => Reported(x)'
  BY <1>2, <1>6, <1>9 DEF Reported, At
<1>11. \A j : Handed(j) => Handed(j)' \/ j = e.job
  BY <1>2, <1>5, <1>6, <1>9 DEF Handed, At
<1>12. RowInv'
  BY <1>3, <1>5, <1>7, <1>10 DEF RowInv
<1>13. NoneLost'
  BY <1>2, <1>3, <1>5, <1>10, <1>11 DEF NoneLost
<1> QED BY <1>8, <1>12, <1>13 DEF Inv

LEMMA DeliverKeeps ==
  ASSUME Inv, NEW w \in Workers, Deliver(w), UNCHANGED <<serviceVars, txVars>>
  PROVE  Inv'
<1> DEFINE next == [pc |-> "range"]
           e == worker[w].result
<1>1. /\ At(w, "send") /\ Become(w, next) /\ Len(results) < ResultsCap
      /\ results' = Append(results, e)
      /\ UNCHANGED <<jobs, jobsOpen, resultsOpen, closer, ctxDone>>
      /\ UNCHANGED <<service, submitted, collected, outcome, status, tx, rows>>
  BY DEF Deliver, serviceVars, txVars
<1>2. TypeOK /\ RowInv /\ NoneLost
  BY DEF Inv
<1>3. e \in Result
  BY <1>1, <1>2, WorkerType DEF At
<1>4. next \in WorkerState /\ next.pc = "range"
  BY DEF WorkerState
<1>5. results \in Seq(Result) /\ Len(results) \in Nat /\ NumJobs \in Nat
  BY <1>2, PoolAssumption DEF TypeOK, PoolTypeOK
<1>6. /\ results' \in Seq(Result)
      /\ Len(results') = Len(results) + 1
      /\ Among(e, results')
      /\ \A x : Among(x, results) => Among(x, results')
      /\ \A x : Among(x, results') => x = e \/ Among(x, results)
  <2> HIDE DEF e
  <2> QED BY <1>1, <1>3, <1>5, AmongAppend
<1>7. Len(results') <= ResultsCap
  BY <1>1, <1>5, <1>6 DEF ResultsCap
<1> HIDE DEF next
<1>8. TypeOK' /\ EndInv' /\ ServiceInv'
  BY <1>1, <1>2, <1>4, <1>6, <1>7, Moves DEF At, TypeOK, PoolTypeOK
<1>9. \A v \in Workers : worker'[v] = IF v = w THEN next ELSE worker[v]
  BY <1>1, <1>2 DEF Become, TypeOK, PoolTypeOK
<1>10. \A x : Reported(x)' <=> Reported(x)
  BY <1>1, <1>4, <1>6, <1>9 DEF Reported, At
<1>11. \A j : Handed(j) => Handed(j)'
  BY <1>1, <1>4, <1>9 DEF Handed, At
<1>12. RowInv' /\ NoneLost'
  BY <1>1, <1>2, <1>10, <1>11 DEF RowInv, NoneLost
<1> QED BY <1>8, <1>12 DEF Inv

----------------------------------------------------------------------------
(* The service, the closer and the context.                                   *)

LEMMA SubmitKeeps == ASSUME Inv, SubmitNext PROVE Inv'
<1>1. /\ service = "submit" /\ submitted < NumJobs /\ submitted' = submitted + 1
      /\ jobs' = Append(jobs, submitted + 1)
      /\ UNCHANGED <<jobsOpen, results, resultsOpen, worker, closer, ctxDone>>
      /\ UNCHANGED <<service, collected, outcome, status, tx, rows>>
  BY DEF SubmitNext, Submit, txVars
<1>2. TypeOK /\ EndInv /\ RowInv /\ NoneLost /\ ServiceInv
  BY DEF Inv
<1>3. submitted \in Nat /\ submitted + 1 \in Jobs /\ jobs \in Seq(Jobs)
  BY <1>1, <1>2, PoolAssumption DEF TypeOK, PoolTypeOK, Jobs
<1>4. /\ jobs' \in Seq(Jobs)
      /\ Among(submitted + 1, jobs')
      /\ \A x : Among(x, jobs) => Among(x, jobs')
  BY <1>1, <1>3, AmongAppend
<1>5. submitted' \in 0 .. NumJobs
  BY <1>1, <1>3, PoolAssumption DEF Jobs
<1>6. TypeOK'
  BY <1>1, <1>2, <1>4, <1>5 DEF TypeOK, PoolTypeOK
<1>7. EndInv'
  <2>1. jobsOpen
    BY <1>1, <1>2 DEF ServiceInv
  <2> QED BY <1>1, <1>2, <2>1 DEF EndInv, Exited, At
<1>8. \A x : Reported(x)' <=> Reported(x)
  BY <1>1 DEF Reported, At
<1>9. \A j : Handed(j) \/ j = submitted + 1 => Handed(j)'
  BY <1>1, <1>4 DEF Handed, At
<1>10. \A j \in 1 .. submitted' : j \in 1 .. submitted \/ j = submitted + 1
  BY <1>1, <1>3
<1>11. RowInv' /\ NoneLost'
  BY <1>1, <1>2, <1>8, <1>9, <1>10 DEF RowInv, NoneLost
<1>12. ServiceInv'
  BY <1>1, <1>2 DEF ServiceInv
<1> QED BY <1>6, <1>7, <1>11, <1>12 DEF Inv

LEMMA CollectKeeps == ASSUME Inv, Collect PROVE Inv'
<1>1. /\ service = "collect" /\ results # <<>> /\ results' = Tail(results)
      /\ collected' = collected \cup {Head(results)}
      /\ service' = IF Head(results).ok THEN "collect" ELSE "rollback"
      /\ UNCHANGED <<jobs, jobsOpen, resultsOpen, worker, closer, ctxDone>>
      /\ UNCHANGED <<submitted, outcome, status, tx, rows>>
  BY DEF Collect, Receive, txVars
<1>2. TypeOK /\ EndInv /\ RowInv /\ NoneLost /\ ServiceInv
  BY DEF Inv
<1>3. results \in Seq(Result) /\ Len(results) \in Nat /\ NumJobs \in Nat /\ Len(results) <= NumJobs
  BY <1>2, PoolAssumption DEF TypeOK, PoolTypeOK, ResultsCap
<1>4. /\ Head(results) \in Result /\ results' \in Seq(Result) /\ Len(results') = Len(results) - 1
      /\ Among(Head(results), results)
      /\ \A x : Among(x, results) => x = Head(results) \/ Among(x, results')
      /\ \A x : Among(x, results') => Among(x, results)
  BY <1>1, <1>3, AmongTail
<1>5. Len(results') <= NumJobs
  BY <1>3, <1>4
<1>6. TypeOK'
  BY <1>1, <1>2, <1>4, <1>5 DEF TypeOK, PoolTypeOK, ResultsCap
<1>7. \A x : Reported(x)' <=> Reported(x)
  BY <1>1, <1>4 DEF Reported, At
<1>8. \A j : Handed(j) => Handed(j)'
  BY <1>1 DEF Handed, At
<1>9. EndInv' /\ RowInv' /\ NoneLost'
  BY <1>1, <1>2, <1>7, <1>8 DEF EndInv, Exited, At, RowInv, NoneLost
<1>10. ServiceInv'
  BY <1>1, <1>2 DEF ServiceInv
<1> QED BY <1>6, <1>9, <1>10 DEF Inv

(* The end of the results under a live context: every job is collected.       *)
LEMMA EndIsComplete ==
  ASSUME Inv, EndOfResults, ~ctxDone
  PROVE  \A j \in Jobs : \E x \in collected : x.job = j
<1>1. service = "collect" /\ results = <<>> /\ ~resultsOpen
  BY DEF EndOfResults
<1>2. TypeOK /\ EndInv /\ NoneLost /\ ServiceInv
  BY DEF Inv
<1>3. Exited
  BY <1>1, <1>2 DEF EndInv
<1>4. jobs = <<>>
  BY <1>2, <1>3, PoolAssumption DEF EndInv, Exited
<1>5. \A j : ~Handed(j)
  BY <1>3, <1>4 DEF Handed, Exited, At, Among
<1>6. \A x : Reported(x) => x \in collected
  BY <1>1, <1>3 DEF Reported, Exited, At, Among
<1>7. Jobs = 1 .. submitted
  BY <1>1, <1>2 DEF ServiceInv, Jobs
<1> QED BY <1>2, <1>5, <1>6, <1>7 DEF NoneLost

(* A commit finds every job collected, each ok and so with its row.           *)
LEMMA CommitIsWhole ==
  ASSUME Inv, service = "commit", ~ctxDone
  PROVE  rows = Jobs /\ collected = [job : Jobs, ok : {TRUE}]
<1>1. TypeOK /\ RowInv /\ ServiceInv
  BY DEF Inv
<1>2. collected \subseteq Result /\ rows \subseteq Jobs
  BY <1>1 DEF TypeOK
<1>3. /\ \A x \in collected : x.ok
      /\ \A j \in Jobs : \E x \in collected : x.job = j
  BY <1>1 DEF ServiceInv
<1>4. \A x \in collected : x = [job |-> x.job, ok |-> TRUE] /\ x.job \in Jobs
  <2> TAKE x \in collected
  <2>1. x \in [job : Jobs, ok : BOOLEAN] /\ x.ok
    BY <1>2, <1>3 DEF Result
  <2>2. PICK j \in Jobs, o \in BOOLEAN : x = [job |-> j, ok |-> o]
    BY <2>1
  <2>3. CASE o = TRUE
    BY <2>2, <2>3
  <2>4. CASE o = FALSE
    BY <2>1, <2>2, <2>4
  <2> QED BY <2>2, <2>3, <2>4
<1>5. \A j \in Jobs : [job |-> j, ok |-> TRUE] \in collected
  BY <1>3, <1>4
<1>6. collected = [job : Jobs, ok : {TRUE}]
  <2>1. ASSUME NEW x \in collected PROVE x \in [job : Jobs, ok : {TRUE}]
    <3>1. PICK j \in Jobs : x = [job |-> j, ok |-> TRUE]
      BY <1>4
    <3> QED BY <3>1
  <2>2. ASSUME NEW x \in [job : Jobs, ok : {TRUE}] PROVE x \in collected
    <3>1. PICK j \in Jobs, o \in {TRUE} : x = [job |-> j, ok |-> o]
      OBVIOUS
    <3>2. x = [job |-> j, ok |-> TRUE]
      BY <3>1
    <3> QED BY <1>5, <3>2
  <2> QED BY <2>1, <2>2
<1>7. Jobs \subseteq rows
  BY <1>1, <1>2, <1>3 DEF RowInv, Reported
<1> QED BY <1>2, <1>6, <1>7

(* The steps of the service that hand out nothing and collect nothing.        *)
LEMMA ServiceKeeps ==
  ASSUME Inv,
         \/ BeginTx \/ BeginFails \/ StartClosing \/ EndOfResults
         \/ Commit \/ CommitFails \/ Rollback \/ Respond
  PROVE  Inv'
<1>1. TypeOK /\ EndInv /\ RowInv /\ NoneLost /\ ServiceInv
  BY DEF Inv
<1>2. /\ UNCHANGED <<jobs, jobsOpen, results, resultsOpen, worker, ctxDone>>
      /\ UNCHANGED <<submitted, collected, rows>>
  BY DEF BeginTx, BeginFails, StartClosing, EndOfResults, Commit, CommitFails, Rollback,
         Respond, Goto, Return, GoClose, poolVars, txVars
<1>3. closer' = closer \/ (StartClosing /\ closer = "off" /\ closer' = "close" /\ resultsOpen)
  <2>1. CASE StartClosing
    BY <1>1, <2>1 DEF StartClosing, GoClose, ServiceInv, EndInv
  <2>2. CASE ~StartClosing
    BY <2>2 DEF BeginTx, BeginFails, EndOfResults, Commit, CommitFails, Rollback,
                Respond, poolVars
  <2> QED BY <2>1, <2>2
<1>4. TypeOK'
  <2>1. /\ service' \in {"begin", "submit", "collect", "commit", "rollback",
                         "returned", "answered"}
        /\ tx' \in {"none", "open", "committed", "rolledback"}
        /\ outcome' \in {"none", "results", "failed"}
        /\ status' \in {0, 201}
    BY <1>1 DEF TypeOK, BeginTx, BeginFails, StartClosing, EndOfResults, Commit,
       CommitFails, Rollback, Respond, Goto, Return, poolVars, txVars
  <2>2. PoolTypeOK'
    BY <1>1, <1>2, <1>3 DEF TypeOK, PoolTypeOK
  <2> QED BY <1>1, <1>2, <2>1, <2>2 DEF TypeOK
<1>5. EndInv'
  BY <1>1, <1>2, <1>3 DEF EndInv, Exited, At
<1>6. RowInv' /\ NoneLost'
  <2>1. \A x : Reported(x)' <=> Reported(x)
    BY <1>2 DEF Reported, At
  <2>2. \A j : Handed(j)' <=> Handed(j)
    BY <1>2 DEF Handed, At
  <2> QED BY <1>1, <1>2, <2>1, <2>2 DEF RowInv, NoneLost
<1>7. ServiceInv'
  <2>1. CASE Commit
    <3>1. /\ service = "commit" /\ ~ctxDone /\ tx' = "committed" /\ outcome' = "results"
          /\ service' = "returned"
      BY <2>1 DEF Commit, Return
    <3>2. rows = Jobs /\ collected = [job : Jobs, ok : {TRUE}]
      BY <3>1, CommitIsWhole
    <3> QED BY <1>2, <3>1, <3>2 DEF ServiceInv
  <2>2. CASE EndOfResults
    <3>1. /\ service = "collect" /\ service' = "commit" /\ UNCHANGED <<tx, outcome>>
      BY <2>2 DEF EndOfResults, Goto, txVars
    <3>2. ~ctxDone => \A j \in Jobs : \E x \in collected : x.job = j
      BY <2>2, EndIsComplete
    <3> QED BY <1>1, <1>2, <3>1, <3>2 DEF ServiceInv
  <2>3. CASE StartClosing
    BY <1>1, <1>2, <2>3 DEF ServiceInv, StartClosing, Goto, txVars
  <2>4. CASE BeginTx
    BY <1>1, <1>2, <2>4 DEF ServiceInv, BeginTx, Goto, poolVars
  <2>5. CASE BeginFails \/ CommitFails \/ Rollback
    <3>1. /\ service \in {"begin", "commit", "rollback"}
          /\ service' = "returned" /\ outcome' = "failed"
          /\ tx' \in {tx, "rolledback"}
      BY <2>5 DEF BeginFails, CommitFails, Rollback, Return, txVars
    <3> QED BY <1>1, <3>1 DEF ServiceInv
  <2>6. CASE Respond
    BY <1>1, <1>2, <2>6 DEF ServiceInv, Respond, poolVars, txVars
  <2> QED BY <2>1, <2>2, <2>3, <2>4, <2>5, <2>6
<1> QED BY <1>4, <1>5, <1>6, <1>7 DEF Inv

LEMMA OthersKeep ==
  ASSUME Inv, CloserStep \/ ContextCancelled \/ TxCancelled
  PROVE  Inv'
<1>1. TypeOK /\ EndInv /\ RowInv /\ NoneLost /\ ServiceInv
  BY DEF Inv
<1>2. /\ UNCHANGED <<jobs, results, worker>>
      /\ UNCHANGED <<service, submitted, collected, outcome, status, rows>>
  BY DEF CloserStep, CloseJobs, Wait, CloseResults, ContextCancelled, Cancel, TxCancelled,
         serviceVars, txVars, poolVars
<1>3. ctxDone => ctxDone'
  BY DEF CloserStep, CloseJobs, Wait, CloseResults, ContextCancelled, Cancel, TxCancelled,
         poolVars
<1>4. TypeOK'
  <2>1. /\ jobsOpen' \in BOOLEAN /\ resultsOpen' \in BOOLEAN /\ ctxDone' \in BOOLEAN
        /\ closer' \in {"off", "close", "wait", "finish", "done"}
        /\ tx' \in {"none", "open", "committed", "rolledback"}
    <3>1. CASE CloserStep
      <4>1. tx' = tx /\ ctxDone' = ctxDone
        BY <3>1 DEF CloserStep, CloseJobs, Wait, CloseResults, txVars
      <4>2. closer' \in {"wait", "finish", "done"}
        BY <3>1 DEF CloserStep, CloseJobs, Wait, CloseResults
      <4>3. /\ jobsOpen' = jobsOpen \/ jobsOpen' = FALSE
            /\ resultsOpen' = resultsOpen \/ resultsOpen' = FALSE
        BY <3>1, Zenon DEF CloserStep, CloseJobs, Wait, CloseResults
      <4>4. jobsOpen' \in BOOLEAN /\ resultsOpen' \in BOOLEAN
        BY <1>1, <4>3, Zenon DEF TypeOK, PoolTypeOK
      <4> QED BY <1>1, <4>1, <4>2, <4>4 DEF TypeOK, PoolTypeOK
    <3>2. CASE ContextCancelled
      BY <1>1, <3>2 DEF TypeOK, PoolTypeOK, ContextCancelled, Cancel, txVars
    <3>3. CASE TxCancelled
      BY <1>1, <3>3 DEF TypeOK, PoolTypeOK, TxCancelled, poolVars
    <3> QED BY <3>1, <3>2, <3>3
  <2> QED BY <1>1, <1>2, <2>1 DEF TypeOK, PoolTypeOK
<1>5. EndInv'
  BY <1>1, <1>2, <1>3 DEF EndInv, Exited, At, CloserStep, CloseJobs, Wait, CloseResults,
     ContextCancelled, Cancel, TxCancelled, poolVars
<1>6. RowInv' /\ NoneLost'
  <2>1. \A x : Reported(x)' <=> Reported(x)
    BY <1>2 DEF Reported, At
  <2>2. \A j : Handed(j)' <=> Handed(j)
    BY <1>2 DEF Handed, At
  <2> QED BY <1>1, <1>2, <1>3, <2>1, <2>2 DEF RowInv, NoneLost
<1>7. ServiceInv'
  BY <1>1, <1>2, <1>3 DEF ServiceInv, CloserStep, CloseJobs, Wait, CloseResults,
     ContextCancelled, Cancel, TxCancelled, serviceVars, txVars, poolVars
<1> QED BY <1>4, <1>5, <1>6, <1>7 DEF Inv

LEMMA NextInv == Inv /\ [Next]_vars => Inv'
<1> SUFFICES ASSUME Inv, [Next]_vars PROVE Inv'
  OBVIOUS
<1>1. CASE ServiceStep
  BY <1>1, SubmitKeeps, CollectKeeps, ServiceKeeps DEF ServiceStep
<1>2. CASE \E w \in Workers : PoolStep(w)
  BY <1>2, TakeKeeps, ExitKeeps, GoOnKeeps, CreateKeeps, DeliverKeeps DEF PoolStep
<1>3. CASE CloserStep \/ ContextCancelled \/ TxCancelled
  BY <1>3, OthersKeep
<1>4. CASE Finished \/ UNCHANGED vars
  <2>1. /\ UNCHANGED <<jobs, jobsOpen, results, resultsOpen, worker, closer, ctxDone>>
        /\ UNCHANGED <<service, submitted, collected, outcome, status, tx, rows>>
    BY <1>4 DEF Finished, vars, poolVars, serviceVars, txVars
  <2>2. TypeOK'
    BY <2>1 DEF Inv, TypeOK, PoolTypeOK
  <2>3. EndInv' /\ ServiceInv'
    BY <2>1 DEF Inv, EndInv, Exited, At, ServiceInv
  <2>4. \A x : Reported(x)' <=> Reported(x)
    BY <2>1 DEF Reported, At
  <2>5. \A j : Handed(j)' <=> Handed(j)
    BY <2>1 DEF Handed, At
  <2> QED BY <2>1, <2>2, <2>3, <2>4, <2>5 DEF Inv, RowInv, NoneLost
<1> QED BY <1>1, <1>2, <1>3, <1>4 DEF Next

LEMMA InvAlways == Spec => []Inv
BY InitInv, NextInv, PTL DEF Spec

----------------------------------------------------------------------------
(* A job is in one place: in the queue, in one worker's hand or in the        *)
(* results, and there once.  So the results channel, which has room for every *)
(* job, has room for the one in hand.                                         *)

Distinct(s) == \A p, q \in 1 .. Len(s) : s[p] = s[q] => p = q

JobAmong(j, s) == \E p \in 1 .. Len(s) : s[p].job = j
DistinctJobs(s) == \A p, q \in 1 .. Len(s) : s[p].job = s[q].job => p = q

Hand(w, step, j) ==
  /\ At(w, step)
  /\ j = IF step = "send" THEN worker[w].result.job ELSE worker[w].job
InHand(w, j) == Hand(w, "check", j) \/ Hand(w, "process", j) \/ Hand(w, "send", j)

(* The way of a job: to be submitted, in the queue, in a hand that checks,    *)
(* creates or sends, in the results; and out.                                 *)
Stages == 1 .. 6
Stage(j, k) ==
  \/ k = 1 /\ j > submitted
  \/ k = 2 /\ Among(j, jobs)
  \/ k = 3 /\ \E w \in Workers : Hand(w, "check", j)
  \/ k = 4 /\ \E w \in Workers : Hand(w, "process", j)
  \/ k = 5 /\ \E w \in Workers : Hand(w, "send", j)
  \/ k = 6 /\ JobAmong(j, results)

OnceInv ==
  /\ Distinct(jobs) /\ DistinctJobs(results)
  /\ \A v, w \in Workers, j \in Jobs : InHand(v, j) /\ InHand(w, j) => v = w
  /\ \A j \in Jobs, k, m \in Stages : Stage(j, k) /\ Stage(j, m) => k = m

LEMMA DistinctAppend ==
  ASSUME NEW S, NEW s \in Seq(S), NEW e \in S, Distinct(s), ~Among(e, s)
  PROVE  Distinct(Append(s, e))
<1> DEFINE t == Append(s, e)
<1>1. Len(t) = Len(s) + 1 /\ Len(s) \in Nat
  OBVIOUS
<1>2. t[Len(s) + 1] = e /\ \A i \in 1 .. Len(s) : t[i] = s[i]
  OBVIOUS
<1> HIDE DEF t
<1>3. \A i \in 1 .. Len(t) : i \in 1 .. Len(s) \/ i = Len(s) + 1
  BY <1>1
<1>4. ASSUME NEW p \in 1 .. Len(t), NEW q \in 1 .. Len(t), t[p] = t[q] PROVE p = q
  BY <1>2, <1>3, <1>4 DEF Distinct, Among
<1>5. Distinct(t)
  BY <1>4 DEF Distinct
<1> QED BY <1>5 DEF t

LEMMA DistinctTail ==
  ASSUME NEW S, NEW s \in Seq(S), s # <<>>, Distinct(s)
  PROVE  Distinct(Tail(s)) /\ ~Among(Head(s), Tail(s))
<1> DEFINE t == Tail(s)
<1>1. Len(t) = Len(s) - 1 /\ Len(s) \in Nat \ {0} /\ Head(s) = s[1]
  OBVIOUS
<1>2. \A i \in 1 .. Len(t) : t[i] = s[i + 1]
  OBVIOUS
<1> HIDE DEF t
<1>3. \A i \in 1 .. Len(t) : i + 1 \in 1 .. Len(s) /\ i + 1 # 1
  BY <1>1
<1>4. 1 \in 1 .. Len(s)
  BY <1>1
<1>5. ASSUME NEW p \in 1 .. Len(t), NEW q \in 1 .. Len(t), t[p] = t[q] PROVE p = q
  <2>1. p + 1 = q + 1
    BY <1>2, <1>3, <1>5 DEF Distinct
  <2> QED BY <2>1
<1>6. \A i \in 1 .. Len(t) : t[i] # Head(s)
  BY <1>1, <1>2, <1>3, <1>4 DEF Distinct
<1>7. Distinct(t) /\ ~Among(Head(s), t)
  BY <1>5, <1>6 DEF Distinct, Among
<1> QED BY <1>7 DEF t

(* The same for results, which are told apart by their jobs.                  *)
LEMMA JobsAppend ==
  ASSUME NEW s \in Seq(Result), NEW e \in Result, DistinctJobs(s), ~JobAmong(e.job, s)
  PROVE  /\ DistinctJobs(Append(s, e))
         /\ \A j : JobAmong(j, Append(s, e)) <=> j = e.job \/ JobAmong(j, s)
<1> DEFINE t == Append(s, e)
<1>1. Len(t) = Len(s) + 1 /\ Len(s) \in Nat
  OBVIOUS
<1>2. t[Len(s) + 1] = e /\ \A i \in 1 .. Len(s) : t[i] = s[i]
  OBVIOUS
<1> HIDE DEF t
<1>3. /\ \A i \in 1 .. Len(t) : i \in 1 .. Len(s) \/ i = Len(s) + 1
      /\ \A i \in 1 .. Len(s) : i \in 1 .. Len(t)
      /\ Len(s) + 1 \in 1 .. Len(t)
  BY <1>1
<1>4. ASSUME NEW p \in 1 .. Len(t), NEW q \in 1 .. Len(t), t[p].job = t[q].job PROVE p = q
  BY <1>2, <1>3, <1>4 DEF DistinctJobs, JobAmong
<1>5. DistinctJobs(t)
  BY <1>4 DEF DistinctJobs
<1>6. \A j : JobAmong(j, t) <=> j = e.job \/ JobAmong(j, s)
  BY <1>2, <1>3 DEF JobAmong
<1> QED BY <1>5, <1>6 DEF t

LEMMA JobsTail ==
  ASSUME NEW s \in Seq(Result), s # <<>>, DistinctJobs(s)
  PROVE  /\ DistinctJobs(Tail(s)) /\ JobAmong(Head(s).job, s)
         /\ \A j : JobAmong(j, Tail(s)) <=> j # Head(s).job /\ JobAmong(j, s)
<1> DEFINE t == Tail(s)
<1>1. Len(t) = Len(s) - 1 /\ Len(s) \in Nat \ {0} /\ Head(s) = s[1]
  OBVIOUS
<1>2. \A i \in 1 .. Len(t) : t[i] = s[i + 1]
  OBVIOUS
<1> HIDE DEF t
<1>3. \A i \in 1 .. Len(t) : i + 1 \in 1 .. Len(s) /\ i + 1 # 1
  BY <1>1
<1>4. 1 \in 1 .. Len(s)
  BY <1>1
<1>5. \A i \in 1 .. Len(s) : i = 1 \/ (i - 1 \in 1 .. Len(t) /\ (i - 1) + 1 = i)
  BY <1>1
<1>6. ASSUME NEW p \in 1 .. Len(t), NEW q \in 1 .. Len(t), t[p].job = t[q].job PROVE p = q
  <2>1. p + 1 = q + 1
    BY <1>2, <1>3, <1>6 DEF DistinctJobs
  <2> QED BY <2>1
<1>7. DistinctJobs(t)
  BY <1>6 DEF DistinctJobs
<1>8. JobAmong(Head(s).job, s)
  BY <1>1, <1>4 DEF JobAmong
<1>9. \A i \in 1 .. Len(t) : t[i].job # Head(s).job
  BY <1>1, <1>2, <1>3, <1>4 DEF DistinctJobs
<1>10. ASSUME NEW j, JobAmong(j, t) PROVE j # Head(s).job /\ JobAmong(j, s)
  BY <1>2, <1>3, <1>9, <1>10 DEF JobAmong
<1>11. ASSUME NEW j, j # Head(s).job, JobAmong(j, s) PROVE JobAmong(j, t)
  <2>1. PICK i \in 1 .. Len(s) : s[i].job = j
    BY <1>11 DEF JobAmong
  <2>2. i - 1 \in 1 .. Len(t) /\ (i - 1) + 1 = i
    BY <1>1, <1>5, <1>11, <2>1
  <2>3. t[i - 1].job = j
    BY <1>2, <2>1, <2>2
  <2> QED BY <2>2, <2>3 DEF JobAmong
<1>12. \A j : JobAmong(j, t) <=> j # Head(s).job /\ JobAmong(j, s)
  BY <1>10, <1>11
<1> QED BY <1>7, <1>8, <1>12 DEF t

(* A job goes on from stage k to stage m, and no other job moves.             *)
Goes(j, k, m) ==
  /\ j \in Jobs /\ k \in Stages /\ m \in Nat /\ k < m
  /\ Stage(j, k)
  /\ \A i \in Jobs, n \in Stages :
       Stage(i, n)' => (i = j /\ n = m) \/ (i # j /\ Stage(i, n))

Stays == \A i \in Jobs, n \in Stages : Stage(i, n)' <=> Stage(i, n)

LEMMA OneStageKept ==
  ASSUME OnceInv, Stays \/ \E j \in Jobs, k \in Stages, m \in Nat : Goes(j, k, m)
  PROVE  \A j \in Jobs, k, m \in Stages : Stage(j, k)' /\ Stage(j, m)' => k = m
<1>1. \A j \in Jobs, k, m \in Stages : Stage(j, k) /\ Stage(j, m) => k = m
  BY DEF OnceInv
<1>2. CASE Stays
  BY <1>1, <1>2 DEF Stays
<1>3. CASE \E j \in Jobs, k \in Stages, m \in Nat : Goes(j, k, m)
  <2>1. PICK j \in Jobs, k \in Stages, m \in Nat : Goes(j, k, m)
    BY <1>3
  <2> QED BY <1>1, <2>1 DEF Goes
<1> QED BY <1>2, <1>3

(* A job that is at one stage is at no other.                                 *)
LEMMA Elsewhere ==
  ASSUME OnceInv, NEW j \in Jobs, NEW k \in Stages, Stage(j, k)
  PROVE  /\ k # 1 => ~(j > submitted)
         /\ k # 2 => ~Among(j, jobs)
         /\ k # 3 => \A w \in Workers : ~Hand(w, "check", j)
         /\ k # 4 => \A w \in Workers : ~Hand(w, "process", j)
         /\ k # 5 => \A w \in Workers : ~Hand(w, "send", j)
         /\ k # 6 => ~JobAmong(j, results)
<1>1. \A m \in Stages : m # k => ~Stage(j, m)
  BY DEF OnceInv
<1>2. \A n \in {1, 2, 3, 4, 5, 6} : n \in Stages
  BY DEF Stages
<1>3. /\ k # 1 => ~Stage(j, 1)
      /\ k # 2 => ~Stage(j, 2)
      /\ k # 3 => ~Stage(j, 3)
      /\ k # 4 => ~Stage(j, 4)
      /\ k # 5 => ~Stage(j, 5)
      /\ k # 6 => ~Stage(j, 6)
  BY <1>1, <1>2
<1> QED BY <1>3 DEF Stage

(* What is in a hand after a worker has moved.                                *)
LEMMA HandMoves ==
  ASSUME TypeOK, NEW w \in Workers, NEW next, Become(w, next)
  PROVE  \A v \in Workers : \A j, step :
           Hand(v, step, j)' <=>
             IF v = w
             THEN next.pc = step /\ j = IF step = "send" THEN next.result.job ELSE next.job
             ELSE Hand(v, step, j)
<1>1. \A v \in Workers : worker'[v] = IF v = w THEN next ELSE worker[v]
  BY DEF Become, TypeOK, PoolTypeOK
<1> QED BY <1>1 DEF Hand, At

LEMMA TakeOnce ==
  ASSUME Inv, OnceInv, NEW w \in Workers, Take(w), UNCHANGED submitted
  PROVE  OnceInv' /\ Goes(Head(jobs), 2, 3)
<1> DEFINE next == [pc |-> "check", job |-> Head(jobs)]
           h == Head(jobs)
<1>1. /\ At(w, "range") /\ jobs # <<>> /\ jobs' = Tail(jobs)
      /\ Become(w, next) /\ UNCHANGED <<results, submitted>>
  BY DEF Take
<1>2. TypeOK /\ jobs \in Seq(Jobs)
  BY DEF Inv, TypeOK, PoolTypeOK
<1>3. /\ h \in Jobs /\ Among(h, jobs)
      /\ \A x : Among(x, Tail(jobs)) => Among(x, jobs)
  BY <1>1, <1>2, AmongTail
<1>4. Distinct(Tail(jobs)) /\ ~Among(h, Tail(jobs))
  BY <1>1, <1>2, DistinctTail DEF OnceInv
<1>5. next.pc = "check" /\ next.job = h
  OBVIOUS
<1> HIDE DEF next, h
<1>6. \A v \in Workers : \A j :
        /\ Hand(v, "check", j)' <=> IF v = w THEN j = h ELSE Hand(v, "check", j)
        /\ Hand(v, "process", j)' <=> v # w /\ Hand(v, "process", j)
        /\ Hand(v, "send", j)' <=> v # w /\ Hand(v, "send", j)
  BY <1>1, <1>2, <1>5, HandMoves
<1>8. 2 \in Stages /\ Stage(h, 2)
  BY <1>3 DEF Stages, Stage
<1>10. ~(h > submitted) /\ ~JobAmong(h, results) /\ \A v \in Workers : ~InHand(v, h)
  BY <1>3, <1>8, Elsewhere DEF InHand
<1>11. Goes(h, 2, 3)
  <2>1. ASSUME NEW i \in Jobs, NEW n \in Stages, Stage(i, n)'
        PROVE  (i = h /\ n = 3) \/ (i # h /\ Stage(i, n))
    BY <1>1, <1>3, <1>4, <1>6, <1>10, <2>1 DEF Stage, InHand
  <2> QED BY <1>3, <1>8, <2>1 DEF Goes
<1>12. \A v, u \in Workers, j \in Jobs : InHand(v, j)' /\ InHand(u, j)' => v = u
  BY <1>6, <1>10 DEF OnceInv, InHand
<1>13. OnceInv'
  BY <1>1, <1>3, <1>4, <1>8, <1>11, <1>12, OneStageKept DEF OnceInv
<1> QED BY <1>11, <1>13 DEF h

(* A worker that goes on with its job, or drops it.                           *)
LEMMA HandOnce ==
  ASSUME TypeOK, OnceInv, NEW w \in Workers, NEW next, Become(w, next),
         UNCHANGED <<jobs, results, submitted>>,
         NEW j \in Jobs, NEW k \in {3, 4}, NEW m \in {4, 5, 7},
         Hand(w, IF k = 3 THEN "check" ELSE "process", j), k < m,
         m = 4 => next.pc = "process" /\ next.job = j,
         m = 5 => next.pc = "send" /\ next.result.job = j,
         m = 7 => next.pc = "exited"
  PROVE  OnceInv' /\ Goes(j, k, m)
<1>1. \A v \in Workers : \A x, step :
        Hand(v, step, x)' <=>
          IF v = w
          THEN next.pc = step /\ x = IF step = "send" THEN next.result.job ELSE next.job
          ELSE Hand(v, step, x)
  BY HandMoves
<1>2. \A v \in Workers : \A x :
        /\ Hand(v, "check", x)' <=> v # w /\ Hand(v, "check", x)
        /\ Hand(v, "process", x)' <=> IF v = w THEN m = 4 /\ x = j ELSE Hand(v, "process", x)
        /\ Hand(v, "send", x)' <=> IF v = w THEN m = 5 /\ x = j ELSE Hand(v, "send", x)
  BY <1>1
<1>3. InHand(w, j) /\ k \in Stages /\ Stage(j, k)
  BY DEF InHand, Stages, Stage
<1>4. \A v \in Workers : v # w => ~InHand(v, j)
  BY <1>3 DEF OnceInv
<1>5. ~(j > submitted) /\ ~Among(j, jobs) /\ ~JobAmong(j, results)
  BY <1>3, Elsewhere
<1>6. Goes(j, k, m)
  <2>1. ASSUME NEW i \in Jobs, NEW n \in Stages, Stage(i, n)'
        PROVE  (i = j /\ n = m) \/ (i # j /\ Stage(i, n))
    BY <1>2, <1>4, <1>5, <2>1 DEF Stage, InHand
  <2>2. m \in Nat
    OBVIOUS
  <2> QED BY <1>3, <2>1, <2>2 DEF Goes
<1>7. \A v, u \in Workers, x \in Jobs : InHand(v, x)' /\ InHand(u, x)' => v = u
  BY <1>2, <1>4 DEF OnceInv, InHand
<1>8. m \in Nat
  OBVIOUS
<1>9. OnceInv'
  BY <1>3, <1>6, <1>7, <1>8, OneStageKept DEF OnceInv
<1> QED BY <1>6, <1>9

LEMMA GoOnOnce ==
  ASSUME Inv, OnceInv, NEW w \in Workers, GoOn(w), UNCHANGED submitted
  PROVE  OnceInv' /\ Goes(worker[w].job, 3, 4)
<1> DEFINE next == [pc |-> "process", job |-> worker[w].job]
           j == worker[w].job
<1>1. At(w, "check") /\ Become(w, next) /\ UNCHANGED <<jobs, results, submitted>>
  BY DEF GoOn
<1>2. TypeOK /\ j \in Jobs
  BY <1>1, WorkerType DEF Inv, At
<1>3. Hand(w, "check", j)
  BY <1>1 DEF Hand
<1>4. next.pc = "process" /\ next.job = j
  OBVIOUS
<1> HIDE DEF next, j
<1>5. OnceInv' /\ Goes(j, 3, 4)
  BY <1>1, <1>2, <1>3, <1>4, HandOnce
<1> QED BY <1>5 DEF j

LEMMA ProcessOnce ==
  ASSUME Inv, OnceInv, NEW w \in Workers, NEW ok \in BOOLEAN, Process(w, ok),
         UNCHANGED submitted
  PROVE  OnceInv' /\ Goes(worker[w].job, 4, 5)
<1> DEFINE next == [pc |-> "send", result |-> [job |-> worker[w].job, ok |-> ok]]
           j == worker[w].job
<1>1. At(w, "process") /\ Become(w, next) /\ UNCHANGED <<jobs, results, submitted>>
  BY DEF Process
<1>2. TypeOK /\ j \in Jobs
  BY <1>1, WorkerType DEF Inv, At
<1>3. Hand(w, "process", j)
  BY <1>1 DEF Hand
<1>4. next.pc = "send" /\ next.result.job = j
  OBVIOUS
<1> HIDE DEF next, j
<1>5. OnceInv' /\ Goes(j, 4, 5)
  BY <1>1, <1>2, <1>3, <1>4, HandOnce
<1> QED BY <1>5 DEF j

LEMMA QuitOnce ==
  ASSUME Inv, OnceInv, NEW w \in Workers, Quit(w), UNCHANGED submitted
  PROVE  OnceInv' /\ Goes(worker[w].job, 3, 7)
<1> DEFINE next == [pc |-> "exited"]
           j == worker[w].job
<1>1. At(w, "check") /\ Become(w, next) /\ UNCHANGED <<jobs, results, submitted>>
  BY DEF Quit
<1>2. TypeOK /\ j \in Jobs
  BY <1>1, WorkerType DEF Inv, At
<1>3. Hand(w, "check", j)
  BY <1>1 DEF Hand
<1>4. next.pc = "exited"
  OBVIOUS
<1> HIDE DEF next, j
<1>5. OnceInv' /\ Goes(j, 3, 7)
  BY <1>1, <1>2, <1>3, <1>4, HandOnce
<1> QED BY <1>5 DEF j

LEMMA DeliverOnce ==
  ASSUME Inv, OnceInv, NEW w \in Workers, Deliver(w), UNCHANGED submitted
  PROVE  OnceInv' /\ Goes(worker[w].result.job, 5, 6)
<1> DEFINE next == [pc |-> "range"]
           e == worker[w].result
<1>1. /\ At(w, "send") /\ Become(w, next) /\ results' = Append(results, e)
      /\ UNCHANGED <<jobs, submitted>>
  BY DEF Deliver
<1>2. TypeOK /\ results \in Seq(Result) /\ e \in Result
  BY <1>1, WorkerType DEF Inv, TypeOK, PoolTypeOK, At
<1>3. e.job \in Jobs
  BY <1>2 DEF Result
<1>4. Hand(w, "send", e.job)
  BY <1>1 DEF Hand
<1>5. next.pc = "range"
  OBVIOUS
<1> HIDE DEF next, e
<1>6. \A v \in Workers : \A j :
        /\ Hand(v, "check", j)' <=> v # w /\ Hand(v, "check", j)
        /\ Hand(v, "process", j)' <=> v # w /\ Hand(v, "process", j)
        /\ Hand(v, "send", j)' <=> v # w /\ Hand(v, "send", j)
  BY <1>1, <1>2, <1>5, HandMoves
<1>7. InHand(w, e.job) /\ 5 \in Stages /\ Stage(e.job, 5)
  BY <1>4 DEF InHand, Stages, Stage
<1>8. \A v \in Workers : v # w => ~InHand(v, e.job)
  BY <1>3, <1>7 DEF OnceInv
<1>9. ~(e.job > submitted) /\ ~Among(e.job, jobs) /\ ~JobAmong(e.job, results)
  BY <1>3, <1>7, Elsewhere
<1>10. /\ DistinctJobs(results')
       /\ \A j : JobAmong(j, results') <=> j = e.job \/ JobAmong(j, results)
  BY <1>1, <1>2, <1>9, JobsAppend DEF OnceInv
<1>11. Goes(e.job, 5, 6)
  <2>1. ASSUME NEW i \in Jobs, NEW n \in Stages, Stage(i, n)'
        PROVE  (i = e.job /\ n = 6) \/ (i # e.job /\ Stage(i, n))
    <3>1. \A j : JobAmong(j, results)' <=> j = e.job \/ JobAmong(j, results)
      BY <1>10 DEF JobAmong
    <3> QED BY <1>1, <1>6, <1>8, <1>9, <2>1, <3>1 DEF Stage, InHand
  <2> QED BY <1>3, <1>7, <2>1 DEF Goes
<1>12. \A v, u \in Workers, j \in Jobs : InHand(v, j)' /\ InHand(u, j)' => v = u
  BY <1>6 DEF OnceInv, InHand
<1>13. OnceInv'
  BY <1>1, <1>3, <1>7, <1>10, <1>11, <1>12, OneStageKept DEF OnceInv
<1> QED BY <1>11, <1>13 DEF e

LEMMA SubmitOnce ==
  ASSUME Inv, OnceInv, SubmitNext
  PROVE  OnceInv' /\ Goes(submitted + 1, 1, 2)
<1> DEFINE j == submitted + 1
<1>1. /\ submitted < NumJobs /\ submitted' = j /\ jobs' = Append(jobs, j)
      /\ UNCHANGED <<results, worker>>
  BY DEF SubmitNext, Submit
<1>2. TypeOK /\ jobs \in Seq(Jobs) /\ submitted \in Nat /\ NumJobs \in Nat
  BY PoolAssumption DEF Inv, TypeOK, PoolTypeOK
<1>3. j \in Jobs /\ j > submitted
  BY <1>1, <1>2 DEF Jobs
<1>4. 1 \in Stages /\ Stage(j, 1)
  BY <1>3 DEF Stages, Stage
<1>5. \A i \in Jobs : i \in Nat /\ (i > j <=> i > submitted /\ i # j)
  BY <1>2 DEF Jobs
<1> HIDE DEF j
<1>6. ~Among(j, jobs) /\ ~JobAmong(j, results) /\ \A v \in Workers : ~InHand(v, j)
  BY <1>3, <1>4, Elsewhere DEF InHand
<1>7. /\ Distinct(jobs')
      /\ \A x : Among(x, jobs') => x = j \/ Among(x, jobs)
  BY <1>1, <1>2, <1>3, <1>6, DistinctAppend, AmongAppend DEF OnceInv
<1>8. \A v \in Workers : \A step, x : Hand(v, step, x)' <=> Hand(v, step, x)
  BY <1>1 DEF Hand, At
<1>9. Goes(j, 1, 2)
  <2>1. ASSUME NEW i \in Jobs, NEW n \in Stages, Stage(i, n)'
        PROVE  (i = j /\ n = 2) \/ (i # j /\ Stage(i, n))
    <3>1. i > submitted' <=> i > submitted /\ i # j
      BY <1>1, <1>5
    <3>2. Among(i, jobs)' => i = j \/ Among(i, jobs)
      BY <1>7 DEF Among
    <3>3. JobAmong(i, results)' <=> JobAmong(i, results)
      BY <1>1 DEF JobAmong
    <3> QED BY <1>6, <1>8, <2>1, <3>1, <3>2, <3>3 DEF Stage, InHand
  <2> QED BY <1>3, <1>4, <2>1 DEF Goes
<1>10. \A v, u \in Workers, x \in Jobs : InHand(v, x)' /\ InHand(u, x)' => v = u
  BY <1>8 DEF OnceInv, InHand
<1>11. OnceInv'
  BY <1>1, <1>3, <1>4, <1>7, <1>9, <1>10, OneStageKept DEF OnceInv
<1> QED BY <1>9, <1>11 DEF j

LEMMA CollectOnce ==
  ASSUME Inv, OnceInv, Collect
  PROVE  OnceInv' /\ Goes(Head(results).job, 6, 7)
<1> DEFINE j == Head(results).job
<1>1. /\ results # <<>> /\ results' = Tail(results)
      /\ UNCHANGED <<jobs, worker, submitted>>
  BY DEF Collect, Receive
<1>2. TypeOK /\ results \in Seq(Result)
  BY DEF Inv, TypeOK, PoolTypeOK
<1>3. Head(results) \in Result
  BY <1>1, <1>2, AmongTail
<1>4. j \in Jobs
  BY <1>3 DEF Result
<1>5. /\ DistinctJobs(results') /\ JobAmong(j, results)
      /\ \A i : JobAmong(i, results') <=> i # j /\ JobAmong(i, results)
  BY <1>1, <1>2, JobsTail DEF OnceInv
<1> HIDE DEF j
<1>6. 6 \in Stages /\ Stage(j, 6)
  BY <1>5 DEF Stages, Stage
<1>7. ~(j > submitted) /\ ~Among(j, jobs) /\ \A v \in Workers : ~InHand(v, j)
  BY <1>4, <1>6, Elsewhere DEF InHand
<1>8. \A v \in Workers : \A step, x : Hand(v, step, x)' <=> Hand(v, step, x)
  BY <1>1 DEF Hand, At
<1>9. Goes(j, 6, 7)
  <2>1. ASSUME NEW i \in Jobs, NEW n \in Stages, Stage(i, n)'
        PROVE  (i = j /\ n = 7) \/ (i # j /\ Stage(i, n))
    <3>1. JobAmong(i, results)' <=> i # j /\ JobAmong(i, results)
      BY <1>5 DEF JobAmong
    <3>2. Among(i, jobs)' <=> Among(i, jobs)
      BY <1>1 DEF Among
    <3> QED BY <1>1, <1>7, <1>8, <2>1, <3>1, <3>2 DEF Stage, InHand
  <2> QED BY <1>4, <1>6, <2>1 DEF Goes
<1>10. \A v, u \in Workers, x \in Jobs : InHand(v, x)' /\ InHand(u, x)' => v = u
  BY <1>8 DEF OnceInv, InHand
<1>11. OnceInv'
  BY <1>1, <1>4, <1>5, <1>6, <1>9, <1>10, OneStageKept DEF OnceInv
<1> QED BY <1>9, <1>11 DEF j

(* The steps that move no job.                                                *)
LEMMA NobodyMoves ==
  ASSUME OnceInv, UNCHANGED <<jobs, results, submitted>>,
         \A v \in Workers : \A x :
           /\ Hand(v, "check", x)' <=> Hand(v, "check", x)
           /\ Hand(v, "process", x)' <=> Hand(v, "process", x)
           /\ Hand(v, "send", x)' <=> Hand(v, "send", x)
  PROVE  OnceInv' /\ Stays
<1>1. Stays
  BY DEF Stays, Stage, Among, JobAmong
<1>2. \A v, u \in Workers, x \in Jobs : InHand(v, x)' /\ InHand(u, x)' => v = u
  BY DEF OnceInv, InHand
<1>3. OnceInv'
  BY <1>1, <1>2, OneStageKept DEF OnceInv
<1> QED BY <1>1, <1>3

LEMMA NoMoreOnce ==
  ASSUME Inv, OnceInv, NEW w \in Workers, NoMoreJobs(w), UNCHANGED submitted
  PROVE  OnceInv' /\ Stays
<1> DEFINE next == [pc |-> "exited"]
<1>1. At(w, "range") /\ Become(w, next) /\ UNCHANGED <<jobs, results, submitted>>
  BY DEF NoMoreJobs
<1>2. TypeOK
  BY DEF Inv
<1>3. next.pc = "exited"
  OBVIOUS
<1> HIDE DEF next
<1>4. \A v \in Workers : \A x, step :
        Hand(v, step, x)' <=>
          IF v = w
          THEN next.pc = step /\ x = IF step = "send" THEN next.result.job ELSE next.job
          ELSE Hand(v, step, x)
  BY <1>1, <1>2, HandMoves
<1>5. \A x : ~Hand(w, "check", x) /\ ~Hand(w, "process", x) /\ ~Hand(w, "send", x)
  BY <1>1 DEF Hand, At
<1>6. \A v \in Workers : \A x :
           /\ Hand(v, "check", x)' <=> Hand(v, "check", x)
           /\ Hand(v, "process", x)' <=> Hand(v, "process", x)
           /\ Hand(v, "send", x)' <=> Hand(v, "send", x)
  BY <1>3, <1>4, <1>5
<1> QED BY <1>1, <1>6, NobodyMoves

(* The steps in which nothing moves between a worker, a queue and the service. *)
Still == \/ BeginTx \/ BeginFails \/ StartClosing \/ EndOfResults
         \/ Commit \/ CommitFails \/ Rollback \/ Respond
         \/ CloserStep \/ ContextCancelled \/ TxCancelled
         \/ Finished \/ UNCHANGED vars

LEMMA StillStays ==
  ASSUME OnceInv, Still
  PROVE  UNCHANGED <<jobs, results, worker, submitted>> /\ OnceInv' /\ Stays
<1>1. UNCHANGED <<jobs, results, worker, submitted>>
  BY DEF Still, BeginTx, BeginFails, StartClosing, EndOfResults, Commit, CommitFails,
     Rollback, Respond, Goto, Return, GoClose, CloserStep, CloseJobs, Wait, CloseResults,
     ContextCancelled, Cancel, TxCancelled, Finished, vars, poolVars, serviceVars
<1>2. \A v \in Workers : \A x, step : Hand(v, step, x)' <=> Hand(v, step, x)
  BY <1>1 DEF Hand, At
<1> QED BY <1>1, <1>2, NobodyMoves

(* Every step is still, ends a worker or takes one job further.               *)
Moving == \E j \in Jobs, k \in Stages, m \in Nat : Goes(j, k, m)

LEMMA NextOnce ==
  ASSUME Inv, OnceInv, [Next]_vars
  PROVE  OnceInv' /\ (Still \/ (Stays /\ \E w \in Workers : NoMoreJobs(w)) \/ Moving)
<1> USE DEF Moving
<1>1. \A k \in 1 .. 6 : k \in Stages
  BY DEF Stages
<1>2. CASE Still
  BY <1>2, StillStays
<1>3. CASE SubmitNext
  BY <1>3, SubmitOnce DEF Goes
<1>4. CASE Collect
  BY <1>4, CollectOnce DEF Goes
<1>5. ASSUME NEW w \in Workers, PoolStep(w)
      PROVE  OnceInv' /\ (Moving \/ (Stays /\ NoMoreJobs(w)))
  <2>1. UNCHANGED submitted
    BY <1>5 DEF PoolStep, CreateRow, CreateFails, serviceVars
  <2>2. CASE Take(w)
    BY <2>1, <2>2, TakeOnce DEF Goes
  <2>3. CASE NoMoreJobs(w)
    BY <2>1, <2>3, NoMoreOnce
  <2>4. CASE Quit(w)
    BY <2>1, <2>4, QuitOnce DEF Goes
  <2>5. CASE GoOn(w)
    BY <2>1, <2>5, GoOnOnce DEF Goes
  <2>6. CASE Deliver(w)
    BY <2>1, <2>6, DeliverOnce DEF Goes
  <2>7. CASE CreateRow(w) \/ CreateFails(w)
    <3>1. PICK ok \in BOOLEAN : Process(w, ok)
      BY <2>7 DEF CreateRow, CreateFails
    <3> QED BY <2>1, <3>1, ProcessOnce DEF Goes
  <2> QED BY <1>5, <2>2, <2>3, <2>4, <2>5, <2>6, <2>7 DEF PoolStep
<1> QED BY <1>2, <1>3, <1>4, <1>5 DEF Next, ServiceStep, Still

LEMMA InitOnce == Init => OnceInv
<1> SUFFICES ASSUME Init PROVE OnceInv
  OBVIOUS
<1>1. jobs = <<>> /\ results = <<>> /\ submitted = 0
  BY DEF Init, PoolInit
<1>2. \A w \in Workers : worker[w].pc = "range"
  BY DEF Init, PoolInit
<1>3. \A w \in Workers : \A j : ~InHand(w, j)
  BY <1>2 DEF InHand, Hand, At
<1>4. \A j : ~Among(j, jobs) /\ ~JobAmong(j, results)
  BY <1>1 DEF Among, JobAmong
<1>5. Distinct(jobs) /\ DistinctJobs(results)
  BY <1>1 DEF Distinct, DistinctJobs
<1>6. \A j \in Jobs, k \in Stages : Stage(j, k) => k = 1
  BY <1>3, <1>4 DEF Stage, InHand
<1> QED BY <1>3, <1>5, <1>6 DEF OnceInv

LEMMA OnceAlways == Spec => []OnceInv
<1>1. Inv /\ OnceInv /\ [Next]_vars => OnceInv'
  BY NextOnce
<1> QED BY <1>1, InitOnce, InvAlways, PTL DEF Spec

(* The results of n jobs, none of them j, are fewer than the jobs.            *)
LEMMA RoomForOne ==
  ASSUME NEW s \in Seq(Result), DistinctJobs(s), NEW j \in Jobs, ~JobAmong(j, s)
  PROVE  Len(s) < NumJobs
<1> DEFINE n == Len(s)
           f == [p \in 1 .. n |-> s[p].job]
           T == Jobs \ {j}
<1>1. n \in Nat /\ NumJobs \in Nat \ {0} /\ \A p \in 1 .. n : s[p] \in Result
  BY PoolAssumption
<1>2. \A p \in 1 .. n : s[p].job \in T
  BY <1>1 DEF Result, JobAmong
<1>3. f \in Injection(1 .. n, T)
  BY <1>2 DEF Injection, IsInjective, DistinctJobs
<1>4. IsFiniteSet(1 .. n) /\ Cardinality(1 .. n) = n
  <2>1. 1 \in Int /\ n \in Int
    BY <1>1
  <2>2. IsFiniteSet(1 .. n) /\ Cardinality(1 .. n) = IF 1 > n THEN 0 ELSE n - 1 + 1
    BY <2>1, FS_Interval
  <2> QED BY <1>1, <2>2
<1>5. IsFiniteSet(Jobs) /\ Cardinality(Jobs) = NumJobs
  <2>1. 1 \in Int /\ NumJobs \in Int
    BY <1>1
  <2>2. IsFiniteSet(Jobs) /\ Cardinality(Jobs) = IF 1 > NumJobs THEN 0 ELSE NumJobs - 1 + 1
    BY <2>1, FS_Interval DEF Jobs
  <2> QED BY <1>1, <2>2
<1>6. IsFiniteSet(T) /\ Cardinality(T) = NumJobs - 1
  BY <1>5, FS_RemoveElement
<1> HIDE DEF f, T, n
<1>7. Cardinality(1 .. n) <= Cardinality(T)
  BY <1>3, <1>6, FS_Injection
<1>8. n <= NumJobs - 1
  BY <1>4, <1>6, <1>7
<1> QED BY <1>1, <1>8 DEF n

(* What the closer and the transaction say of the service.                    *)
CloseInv ==
  /\ closer \in {"wait", "finish", "done"} => ~jobsOpen
  /\ closer = "done" => ~resultsOpen
  /\ service = "begin" => tx = "none"
  /\ service \in {"collect", "commit", "rollback"} => closer # "off"
  /\ service \in {"returned", "answered"} /\ closer = "off" => tx = "none"

LEMMA CloseAlways == Spec => []CloseInv
<1>1. Init => CloseInv
  BY DEF Init, PoolInit, CloseInv
<1>2. ASSUME Inv, CloseInv, [Next]_vars PROVE CloseInv'
  <2>1. CASE CloserStep
    <3>1. /\ closer \in {"close", "wait", "finish"} /\ closer' \in {"wait", "finish", "done"}
          /\ closer = "close" => ~jobsOpen'
          /\ jobsOpen' => jobsOpen
          /\ closer' = "done" => ~resultsOpen'
          /\ UNCHANGED <<service, tx>>
      BY <2>1 DEF CloserStep, CloseJobs, Wait, CloseResults, serviceVars, txVars
    <3> QED BY <1>2, <3>1 DEF CloseInv
  <2>2. CASE \E w \in Workers : PoolStep(w)
    <3>1. UNCHANGED <<closer, jobsOpen, resultsOpen, service, tx>>
      BY <2>2 DEF PoolStep, Take, NoMoreJobs, Quit, GoOn, Deliver, CreateRow, CreateFails,
         Process, serviceVars, txVars
    <3> QED BY <1>2, <3>1 DEF CloseInv
  <2>3. CASE ContextCancelled \/ TxCancelled \/ Finished \/ UNCHANGED vars
    <3>1. /\ UNCHANGED <<closer, jobsOpen, resultsOpen, service>>
          /\ tx' = tx \/ tx = "open"
      BY <2>3 DEF ContextCancelled, Cancel, TxCancelled, Finished, vars, poolVars,
         serviceVars, txVars
    <3> QED BY <1>2, <3>1 DEF CloseInv
  <2>4. CASE ServiceStep
    <3>1. service \in {"begin", "submit"} => closer = "off"
      BY <1>2 DEF Inv, ServiceInv
    <3>2. CASE StartClosing
      BY <1>2, <3>2 DEF CloseInv, StartClosing, Goto, GoClose, txVars, Inv, ServiceInv
    <3>3. CASE ~StartClosing
      <4>1. UNCHANGED <<closer, jobsOpen, resultsOpen>>
        BY <2>4, <3>3 DEF ServiceStep, BeginTx, BeginFails, SubmitNext, Submit, Collect,
           Receive, EndOfResults, Commit, CommitFails, Rollback, Respond, poolVars
      <4>2. \/ service = "begin" /\ service' = "submit"
            \/ service = "begin" /\ service' = "returned" /\ tx' = tx
            \/ service' = service /\ tx' = tx
            \/ service = "collect" /\ service' \in {"collect", "commit", "rollback"} /\ tx' = tx
            \/ service \in {"commit", "rollback"} /\ service' = "returned"
            \/ service = "returned" /\ service' = "answered" /\ tx' = tx
        BY <2>4, <3>3 DEF ServiceStep, BeginTx, BeginFails, SubmitNext, Collect,
           EndOfResults, Commit, CommitFails, Rollback, Respond, Goto, Return, txVars
      <4> QED BY <1>2, <4>1, <4>2 DEF CloseInv
    <3> QED BY <3>2, <3>3
  <2> QED BY <1>2, <2>1, <2>2, <2>3, <2>4 DEF Next
<1> QED BY <1>1, <1>2, InvAlways, PTL DEF Spec

LEMMA SendsGo ==
  ASSUME Inv, OnceInv
  PROVE  SendsGoThrough
<1> SUFFICES ASSUME NEW w \in Workers, At(w, "send")
             PROVE  resultsOpen /\ Len(results) < ResultsCap
  BY DEF SendsGoThrough
<1>1. TypeOK /\ results \in Seq(Result) /\ worker[w].result \in Result
  BY WorkerType DEF Inv, TypeOK, PoolTypeOK, At
<1>2. resultsOpen
  BY <1>1 DEF Inv, EndInv, Exited, At
<1>3. worker[w].result.job \in Jobs
  BY <1>1 DEF Result
<1>4. Hand(w, "send", worker[w].result.job)
  BY DEF Hand
<1>5. 5 \in Stages /\ Stage(worker[w].result.job, 5)
  BY <1>4 DEF Stages, Stage
<1>6. ~JobAmong(worker[w].result.job, results)
  BY <1>3, <1>5, Elsewhere
<1>7. Len(results) < NumJobs
  BY <1>1, <1>3, <1>6, RoomForOne DEF OnceInv
<1> QED BY <1>2, <1>7 DEF ResultsCap

(* What each goroutine needs for its next step.                               *)
ServiceCan ==
  \/ service \in {"begin", "submit", "commit", "rollback", "returned"}
  \/ service = "collect" /\ (results # <<>> \/ ~resultsOpen)
WorkerCan(w) ==
  \/ At(w, "range") /\ (jobs # <<>> \/ ~jobsOpen)
  \/ At(w, "check") \/ At(w, "process")
  \/ At(w, "send") /\ Len(results) < ResultsCap
CloserCan ==
  \/ closer \in {"close", "finish"}
  \/ closer = "wait" /\ Exited

Ended == service = "answered" /\ (tx = "none" \/ (Exited /\ closer = "done"))

NeverStuck == Ended \/ ServiceCan \/ CloserCan \/ \E w \in Workers : WorkerCan(w)

LEMMA SomebodyCan ==
  ASSUME Inv, CloseInv, SendsGoThrough
  PROVE  NeverStuck
<1> SUFFICES ASSUME ~ServiceCan, ~CloserCan, \A w \in Workers : ~WorkerCan(w)
             PROVE  Ended
  BY DEF NeverStuck
<1>1. TypeOK
  BY DEF Inv
<1>2. \/ service = "answered"
      \/ service = "collect" /\ resultsOpen
  BY <1>1 DEF ServiceCan, TypeOK
<1>3. closer = "off" \/ (closer = "wait" /\ ~Exited) \/ closer = "done"
  BY <1>1 DEF CloserCan, TypeOK, PoolTypeOK
<1>4. \A w \in Workers : At(w, "range") \/ At(w, "exited")
  BY <1>1, WorkerType DEF WorkerCan, At, SendsGoThrough
<1>5. jobsOpen \/ Exited
  BY <1>4 DEF WorkerCan, Exited
<1>6. closer # "wait"
  BY <1>3, <1>5 DEF CloseInv
<1>7. closer = "done" => Exited /\ ~resultsOpen
  BY DEF Inv, EndInv, CloseInv
<1> QED BY <1>2, <1>3, <1>6, <1>7 DEF CloseInv, Ended

(* What is left to do: the stages each job has before it, the workers that run, *)
(* the steps of the service and of Close, a context to cancel and a            *)
(* transaction to end.                                                        *)
JobsLeft    == {a \in Jobs \X Stages : \E k \in Stages : k <= a[2] /\ Stage(a[1], k)}
WorkersLeft == {w \in Workers : ~At(w, "exited")}

ServiceLeft ==
  CASE service = "begin"                  -> 5
    [] service = "submit"                 -> 4
    [] service = "collect"                -> 3
    [] service \in {"commit", "rollback"} -> 2
    [] service = "returned"               -> 1
    [] service = "answered"               -> 0

CloserLeft ==
  CASE closer = "off"    -> 4
    [] closer = "close"  -> 3
    [] closer = "wait"   -> 2
    [] closer = "finish" -> 1
    [] closer = "done"   -> 0

CtxLeft == IF ctxDone THEN 0 ELSE 1
TxLeft  == IF tx \in {"none", "open"} THEN 1 ELSE 0

RestLeft == ServiceLeft + CloserLeft + CtxLeft + TxLeft
Left     == Cardinality(JobsLeft) + Cardinality(WorkersLeft) + RestLeft

LEMMA GoesShrinks ==
  ASSUME NEW j \in Jobs, NEW k \in Stages, NEW m \in Nat, Goes(j, k, m)
  PROVE  JobsLeft' \subseteq JobsLeft /\ JobsLeft' # JobsLeft
<1>1. k \in Nat /\ k < m /\ Stage(j, k) /\ <<j, k>> \in Jobs \X Stages
  BY DEF Goes, Stages
<1>2. \A i \in Jobs, n \in Stages :
        Stage(i, n)' => (i = j /\ n = m) \/ (i # j /\ Stage(i, n))
  BY DEF Goes
<1>3. <<j, k>> \in JobsLeft
  BY <1>1 DEF JobsLeft
<1>4. <<j, k>> \notin JobsLeft'
  <2>1. ASSUME NEW n \in Stages, n <= k, Stage(j, n)' PROVE FALSE
    BY <1>1, <1>2, <2>1
  <2> QED BY <2>1 DEF JobsLeft
<1>5. ASSUME NEW a \in JobsLeft' PROVE a \in JobsLeft
  <2>1. a \in Jobs \X Stages
    BY DEF JobsLeft
  <2>2. PICK i \in Jobs, b \in Stages : a = <<i, b>>
    BY <2>1
  <2>3. PICK n \in Stages : n <= b /\ Stage(i, n)'
    BY <2>2 DEF JobsLeft
  <2>4. CASE i # j
    BY <1>2, <2>1, <2>2, <2>3, <2>4 DEF JobsLeft
  <2>5. CASE i = j
    <3>1. n = m
      BY <1>2, <2>3, <2>5
    <3>2. k <= b
      BY <1>1, <2>3, <3>1 DEF Stages
    <3> QED BY <1>1, <2>1, <2>2, <2>5, <3>2 DEF JobsLeft
  <2> QED BY <2>4, <2>5
<1> QED BY <1>3, <1>4, <1>5

LEMMA StaysSame ==
  ASSUME Stays
  PROVE  JobsLeft' = JobsLeft
BY DEF Stays, JobsLeft

LEMMA WorkersShrink ==
  ASSUME Inv, [Next]_vars
  PROVE  /\ WorkersLeft' \subseteq WorkersLeft
         /\ (\E w \in Workers : NoMoreJobs(w)) => WorkersLeft' # WorkersLeft
<1>1. TypeOK
  BY DEF Inv
<1>2. \A w \in Workers : \A next :
        Become(w, next) => \A v \in Workers : worker'[v] = IF v = w THEN next ELSE worker[v]
  BY <1>1 DEF Become, TypeOK, PoolTypeOK
<1>3. worker' = worker
      \/ \E w \in Workers : ~At(w, "exited") /\ \E next : Become(w, next)
  BY DEF Next, ServiceStep, PoolStep, CloserStep, ContextCancelled, Cancel, TxCancelled,
     Finished, BeginTx, BeginFails, SubmitNext, Submit, StartClosing, GoClose, Collect,
     Receive, EndOfResults, Commit, CommitFails, Rollback, Respond, Take, NoMoreJobs, Quit,
     GoOn, Deliver, CreateRow, CreateFails, Process, CloseJobs, Wait, CloseResults, At,
     vars, poolVars
<1>4. WorkersLeft' \subseteq WorkersLeft
  <2>1. CASE worker' = worker
    BY <2>1 DEF WorkersLeft, At
  <2>2. CASE \E w \in Workers : ~At(w, "exited") /\ \E next : Become(w, next)
    <3>1. PICK w \in Workers : ~At(w, "exited") /\ \E next : Become(w, next)
      BY <2>2
    <3>2. \A v \in Workers : v # w => worker'[v] = worker[v]
      BY <1>2, <3>1
    <3> QED BY <3>1, <3>2 DEF WorkersLeft, At
  <2> QED BY <1>3, <2>1, <2>2
<1>5. ASSUME NEW w \in Workers, NoMoreJobs(w) PROVE WorkersLeft' # WorkersLeft
  <2>1. At(w, "range") /\ Become(w, [pc |-> "exited"])
    BY <1>5 DEF NoMoreJobs
  <2>2. worker'[w] = [pc |-> "exited"]
    BY <1>2, <2>1
  <2> QED BY <2>1, <2>2 DEF WorkersLeft, At
<1> QED BY <1>4, <1>5

LEMMA LessInAll ==
  ASSUME NEW a \in Nat, NEW b \in Nat, NEW c \in Nat, NEW d \in Nat,
         NEW w \in Nat, NEW x \in Nat, NEW y \in Nat, NEW z \in Nat,
         w = a \/ w < a, x = b \/ x < b, y = c \/ y < c, z = d \/ z < d
  PROVE  /\ w + x + y + z \in Nat /\ w + x + y + z <= a + b + c + d
         /\ (w < a \/ x < b \/ y < c \/ z < d) => w + x + y + z < a + b + c + d
OBVIOUS

LEMMA RestNat ==
  ASSUME TypeOK
  PROVE  /\ ServiceLeft \in 0 .. 5 /\ CloserLeft \in 0 .. 4
         /\ CtxLeft \in 0 .. 1 /\ TxLeft \in 0 .. 1
         /\ RestLeft \in Nat
<1>1. /\ ServiceLeft \in 0 .. 5 /\ CloserLeft \in 0 .. 4
      /\ CtxLeft \in 0 .. 1 /\ TxLeft \in 0 .. 1
  BY DEF TypeOK, PoolTypeOK, ServiceLeft, CloserLeft, CtxLeft, TxLeft
<1> QED BY <1>1 DEF RestLeft

LEMMA RestDown ==
  ASSUME TypeOK, TypeOK',
         ServiceLeft' = ServiceLeft \/ ServiceLeft' < ServiceLeft,
         CloserLeft' = CloserLeft \/ CloserLeft' < CloserLeft,
         CtxLeft' = CtxLeft \/ CtxLeft' < CtxLeft,
         TxLeft' = TxLeft \/ TxLeft' < TxLeft
  PROVE  /\ RestLeft' <= RestLeft
         /\ (\/ ServiceLeft' < ServiceLeft \/ CloserLeft' < CloserLeft
             \/ CtxLeft' < CtxLeft \/ TxLeft' < TxLeft) => RestLeft' < RestLeft
<1>1. /\ ServiceLeft \in Nat /\ CloserLeft \in Nat /\ CtxLeft \in Nat /\ TxLeft \in Nat
      /\ ServiceLeft' \in Nat /\ CloserLeft' \in Nat /\ CtxLeft' \in Nat /\ TxLeft' \in Nat
  <2>1. /\ ServiceLeft \in 0 .. 5 /\ CloserLeft \in 0 .. 4
        /\ CtxLeft \in 0 .. 1 /\ TxLeft \in 0 .. 1
    BY RestNat
  <2>2. /\ ServiceLeft' \in 0 .. 5 /\ CloserLeft' \in 0 .. 4
        /\ CtxLeft' \in 0 .. 1 /\ TxLeft' \in 0 .. 1
    BY DEF TypeOK, PoolTypeOK, ServiceLeft, CloserLeft, CtxLeft, TxLeft
  <2> QED BY <2>1, <2>2
<1>2. /\ RestLeft = ServiceLeft + CloserLeft + CtxLeft + TxLeft
      /\ RestLeft' = ServiceLeft' + CloserLeft' + CtxLeft' + TxLeft'
  BY DEF RestLeft
<1> QED BY <1>1, <1>2, LessInAll

(* The steps that move no job bring something else to its end.                *)
LEMMA StillShrinks ==
  ASSUME Inv, Inv', CloseInv, Still
  PROVE  UNCHANGED vars \/ RestLeft' < RestLeft
<1>1. TypeOK /\ TypeOK'
  BY DEF Inv
<1>2. CASE CloserStep
  <2>1. /\ \/ closer = "close" /\ closer' = "wait"
           \/ closer = "wait" /\ closer' = "finish"
           \/ closer = "finish" /\ closer' = "done"
        /\ UNCHANGED <<service, tx, ctxDone>>
    BY <1>2 DEF CloserStep, CloseJobs, Wait, CloseResults, serviceVars, txVars
  <2>2. CloserLeft' < CloserLeft
    BY <2>1 DEF ServiceLeft, CloserLeft, CtxLeft, TxLeft
  <2>3. UNCHANGED <<ServiceLeft, CtxLeft, TxLeft>>
    BY <2>1 DEF ServiceLeft, CloserLeft, CtxLeft, TxLeft
  <2> QED BY <1>1, <2>2, <2>3, RestDown
<1>3. CASE ContextCancelled
  <2>1. ~ctxDone /\ ctxDone' /\ UNCHANGED <<service, tx, closer>>
    BY <1>3 DEF ContextCancelled, Cancel, serviceVars, txVars
  <2>2. CtxLeft' < CtxLeft
    BY <2>1 DEF ServiceLeft, CloserLeft, CtxLeft, TxLeft
  <2>3. UNCHANGED <<ServiceLeft, CloserLeft, TxLeft>>
    BY <2>1 DEF ServiceLeft, CloserLeft, CtxLeft, TxLeft
  <2> QED BY <1>1, <2>2, <2>3, RestDown
<1>4. CASE TxCancelled
  <2>1. tx = "open" /\ tx' = "rolledback" /\ UNCHANGED <<service, closer, ctxDone>>
    BY <1>4 DEF TxCancelled, serviceVars, poolVars
  <2>2. TxLeft' < TxLeft
    BY <2>1 DEF ServiceLeft, CloserLeft, CtxLeft, TxLeft
  <2>3. UNCHANGED <<ServiceLeft, CloserLeft, CtxLeft>>
    BY <2>1 DEF ServiceLeft, CloserLeft, CtxLeft, TxLeft
  <2> QED BY <1>1, <2>2, <2>3, RestDown
<1>5. CASE BeginTx \/ BeginFails \/ StartClosing \/ EndOfResults
           \/ Commit \/ CommitFails \/ Rollback \/ Respond
  <2>1. \/ service = "begin" /\ service' \in {"submit", "returned"}
        \/ service = "submit" /\ service' = "collect"
        \/ service = "collect" /\ service' = "commit"
        \/ service \in {"commit", "rollback"} /\ service' = "returned"
        \/ service = "returned" /\ service' = "answered"
    BY <1>5 DEF BeginTx, BeginFails, StartClosing, EndOfResults, Commit, CommitFails,
       Rollback, Respond, Goto, Return
  <2>2. /\ closer' = closer \/ (closer = "off" /\ closer' = "close")
        /\ ctxDone' = ctxDone
        /\ \/ tx' = tx \/ tx' \in {"committed", "rolledback"}
           \/ tx \in {"none", "open"}
    <3>1. service = "submit" => closer = "off"
      BY DEF Inv, ServiceInv
    <3>2. service = "begin" => tx = "none"
      BY DEF CloseInv
    <3> QED BY <1>5, <3>1, <3>2 DEF BeginTx, BeginFails, StartClosing, EndOfResults, Commit,
       CommitFails, Rollback, Respond, Goto, Return, GoClose, poolVars, txVars
  <2>3. ServiceLeft' < ServiceLeft
    BY <2>1 DEF ServiceLeft, CloserLeft, CtxLeft, TxLeft
  <2>4. /\ CloserLeft' = CloserLeft \/ CloserLeft' < CloserLeft
        /\ CtxLeft' = CtxLeft
    <3>1. closer' = closer => CloserLeft' = CloserLeft
      BY DEF CloserLeft
    <3>2. closer = "off" /\ closer' = "close" => CloserLeft' < CloserLeft
      BY DEF CloserLeft
    <3>3. CtxLeft' = CtxLeft
      BY <2>2 DEF CtxLeft
    <3> QED BY <2>2, <3>1, <3>2, <3>3
  <2>5. TxLeft' = TxLeft \/ TxLeft' < TxLeft
    <3>1. CASE tx' = tx
      BY <3>1 DEF TxLeft
    <3>2. CASE tx' \in {"committed", "rolledback"}
      BY <1>1, <3>2 DEF TxLeft, TypeOK
    <3>3. CASE tx \in {"none", "open"}
      BY <3>3 DEF TxLeft
    <3> QED BY <2>2, <3>1, <3>2, <3>3
  <2> QED BY <1>1, <2>3, <2>4, <2>5, RestDown
<1>6. CASE Finished \/ UNCHANGED vars
  BY <1>6 DEF Finished
<1> QED BY <1>2, <1>3, <1>4, <1>5, <1>6 DEF Still

LEMMA RestKept ==
  ASSUME Inv, Inv', SubmitNext \/ Collect \/ \E w \in Workers : PoolStep(w)
  PROVE  RestLeft' <= RestLeft
<1>1. TypeOK /\ TypeOK'
  BY DEF Inv
<1>2. /\ UNCHANGED <<closer, ctxDone, tx>>
      /\ service' = service \/ (service = "collect" /\ service' = "rollback")
  <2>1. CASE SubmitNext \/ Collect
    BY <2>1 DEF SubmitNext, Submit, Collect, Receive, txVars
  <2>2. CASE \E w \in Workers : PoolStep(w)
    BY <2>2 DEF PoolStep, Take, NoMoreJobs, Quit, GoOn, Deliver, CreateRow, CreateFails,
       Process, serviceVars, txVars
  <2> QED BY <2>1, <2>2
<1>3. UNCHANGED <<CloserLeft, CtxLeft, TxLeft>>
  BY <1>2 DEF CloserLeft, CtxLeft, TxLeft
<1>4. ServiceLeft' = ServiceLeft \/ ServiceLeft' < ServiceLeft
  <2>1. service' = service => ServiceLeft' = ServiceLeft
    BY DEF ServiceLeft
  <2>2. service = "collect" /\ service' = "rollback" => ServiceLeft' < ServiceLeft
    BY DEF ServiceLeft
  <2> QED BY <1>2, <2>1, <2>2
<1> QED BY <1>1, <1>3, <1>4, RestDown

(* Cardinalities of the sets of what is left.                                 *)
LEMMA LeftFinite ==
  ASSUME IsFiniteSet(Workers)
  PROVE  /\ IsFiniteSet(JobsLeft) /\ IsFiniteSet(WorkersLeft)
         /\ Cardinality(JobsLeft) <= 6 * NumJobs
         /\ Cardinality(WorkersLeft) <= Cardinality(Workers)
<1>1. NumJobs \in Nat \ {0}
  BY PoolAssumption
<1>2. IsFiniteSet(Jobs) /\ Cardinality(Jobs) = NumJobs
  <2>1. 1 \in Int /\ NumJobs \in Int
    BY <1>1
  <2>2. IsFiniteSet(Jobs) /\ Cardinality(Jobs) = IF 1 > NumJobs THEN 0 ELSE NumJobs - 1 + 1
    BY <2>1, FS_Interval DEF Jobs
  <2> QED BY <1>1, <2>2
<1>3. IsFiniteSet(Stages) /\ Cardinality(Stages) = 6
  <2>1. 1 \in Int /\ 6 \in Int
    OBVIOUS
  <2>2. IsFiniteSet(Stages) /\ Cardinality(Stages) = IF 1 > 6 THEN 0 ELSE 6 - 1 + 1
    BY <2>1, FS_Interval DEF Stages
  <2> QED BY <2>2
<1>4. IsFiniteSet(Jobs \X Stages) /\ Cardinality(Jobs \X Stages) = NumJobs * 6
  BY <1>2, <1>3, FS_Product
<1>5. JobsLeft \in SUBSET (Jobs \X Stages) /\ WorkersLeft \in SUBSET Workers
  BY DEF JobsLeft, WorkersLeft
<1>6. IsFiniteSet(JobsLeft) /\ Cardinality(JobsLeft) <= NumJobs * 6
  BY <1>4, <1>5, FS_Subset
<1>7. IsFiniteSet(WorkersLeft) /\ Cardinality(WorkersLeft) <= Cardinality(Workers)
  BY <1>5, FS_Subset
<1>8. NumJobs * 6 = 6 * NumJobs
  BY <1>1
<1> QED BY <1>6, <1>7, <1>8

(* A part of a finite set has no more elements, and fewer if it is not all.   *)
LEMMA Fewer ==
  ASSUME NEW S, IsFiniteSet(S), NEW T, T \subseteq S
  PROVE  /\ IsFiniteSet(T) /\ Cardinality(S) \in Nat /\ Cardinality(T) \in Nat
         /\ Cardinality(T) <= Cardinality(S)
         /\ T # S => Cardinality(T) < Cardinality(S)
<1>1. /\ IsFiniteSet(T) /\ Cardinality(T) <= Cardinality(S)
      /\ Cardinality(S) = Cardinality(T) => S = T
  BY FS_Subset
<1>2. Cardinality(S) \in Nat /\ Cardinality(T) \in Nat
  BY <1>1, FS_CardinalityType
<1> QED BY <1>1, <1>2

LEMMA StepShrinks ==
  ASSUME IsFiniteSet(Workers), Inv, OnceInv, CloseInv, [Next]_vars
  PROVE  UNCHANGED vars \/ Left' < Left
<1>1. Inv'
  BY NextInv
<1>2. IsFiniteSet(JobsLeft) /\ IsFiniteSet(WorkersLeft)
  BY LeftFinite
<1>3. WorkersLeft' \subseteq WorkersLeft
  BY WorkersShrink
<1>4. /\ Cardinality(WorkersLeft) \in Nat /\ Cardinality(WorkersLeft') \in Nat
      /\ Cardinality(WorkersLeft') <= Cardinality(WorkersLeft)
      /\ WorkersLeft' # WorkersLeft => Cardinality(WorkersLeft') < Cardinality(WorkersLeft)
  BY <1>2, <1>3, Fewer
<1>5. RestLeft \in Nat /\ RestLeft' \in Nat
  <2>1. RestLeft \in Nat
    BY RestNat DEF Inv
  <2>2. /\ ServiceLeft' \in Nat /\ CloserLeft' \in Nat /\ CtxLeft' \in Nat /\ TxLeft' \in Nat
    <3>1. TypeOK'
      BY <1>1 DEF Inv
    <3>2. /\ ServiceLeft' \in 0 .. 5 /\ CloserLeft' \in 0 .. 4
          /\ CtxLeft' \in 0 .. 1 /\ TxLeft' \in 0 .. 1
      BY <3>1 DEF TypeOK, PoolTypeOK, ServiceLeft, CloserLeft, CtxLeft, TxLeft
    <3> QED BY <3>2
  <2>3. RestLeft' = ServiceLeft' + CloserLeft' + CtxLeft' + TxLeft'
    BY DEF RestLeft
  <2>4. RestLeft' \in Nat
    BY <2>2, <2>3, LessInAll
  <2> QED BY <2>1, <2>4
<1>6. Still \/ (Stays /\ \E v \in Workers : NoMoreJobs(v)) \/ Moving
  BY NextOnce
<1>7. JobsLeft' \subseteq JobsLeft /\ (Moving => JobsLeft' # JobsLeft)
  <2>1. Still => Stays
    BY StillStays
  <2>2. Stays => JobsLeft' = JobsLeft
    BY StaysSame
  <2>3. Moving => JobsLeft' \subseteq JobsLeft /\ JobsLeft' # JobsLeft
    BY GoesShrinks DEF Moving
  <2> QED BY <1>6, <2>1, <2>2, <2>3
<1>8. /\ Cardinality(JobsLeft) \in Nat /\ Cardinality(JobsLeft') \in Nat
      /\ Cardinality(JobsLeft') <= Cardinality(JobsLeft)
      /\ JobsLeft' # JobsLeft => Cardinality(JobsLeft') < Cardinality(JobsLeft)
  BY <1>2, <1>7, Fewer
<1>9. /\ Left = Cardinality(JobsLeft) + Cardinality(WorkersLeft) + RestLeft
      /\ Left' = Cardinality(JobsLeft') + Cardinality(WorkersLeft') + RestLeft'
  BY DEF Left
<1>10. CASE Still
  <2>1. UNCHANGED vars \/ RestLeft' < RestLeft
    BY <1>1, <1>10, StillShrinks
  <2> QED BY <1>4, <1>5, <1>8, <1>9, <2>1
<1>11. CASE ~Still
  <2>1. SubmitNext \/ Collect \/ \E v \in Workers : PoolStep(v)
    BY <1>11 DEF Next, ServiceStep, Still
  <2>2. RestLeft' <= RestLeft
    BY <1>1, <2>1, RestKept
  <2>3. \/ Cardinality(JobsLeft') < Cardinality(JobsLeft)
        \/ Cardinality(WorkersLeft') < Cardinality(WorkersLeft)
    BY <1>4, <1>6, <1>7, <1>8, <1>11, WorkersShrink
  <2> QED BY <1>4, <1>5, <1>8, <1>9, <2>2, <2>3
<1> QED BY <1>10, <1>11

----------------------------------------------------------------------------
(* The pool, the transaction and the service stay well typed; the results     *)
(* channel never holds more than one result per URL.                          *)
THEOREM TypeCorrect == Spec => []TypeOK
BY InvAlways, PTL DEF Inv

(* A worker with a result in hand never finds the results closed (pool.go,    *)
(* Close) nor full: the buffer has room for each of its jobs once, read or not. *)
THEOREM SendsAlwaysGoThrough == Spec => []SendsGoThrough
<1>1. Inv /\ OnceInv => SendsGoThrough
  BY SendsGo
<1> QED BY <1>1, InvAlways, OnceAlways, PTL

(* The service, the workers and Close never wait for each other in a circle:  *)
(* until all of them have ended, one has a step to take.                      *)
THEOREM NobodyWaitsForEver == Spec => []NeverStuck
<1>1. Inv /\ CloseInv /\ SendsGoThrough => NeverStuck
  BY SomebodyCan
<1> QED BY <1>1, InvAlways, CloseAlways, SendsAlwaysGoThrough, PTL

(* Every step of the service, of a worker, of Close, of the context or of     *)
(* database/sql leaves less to do: nothing is retried and nothing goes round  *)
(* for ever, whatever fails.                                                  *)
THEOREM EveryStepCounts == IsFiniteSet(Workers) => (Spec => [][Left' < Left]_vars)
<1> SUFFICES ASSUME IsFiniteSet(Workers) PROVE Spec => [][Left' < Left]_vars
  OBVIOUS
<1>1. Inv /\ OnceInv /\ CloseInv /\ [Next]_vars => [Left' < Left]_vars
  BY StepShrinks
<1> QED BY <1>1, InvAlways, OnceAlways, CloseAlways, PTL DEF Spec

(* So a bulk request of n URLs is over after a number of steps that n and the *)
(* workers bound, in any order of the goroutines.                             *)
VARIABLE steps    \* how many steps have been taken

Counted ==
  /\ Spec
  /\ steps = 0
  /\ [][steps' = IF vars' = vars THEN steps ELSE steps + 1]_<<vars, steps>>

Bound   == 6 * NumJobs + Cardinality(Workers) + 11
Bounded == steps <= Bound

CountInv == steps \in Nat /\ steps + Left <= Bound

LEMMA LeftNat ==
  ASSUME IsFiniteSet(Workers), TypeOK
  PROVE  Left \in Nat /\ Bound \in Nat /\ Left <= Bound
<1>1. /\ Cardinality(JobsLeft) \in Nat /\ Cardinality(WorkersLeft) \in Nat
      /\ Cardinality(Workers) \in Nat
  BY LeftFinite, FS_CardinalityType
<1>2. /\ Cardinality(JobsLeft) <= 6 * NumJobs
      /\ Cardinality(WorkersLeft) <= Cardinality(Workers)
  BY LeftFinite
<1>3. /\ ServiceLeft \in 0 .. 5 /\ CloserLeft \in 0 .. 4
      /\ CtxLeft \in 0 .. 1 /\ TxLeft \in 0 .. 1
      /\ RestLeft \in Nat
  BY RestNat
<1>4. RestLeft <= 11
  BY <1>3 DEF RestLeft
<1>5. 6 * NumJobs \in Nat
  BY PoolAssumption
<1> QED BY <1>1, <1>2, <1>3, <1>4, <1>5 DEF Left, Bound

LeftIsNat == Left \in Nat

LEMMA CountsDown ==
  ASSUME NEW a \in Nat, NEW b \in Nat, NEW c \in Nat, NEW bound \in Nat,
         a + b <= bound, c < b
  PROVE  a + 1 \in Nat /\ (a + 1) + c <= bound
OBVIOUS

LEMMA SameLeft ==
  ASSUME UNCHANGED vars
  PROVE  Left' = Left
<1>1. /\ UNCHANGED <<jobs, results, worker, submitted>>
      /\ UNCHANGED <<service, closer, ctxDone, tx>>
  BY DEF vars, poolVars, serviceVars, txVars
<1>2. \A v \in Workers : \A step, x : Hand(v, step, x)' <=> Hand(v, step, x)
  BY <1>1 DEF Hand, At
<1>3. Stays
  BY <1>1, <1>2 DEF Stays, Stage, Among, JobAmong
<1>4. JobsLeft' = JobsLeft
  BY <1>3, StaysSame
<1>5. WorkersLeft' = WorkersLeft
  BY <1>1 DEF WorkersLeft, At
<1>6. UNCHANGED <<ServiceLeft, CloserLeft, CtxLeft, TxLeft>>
  BY <1>1 DEF ServiceLeft, CloserLeft, CtxLeft, TxLeft
<1> QED BY <1>4, <1>5, <1>6 DEF Left, RestLeft

(* The number of its steps is at most six per URL, one per worker and eleven. *)
THEOREM BulkIsShort == IsFiniteSet(Workers) => (Counted => []Bounded)
<1> SUFFICES ASSUME IsFiniteSet(Workers) PROVE Counted => []Bounded
  OBVIOUS
<1>1. TypeOK => LeftIsNat
  BY LeftNat DEF LeftIsNat
<1>2. TypeOK /\ steps = 0 => CountInv
  BY LeftNat DEF CountInv
<1>3. ASSUME LeftIsNat, LeftIsNat', CountInv, [Left' < Left]_vars,
             [steps' = IF vars' = vars THEN steps ELSE steps + 1]_<<vars, steps>>
      PROVE  CountInv'
  <2>1. Left \in Nat /\ Left' \in Nat /\ steps \in Nat /\ steps + Left <= Bound
    BY <1>3 DEF LeftIsNat, CountInv
  <2>2. Bound \in Nat
    BY PoolAssumption, FS_CardinalityType DEF Bound
  <2>3. Bound' = Bound
    BY DEF Bound
  <2>4. CASE vars' = vars
    <3>1. Left' = Left
      BY <2>4, SameLeft
    <3>2. steps' = steps
      BY <1>3, <2>4
    <3> QED BY <2>1, <2>3, <3>1, <3>2 DEF CountInv
  <2>5. CASE vars' # vars
    <3>1. Left' < Left
      BY <1>3, <2>5
    <3>2. steps' = steps + 1
      BY <1>3, <2>5
    <3>3. steps' \in Nat /\ steps' + Left' <= Bound
      BY <2>1, <2>2, <3>1, <3>2, CountsDown
    <3> QED BY <2>3, <3>3 DEF CountInv
  <2> QED BY <2>4, <2>5
<1>4. LeftIsNat /\ CountInv => Bounded
  <2> SUFFICES ASSUME LeftIsNat, CountInv PROVE Bounded
    OBVIOUS
  <2>1. Bound \in Nat
    BY PoolAssumption, FS_CardinalityType DEF Bound
  <2> QED BY <2>1 DEF LeftIsNat, CountInv, Bounded
<1> QED BY <1>1, <1>2, <1>3, <1>4, TypeCorrect, EveryStepCounts, PTL DEF Counted

(* What BulkShorten commits is the whole request (url_service.go, its doc).   *)
THEOREM CommitsAllOrNothing == Spec => []AllOrNothing
<1>1. Inv => AllOrNothing
  BY DEF Inv, ServiceInv, AllOrNothing
<1> QED BY <1>1, InvAlways, PTL

(* BulkShorten returns its results if and only if they are committed.         *)
THEOREM ReportsTruly == Spec => []ReportIsTrue
<1>1. Inv => ReportIsTrue
  BY DEF Inv, ServiceInv, ReportIsTrue
<1> QED BY <1>1, InvAlways, PTL

=============================================================================
