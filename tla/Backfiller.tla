----------------------------- MODULE Backfiller -----------------------------
(***************************************************************************)
(* backfillers.Backfiller: jobs on a bounded queue, a pool of workers, and *)
(* the callers that wait for a job's result.                               *)
(*                                                                         *)
(* A job is one call of BackfillRange: by the scheduler, by BackfillLatest *)
(* or by main.  A worker fetches the pools, cuts the offers into batches   *)
(* and overwrites the store with one batch after the other, through the    *)
(* gRPC client.  Offers are model values; the store is the set it holds.   *)
(***************************************************************************)
EXTENDS Naturals, Sequences, FiniteSets

CONSTANTS
    Jobs,         \* calls of BackfillRange
    Request,      \* what each asks for: [valid, chain, dry]
    Deadlines,    \* the jobs whose caller's context expires some day
    Workers,
    QueueCap,     \* capacity of b.jobQueue
    Offers,
    Fetches,      \* what fetching and batching can give: sequences of sets
    Started,      \* does main call Start?  Not with -run-once
    None

ASSUME BackfillerAssumption ==
    /\ Request \in [Jobs -> [valid: BOOLEAN, chain: BOOLEAN, dry: BOOLEAN]]
    /\ Deadlines \subseteq Jobs
    /\ QueueCap \in Nat \ {0}
    /\ Fetches \subseteq Seq((SUBSET Offers) \ {{}})
    /\ Started \in BOOLEAN
    /\ None \notin Jobs

VARIABLES
    caller,       \* where each call is
    outcome,      \* what it returned
    queue,        \* b.jobQueue
    worker,       \* each worker's job, None at its select, and its batches to come
    result,       \* job.result: what the worker found
    active,       \* b.activeJobs
    counted,      \* b.completedJobs + b.failedJobs
    stored,       \* the offers in the store
    stopped,      \* b.stopChan is closed
    cancelled,    \* so is the context main gave to Start
    exited,       \* the workers that returned
    progress,     \* each job's BackfillProgress, its counts as sets of offers
    settled       \* history: the offers the last job fetched, if it ran by
                  \* itself and every one of its batches was stored, or None

callVars == <<caller, outcome>>
jobVars == <<queue, result, active, counted>>
endVars == <<stopped, cancelled, exited>>
dataVars == <<stored, progress, settled>>
vars == <<callVars, jobVars, worker, endVars, dataVars>>

AtSelect == [job |-> None, fetched |-> FALSE, left |-> <<>>, clean |-> FALSE]
Nothing == [total |-> {}, success |-> {}, failed |-> {}]
RunningJobs == {worker[w].job : w \in Workers} \ {None}
Ended == {j \in Jobs : result[j] # "none"}

TypeOK ==
    /\ caller \in [Jobs -> {"new", "submitting", "waiting", "returned"}]
    /\ outcome \in [Jobs -> {"none", "ok", "failed", "invalid", "expired", "stopping"}]
    /\ queue \in Seq(Jobs) /\ Len(queue) <= QueueCap
    /\ worker \in [Workers -> [job: Jobs \union {None}, fetched: BOOLEAN,
                               left: Seq(SUBSET Offers), clean: BOOLEAN]]
    /\ result \in [Jobs -> {"none", "ok", "failed"}]
    /\ active \subseteq Jobs
    /\ counted \in Nat
    /\ stored \subseteq Offers
    /\ stopped \in BOOLEAN /\ cancelled \in BOOLEAN /\ exited \subseteq Workers
    /\ progress \in [Jobs -> [total: SUBSET Offers, success: SUBSET Offers,
                              failed: SUBSET Offers]]
    /\ settled \in (SUBSET Offers) \union {None}

Init ==
    /\ caller = [j \in Jobs |-> "new"] /\ outcome = [j \in Jobs |-> "none"]
    /\ queue = <<>>
    /\ worker = [w \in Workers |-> AtSelect]
    /\ result = [j \in Jobs |-> "none"]
    /\ active = {} /\ counted = 0
    /\ stored = {} /\ progress = [j \in Jobs |-> Nothing] /\ settled = None
    /\ stopped = FALSE /\ cancelled = FALSE
    /\ exited = IF Started THEN {} ELSE Workers

-----------------------------------------------------------------------------
\* BackfillRange.
Return(j, r) ==
    /\ caller' = [caller EXCEPT ![j] = "returned"]
    /\ outcome' = [outcome EXCEPT ![j] = r]
    /\ UNCHANGED <<jobVars, worker, endVars, dataVars>>

BackfillRange(j) ==
    /\ caller[j] = "new"
    /\ \/ ~Request[j].valid /\ Return(j, "invalid")
       \/ /\ Request[j].valid
          /\ caller' = [caller EXCEPT ![j] = "submitting"]
          /\ UNCHANGED <<outcome, jobVars, worker, endVars, dataVars>>

\* A select between the send, the caller's context and stopChan.
Submit(j) ==
    /\ caller[j] = "submitting"
    /\ \/ /\ Len(queue) < QueueCap
          /\ queue' = Append(queue, j)
          /\ caller' = [caller EXCEPT ![j] = "waiting"]
          /\ UNCHANGED <<outcome, result, active, counted, worker, endVars, dataVars>>
       \/ stopped /\ Return(j, "stopping")

\* A select between the job's result and the caller's context.
AwaitResult(j) == caller[j] = "waiting" /\ result[j] # "none" /\ Return(j, result[j])

\* The caller's context expires, or is Start's, as the scheduler's is: the caller
\* leaves, the job stays.
Expire(j) ==
    /\ j \in Deadlines \/ cancelled
    /\ caller[j] \in {"submitting", "waiting"}
    /\ Return(j, "expired")

-----------------------------------------------------------------------------
\* worker and processJob.
At(w, j) == worker[w].job = j /\ w \notin exited

\* A mutant of TakeJob: the job stays in the queue until it has been processed.
PeekJob(w) ==
    /\ At(w, None) /\ queue # <<>>
    /\ worker' = [worker EXCEPT ![w] = [AtSelect EXCEPT !.job = Head(queue),
                                                        !.clean = RunningJobs = {}]]
    /\ active' = active \union {Head(queue)}
    /\ UNCHANGED <<callVars, queue, result, counted, endVars, dataVars>>

TakeJob(w) ==
    /\ At(w, None) /\ queue # <<>>
    /\ queue' = Tail(queue)
    /\ active' = active \union {Head(queue)}
    /\ worker' = [v \in Workers |->
                    IF v = w THEN [AtSelect EXCEPT !.job = Head(queue),
                                                   !.clean = RunningJobs = {}]
                    ELSE [worker[v] EXCEPT !.clean = FALSE]]
    /\ UNCHANGED <<callVars, result, counted, endVars, dataVars>>

\* A mutant of EndJob: the result has no room of its own, and waits for the caller.
EndJobWhenAwaited(w, r) ==
    LET j == worker[w].job
    IN  /\ caller[j] = "waiting"
        /\ result' = [result EXCEPT ![j] = r]
        /\ counted' = counted + 1
        /\ active' = active \ {j}
        /\ worker' = [worker EXCEPT ![w] = AtSelect]
        /\ UNCHANGED <<callVars, queue, endVars>>

\* A mutant of EndJob: a job that failed ends without a result.
EndJobSilently(w, r) ==
    LET j == worker[w].job
    IN  /\ result' = IF r = "failed" THEN result ELSE [result EXCEPT ![j] = r]
        /\ counted' = counted + 1
        /\ active' = active \ {j}
        /\ worker' = [worker EXCEPT ![w] = AtSelect]
        /\ UNCHANGED <<callVars, queue, endVars>>

\* The end of processJob: counters, result, and the deferred delete.
EndJob(w, r) ==
    LET j == worker[w].job
    IN  /\ result' = [result EXCEPT ![j] = r]
        /\ counted' = counted + 1
        /\ active' = active \ {j}
        /\ worker' = [worker EXCEPT ![w] = AtSelect]
        /\ UNCHANGED <<callVars, queue, endVars>>

\* The pools have been fetched and cut into batches.
Fetched(w, batches) ==
    LET all == UNION {batches[i] : i \in DOMAIN batches}
    IN  /\ worker' = [worker EXCEPT ![w].fetched = TRUE, ![w].left = batches]
        /\ progress' = [progress EXCEPT ![worker[w].job].total = all]

\* A mutant of FetchPools: the caller is answered once the pools are there.
FetchPoolsAndAnswer(w) ==
    /\ worker[w].job # None /\ ~worker[w].fetched
    /\ \E batches \in Fetches : Fetched(w, batches)
    /\ result' = [result EXCEPT ![worker[w].job] = "ok"]
    /\ UNCHANGED <<callVars, queue, active, counted, endVars, stored, settled>>

\* A source other than the chain is unavailable; fetching the pools may fail.
FetchPools(w) ==
    /\ worker[w].job # None /\ ~worker[w].fetched
    /\ \/ EndJob(w, "failed") /\ settled' = None /\ UNCHANGED <<stored, progress>>
       \/ /\ Request[worker[w].job].chain
          /\ \E batches \in Fetches : Fetched(w, batches)
          /\ UNCHANGED <<callVars, jobVars, endVars, stored, settled>>

NextBatch(w, clean) ==
    /\ worker' = [worker EXCEPT ![w].left = Tail(@), ![w].clean = @ /\ clean]
    /\ UNCHANGED <<callVars, jobVars, endVars>>

\* A mutant of OverwriteBatch: a batch that is refused ends the loop.
OverwriteBatchOrBreak(w) ==
    LET j == worker[w].job
        batch == Head(worker[w].left)
    IN  /\ j # None /\ worker[w].left # <<>>
        /\ \/ /\ stored' = IF Request[j].dry THEN stored ELSE batch
              /\ progress' = [progress EXCEPT ![j].success = @ \union batch]
              /\ NextBatch(w, ~Request[j].dry)
           \/ /\ ~Request[j].dry /\ stored' \in {stored, batch}
              /\ progress' = [progress EXCEPT ![j].failed = @ \union batch]
              /\ worker' = [worker EXCEPT ![w].left = <<>>, ![w].clean = FALSE]
              /\ UNCHANGED <<callVars, jobVars, endVars>>
        /\ settled' = None

\* One batch: BulkOverwrite replaces whatever the store holds, and a cancelled
\* context ends the job; an error, which may come after the store has done its
\* part, skips to the next batch.
OverwriteBatch(w) ==
    LET j == worker[w].job
        batch == Head(worker[w].left)
        dry == Request[j].dry
    IN  /\ j # None /\ worker[w].left # <<>>
        /\ \/ /\ stored' = IF dry THEN stored ELSE batch
              /\ progress' = [progress EXCEPT ![j].success = @ \union batch]
              /\ IF cancelled THEN EndJob(w, "failed") ELSE NextBatch(w, ~dry)
           \/ /\ ~dry /\ stored' \in {stored, batch}
              /\ progress' = [progress EXCEPT ![j].failed = @ \union batch]
              /\ NextBatch(w, FALSE)
        /\ settled' = None

CompleteJob(w) ==
    /\ worker[w].job # None /\ worker[w].fetched /\ worker[w].left = <<>>
    /\ EndJob(w, "ok")
    /\ settled' = IF worker[w].clean THEN progress[worker[w].job].total ELSE None
    /\ UNCHANGED <<stored, progress>>

\* performCleanup forgets a job that has been running for more than an hour.
PerformCleanup(j) ==
    /\ j \in active /\ active' = active \ {j}
    /\ UNCHANGED <<callVars, queue, result, counted, worker, endVars, dataVars>>

Stop ==
    /\ Started /\ ~stopped /\ stopped' = TRUE
    /\ UNCHANGED <<callVars, jobVars, worker, cancelled, exited, dataVars>>

\* main returns after Stop, which cancels the context.
Cancel ==
    /\ stopped /\ ~cancelled /\ cancelled' = TRUE
    /\ UNCHANGED <<callVars, jobVars, worker, stopped, exited, dataVars>>

\* stopChan is closed; a worker's select does not look whether the queue is empty.
Exit(w) ==
    /\ stopped /\ At(w, None) /\ exited' = exited \union {w}
    /\ UNCHANGED <<callVars, jobVars, worker, stopped, cancelled, dataVars>>

Next ==
    \/ \E j \in Jobs : \/ BackfillRange(j) \/ Submit(j) \/ AwaitResult(j) \/ Expire(j)
                       \/ PerformCleanup(j)
    \/ \E w \in Workers : \/ TakeJob(w) \/ FetchPools(w) \/ OverwriteBatch(w)
                          \/ CompleteJob(w) \/ Exit(w)
    \/ Stop \/ Cancel

\* Callers and workers are scheduled, and a call to the chain or to the store
\* returns.  Nothing makes a caller call, its context expire, or main stop and end.
Fairness ==
    /\ \A j \in Jobs : WF_vars(Submit(j)) /\ WF_vars(AwaitResult(j))
    /\ \A w \in Workers : WF_vars(TakeJob(w) \/ FetchPools(w) \/ OverwriteBatch(w)
                                    \/ CompleteJob(w) \/ Exit(w))

Spec == Init /\ [][Next]_vars /\ Fairness

-----------------------------------------------------------------------------
\* A submitted job is in one place: in the queue, with one worker, or ended;
\* each that ended was counted once, and activeJobs lists none that is not
\* running, though the cleanup and the end of the job both delete it.
JobInOnePlace ==
    /\ \A j \in Jobs :
          LET places == Cardinality({i \in DOMAIN queue : queue[i] = j})
                          + Cardinality({w \in Workers : worker[w].job = j})
                          + Cardinality({j} \cap Ended)
          IN  /\ places <= 1
              /\ caller[j] = "waiting" => places = 1
    /\ counted = Cardinality(Ended)
    /\ active \subseteq RunningJobs

\* The state has its type, and no job is lost, run twice or counted twice.
BackfillerInv == TypeOK /\ JobInOnePlace

\* What BackfillRange answers is true of the job: success says that every offer
\* that was fetched has been handed to the store, whether or not the store took it;
\* failure says that none was, unless the job was cancelled on its way.
OutcomeIsTrue ==
    \A j \in Jobs :
       /\ outcome[j] = "ok" => progress[j].total = progress[j].success \union progress[j].failed
       /\ outcome[j] = "failed" => progress[j] = Nothing \/ cancelled

\* A caller that has its job's outcome can rely on the store: only jobs whose callers
\* have not been told, or gave up, still change it.
ToldJobsWriteNoMore ==
    [][\A j \in Jobs : outcome[j] \in {"ok", "failed"} =>
          /\ progress'[j] = progress[j]
          /\ stored' # stored => \E w \in Workers : /\ worker[w].job \notin {None, j}
                                                    /\ worker'[w] # worker[w]]_vars

\* BackfillRange returns, whatever its job meets: unless the service is stopped.
RangeReturnsWhileRunning ==
    \A j \in Jobs : caller[j] = "submitting" ~> caller[j] = "returned" \/ stopped

\* After Stop every worker ends, whatever is left in the queue.
StopEndsWorkers == stopped ~> exited = Workers

\* A one-time backfill ends ("Run backfill once and exit").
RangeReturns == \A j \in Jobs : caller[j] = "submitting" ~> caller[j] = "returned"

\* A job that ran by itself and whose every batch was stored leaves the store
\* with what it fetched ("completely replace the store with fresh data").
JobReplacesStore == settled # None => stored = settled
=============================================================================
