-------------------------- MODULE Backfiller_proofs --------------------------
(***************************************************************************)
(* Theorems about Backfiller, for every set of calls and workers, every    *)
(* capacity of the queue, and whatever the chain gives.                    *)
(*                                                                         *)
(* A job's places are the queue, the workers and the results; a job whose  *)
(* caller has not submitted it is in none.  So what a worker takes is in   *)
(* no other place, a result that was given does not change, and a job that *)
(* has one writes no more.                                                 *)
(*                                                                         *)
(* The second part is about Scheduler, which starts the jobs that recur.   *)
(***************************************************************************)
EXTENDS Backfiller, Scheduler, FiniteSetTheorems, SequenceTheorems, TLAPS

\* The jobs of a queue, each once; no two workers are at one job.
JobsIn(q) == {q[i] : i \in DOMAIN q}
Distinct(q) == \A i, j \in DOMAIN q : q[i] = q[j] => i = j
OneEach == \A v, w \in Workers : worker[v].job = worker[w].job /\ worker[v].job # None => v = w

\* A job is in one of its places at most.
Placed ==
    /\ Distinct(queue) /\ OneEach
    /\ \A j \in Jobs : /\ j \in JobsIn(queue) => j \notin RunningJobs \union Ended
                       /\ j \in RunningJobs => j \notin Ended
                       /\ caller[j] \in {"new", "submitting"} =>
                             j \notin JobsIn(queue) \union RunningJobs \union Ended
                       /\ caller[j] = "waiting" =>
                             j \in JobsIn(queue) \union RunningJobs \union Ended

Counted == IsFiniteSet(Ended) /\ counted = Cardinality(Ended) /\ active \subseteq RunningJobs

\* The outcome a caller was told is its job's result.
Told == \A j \in Jobs : outcome[j] \in {"ok", "failed"} => outcome[j] = result[j]

\* What was fetched has been handed to the store or is in the batches to come; a job
\* without a worker and without a result has done nothing.
Rest(s) == UNION {s[i] : i \in DOMAIN s}
Account(p, s) == p.total = (p.success \union p.failed) \union Rest(s)
Accounted ==
    /\ \A w \in Workers : worker[w].job # None =>
          IF ~worker[w].fetched THEN progress[worker[w].job] = Nothing /\ worker[w].left = <<>>
          ELSE Account(progress[worker[w].job], worker[w].left)
    /\ \A j \in Jobs :
          /\ result[j] = "ok" => progress[j].total = progress[j].success \union progress[j].failed
          /\ result[j] = "failed" => progress[j] = Nothing \/ cancelled
          /\ j \notin RunningJobs \union Ended => progress[j] = Nothing

\* The inductive invariant.
IInv == TypeOK /\ Placed /\ Counted /\ Told /\ Accounted

Slot == [job: Jobs \union {None}, fetched: BOOLEAN, left: Seq(SUBSET Offers), clean: BOOLEAN]
Progress == [total: SUBSET Offers, success: SUBSET Offers, failed: SUBSET Offers]

-----------------------------------------------------------------------------
\* Submit: the queue with one more job.
LEMMA Appended ==
    ASSUME NEW q \in Seq(Jobs), NEW j \in Jobs, j \notin JobsIn(q), Distinct(q)
    PROVE  /\ Append(q, j) \in Seq(Jobs) /\ Len(Append(q, j)) = Len(q) + 1
           /\ JobsIn(Append(q, j)) = JobsIn(q) \union {j} /\ Distinct(Append(q, j))
<1> DEFINE r == Append(q, j)
<1>1. /\ r \in Seq(Jobs) /\ Len(r) = Len(q) + 1 /\ Len(q) \in Nat
      /\ \A i \in 1..Len(q) : r[i] = q[i]
      /\ r[Len(q) + 1] = j
  BY AppendProperties, LenProperties
<1>2. DOMAIN q = 1..Len(q) /\ DOMAIN r = 1..(Len(q) + 1) BY <1>1, LenProperties
<1>3. DOMAIN r = DOMAIN q \union {Len(q) + 1} BY <1>1, <1>2
<1> HIDE DEF r
<1>4. JobsIn(r) = JobsIn(q) \union {j} BY <1>1, <1>2, <1>3 DEF JobsIn
<1>5. Distinct(r) BY <1>1, <1>2, <1>3 DEF Distinct, JobsIn
<1>6. QED BY <1>1, <1>4, <1>5 DEF r

\* TakeJob: the queue without its first job.
LEMMA Shortened ==
    ASSUME NEW q \in Seq(Jobs), q # <<>>, Distinct(q)
    PROVE  /\ Tail(q) \in Seq(Jobs) /\ Len(Tail(q)) = Len(q) - 1 /\ Len(q) \in Nat
           /\ Head(q) \in Jobs /\ Distinct(Tail(q))
           /\ JobsIn(q) = JobsIn(Tail(q)) \union {Head(q)} /\ Head(q) \notin JobsIn(Tail(q))
<1> DEFINE r == Tail(q)
<1>1. /\ r \in Seq(Jobs) /\ Len(r) = Len(q) - 1 /\ Head(q) \in Jobs
      /\ \A i \in 1..Len(r) : r[i] = q[i + 1]
      /\ Len(q) \in Nat \ {0}
  BY HeadTailProperties, EmptySeq
<1>2. DOMAIN q = 1..Len(q) /\ DOMAIN r = 1..Len(r) BY <1>1, LenProperties
<1>3. Head(q) = q[1] OBVIOUS
<1>4. \A i \in DOMAIN r : i + 1 \in DOMAIN q /\ r[i] = q[i + 1] /\ i + 1 # 1 BY <1>1, <1>2
<1>5. 1 \in DOMAIN q /\ \A i \in DOMAIN q : i = 1 \/ (i - 1 \in DOMAIN r /\ r[i - 1] = q[i])
  BY <1>1, <1>2
<1> HIDE DEF r
<1>6. JobsIn(q) = JobsIn(r) \union {Head(q)}
  <2>1. ASSUME NEW i \in DOMAIN q PROVE q[i] \in JobsIn(r) \union {Head(q)}
    BY <1>3, <1>5 DEF JobsIn
  <2>2. ASSUME NEW i \in DOMAIN r PROVE r[i] \in JobsIn(q) BY <1>4 DEF JobsIn
  <2>3. QED BY <1>3, <1>5, <2>1, <2>2 DEF JobsIn
<1>7. \A i, j \in DOMAIN r : r[i] = r[j] => i + 1 = j + 1 BY <1>4 DEF Distinct
<1>8. Distinct(r) BY <1>1, <1>2, <1>7 DEF Distinct
<1>9. Head(q) \notin JobsIn(r) BY <1>3, <1>4, <1>5 DEF Distinct, JobsIn
<1>10. QED BY <1>1, <1>6, <1>8, <1>9 DEF r

\* A batch is taken from those to come.
LEMMA RestTail ==
    ASSUME NEW q \in Seq(SUBSET Offers), q # <<>>
    PROVE  /\ Head(q) \in SUBSET Offers /\ Tail(q) \in Seq(SUBSET Offers)
           /\ Rest(q) = Head(q) \union Rest(Tail(q))
<1> DEFINE r == Tail(q)
<1>1. /\ r \in Seq(SUBSET Offers) /\ Len(r) = Len(q) - 1 /\ Head(q) \in SUBSET Offers
      /\ \A i \in 1..Len(r) : r[i] = q[i + 1]
      /\ Len(q) \in Nat \ {0} /\ Head(q) = q[1]
  BY HeadTailProperties, EmptySeq
<1>2. DOMAIN q = 1..Len(q) /\ DOMAIN r = 1..Len(r) BY <1>1, LenProperties
<1>3. \A i \in DOMAIN r : i + 1 \in DOMAIN q /\ r[i] = q[i + 1] BY <1>1, <1>2
<1>4. 1 \in DOMAIN q /\ \A i \in DOMAIN q : i = 1 \/ (i - 1 \in DOMAIN r /\ r[i - 1] = q[i])
  BY <1>1, <1>2
<1> HIDE DEF r
<1>5. Rest(q) \subseteq Head(q) \union Rest(r) BY <1>1, <1>4 DEF Rest
<1>6. Head(q) \union Rest(r) \subseteq Rest(q) BY <1>1, <1>3, <1>4 DEF Rest
<1>7. QED BY <1>1, <1>5, <1>6 DEF r

\* At the start no job is anywhere.
LEMMA InitIInv == Init => IInv
<1> SUFFICES ASSUME Init PROVE IInv OBVIOUS
<1> USE DEF Init
<1>1. <<>> \in Seq(Jobs) /\ <<>> \in Seq(SUBSET Offers) /\ Len(<<>>) = 0 /\ DOMAIN <<>> = {}
  BY EmptySeq
<1>2. AtSelect \in Slot /\ AtSelect.job = None BY <1>1 DEF AtSelect, Slot
<1>3. RunningJobs = {} /\ Ended = {} BY <1>2 DEF RunningJobs, Ended
<1>4. TypeOK
  <2>1. Len(queue) <= QueueCap BY <1>1, BackfillerAssumption
  <2>2. Nothing \in Progress BY DEF Nothing, Progress
  <2>3. QED BY <1>1, <1>2, <2>1, <2>2 DEF TypeOK, Slot, Progress
<1>5. Placed BY <1>1, <1>2, <1>3 DEF Placed, Distinct, OneEach, JobsIn
<1>6. Counted BY <1>3, FS_EmptySet DEF Counted
<1>7. Told BY DEF Told
<1>8. Accounted BY <1>2, <1>3 DEF Accounted
<1>9. QED BY <1>4, <1>5, <1>6, <1>7, <1>8 DEF IInv

-----------------------------------------------------------------------------
\* What neither ends a job nor takes one keeps the account of each.
LEMMA AccountsStay ==
    ASSUME Accounted, RunningJobs' = RunningJobs, Ended' = Ended,
           UNCHANGED <<worker, result, progress>>, cancelled => cancelled'
    PROVE  Accounted'
BY DEF Accounted

\* A caller's step: it takes no job out of its place, and puts none in one unless it
\* submits its own.
LEMMA ReturnKeeps ==
    ASSUME IInv, NEW j \in Jobs, NEW r \in {"ok", "failed", "invalid", "expired", "stopping"},
           Return(j, r), r \in {"ok", "failed"} => r = result[j]
    PROVE  IInv'
<1>1. /\ caller' = [caller EXCEPT ![j] = "returned"] /\ outcome' = [outcome EXCEPT ![j] = r]
      /\ UNCHANGED <<jobVars, worker, endVars, dataVars>>
  BY DEF Return
<1>2. UNCHANGED <<queue, result, active, counted, worker, stored, stopped, cancelled, exited,
                  progress, settled>>
  BY <1>1 DEF jobVars, endVars, dataVars
<1>3. TypeOK /\ Placed /\ Counted /\ Told /\ Accounted BY DEF IInv
<1>4. RunningJobs' = RunningJobs /\ Ended' = Ended BY <1>2 DEF RunningJobs, Ended
<1>5. TypeOK' BY <1>1, <1>2, <1>3 DEF TypeOK
<1>6. \A i \in Jobs : caller'[i] \in {"new", "submitting", "waiting"} => caller'[i] = caller[i]
  BY <1>1, <1>3 DEF TypeOK
<1>7. Placed' BY <1>2, <1>3, <1>4, <1>6 DEF Placed, OneEach
<1>8. Counted' BY <1>2, <1>3, <1>4 DEF Counted
<1>9. Told' BY <1>1, <1>2, <1>3 DEF Told, TypeOK
<1>10. Accounted' BY <1>2, <1>3, <1>4, AccountsStay
<1>11. QED BY <1>5, <1>7, <1>8, <1>9, <1>10 DEF IInv

\* A request is refused, or its job is on its way to the queue.
LEMMA CallKeeps ==
    ASSUME IInv, NEW j \in Jobs, BackfillRange(j)
    PROVE  IInv'
<1>1. CASE Return(j, "invalid") BY <1>1, ReturnKeeps
<1>2. CASE /\ caller[j] = "new" /\ caller' = [caller EXCEPT ![j] = "submitting"]
           /\ UNCHANGED <<outcome, jobVars, worker, endVars, dataVars>>
  <2>1. UNCHANGED <<outcome, queue, result, active, counted, worker, stored, stopped,
                    cancelled, exited, progress, settled>>
    BY <1>2 DEF jobVars, endVars, dataVars
  <2>2. TypeOK /\ Placed /\ Counted /\ Told /\ Accounted BY DEF IInv
  <2>3. RunningJobs' = RunningJobs /\ Ended' = Ended BY <2>1 DEF RunningJobs, Ended
  <2>4. TypeOK' BY <1>2, <2>1, <2>2 DEF TypeOK
  <2>5. caller'[j] = "submitting" /\ \A i \in Jobs \ {j} : caller'[i] = caller[i]
    BY <1>2, <2>2 DEF TypeOK
  <2>6. Placed' BY <1>2, <2>1, <2>2, <2>3, <2>5 DEF Placed, OneEach
  <2>7. Counted' BY <2>1, <2>2, <2>3 DEF Counted
  <2>8. Told' BY <2>1, <2>2 DEF Told
  <2>9. Accounted' BY <2>1, <2>2, <2>3, AccountsStay
  <2>10. QED BY <2>4, <2>6, <2>7, <2>8, <2>9 DEF IInv
<1>3. QED BY <1>1, <1>2 DEF BackfillRange

\* The job enters the queue, where it is nowhere else, or the service stops.
LEMMA SubmitKeeps ==
    ASSUME IInv, NEW j \in Jobs, Submit(j)
    PROVE  IInv'
<1>1. CASE Return(j, "stopping") BY <1>1, ReturnKeeps
<1>2. CASE /\ caller[j] = "submitting" /\ Len(queue) < QueueCap /\ queue' = Append(queue, j)
           /\ caller' = [caller EXCEPT ![j] = "waiting"]
           /\ UNCHANGED <<outcome, result, active, counted, worker, endVars, dataVars>>
  <2> USE DEF endVars, dataVars
  <2>1. TypeOK /\ Placed /\ Counted /\ Told /\ Accounted BY DEF IInv
  <2>2. RunningJobs' = RunningJobs /\ Ended' = Ended BY <1>2 DEF RunningJobs, Ended
  <2>3. j \notin JobsIn(queue) \union RunningJobs \union Ended BY <1>2, <2>1 DEF Placed
  <2>4. queue \in Seq(Jobs) /\ Distinct(queue) BY <2>1 DEF TypeOK, Placed
  <2>5. /\ queue' \in Seq(Jobs) /\ Len(queue') = Len(queue) + 1
        /\ JobsIn(queue') = JobsIn(queue) \union {j} /\ Distinct(queue')
    BY <1>2, <2>3, <2>4, Appended
  <2>6. Len(queue') <= QueueCap BY <1>2, <2>4, <2>5, LenProperties, BackfillerAssumption
  <2>7. TypeOK' BY <1>2, <2>1, <2>5, <2>6 DEF TypeOK
  <2>8. caller'[j] = "waiting" /\ \A i \in Jobs \ {j} : caller'[i] = caller[i]
    BY <1>2, <2>1 DEF TypeOK
  <2>9. Placed' BY <1>2, <2>1, <2>2, <2>3, <2>5, <2>8 DEF Placed, OneEach
  <2>10. Counted' BY <1>2, <2>1, <2>2 DEF Counted
  <2>11. Told' BY <1>2, <2>1 DEF Told
  <2>12. Accounted' BY <1>2, <2>1, <2>2, AccountsStay
  <2>13. QED BY <2>7, <2>9, <2>10, <2>11, <2>12 DEF IInv
<1>3. QED BY <1>1, <1>2 DEF Submit

\* The caller is told the result that is there.
LEMMA AwaitKeeps ==
    ASSUME IInv, NEW j \in Jobs, AwaitResult(j)
    PROVE  IInv'
<1>1. result[j] \in {"ok", "failed"} BY DEF AwaitResult, IInv, TypeOK
<1>2. QED BY <1>1, ReturnKeeps DEF AwaitResult

\* A caller that gives up is told no result.
LEMMA ExpireKeeps ==
    ASSUME IInv, NEW j \in Jobs, Expire(j)
    PROVE  IInv'
BY ReturnKeeps DEF Expire

-----------------------------------------------------------------------------
\* A worker takes a job from the queue, which has done nothing yet.
LEMMA TakeKeeps ==
    ASSUME IInv, NEW w \in Workers, TakeJob(w)
    PROVE  IInv'
<1> DEFINE j == Head(queue)
           taken == [AtSelect EXCEPT !.job = j, !.clean = RunningJobs = {}]
<1>1. /\ worker[w].job = None /\ queue # <<>> /\ queue' = Tail(queue)
      /\ active' = active \union {j}
      /\ worker' = [v \in Workers |-> IF v = w THEN taken
                                      ELSE [worker[v] EXCEPT !.clean = FALSE]]
      /\ UNCHANGED <<caller, outcome, result, counted, stored, stopped, cancelled, exited,
                     progress, settled>>
  BY DEF TakeJob, At, callVars, endVars, dataVars
<1>2. TypeOK /\ Placed /\ Counted /\ Told /\ Accounted BY DEF IInv
<1>3. queue \in Seq(Jobs) /\ Distinct(queue) BY <1>2 DEF TypeOK, Placed
<1>4. /\ queue' \in Seq(Jobs) /\ Len(queue') = Len(queue) - 1 /\ Len(queue) \in Nat
      /\ j \in Jobs /\ Distinct(queue')
      /\ JobsIn(queue) = JobsIn(queue') \union {j} /\ j \notin JobsIn(queue')
  BY <1>1, <1>3, Shortened
<1>5. j \notin RunningJobs \union Ended /\ j # None
  BY <1>2, <1>4, BackfillerAssumption DEF Placed
<1> HIDE DEF j
<1>6. worker \in [Workers -> Slot] BY <1>2 DEF TypeOK, Slot
<1>7. taken \in Slot /\ taken.job = j /\ ~taken.fetched /\ taken.left = <<>>
  BY <1>4, EmptySeq DEF AtSelect, Slot
<1> HIDE DEF taken
<1>8. \A v \in Workers : /\ worker'[v] \in Slot
                         /\ v = w => worker'[v] = taken
                         /\ v # w => /\ worker'[v].job = worker[v].job
                                     /\ worker'[v].left = worker[v].left
                                     /\ worker'[v].fetched = worker[v].fetched
  <2>1. \A v \in Workers : /\ [worker[v] EXCEPT !.clean = FALSE] \in Slot
                           /\ [worker[v] EXCEPT !.clean = FALSE].job = worker[v].job
                           /\ [worker[v] EXCEPT !.clean = FALSE].left = worker[v].left
                           /\ [worker[v] EXCEPT !.clean = FALSE].fetched = worker[v].fetched
    BY <1>6 DEF Slot
  <2>2. QED BY <1>1, <1>7, <2>1
<1>9. worker' \in [Workers -> Slot] BY <1>1, <1>8
<1>10. RunningJobs' = RunningJobs \union {j} /\ Ended' = Ended
  <2>1. RunningJobs' = RunningJobs \union {j} BY <1>1, <1>5, <1>7, <1>8 DEF RunningJobs
  <2>2. QED BY <1>1, <2>1 DEF Ended
<1>11. TypeOK'
  <2>1. Len(queue') <= QueueCap BY <1>2, <1>4, BackfillerAssumption DEF TypeOK
  <2>2. QED BY <1>1, <1>2, <1>4, <1>9, <2>1 DEF TypeOK, Slot
<1>12. Placed'
  <2>1. OneEach'
    <3>1. \A v \in Workers : worker[v].job # j BY <1>4, <1>5 DEF RunningJobs
    <3>2. QED BY <1>2, <1>7, <1>8, <3>1 DEF Placed, OneEach
  <2>2. QED BY <1>1, <1>2, <1>4, <1>5, <1>10, <2>1 DEF Placed
<1>13. Counted' BY <1>1, <1>2, <1>10 DEF Counted
<1>14. Told' BY <1>1, <1>2 DEF Told
<1>15. Accounted'
  <2>1. progress[j] = Nothing BY <1>2, <1>4, <1>5 DEF Accounted
  <2>2. ASSUME NEW v \in Workers, worker'[v].job # None
        PROVE  IF ~worker'[v].fetched
               THEN progress'[worker'[v].job] = Nothing /\ worker'[v].left = <<>>
               ELSE Account(progress'[worker'[v].job], worker'[v].left)
    <3>1. CASE v = w BY <1>1, <1>7, <1>8, <2>1, <3>1
    <3>2. CASE v # w BY <1>1, <1>2, <1>8, <2>2, <3>2 DEF Accounted
    <3>3. QED BY <3>1, <3>2
  <2>3. QED BY <1>1, <1>2, <1>10, <2>2 DEF Accounted
<1>16. QED BY <1>11, <1>12, <1>13, <1>14, <1>15 DEF IInv

\* The end of a job is counted once, and its result is the first it has.
LEMMA EndKeeps ==
    ASSUME IInv, NEW w \in Workers, worker[w].job # None, NEW r \in {"ok", "failed"},
           EndJob(w, r), NEW p \in Progress,
           progress' = [progress EXCEPT ![worker[w].job] = p],
           r = "ok" => p.total = p.success \union p.failed,
           r = "failed" => p = Nothing \/ cancelled,
           stored' \subseteq Offers, settled' \in (SUBSET Offers) \union {None}
    PROVE  IInv'
<1> DEFINE j == worker[w].job
<1>1. /\ result' = [result EXCEPT ![j] = r] /\ counted' = counted + 1 /\ active' = active \ {j}
      /\ worker' = [worker EXCEPT ![w] = AtSelect]
      /\ UNCHANGED <<caller, outcome, queue, stopped, cancelled, exited>>
  BY DEF EndJob, callVars, endVars
<1>2. TypeOK /\ Placed /\ Counted /\ Told /\ Accounted BY DEF IInv
<1>3. j \in Jobs BY <1>2 DEF TypeOK
<1>4. j \in RunningJobs /\ j \notin Ended /\ j \notin JobsIn(queue)
  BY <1>2, <1>3 DEF RunningJobs, Placed
<1>5. \A v \in Workers : worker'[v] = IF v = w THEN AtSelect ELSE worker[v]
  BY <1>1, <1>2 DEF TypeOK
<1>6. result'[j] = r /\ \A i \in Jobs \ {j} : result'[i] = result[i]
  BY <1>1, <1>2, <1>3 DEF TypeOK
<1>7. progress'[j] = p /\ \A i \in Jobs \ {j} : progress'[i] = progress[i]
  BY <1>2, <1>3 DEF TypeOK
<1>8. AtSelect \in Slot /\ AtSelect.job = None
  <2>1. <<>> \in Seq(SUBSET Offers) BY EmptySeq
  <2>2. QED BY <2>1 DEF AtSelect, Slot
<1>9. TypeOK'
  <2>1. worker' \in [Workers -> Slot] BY <1>1, <1>2, <1>8 DEF TypeOK, Slot
  <2>2. progress' \in [Jobs -> Progress] BY <1>2, <1>3 DEF TypeOK, Progress
  <2>3. QED BY <1>1, <1>2, <1>3, <2>1, <2>2 DEF TypeOK, Slot, Progress
<1> HIDE DEF j
<1>10. Ended' = Ended \union {j} BY <1>3, <1>6 DEF Ended
<1>11. \A v \in Workers : v # w => worker[v].job # j
  BY <1>2 DEF Placed, OneEach, j
<1>12. RunningJobs' = RunningJobs \ {j}
  BY <1>5, <1>8, <1>11 DEF RunningJobs, j
<1>13. Placed'
  <2>1. OneEach' BY <1>2, <1>5, <1>8 DEF Placed, OneEach
  <2>2. QED BY <1>1, <1>2, <1>4, <1>10, <1>12, <2>1 DEF Placed
<1>14. Counted'
  <2>1. IsFiniteSet(Ended') /\ Cardinality(Ended') = Cardinality(Ended) + 1
    BY <1>2, <1>4, <1>10, FS_AddElement DEF Counted
  <2>2. QED BY <1>1, <1>2, <1>12, <2>1 DEF Counted
<1>15. Told'
  <2>1. outcome[j] \notin {"ok", "failed"} BY <1>2, <1>3, <1>4 DEF Told, Ended
  <2>2. QED BY <1>1, <1>2, <1>6, <2>1 DEF Told
<1>16. Accounted'
  <2>1. ASSUME NEW v \in Workers, worker'[v].job # None
        PROVE  IF ~worker'[v].fetched
               THEN progress'[worker'[v].job] = Nothing /\ worker'[v].left = <<>>
               ELSE Account(progress'[worker'[v].job], worker'[v].left)
    <3>1. v # w /\ worker'[v] = worker[v] BY <1>5, <1>8, <2>1
    <3>2. worker[v].job \in Jobs \ {j} BY <1>2, <1>11, <2>1, <3>1 DEF TypeOK
    <3>3. QED BY <1>2, <1>7, <2>1, <3>1, <3>2 DEF Accounted
  <2>2. ASSUME NEW i \in Jobs
        PROVE  /\ result'[i] = "ok" =>
                     progress'[i].total = progress'[i].success \union progress'[i].failed
               /\ result'[i] = "failed" => progress'[i] = Nothing \/ cancelled'
               /\ i \notin RunningJobs' \union Ended' => progress'[i] = Nothing
    <3>1. CASE i = j BY <1>1, <1>6, <1>7, <1>10, <3>1
    <3>2. CASE i # j BY <1>1, <1>2, <1>6, <1>7, <1>10, <1>12, <3>2 DEF Accounted
    <3>3. QED BY <3>1, <3>2
  <2>3. QED BY <2>1, <2>2 DEF Accounted
<1>17. QED BY <1>9, <1>13, <1>14, <1>15, <1>16 DEF IInv

-----------------------------------------------------------------------------
\* A worker's step that leaves it at its job, with the account of it right.
LEMMA WorkKeeps ==
    ASSUME IInv, NEW w \in Workers, worker[w].job # None,
           worker'[w] \in Slot, worker'[w].job = worker[w].job,
           worker' = [worker EXCEPT ![w] = worker'[w]], worker'[w].fetched,
           NEW p \in Progress, progress' = [progress EXCEPT ![worker[w].job] = p],
           Account(p, worker'[w].left),
           stored' \subseteq Offers, settled' \in {settled, None},
           UNCHANGED <<callVars, jobVars, endVars>>
    PROVE  IInv'
<1> DEFINE j == worker[w].job
<1> USE DEF callVars, jobVars, endVars
<1>1. TypeOK /\ Placed /\ Counted /\ Told /\ Accounted BY DEF IInv
<1>2. \A v \in Workers : /\ worker'[v].job = worker[v].job
                         /\ v # w => worker'[v] = worker[v]
  BY <1>1 DEF TypeOK
<1>3. RunningJobs' = RunningJobs /\ Ended' = Ended BY <1>2 DEF RunningJobs, Ended
<1>4. j \in Jobs BY <1>1 DEF TypeOK
<1>5. progress'[j] = p /\ \A i \in Jobs \ {j} : progress'[i] = progress[i]
  BY <1>1, <1>4 DEF TypeOK
<1>6. TypeOK'
  <2>1. worker' \in [Workers -> Slot] BY <1>1 DEF TypeOK, Slot
  <2>2. progress' \in [Jobs -> Progress] BY <1>1, <1>4 DEF TypeOK, Progress
  <2>3. QED BY <1>1, <2>1, <2>2 DEF TypeOK, Slot, Progress
<1>7. Placed' BY <1>1, <1>2, <1>3 DEF Placed, OneEach
<1>8. Counted' BY <1>1, <1>3 DEF Counted
<1>9. Told' BY <1>1 DEF Told
<1>10. j \in RunningJobs /\ j \notin Ended BY <1>1, <1>4 DEF RunningJobs, Placed
<1>11. \A v \in Workers : v # w /\ worker[v].job # None => worker[v].job \in Jobs \ {j}
  BY <1>1 DEF TypeOK, Placed, OneEach
<1> HIDE DEF j
<1>12. Accounted'
  <2>1. ASSUME NEW v \in Workers, worker'[v].job # None
        PROVE  IF ~worker'[v].fetched
               THEN progress'[worker'[v].job] = Nothing /\ worker'[v].left = <<>>
               ELSE Account(progress'[worker'[v].job], worker'[v].left)
    <3>1. CASE v = w BY <1>5, <3>1 DEF j
    <3>2. CASE v # w BY <1>1, <1>2, <1>5, <1>11, <2>1, <3>2 DEF Accounted
    <3>3. QED BY <3>1, <3>2
  <2>2. ASSUME NEW i \in Jobs
        PROVE  /\ result'[i] = "ok" =>
                     progress'[i].total = progress'[i].success \union progress'[i].failed
               /\ result'[i] = "failed" => progress'[i] = Nothing \/ cancelled'
               /\ i \notin RunningJobs' \union Ended' => progress'[i] = Nothing
    <3>1. CASE i = j BY <1>1, <1>3, <1>4, <1>10, <3>1 DEF Ended, TypeOK
    <3>2. CASE i # j BY <1>1, <1>3, <1>5, <3>2 DEF Accounted
    <3>3. QED BY <3>1, <3>2
  <2>3. QED BY <2>1, <2>2 DEF Accounted
<1>13. QED BY <1>6, <1>7, <1>8, <1>9, <1>12 DEF IInv

\* Fetching fails, and nothing was done, or gives the batches that are to be stored.
LEMMA FetchKeeps ==
    ASSUME IInv, NEW w \in Workers, FetchPools(w)
    PROVE  IInv'
<1> DEFINE j == worker[w].job
<1>1. TypeOK /\ Accounted BY DEF IInv
<1>2. /\ j \in Jobs /\ worker[w] \in Slot /\ worker \in [Workers -> Slot]
      /\ progress \in [Jobs -> Progress] /\ stored \subseteq Offers
  BY <1>1 DEF FetchPools, TypeOK, Slot, Progress
<1>3. progress[j] = Nothing BY <1>1 DEF FetchPools, Accounted
<1>4. CASE EndJob(w, "failed") /\ settled' = None /\ UNCHANGED <<stored, progress>>
  <2>1. progress' = [progress EXCEPT ![j] = Nothing] /\ Nothing \in Progress
    BY <1>2, <1>3, <1>4
  <2>2. QED BY <1>2, <1>4, <2>1, EndKeeps DEF FetchPools
<1>5. ASSUME NEW batches \in Fetches, Fetched(w, batches),
             UNCHANGED <<callVars, jobVars, endVars, stored, settled>>
      PROVE  IInv'
  <2> DEFINE p == [Nothing EXCEPT !.total = Rest(batches)]
  <2>1. batches \in Seq(SUBSET Offers) /\ Rest(batches) \subseteq Offers
    <3>1. batches \in Seq((SUBSET Offers) \ {{}}) BY BackfillerAssumption
    <3>2. /\ DOMAIN batches = 1..Len(batches) /\ Len(batches) \in Nat
          /\ \A i \in 1..Len(batches) : batches[i] \in SUBSET Offers
          /\ batches = [i \in 1..Len(batches) |-> batches[i]]
      BY <3>1, LenProperties, ElementOfSeq
    <3>3. batches \in Seq(SUBSET Offers) BY <3>2, IsASeq
    <3>4. QED BY <3>2, <3>3 DEF Rest
  <2>2. /\ worker' = [worker EXCEPT ![w].fetched = TRUE, ![w].left = batches]
        /\ progress' = [progress EXCEPT ![j] = p]
    BY <1>2, <1>3, <1>5 DEF Fetched, Rest
  <2>3. p \in Progress /\ Account(p, batches)
    BY <2>1 DEF Nothing, Progress, Account
  <2>4. /\ worker'[w] \in Slot /\ worker'[w].left = batches /\ worker'[w].fetched
        /\ worker'[w].job = worker[w].job /\ worker' = [worker EXCEPT ![w] = worker'[w]]
    BY <1>2, <2>1, <2>2 DEF Slot
  <2> HIDE DEF p
  <2>5. /\ worker[w].job # None /\ stored' \subseteq Offers /\ settled' \in {settled, None}
        /\ UNCHANGED <<callVars, jobVars, endVars>>
        /\ progress' = [progress EXCEPT ![worker[w].job] = p] /\ p \in Progress
        /\ Account(p, worker'[w].left)
    BY <1>2, <1>5, <2>2, <2>3, <2>4 DEF FetchPools
  <2>6. QED BY <2>4, <2>5, WorkKeeps
<1>6. QED BY <1>4, <1>5 DEF FetchPools

\* A batch replaces what the store held, or fails; the worker goes on, or ends the job
\* that was cancelled.
LEMMA OverwriteKeeps ==
    ASSUME IInv, NEW w \in Workers, OverwriteBatch(w)
    PROVE  IInv'
<1> DEFINE j == worker[w].job
           remaining == worker[w].left
           batch == Head(remaining)
           success == [progress[j] EXCEPT !.success = @ \union batch]
           failure == [progress[j] EXCEPT !.failed = @ \union batch]
<1>1. /\ TypeOK /\ Accounted /\ j # None /\ remaining # <<>>
      /\ settled' = None
  BY DEF IInv, OverwriteBatch
<1>2. /\ j \in Jobs /\ worker[w] \in Slot /\ worker \in [Workers -> Slot]
      /\ progress \in [Jobs -> Progress] /\ stored \subseteq Offers
  BY <1>1 DEF TypeOK, Slot, Progress
<1>3. remaining \in Seq(SUBSET Offers) BY <1>1, <1>2 DEF Slot
<1>4. /\ batch \in SUBSET Offers /\ Tail(remaining) \in Seq(SUBSET Offers)
      /\ Rest(remaining) = batch \union Rest(Tail(remaining))
  BY <1>1, <1>3, RestTail
<1>5. Account(progress[j], remaining) /\ worker[w].fetched BY <1>1 DEF Accounted
<1>6. /\ success \in Progress /\ Account(success, Tail(remaining))
      /\ failure \in Progress /\ Account(failure, Tail(remaining))
  <2>1. progress[j] \in Progress BY <1>2
  <2>2. success \in Progress /\ failure \in Progress BY <1>4, <2>1 DEF Progress
  <2>3. /\ success.total = progress[j].total /\ success.failed = progress[j].failed
        /\ success.success = progress[j].success \union batch
        /\ failure.total = progress[j].total /\ failure.success = progress[j].success
        /\ failure.failed = progress[j].failed \union batch
    BY <2>1 DEF Progress
  <2> HIDE DEF success, failure
  <2>4. QED BY <1>4, <1>5, <2>2, <2>3 DEF Account
<1>7. stored' \subseteq Offers
  <2>1. stored' \in {stored, batch} BY DEF OverwriteBatch
  <2>2. QED BY <1>2, <1>4, <2>1
<1>8. ASSUME NEW c \in BOOLEAN, NextBatch(w, c)
      PROVE  /\ worker'[w] \in Slot /\ worker'[w].job = worker[w].job
             /\ worker'[w].left = Tail(remaining) /\ worker'[w].fetched
             /\ worker' = [worker EXCEPT ![w] = worker'[w]]
             /\ UNCHANGED <<callVars, jobVars, endVars>>
  <2>1. worker' = [worker EXCEPT ![w].left = Tail(@), ![w].clean = @ /\ c]
    BY <1>8 DEF NextBatch
  <2>2. worker[w].clean \in BOOLEAN BY <1>2 DEF Slot
  <2>3. (worker[w].clean /\ c) \in BOOLEAN BY <1>8, <2>2
  <2>4. /\ worker'[w] \in Slot /\ worker'[w].job = worker[w].job
        /\ worker'[w].left = Tail(remaining) /\ worker'[w].fetched
        /\ worker' = [worker EXCEPT ![w] = worker'[w]]
    BY <1>2, <1>4, <1>5, <2>1, <2>3 DEF Slot
  <2>5. QED BY <1>8, <2>4 DEF NextBatch
<1>9. CASE /\ progress' = [progress EXCEPT ![j].success = @ \union batch]
           /\ cancelled /\ EndJob(w, "failed")
  <2>1. progress' = [progress EXCEPT ![j] = success] BY <1>2, <1>9
  <2> HIDE DEF success
  <2>2. QED BY <1>1, <1>6, <1>7, <1>9, <2>1, EndKeeps
<1>10. ASSUME progress' = [progress EXCEPT ![j].success = @ \union batch],
              NEW c \in BOOLEAN, NextBatch(w, c)
       PROVE  IInv'
  <2>1. progress' = [progress EXCEPT ![j] = success] BY <1>2, <1>10
  <2> HIDE DEF success
  <2>2. QED BY <1>1, <1>6, <1>7, <1>8, <1>10, <2>1, WorkKeeps
<1>11. ASSUME progress' = [progress EXCEPT ![j].failed = @ \union batch],
              NEW c \in BOOLEAN, NextBatch(w, c)
       PROVE  IInv'
  <2>1. progress' = [progress EXCEPT ![j] = failure] BY <1>2, <1>11
  <2> HIDE DEF failure
  <2>2. QED BY <1>1, <1>6, <1>7, <1>8, <1>11, <2>1, WorkKeeps
<1>12. Request[j].dry \in BOOLEAN BY <1>2, BackfillerAssumption
<1>13. QED BY <1>9, <1>10, <1>11, <1>12 DEF OverwriteBatch

\* Steps of which the jobs see nothing.
LEMMA RestKeeps ==
    ASSUME IInv,
           UNCHANGED <<callVars, queue, result, counted, worker, dataVars>>,
           active' \subseteq active, exited' \subseteq Workers, stopped' \in BOOLEAN,
           cancelled' \in BOOLEAN, cancelled => cancelled'
    PROVE  IInv'
<1> USE DEF callVars, dataVars
<1>1. TypeOK /\ Placed /\ Counted /\ Told /\ Accounted BY DEF IInv
<1>2. RunningJobs' = RunningJobs /\ Ended' = Ended BY DEF RunningJobs, Ended
<1>3. TypeOK' BY <1>1 DEF TypeOK
<1>4. Placed' BY <1>1, <1>2 DEF Placed, OneEach
<1>5. Counted' BY <1>1, <1>2 DEF Counted
<1>6. Told' BY <1>1 DEF Told
<1>7. Accounted' BY <1>1, <1>2, AccountsStay
<1>8. QED BY <1>3, <1>4, <1>5, <1>6, <1>7 DEF IInv

\* Every step keeps the inductive invariant.
LEMMA NextKeeps == IInv /\ [Next]_vars => IInv'
<1> SUFFICES ASSUME IInv, [Next]_vars PROVE IInv' OBVIOUS
<1> USE DEF jobVars, endVars
<1>1. exited \subseteq Workers /\ stopped \in BOOLEAN /\ cancelled \in BOOLEAN
  BY DEF IInv, TypeOK
<1>2. ASSUME NEW j \in Jobs, PerformCleanup(j) PROVE IInv'
  BY <1>1, <1>2, RestKeeps DEF PerformCleanup
<1>3. ASSUME NEW w \in Workers, Exit(w) PROVE IInv'
  <2>1. exited' \subseteq Workers BY <1>1, <1>3 DEF Exit
  <2>2. QED BY <1>1, <1>3, <2>1, RestKeeps DEF Exit
<1>4. ASSUME NEW w \in Workers, CompleteJob(w) PROVE IInv'
  <2> DEFINE j == worker[w].job
  <2>1. TypeOK /\ Accounted BY DEF IInv
  <2>2. j \in Jobs /\ progress \in [Jobs -> Progress] /\ stored \subseteq Offers
    BY <1>4, <2>1 DEF CompleteJob, TypeOK, Progress
  <2>3. progress' = [progress EXCEPT ![j] = progress[j]] BY <1>4, <2>2 DEF CompleteJob
  <2>4. settled' \in (SUBSET Offers) \union {None} /\ stored' \subseteq Offers
    BY <1>4, <2>2 DEF CompleteJob, Progress
  <2>5. progress[j].total = progress[j].success \union progress[j].failed
    <3>1. Account(progress[j], <<>>) BY <1>4, <2>1 DEF CompleteJob, Accounted
    <3>2. QED BY <3>1 DEF Account, Rest
  <2>6. QED BY <1>4, <2>2, <2>3, <2>4, <2>5, EndKeeps DEF CompleteJob
<1>5. CASE Stop BY <1>1, <1>5, RestKeeps DEF Stop
<1>6. CASE Cancel BY <1>1, <1>6, RestKeeps DEF Cancel
<1>7. CASE UNCHANGED vars BY <1>1, <1>7, RestKeeps DEF vars
<1>8. QED
  BY <1>2, <1>3, <1>4, <1>5, <1>6, <1>7, CallKeeps, SubmitKeeps, AwaitKeeps, ExpireKeeps,
     TakeKeeps, FetchKeeps, OverwriteKeeps DEF Next

-----------------------------------------------------------------------------
\* BackfillRange, worker and processJob never put a job in two places, end one
\* twice, or give a caller a result its job does not have.
THEOREM Inductive == Spec => []IInv
BY InitIInv, NextKeeps, PTL DEF Spec

\* The size of a set with at most one element.
LEMMA Count ==
    ASSUME NEW S, NEW p \in BOOLEAN, p <=> S # {}, \A x, y \in S : x = y
    PROVE  Cardinality(S) = IF p THEN 1 ELSE 0
<1>1. CASE S = {} BY <1>1, FS_EmptySet
<1>2. CASE S # {}
  <2>1. PICK x \in S : TRUE BY <1>2
  <2>2. S = {x} BY <2>1
  <2>3. QED BY <1>2, <2>2, FS_Singleton
<1>3. QED BY <1>1, <1>2

\* A job is in the queue, with a worker or ended, in one place at most and in one
\* while its caller waits; each that ended was counted once (BackfillRange,
\* worker, processJob, performCleanup).
THEOREM Typed == Spec => []BackfillerInv
<1>1. ASSUME IInv PROVE JobInOnePlace
  <2>1. TypeOK /\ Placed /\ Counted BY <1>1 DEF IInv
  <2>2. ASSUME NEW j \in Jobs
        PROVE  LET places == Cardinality({i \in DOMAIN queue : queue[i] = j})
                               + Cardinality({w \in Workers : worker[w].job = j})
                               + Cardinality({j} \cap Ended)
               IN  places <= 1 /\ (caller[j] = "waiting" => places = 1)
    <3> DEFINE inQueue == j \in JobsIn(queue)
               running == j \in RunningJobs
               ended == j \in Ended
    <3>1. Cardinality({i \in DOMAIN queue : queue[i] = j}) = IF inQueue THEN 1 ELSE 0
      <4>1. \A x, y \in {i \in DOMAIN queue : queue[i] = j} : x = y
        BY <2>1 DEF Placed, Distinct
      <4>2. inQueue <=> {i \in DOMAIN queue : queue[i] = j} # {} BY DEF JobsIn
      <4> HIDE DEF inQueue
      <4>3. inQueue \in BOOLEAN BY DEF inQueue
      <4>4. QED BY <4>1, <4>2, <4>3, Count
    <3>2. Cardinality({w \in Workers : worker[w].job = j}) = IF running THEN 1 ELSE 0
      <4>1. j # None BY BackfillerAssumption
      <4>2. \A x, y \in {w \in Workers : worker[w].job = j} : x = y
        BY <2>1, <4>1 DEF Placed, OneEach
      <4>3. running <=> {w \in Workers : worker[w].job = j} # {} BY <4>1 DEF RunningJobs
      <4> HIDE DEF running
      <4>4. running \in BOOLEAN BY DEF running
      <4>5. QED BY <4>2, <4>3, <4>4, Count
    <3>3. Cardinality({j} \cap Ended) = IF ended THEN 1 ELSE 0
      <4>1. ended <=> {j} \cap Ended # {} OBVIOUS
      <4>2. \A x, y \in {j} \cap Ended : x = y OBVIOUS
      <4> HIDE DEF ended
      <4>3. ended \in BOOLEAN BY DEF ended
      <4>4. QED BY <4>1, <4>2, <4>3, Count
    <3>4. /\ ~(inQueue /\ running) /\ ~(inQueue /\ ended) /\ ~(running /\ ended)
          /\ caller[j] = "waiting" => inQueue \/ running \/ ended
      BY <2>1 DEF Placed
    <3> HIDE DEF inQueue, running, ended
    <3>5. QED BY <3>1, <3>2, <3>3, <3>4
  <2>3. QED BY <2>1, <2>2 DEF JobInOnePlace, Counted
<1>2. IInv => BackfillerInv BY <1>1 DEF IInv, BackfillerInv
<1>3. QED BY <1>2, Inductive, PTL

\* Success tells a caller of BackfillRange that every offer fetched was handed to the
\* store, failure that none was unless the job was cancelled, whoever stopped or gave
\* up in between.
THEOREM ToldTheTruth == Spec => []OutcomeIsTrue
<1>1. IInv => OutcomeIsTrue BY DEF IInv, Told, Accounted, OutcomeIsTrue
<1>2. QED BY <1>1, Inductive, PTL

\* processJob sends its result when it has done with the store: a job whose caller
\* was told writes no more, and does not go on.
THEOREM ToldJobsAreDone == Spec => ToldJobsWriteNoMore
<1> DEFINE Quiet(j) ==
        /\ progress'[j] = progress[j]
        /\ stored' # stored => \E w \in Workers : /\ worker[w].job \notin {None, j}
                                                  /\ worker'[w] # worker[w]
<1>1. ASSUME IInv, Next, NEW j \in Jobs, outcome[j] \in {"ok", "failed"} PROVE Quiet(j)
  <2>1. TypeOK /\ j \in Ended /\ j \notin RunningJobs
    <3>1. j \in Ended BY <1>1 DEF IInv, Told, Ended
    <3>2. QED BY <1>1, <3>1 DEF IInv, Placed
  <2>2. \A w \in Workers : worker[w].job # j BY <2>1, BackfillerAssumption DEF RunningJobs
  <2>3. CASE UNCHANGED <<stored, progress>> BY <2>3
  <2>4. ASSUME NEW w \in Workers, OverwriteBatch(w) PROVE Quiet(j)
    <3>1. worker[w].job # None /\ worker[w].left # <<>> BY <2>4 DEF OverwriteBatch
    <3>2. progress'[j] = progress[j]
      BY <2>1, <2>2, <2>4 DEF OverwriteBatch, TypeOK
    <3>3. worker'[w] # worker[w]
      <4>1. worker \in [Workers -> Slot] BY <2>1 DEF TypeOK, Slot
      <4>2. worker[w].left \in Seq(SUBSET Offers) BY <3>1, <4>1 DEF Slot
      <4>3. Tail(worker[w].left) # worker[w].left
        <5> DEFINE before == worker[w].left
                   after == Tail(worker[w].left)
        <5>1. Len(after) = Len(before) - 1 /\ Len(before) \in Nat
          BY <3>1, <4>2, HeadTailProperties, EmptySeq
        <5> HIDE DEF before, after
        <5>2. after # before BY <5>1
        <5>3. QED BY <5>2 DEF before, after
      <4>4. worker'[w].left = Tail(worker[w].left) \/ worker'[w] = AtSelect
        BY <2>4, <4>1 DEF OverwriteBatch, NextBatch, EndJob, Slot
      <4>5. QED BY <3>1, <4>3, <4>4 DEF AtSelect
    <3>4. QED BY <2>2, <3>1, <3>2, <3>3
  <2>5. ASSUME NEW w \in Workers, FetchPools(w) PROVE Quiet(j)
    <3>1. UNCHANGED stored BY <2>5 DEF FetchPools
    <3>2. progress'[j] = progress[j]
      BY <2>1, <2>2, <2>5 DEF FetchPools, Fetched, TypeOK
    <3>3. QED BY <3>1, <3>2
  <2>6. ASSUME NEW i \in Jobs,
               BackfillRange(i) \/ Submit(i) \/ AwaitResult(i) \/ Expire(i) \/ PerformCleanup(i)
        PROVE  UNCHANGED <<stored, progress>>
    BY <2>6 DEF BackfillRange, Submit, AwaitResult, Expire, PerformCleanup, Return, dataVars
  <2>7. ASSUME NEW w \in Workers, TakeJob(w) \/ CompleteJob(w) \/ Exit(w)
        PROVE  UNCHANGED <<stored, progress>>
    BY <2>7 DEF TakeJob, CompleteJob, Exit, dataVars
  <2>8. Stop \/ Cancel => UNCHANGED <<stored, progress>> BY DEF Stop, Cancel, dataVars
  <2>9. QED BY <1>1, <2>3, <2>4, <2>5, <2>6, <2>7, <2>8 DEF Next
<1>2. IInv /\ [Next]_vars =>
         [\A j \in Jobs : outcome[j] \in {"ok", "failed"} => Quiet(j)]_vars
  BY <1>1
<1>3. QED BY <1>2, Inductive, PTL DEF Spec, ToldJobsWriteNoMore

-----------------------------------------------------------------------------
(***************************************************************************)
(* The backfiller's scheduler, for every set of jobs and every length of   *)
(* the period, the window and the delay of a tick: module Scheduler.       *)
(*                                                                         *)
(* That a job is started once per period rests on the window being exactly *)
(* as long as the ticker's interval, five minutes in both places: of any   *)
(* TickEvery successive moments the ticker falls due at one.  The theorems *)
(* have this as a hypothesis.  The inductive invariant says how often a    *)
(* job has been started at each moment of the period, by the last tick     *)
(* falling before or after the period began and being handled or not.      *)
(***************************************************************************)
\* The last tick fell due in this period.
TickedInPeriod == TickEvery - until <= now

\* While ticks are handled at once, the jobs of the whole period have been started
\* when its first tick was handled and not since.
OnceByTick ==
    ~late => \A n \in whole :
                /\ age = Unset => started[n] = IF TickedInPeriod THEN 1 ELSE 0
                /\ age = 0 => started[n] = IF now < Window THEN 0 ELSE 1

\* However late, the ticks of the window are the one due before the period began, if
\* it waited, and one more.
TwiceByTick ==
    now < Window =>
        \A n \in Names : started[n] <= (IF TickedInPeriod THEN 1 ELSE 0)
                                         + (IF age = Unset THEN 1 ELSE 0)

\* A job scheduled all through the period is scheduled.
WholeEnabled == whole \subseteq Enabled

TwiceAtMost == \A n \in Names : started[n] <= 2

ScheduleIInv == SchedulerTypeOK /\ WholeEnabled /\ OnceByTick /\ TwiceByTick /\ TwiceAtMost

-----------------------------------------------------------------------------
\* What is assumed of the constants, as the provers use it.
LEMMA Constants ==
    /\ Period \in Nat /\ Window \in Nat /\ TickEvery \in Nat /\ MaxDelay \in Nat
    /\ 1 <= Window /\ 1 <= TickEvery /\ TickEvery <= Period /\ MaxDelay < TickEvery
    /\ Unset \notin Nat
BY SchedulerAssumption

\* At the start no job is scheduled and none was started.
LEMMA ScheduleBegins == SchedulerInit => ScheduleIInv
<1> SUFFICES ASSUME SchedulerInit PROVE ScheduleIInv OBVIOUS
<1> USE Constants
<1>1. SchedulerTypeOK
  <2>1. left \in Seq(JobConfigs) BY SchedulerAssumption DEF SchedulerInit
  <2>2. until \in 1..TickEvery /\ now \in 0..(Period - 1) /\ age = Unset BY DEF SchedulerInit
  <2>3. latest \in [awaiting : SUBSET (DOMAIN Requests),
                    error : {"none", "chain", "unavailable"}]
    BY DEF SchedulerInit
  <2>4. QED BY <2>1, <2>2, <2>3 DEF SchedulerInit, SchedulerTypeOK
<1>2. WholeEnabled BY DEF SchedulerInit, WholeEnabled
<1>3. OnceByTick BY DEF SchedulerInit, OnceByTick
<1>4. now \in Nat /\ until \in Nat /\ \A n \in Names : started[n] = 0 BY DEF SchedulerInit
<1>5. TwiceByTick BY <1>4 DEF TwiceByTick
<1>6. TwiceAtMost BY <1>4 DEF TwiceAtMost
<1>7. QED BY <1>1, <1>2, <1>3, <1>5, <1>6 DEF ScheduleIInv

\* The moment, the last tick and what was started, as numbers.
LEMMA Numbers ==
    ASSUME SchedulerTypeOK
    PROVE  /\ now \in Nat /\ now < Period /\ until \in Nat /\ 1 <= until /\ until <= TickEvery
           /\ \A n \in Names : started[n] \in Nat
           /\ age # Unset => age \in Nat /\ age <= MaxDelay /\ age = TickEvery - until
           /\ whole \subseteq Names
BY Constants DEF SchedulerTypeOK

\* What keeps the clock and the history keeps what relates them.
LEMMA ClockKeeps ==
    ASSUME ScheduleIInv, SchedulerTypeOK', WholeEnabled',
           UNCHANGED <<clock, started, late>>, whole' \subseteq whole
    PROVE  ScheduleIInv'
<1>1. UNCHANGED <<now, until, age, started, late>> BY DEF clock
<1>2. OnceByTick' BY <1>1 DEF ScheduleIInv, OnceByTick, TickedInPeriod
<1>3. TwiceByTick' BY <1>1 DEF ScheduleIInv, TwiceByTick, TickedInPeriod
<1>4. TwiceAtMost' BY <1>1 DEF ScheduleIInv, TwiceAtMost
<1>5. QED BY <1>2, <1>3, <1>4 DEF ScheduleIInv

\* Scheduling a job puts it under its own name.
LEMMA ScheduleTyped ==
    ASSUME SchedulerTypeOK, NEW j \in JobConfigs, j.name # Unset, ScheduleBackfill(j)
    PROVE  /\ scheduled' \in [Names -> JobConfigs \union {Unset}]
           /\ \A n \in Names : scheduled'[n] # Unset => scheduled'[n].name = n
           /\ j.name \in Names /\ scheduled'[j.name] = j /\ j # Unset
           /\ \A n \in Names \ {j.name} : scheduled'[n] = scheduled[n]
<1>1. j.name \in Names /\ j # Unset BY SchedulerAssumption DEF Job
<1>2. scheduled \in [Names -> JobConfigs \union {Unset}]
      /\ \A n \in Names : scheduled[n] # Unset => scheduled[n].name = n
  BY DEF SchedulerTypeOK
<1>3. QED BY <1>1, <1>2 DEF ScheduleBackfill

\* Registering a job, which is enabled, takes no enabled job away.
LEMMA RegisterJobKeeps == ASSUME ScheduleIInv, RegisterJob PROVE ScheduleIInv'
<1> DEFINE j == Head(left)
<1>1. SchedulerTypeOK /\ left \in Seq(JobConfigs) /\ left # <<>>
  BY DEF ScheduleIInv, SchedulerTypeOK, RegisterJob
<1>2. j \in JobConfigs /\ Tail(left) \in Seq(JobConfigs) BY <1>1
<1>3. UNCHANGED <<phase, clock, latest, history>> BY DEF RegisterJob
<1>4. left' \in Seq(JobConfigs) BY <1>2 DEF RegisterJob
<1>5. phase # "running" BY <1>1 DEF SchedulerTypeOK
<1>6. CASE UNCHANGED scheduled
  <2>1. customs' \subseteq JobConfigs BY <1>1, <1>2 DEF RegisterJob, SchedulerTypeOK
  <2>2. SchedulerTypeOK'
    BY <1>1, <1>3, <1>4, <1>5, <1>6, <2>1 DEF SchedulerTypeOK, clock, history
  <2>3. WholeEnabled' BY <1>3, <1>6 DEF ScheduleIInv, WholeEnabled, Enabled, history
  <2>4. QED BY <1>3, <2>2, <2>3, ClockKeeps DEF history
<1>7. CASE j.enabled /\ Takes(j) /\ j.cron # {} /\ ScheduleBackfill(j) /\ UNCHANGED customs
  <2>1. j.name # Unset BY <1>7 DEF Takes, Schedulable
  <2> HIDE DEF j
  <2>2. SchedulerTypeOK' BY <1>1, <1>2, <1>3, <1>4, <1>5, <1>7, <2>1, ScheduleTyped
        DEF SchedulerTypeOK, clock, history
  <2>3. WholeEnabled'
    BY <1>1, <1>2, <1>3, <1>7, <2>1, ScheduleTyped
    DEF ScheduleIInv, WholeEnabled, Enabled, history
  <2>4. QED BY <1>3, <2>2, <2>3, ClockKeeps DEF history
<1>8. QED BY <1>6, <1>7 DEF RegisterJob

\* main's going on, and the service's stop, touch neither the jobs nor the clock.
LEMMA PhasesKeep == ASSUME ScheduleIInv, NextPhase \/ StopScheduler PROVE ScheduleIInv'
<1>1. UNCHANGED <<scheduled, customs, clock, latest, history>> BY DEF NextPhase, StopScheduler
<1>2. /\ left' \in Seq(JobConfigs) /\ phase' \in {"file", "env", "code", "running", "stopped"}
      /\ phase' = "running" => left' = <<>>
  BY SchedulerAssumption DEF NextPhase, StopScheduler, ScheduleIInv, SchedulerTypeOK
<1>3. SchedulerTypeOK' BY <1>1, <1>2 DEF ScheduleIInv, SchedulerTypeOK, clock, history
<1>4. WholeEnabled' BY <1>1 DEF ScheduleIInv, WholeEnabled, Enabled, history
<1>5. QED BY <1>1, <1>3, <1>4, ClockKeeps DEF history

\* A job that is put in another's place belongs to the whole period if it is enabled.
LEMMA RescheduleKeeps == ASSUME ScheduleIInv, Reschedule PROVE ScheduleIInv'
<1>1. PICK j \in JobConfigs : /\ j.name # Unset /\ ScheduleBackfill(j)
                        /\ whole' = IF j.enabled /\ SixHourly(j) THEN whole ELSE whole \ {j.name}
  BY DEF Reschedule
<1>2. UNCHANGED <<phase, left, customs, clock, latest, started, late>> BY DEF Reschedule
<1>3. SchedulerTypeOK BY DEF ScheduleIInv
<1>4. whole' \subseteq whole BY <1>1
<1>5. SchedulerTypeOK' BY <1>1, <1>2, <1>3, <1>4, ScheduleTyped DEF SchedulerTypeOK, clock
<1>6. WholeEnabled'
  BY <1>1, <1>3, ScheduleTyped DEF ScheduleIInv, WholeEnabled, Enabled, SchedulerTypeOK
<1>7. QED BY <1>2, <1>4, <1>5, <1>6, ClockKeeps

\* A tick that is handled starts the enabled jobs once, and in the window only.
LEMMA CheckKeeps ==
    ASSUME Window = TickEvery, ScheduleIInv, CheckScheduledJobs PROVE ScheduleIInv'
<1>1. /\ UNCHANGED <<config, now, until, latest, whole>> /\ age # Unset /\ age' = Unset
      /\ started' = [n \in Names |-> IF n \in Enabled /\ now < Window
                                     THEN started[n] + 1 ELSE started[n]]
      /\ late' = (late \/ age > 0)
  BY DEF CheckScheduledJobs, ShouldRun
<1>2. SchedulerTypeOK /\ WholeEnabled BY DEF ScheduleIInv
<1>3. /\ now \in Nat /\ until \in Nat /\ age \in Nat /\ age = TickEvery - until
      /\ \A n \in Names : started[n] \in Nat
      /\ whole \subseteq Names
  BY <1>1, <1>2, Numbers
<1>4. SchedulerTypeOK'
  <2>1. started' \in [Names -> Nat] BY <1>1, <1>3
  <2>2. late' \in BOOLEAN BY <1>1, <1>2 DEF SchedulerTypeOK
  <2>3. QED BY <1>1, <1>2, <2>1, <2>2 DEF SchedulerTypeOK, config
<1>5. WholeEnabled' BY <1>1, <1>2 DEF WholeEnabled, Enabled, config
<1>6. now < Window => \A n \in Names : started[n] <= IF TickEvery - until <= now THEN 1 ELSE 0
  BY <1>1, <1>3, Constants DEF ScheduleIInv, TwiceByTick, TickedInPeriod
<1>7. OnceByTick'
  <2>1. ASSUME ~late', NEW n \in whole PROVE started'[n] = IF TickedInPeriod' THEN 1 ELSE 0
    <3>1. ~late /\ age = 0
      <4>1. ~late /\ ~(age > 0) BY <1>1, <2>1
      <4>2. QED BY <1>3, <4>1
    <3>2. n \in Names /\ n \in Enabled BY <1>2, <1>3 DEF WholeEnabled
    <3>3. started[n] = IF now < Window THEN 0 ELSE 1 BY <3>1 DEF ScheduleIInv, OnceByTick
    <3>4. TickEvery - until = 0 BY <1>3, <3>1
    <3>5. TickedInPeriod' BY <1>1, <1>3, <3>4 DEF TickedInPeriod
    <3>6. started'[n] = IF now < Window THEN started[n] + 1 ELSE started[n] BY <1>1, <3>2
    <3>7. QED BY <3>3, <3>5, <3>6
  <2>2. age' # 0 BY <1>1, Constants
  <2>3. QED BY <1>1, <2>1, <2>2 DEF OnceByTick
<1>8. TwiceByTick'
  BY <1>1, <1>3, <1>6, Constants DEF TwiceByTick, TickedInPeriod
<1>9. TwiceAtMost'
  BY <1>1, <1>3, <1>6, Constants DEF ScheduleIInv, TwiceAtMost
<1>10. QED BY <1>4, <1>5, <1>7, <1>8, <1>9 DEF ScheduleIInv

\* The next moment is the next number, until the period begins again.
LEMMA NextMoment ==
    ASSUME NEW t \in Nat, NEW p \in Nat, t < p
    PROVE  (t + 1) % p = IF t + 1 = p THEN 0 ELSE t + 1
OBVIOUS

\* Time passes: a tick that waits is the last one still, and none falls due while one
\* waits.
LEMMA PassKeeps == ASSUME Window = TickEvery, ScheduleIInv, Pass PROVE ScheduleIInv'
<1> USE Constants
<1>1. SchedulerTypeOK /\ WholeEnabled BY DEF ScheduleIInv
<1>2. /\ now \in Nat /\ now < Period /\ until \in Nat /\ 1 <= until /\ until <= TickEvery
      /\ \A n \in Names : started[n] \in Nat
      /\ age # Unset => age \in Nat /\ age <= MaxDelay /\ age = TickEvery - until
      /\ whole \subseteq Names
  BY <1>1, Numbers
<1>3. /\ UNCHANGED <<config, latest>> /\ phase = "running"
      /\ age # Unset => age < MaxDelay
      /\ now' = IF now + 1 = Period THEN 0 ELSE now + 1
      /\ started' = IF now' = 0 THEN [n \in Names |-> 0] ELSE started
      /\ whole' \subseteq (IF now' = 0 THEN Enabled ELSE whole)
      /\ now' # 0 => whole' = whole /\ late' = late
      /\ late' \in BOOLEAN
  <2>1. whole' = IF now' = 0 THEN {n \in Enabled : SixHourly(scheduled[n])} ELSE whole
    BY DEF Pass
  <2>2. late' = (late /\ now' # 0) BY DEF Pass
  <2>3. late \in BOOLEAN BY <1>1 DEF SchedulerTypeOK
  <2>4. late' \in BOOLEAN /\ (now' # 0 => late' = late) BY <2>2, <2>3, Zenon
  <2>5. UNCHANGED <<config, latest>> /\ phase = "running" /\ now' = (now + 1) % Period
        /\ (age # Unset => age < MaxDelay)
        /\ started' = IF now' = 0 THEN [n \in Names |-> 0] ELSE started
    BY <1>2 DEF Pass
  <2>6. QED BY <1>2, <2>1, <2>4, <2>5, NextMoment
<1>4. \/ /\ until > 1 /\ until' = until - 1
         /\ age' = IF age = Unset THEN Unset ELSE age + 1
      \/ until = 1 /\ age = Unset /\ until' = TickEvery /\ age' = 0
  BY <1>2, <1>3 DEF Pass
<1>5. SchedulerTypeOK'
  <2>1. now' \in 0..(Period - 1) /\ until' \in 1..TickEvery BY <1>2, <1>3, <1>4
  <2>2. /\ age' \in (0..MaxDelay) \union {Unset}
        /\ age' # Unset => age' = TickEvery - until'
    BY <1>2, <1>3, <1>4
  <2>3. started' \in [Names -> Nat] BY <1>1, <1>3 DEF SchedulerTypeOK
  <2>4. whole' \subseteq Names BY <1>2, <1>3 DEF Enabled
  <2>5. late' \in BOOLEAN BY <1>3
  <2>6. QED BY <1>1, <1>3, <2>1, <2>2, <2>3, <2>4, <2>5 DEF SchedulerTypeOK, config
<1>6. WholeEnabled' BY <1>1, <1>3 DEF WholeEnabled, Enabled, config
<1>7. CASE now' = 0
  <2>1. \A n \in Names : started'[n] = 0 BY <1>3, <1>7
  <2>2. whole' \subseteq Names BY <1>5 DEF SchedulerTypeOK
  <2>3. age' = Unset => ~TickedInPeriod' BY <1>2, <1>4, <1>7 DEF TickedInPeriod
  <2>4. OnceByTick' BY <1>7, <2>1, <2>2, <2>3 DEF OnceByTick
  <2>5. TwiceByTick' BY <2>1 DEF TwiceByTick
  <2>6. TwiceAtMost' BY <2>1 DEF TwiceAtMost
  <2>7. QED BY <1>5, <1>6, <2>4, <2>5, <2>6 DEF ScheduleIInv
<1>8. CASE now' # 0
  <2>1. now' = now + 1 /\ started' = started /\ whole' = whole /\ late' = late
    BY <1>3, <1>8
  <2>2. OnceByTick'
    <3>1. ASSUME ~late, NEW n \in whole
          PROVE  /\ age' = Unset => started[n] = IF TickedInPeriod' THEN 1 ELSE 0
                 /\ age' = 0 => started[n] = IF now' < Window THEN 0 ELSE 1
      <4>1. age = Unset => started[n] = IF TickEvery - until <= now THEN 1 ELSE 0
        BY <3>1 DEF ScheduleIInv, OnceByTick, TickedInPeriod
      <4>2. QED BY <1>2, <1>4, <2>1, <4>1 DEF TickedInPeriod
    <3>2. QED BY <2>1, <3>1 DEF OnceByTick
  <2>3. TwiceByTick'
    <3>1. ASSUME now' < Window, NEW n \in Names
          PROVE  started[n] <= (IF TickedInPeriod' THEN 1 ELSE 0)
                                 + (IF age' = Unset THEN 1 ELSE 0)
      <4>1. started[n] <= (IF TickEvery - until <= now THEN 1 ELSE 0)
                            + (IF age = Unset THEN 1 ELSE 0)
        BY <1>2, <2>1, <3>1 DEF ScheduleIInv, TwiceByTick, TickedInPeriod
      <4>2. QED BY <1>2, <1>4, <2>1, <3>1, <4>1 DEF TickedInPeriod
    <3>2. QED BY <2>1, <3>1 DEF TwiceByTick
  <2>4. TwiceAtMost' BY <2>1 DEF ScheduleIInv, TwiceAtMost
  <2>5. QED BY <1>5, <1>6, <2>2, <2>3, <2>4 DEF ScheduleIInv
<1>9. QED BY <1>7, <1>8

\* BackfillLatest is no job of the scheduler's.
LEMMA LatestKeeps ==
    ASSUME ScheduleIInv, BackfillLatest \/ \E i \in DOMAIN Requests : LatestResult(i)
    PROVE  ScheduleIInv'
<1> DEFINE Latest == [awaiting : SUBSET (DOMAIN Requests),
                      error : {"none", "chain", "unavailable"}]
<1>1. UNCHANGED <<config, clock, history>> BY DEF BackfillLatest, LatestResult
<1>2. latest \in Latest BY DEF ScheduleIInv, SchedulerTypeOK
<1>3. latest' \in Latest
  <2>1. CASE BackfillLatest BY <2>1 DEF BackfillLatest
  <2>2. ASSUME NEW i \in DOMAIN Requests, LatestResult(i) PROVE latest' \in Latest
    <3>1. latest.awaiting \ {i} \in SUBSET (DOMAIN Requests) BY <1>2
    <3>2. QED BY <1>2, <2>2, <3>1 DEF LatestResult
  <2>3. QED BY <2>1, <2>2
<1>4. SchedulerTypeOK' BY <1>1, <1>3 DEF ScheduleIInv, SchedulerTypeOK, config, clock, history
<1>5. WholeEnabled' BY <1>1 DEF ScheduleIInv, WholeEnabled, Enabled, config, history
<1>6. QED BY <1>1, <1>4, <1>5, ClockKeeps DEF history

\* Every step keeps the invariant, when the window is as long as the interval.
LEMMA StepKeeps ==
    ASSUME Window = TickEvery, ScheduleIInv, [SchedulerNext]_schedulerVars
    PROVE  ScheduleIInv'
<1>1. CASE RegisterJob BY <1>1, RegisterJobKeeps
<1>2. CASE NextPhase \/ StopScheduler BY <1>2, PhasesKeep
<1>3. CASE Reschedule BY <1>3, RescheduleKeeps
<1>4. CASE CheckScheduledJobs BY <1>4, CheckKeeps
<1>5. CASE Pass BY <1>5, PassKeeps
<1>6. CASE BackfillLatest \/ \E i \in DOMAIN Requests : LatestResult(i)
  BY <1>6, LatestKeeps
<1>7. CASE UNCHANGED schedulerVars
  <2>1. UNCHANGED <<config, clock, latest, history>> BY <1>7 DEF schedulerVars
  <2>2. SchedulerTypeOK' BY <2>1 DEF ScheduleIInv, SchedulerTypeOK, config, clock, history
  <2>3. WholeEnabled' BY <2>1 DEF ScheduleIInv, WholeEnabled, Enabled, config, history
  <2>4. QED BY <2>1, <2>2, <2>3, ClockKeeps DEF history
<1>8. QED BY <1>1, <1>2, <1>3, <1>4, <1>5, <1>6, <1>7 DEF SchedulerNext

\* The inductive invariant holds in every state, wherever the first tick falls.
THEOREM ScheduleInductive == ASSUME Window = TickEvery PROVE SchedulerSpec => []ScheduleIInv
<1>1. ScheduleIInv /\ [SchedulerNext]_schedulerVars => ScheduleIInv' BY StepKeeps
<1>2. QED BY <1>1, ScheduleBegins, PTL DEF SchedulerSpec

\* With the window and the interval of equal length, as both are five minutes in the
\* code, every six-hourly job scheduled through a period is started exactly once in it
\* if the period's ticks are handled at once, and never more than twice however late
\* they are.
THEOREM OnceAPeriod == ASSUME Window = TickEvery PROVE SchedulerSpec => []SchedulerInv
<1>1. ScheduleIInv => SchedulerInv
  <2> SUFFICES ASSUME ScheduleIInv PROVE SchedulerInv OBVIOUS
  <2>1. now \in Nat /\ until \in Nat /\ 1 <= until BY Numbers DEF ScheduleIInv
  <2>2. now >= Window => TickedInPeriod BY <2>1, Constants DEF TickedInPeriod
  <2>3. OncePerPeriod BY <2>2 DEF ScheduleIInv, OnceByTick, OncePerPeriod
  <2>4. AtMostTwice BY DEF ScheduleIInv, TwiceAtMost, AtMostTwice, SchedulerTypeOK
  <2>5. QED BY <2>3, <2>4 DEF ScheduleIInv, SchedulerInv
<1>2. QED BY <1>1, ScheduleInductive, PTL
=============================================================================
