---------------------------- MODULE JobQueueProofs ----------------------------
(***************************************************************************)
(* The safety of the job queue for every number of keys, workers, jobs and *)
(* attempts.  Every step replaces records of existing jobs by records that *)
(* still account for their attempts (Succeeds), or appends a fresh one;    *)
(* attempts only grow, and they grow only when a worker takes the new one. *)
(*                                                                         *)
(* To whoever submits commands the queue is the ledger of JobLedger: each  *)
(* action changes the entry of the one key whose job it changes.  The last *)
(* part says what leases are good for when handlers keep within them.      *)
(***************************************************************************)
EXTENDS JobQueue, TLAPS

\* Jobs are created in order.
Ordered == \A j \in Jobs : jobs[j].status = "ABSENT" <=> j > created

\* A job that does not exist has no attempts for a worker to execute, and time
\* does not touch it.
Unused == \A j \in Jobs : jobs[j].status = "ABSENT" => jobs[j] = Absent

\* Jobs have the key they were enqueued with, and only jobs are indexed.
Keyed ==
  /\ \A j \in Jobs : jobs[j].status # "ABSENT" => jobs[j].key \in Keys
  /\ \A k \in Keys : idempotency[k] \in 0..created

IInv ==
  /\ TypeOK
  /\ Ordered
  /\ Unused
  /\ Keyed
  /\ KeysUnique
  /\ AttemptsAccount
  /\ AttemptsDistinct

\* Record h may replace record g of an existing job: it is a well-formed record
\* of the same key, has used no fewer attempts and, if the job has ended, the
\* same outcome.
Succeeds(g, h) ==
  /\ h \in Job
  /\ h.status # "ABSENT"
  /\ h.key = g.key
  /\ g.attempts <= h.attempts
  /\ Accounts(h)
  /\ Terminal(g) => /\ h.status = g.status
                    /\ h.attempts = g.attempts
                    /\ h.error = g.error

\* Nobody but the holder of the newest attempt gets the lease.
SameHolder(g, h) ==
  h.attempts = g.attempts /\ h.lockedBy \in {None, g.lockedBy}

Ends == \A j \in Jobs : Terminal(jobs[j]) =>
          /\ jobs'[j].status = jobs[j].status
          /\ jobs'[j].attempts = jobs[j].attempts
          /\ jobs'[j].error = jobs[j].error

Preserves == IInv' /\ Ends

\* What the invariant says of one job.
LEMMA RecordFields ==
  ASSUME IInv, NEW j \in Jobs
  PROVE  jobs[j] \in Job /\ Accounts(jobs[j])
BY DEF IInv, TypeOK, AttemptsAccount

-----------------------------------------------------------------------------
\* A lease that ends, on a RUNNING record, leaves a record that accounts for it.
LEMMA LostSucceeds ==
  ASSUME NEW g \in Job, Accounts(g), g.status = "RUNNING",
         NEW wait \in Waits, NEW code \in Errors \ {"NONE"}
  PROVE  Succeeds(g, Lost(g, wait, code)) /\ SameHolder(g, Lost(g, wait, code))
<1> DEFINE h == Lost(g, wait, code)
<1>1. /\ h.status = IF g.attempts >= g.max THEN "FAILED" ELSE "QUEUED"
      /\ h.wait = wait /\ h.lockedBy = None /\ h.age = 0 /\ h.error = code
      /\ h.attempts = g.attempts /\ h.max = g.max /\ h.key = g.key
  BY DEF Lost, Job
<1>2. h \in Job
  <2>1. 0 \in Ages
    BY JobAssumption DEF Ages
  <2>2. QED BY <2>1 DEF Lost, Job, Statuses
<1>3. g.attempts \in Nat /\ g.max \in Nat /\ g.attempts <= g.max
  BY JobAssumption DEF Job, Accounts
<1> HIDE DEF h
<1>4. Accounts(h)
  BY <1>1, <1>3 DEF Accounts
<1>5. QED
  BY <1>1, <1>2, <1>3, <1>4 DEF Succeeds, SameHolder, Terminal, h

\* The record that claim() leaves is leased to the worker for one more attempt.
LEMMA ClaimedSucceeds ==
  ASSUME NEW g \in Job, Accounts(g), g.status = "QUEUED", NEW w \in Workers
  PROVE  /\ Succeeds(g, Claimed(g, w))
         /\ Claimed(g, w).status = "RUNNING"
         /\ Claimed(g, w).attempts = g.attempts + 1
         /\ Claimed(g, w).lockedBy = w
<1> DEFINE h == Claimed(g, w)
<1>1. /\ h.status = "RUNNING" /\ h.attempts = g.attempts + 1
      /\ h.lockedBy = w /\ h.age = 0 /\ h.max = g.max /\ h.key = g.key
      /\ h.error = g.error /\ h.wait = g.wait
  BY DEF Claimed, Job
<1>2. h \in Job
  <2>1. 0 \in Ages /\ g.attempts + 1 \in Nat
    BY JobAssumption DEF Ages, Job
  <2>2. QED BY <2>1 DEF Claimed, Job, Statuses
<1>3. g.attempts \in Nat /\ g.max \in Nat /\ g.attempts < g.max
  BY JobAssumption DEF Job, Accounts
<1> HIDE DEF h
<1>4. Accounts(h)
  BY <1>1, <1>3, JobAssumption DEF Accounts
<1>5. QED
  BY <1>1, <1>2, <1>3, <1>4 DEF Succeeds, Terminal, h

\* A step that replaces existing jobs by successors and starts no execution.
LEMMA ReplaceInv ==
  ASSUME IInv, NEW table \in [Jobs -> Job], jobs' = table,
         \A j \in Jobs : \/ table[j] = jobs[j]
                         \/ /\ jobs[j].status # "ABSENT"
                            /\ Succeeds(jobs[j], table[j])
                            /\ \/ SameHolder(jobs[j], table[j])
                               \/ table[j].lockedBy = None,
         UNCHANGED <<created, idempotency>>,
         running' \in [Workers -> Execution],
         \A w \in Workers : running'[w] \in {running[w], Idle}
  PROVE  Preserves
<1>1. \A j \in Jobs : /\ table[j].key = jobs[j].key
                      /\ jobs[j].attempts <= table[j].attempts
                      /\ table[j].status = "ABSENT" <=> jobs[j].status = "ABSENT"
                      /\ Accounts(table[j])
                      /\ jobs[j].attempts \in Nat /\ table[j].attempts \in Nat
  BY RecordFields DEF Succeeds, Job
<1>2. TypeOK'
  BY DEF IInv, TypeOK
<1>3. Ordered' /\ Unused' /\ Keyed' /\ KeysUnique' /\ AttemptsAccount'
  BY <1>1
     DEF IInv, Ordered, Unused, Keyed, KeysUnique, AttemptsAccount, TypeOK, Jobs,
         Succeeds
<1>4. \A w \in Workers : running'[w].job # 0 =>
        /\ running'[w] = running[w]
        /\ running[w].job \in Jobs
        /\ running[w].attempt \in Nat
  BY DEF Idle, IInv, TypeOK, Execution, Jobs
<1>5. ASSUME NEW w \in Workers, running'[w].job # 0
      PROVE  /\ running'[w].attempt \in 1..jobs'[running'[w].job].attempts
             /\ jobs'[running'[w].job].lockedBy = w =>
                  running'[w].attempt = jobs'[running'[w].job].attempts
  <2> DEFINE j == running[w].job
  <2>1. /\ running'[w] = running[w] /\ j \in Jobs
        /\ running[w].attempt \in 1..jobs[j].attempts
        /\ jobs[j].lockedBy = w => running[w].attempt = jobs[j].attempts
    BY <1>4, <1>5 DEF IInv, AttemptsDistinct
  <2>2. running[w].attempt \in 1..table[j].attempts
    BY <1>1, <2>1
  <2>3. table[j].lockedBy = w =>
          jobs[j].lockedBy = w /\ table[j].attempts = jobs[j].attempts
    BY <2>1, JobAssumption DEF SameHolder
  <2>4. QED BY <2>1, <2>2, <2>3
<1>6. AttemptsDistinct'
  <2>1. \A v, w \in Workers :
          v # w /\ running'[v].job = running'[w].job /\ running'[v].job # 0 =>
            running'[v].attempt # running'[w].attempt
    BY <1>4 DEF IInv, AttemptsDistinct
  <2>2. QED BY <1>5, <2>1 DEF AttemptsDistinct
<1>7. Ends
  BY DEF Ends, Succeeds
<1>8. QED BY <1>2, <1>3, <1>6, <1>7 DEF Preserves, IInv

-----------------------------------------------------------------------------
(* The actions. *)

\* A new job takes the next place, and its key, when it has one, was free.
LEMMA EnqueueInv ==
  ASSUME IInv, NEW k \in Keys, NEW m \in 1..MaxAttempts,
         NEW d \in 0..RetryDelay, Enqueue(k, m, d)
  PROVE  Preserves
<1> DEFINE n == created + 1
           g == [Absent EXCEPT !.status = "QUEUED", !.max = m, !.key = k,
                               !.wait = d]
<1>1. /\ n \in Jobs /\ created \in Nat
      /\ created' = n
      /\ jobs' = [jobs EXCEPT ![n] = g]
      /\ idempotency[k] = 0
      /\ idempotency' = [idempotency EXCEPT ![k] = n]
      /\ running' = running
  BY JobAssumption DEF Enqueue, IInv, TypeOK, Jobs
<1>2. m \in Nat /\ m > 0 /\ d \in Waits
  BY JobAssumption DEF Waits
<1>3. /\ g.status = "QUEUED" /\ g.attempts = 0 /\ g.max = m /\ g.key = k
      /\ g.error = "NONE" /\ g.lockedBy = None
  BY DEF Absent
<1>4. g \in Job
  <2>1. 0 \in Ages /\ 0 \in Waits
    BY JobAssumption DEF Ages, Waits
  <2>2. Absent \in Job
    BY <2>1 DEF Absent, Job, Errors
  <2>3. QED BY <1>2, <2>2 DEF Job, Statuses
<1>5. \A j \in Jobs : jobs'[j] = IF j = n THEN g ELSE jobs[j]
  BY <1>1 DEF IInv, TypeOK
<1>6. jobs[n].status = "ABSENT"
  BY <1>1 DEF IInv, Ordered
<1> HIDE DEF g
<1>7. TypeOK'
  BY <1>1, <1>4, JobAssumption DEF IInv, TypeOK, Jobs
<1>8. Ordered' /\ Unused'
  BY <1>1, <1>3, <1>5 DEF IInv, Ordered, Unused, Jobs
<1>9. Keyed' /\ KeysUnique'
  <2>1. \A i \in Keys :
          idempotency'[i] = IF i = k THEN n ELSE idempotency[i]
    BY <1>1 DEF IInv, TypeOK
  <2>2. Keyed'
    BY <1>1, <1>3, <1>5, <2>1 DEF IInv, Keyed
  <2>3. \A j \in Jobs \ {n} : jobs[j].status # "ABSENT" =>
          jobs[j].key \in Keys /\ jobs[j].key # k /\ idempotency[jobs[j].key] = j
    BY <1>1 DEF IInv, Keyed, KeysUnique, Jobs
  <2>4. \A i \in Keys \ {k} : idempotency[i] # 0 =>
          idempotency[i] \in Jobs \ {n} /\ jobs[idempotency[i]].key = i
    <3>1. \A i \in Keys : idempotency[i] # 0 =>
            idempotency[i] \in 1..created /\ jobs[idempotency[i]].key = i
      BY <1>1 DEF IInv, Keyed, KeysUnique
    <3>2. 1..created \subseteq Jobs \ {n}
      BY <1>1, JobAssumption DEF Jobs
    <3>3. QED BY <3>1, <3>2
  <2>5. \A j \in Jobs : jobs'[j].status # "ABSENT" =>
          idempotency'[jobs'[j].key] = j
    BY <1>3, <1>5, <2>1, <2>3
  <2>6. \A i \in Keys : idempotency'[i] # 0 => jobs'[idempotency'[i]].key = i
    BY <1>1, <1>3, <1>5, <2>1, <2>4
  <2>7. QED BY <2>2, <2>5, <2>6 DEF KeysUnique
<1>10. AttemptsAccount'
  BY <1>2, <1>3, <1>5 DEF IInv, AttemptsAccount, Accounts
<1>11. AttemptsDistinct'
  <2>1. \A w \in Workers : running[w].job # 0 =>
          running[w].job \in Jobs /\ running[w].job # n
    <3> SUFFICES ASSUME NEW w \in Workers, running[w].job # 0
                 PROVE  running[w].job \in Jobs /\ running[w].job # n
      OBVIOUS
    <3>1. running[w].job \in Jobs
      BY DEF IInv, TypeOK, Execution, Jobs
    <3>2. jobs[running[w].job].attempts > 0
      BY <3>1, RecordFields DEF IInv, AttemptsDistinct, Job
    <3>3. jobs[n].attempts = 0
      BY <1>1, <1>6 DEF IInv, Unused, Absent
    <3>4. QED BY <3>1, <3>2, <3>3
  <2>2. QED BY <1>1, <1>5, <2>1 DEF IInv, AttemptsDistinct
<1>12. Ends
  BY <1>5, <1>6 DEF Ends, Terminal
<1>13. QED
  BY <1>7, <1>8, <1>9, <1>10, <1>11, <1>12 DEF Preserves, IInv

\* A worker's next execution takes the attempt that the claim has just counted.
LEMMA StartInv ==
  ASSUME IInv, NEW w \in Workers, NEW j \in Jobs, Start(w, j)
  PROVE  Preserves
<1> DEFINE g == Claimed(jobs[j], w)
           e == [job |-> j, attempt |-> jobs[j].attempts + 1]
<1>1. /\ jobs[j] \in Job /\ jobs[j].status = "QUEUED" /\ Accounts(jobs[j])
      /\ jobs[j].attempts \in Nat
      /\ jobs' = [jobs EXCEPT ![j] = g]
      /\ running' = [running EXCEPT ![w] = e]
      /\ created' = created /\ idempotency' = idempotency
  BY RecordFields DEF Start, Oldest, Eligible, Job
<1>2. /\ Succeeds(jobs[j], g) /\ g.status = "RUNNING"
      /\ g.attempts = jobs[j].attempts + 1 /\ g.lockedBy = w
  BY <1>1, ClaimedSucceeds
<1>3. /\ g \in Job /\ g.key = jobs[j].key /\ Accounts(g)
      /\ g.status # "ABSENT"
  BY <1>2 DEF Succeeds
<1>4. /\ e \in Execution /\ e.job = j /\ e.attempt = jobs[j].attempts + 1
      /\ e.job # 0
  BY <1>1 DEF Execution, Jobs
<1> HIDE DEF g, e
<1>5. /\ \A i \in Jobs : jobs'[i] = IF i = j THEN g ELSE jobs[i]
      /\ \A v \in Workers : running'[v] = IF v = w THEN e ELSE running[v]
  BY <1>1 DEF IInv, TypeOK
<1>6. TypeOK'
  BY <1>1, <1>3, <1>4 DEF IInv, TypeOK
<1>7. Ordered' /\ Unused' /\ Keyed' /\ KeysUnique' /\ AttemptsAccount'
  <2>1. Ordered' /\ Unused' /\ Keyed'
    BY <1>1, <1>3, <1>5 DEF IInv, Ordered, Unused, Keyed
  <2>2. KeysUnique'
    BY <1>1, <1>3, <1>5 DEF IInv, KeysUnique
  <2>3. AttemptsAccount'
    BY <1>3, <1>5 DEF IInv, AttemptsAccount
  <2>4. QED BY <2>1, <2>2, <2>3
<1>8. AttemptsDistinct'
  <2>1. \A v \in Workers : running[v].job # 0 =>
          /\ running[v].job \in Jobs
          /\ running[v].attempt \in Nat
          /\ running[v].attempt \in 1..jobs[running[v].job].attempts
    BY DEF IInv, TypeOK, Execution, Jobs, AttemptsDistinct
  <2>2. \A v \in Workers : v # w /\ running[v].job = j =>
          running[v].attempt # e.attempt
    BY <1>1, <1>4, <2>1 DEF Jobs
  <2>3. \A v \in Workers : running'[v].job # 0 =>
          /\ running'[v].attempt \in 1..jobs'[running'[v].job].attempts
          /\ jobs'[running'[v].job].lockedBy = v =>
               running'[v].attempt = jobs'[running'[v].job].attempts
    <3> SUFFICES ASSUME NEW v \in Workers, running'[v].job # 0
                 PROVE  /\ running'[v].attempt \in
                             1..jobs'[running'[v].job].attempts
                        /\ jobs'[running'[v].job].lockedBy = v =>
                             running'[v].attempt = jobs'[running'[v].job].attempts
      OBVIOUS
    <3>1. CASE v = w
      BY <1>1, <1>2, <1>4, <1>5, <3>1
    <3>2. CASE v # w /\ running[v].job = j
      BY <1>1, <1>2, <1>5, <2>1, <3>2
    <3>3. CASE v # w /\ running[v].job # j
      BY <1>5, <2>1, <3>3 DEF IInv, AttemptsDistinct
    <3>4. QED BY <3>1, <3>2, <3>3
  <2>4. \A u, v \in Workers :
          u # v /\ running'[u].job = running'[v].job /\ running'[u].job # 0 =>
            running'[u].attempt # running'[v].attempt
    BY <1>4, <1>5, <2>2 DEF IInv, AttemptsDistinct
  <2>5. QED BY <2>3, <2>4 DEF AttemptsDistinct
<1>9. Ends
  BY <1>1, <1>5 DEF Ends, Terminal
<1>10. QED BY <1>6, <1>7, <1>8, <1>9 DEF Preserves, IInv

\* Without a handler the new attempt is used up by no worker.
LEMMA StartUnhandledInv ==
  ASSUME IInv, NEW w \in Workers, NEW j \in Jobs, StartUnhandled(w, j)
  PROVE  Preserves
<1> DEFINE g == Claimed(jobs[j], w)
           h == Lost(g, RetryDelay, "HANDLER_NOT_CONFIGURED")
           table == [jobs EXCEPT ![j] = h]
<1>1. /\ jobs[j] \in Job /\ jobs[j].status = "QUEUED" /\ Accounts(jobs[j])
      /\ jobs' = table
      /\ created' = created /\ idempotency' = idempotency /\ running' = running
  BY RecordFields DEF StartUnhandled, Oldest, Eligible
<1>2. Succeeds(jobs[j], g) /\ g.status = "RUNNING"
  BY <1>1, ClaimedSucceeds
<1>3. "HANDLER_NOT_CONFIGURED" \in Errors \ {"NONE"} /\ RetryDelay \in Waits
  BY JobAssumption DEF Errors, Waits
<1>4. Succeeds(g, h)
  <2>1. g \in Job /\ Accounts(g)
    BY <1>2 DEF Succeeds
  <2>2. QED BY <1>2, <1>3, <2>1, LostSucceeds
<1>5. h.lockedBy = None
  BY <1>2 DEF Lost, Job, Succeeds
<1> HIDE DEF g, h
<1>6. Succeeds(jobs[j], h)
  <2>1. jobs[j].attempts \in Nat /\ g.attempts \in Nat /\ h.attempts \in Nat
    BY <1>1, <1>2, <1>4 DEF Succeeds, Job
  <2>2. QED BY <1>1, <1>2, <1>4, <2>1 DEF Succeeds, Terminal
<1>7. table \in [Jobs -> Job] /\ table[j] = h
      /\ \A i \in Jobs \ {j} : table[i] = jobs[i]
  BY <1>6 DEF IInv, TypeOK, Succeeds
<1> HIDE DEF table
<1>8. running' \in [Workers -> Execution]
  BY <1>1 DEF IInv, TypeOK
<1>9. QED BY <1>1, <1>5, <1>6, <1>7, <1>8, ReplaceInv

\* A handler that ends leaves its worker idle.
LEMMA IdleWorker ==
  ASSUME IInv, NEW w \in Workers, running' = [running EXCEPT ![w] = Idle]
  PROVE  /\ running' \in [Workers -> Execution]
         /\ \A v \in Workers : running'[v] \in {running[v], Idle}
<1>1. Idle \in Execution
  BY JobAssumption DEF Idle, Execution
<1>2. QED BY <1>1 DEF IInv, TypeOK

\* The record that succeed() leaves.
LEMMA SucceedInv ==
  ASSUME IInv, NEW w \in Workers, Succeed(w)
  PROVE  Preserves
<1> DEFINE j == running[w].job
           h == [jobs[j] EXCEPT !.status = "SUCCEEDED", !.lockedBy = None,
                                !.age = 0]
           table == [jobs EXCEPT ![j].status = "SUCCEEDED",
                                 ![j].lockedBy = None, ![j].age = 0]
<1>1. /\ j \in Jobs /\ jobs[j] \in Job /\ jobs[j].status = "RUNNING"
      /\ Accounts(jobs[j])
      /\ jobs' = table /\ running' = [running EXCEPT ![w] = Idle]
      /\ created' = created /\ idempotency' = idempotency
  <2>1. j \in Jobs
    BY DEF Succeed, IInv, TypeOK, Execution, Jobs
  <2>2. QED BY <2>1, RecordFields DEF Succeed
<1>2. /\ h.status = "SUCCEEDED" /\ h.lockedBy = None
      /\ h.attempts = jobs[j].attempts /\ h.max = jobs[j].max
      /\ h.key = jobs[j].key /\ h.error = jobs[j].error
  BY <1>1 DEF Job
<1>3. h \in Job
  <2>1. 0 \in Ages
    BY JobAssumption DEF Ages
  <2>2. QED BY <1>1, <2>1 DEF Job, Statuses
<1>4. table = [jobs EXCEPT ![j] = h]
  BY <1>1 DEF IInv, TypeOK
<1> HIDE DEF h, table
<1>5. Succeeds(jobs[j], h) /\ SameHolder(jobs[j], h)
  <2>1. jobs[j].attempts \in Nat /\ h.attempts \in Nat
    BY <1>1, <1>2 DEF Job
  <2>2. Accounts(h)
    BY <1>1, <1>2, JobAssumption DEF Accounts
  <2>3. QED
    BY <1>1, <1>2, <1>3, <2>1, <2>2 DEF Succeeds, SameHolder, Terminal
<1>6. table \in [Jobs -> Job] /\ table[j] = h
      /\ \A i \in Jobs \ {j} : table[i] = jobs[i]
  BY <1>1, <1>3, <1>4 DEF IInv, TypeOK
<1>7. QED BY <1>1, <1>5, <1>6, IdleWorker, ReplaceInv

\* The record that fail() leaves.
LEMMA FailInv ==
  ASSUME IInv, NEW w \in Workers, Fail(w)
  PROVE  Preserves
<1> DEFINE j == running[w].job
           h == Lost(jobs[j], RetryDelay, "SAFE_HANDLER_FAILURE")
           table == [jobs EXCEPT ![j] = h]
<1>1. /\ j \in Jobs /\ jobs[j] \in Job /\ jobs[j].status = "RUNNING"
      /\ Accounts(jobs[j])
      /\ jobs' = table /\ running' = [running EXCEPT ![w] = Idle]
      /\ created' = created /\ idempotency' = idempotency
  <2>1. j \in Jobs
    BY DEF Fail, IInv, TypeOK, Execution, Jobs
  <2>2. QED BY <2>1, RecordFields DEF Fail
<1>2. "SAFE_HANDLER_FAILURE" \in Errors \ {"NONE"} /\ RetryDelay \in Waits
  BY JobAssumption DEF Errors, Waits
<1>3. Succeeds(jobs[j], h) /\ SameHolder(jobs[j], h)
  BY <1>1, <1>2, LostSucceeds
<1> HIDE DEF h
<1>4. table \in [Jobs -> Job] /\ table[j] = h
      /\ \A i \in Jobs \ {j} : table[i] = jobs[i]
  BY <1>1, <1>3 DEF IInv, TypeOK, Succeeds
<1> HIDE DEF table
<1>5. QED BY <1>1, <1>3, <1>4, IdleWorker, ReplaceInv

\* A result that is refused, and a cancelled worker, leave the queue alone.
LEMMA LeaveInv ==
  ASSUME IInv, NEW w \in Workers, Conflict(w) \/ Cancel(w)
  PROVE  Preserves
<1>1. /\ jobs' = jobs /\ running' = [running EXCEPT ![w] = Idle]
      /\ created' = created /\ idempotency' = idempotency
  BY DEF Conflict, Cancel
<1>2. jobs \in [Jobs -> Job]
  BY DEF IInv, TypeOK
<1>3. QED BY <1>1, <1>2, IdleWorker, ReplaceInv

\* recover_stale() ends leases of RUNNING jobs only.
LEMMA RecoverStaleInv ==
  ASSUME IInv, RecoverStale
  PROVE  Preserves
<1> DEFINE table == [j \in Jobs |->
                IF Stale(jobs[j])
                  THEN Lost(jobs[j], jobs[j].wait, "STALE_LEASE_RECOVERED")
                  ELSE jobs[j]]
<1>1. \A j \in Jobs : Stale(jobs[j]) =>
        /\ jobs[j].status # "ABSENT"
        /\ Succeeds(jobs[j], table[j]) /\ SameHolder(jobs[j], table[j])
  <2> SUFFICES ASSUME NEW j \in Jobs, Stale(jobs[j])
               PROVE  /\ jobs[j].status # "ABSENT"
                      /\ Succeeds(jobs[j], table[j])
                      /\ SameHolder(jobs[j], table[j])
    OBVIOUS
  <2>1. /\ jobs[j] \in Job /\ Accounts(jobs[j]) /\ jobs[j].status = "RUNNING"
        /\ jobs[j].wait \in Waits
    BY RecordFields DEF Stale, Job
  <2>2. "STALE_LEASE_RECOVERED" \in Errors \ {"NONE"}
    BY DEF Errors
  <2>3. table[j] = Lost(jobs[j], jobs[j].wait, "STALE_LEASE_RECOVERED")
    OBVIOUS
  <2>4. QED BY <2>1, <2>2, <2>3, LostSucceeds
<1>2. \A j \in Jobs : ~Stale(jobs[j]) => table[j] = jobs[j]
  OBVIOUS
<1>3. table \in [Jobs -> Job]
  <2>1. \A j \in Jobs : table[j] \in Job
    BY <1>1, <1>2, RecordFields DEF Succeeds
  <2>2. table = [j \in Jobs |-> table[j]]
    OBVIOUS
  <2> HIDE DEF table
  <2>3. QED BY <2>1, <2>2
<1>4. /\ jobs' = table
      /\ created' = created /\ idempotency' = idempotency /\ running' = running
  BY DEF RecoverStale
<1> HIDE DEF table
<1>5. running' \in [Workers -> Execution]
  BY <1>4 DEF IInv, TypeOK
<1>6. QED BY <1>1, <1>2, <1>3, <1>4, <1>5, ReplaceInv

\* Time moves nothing but the two distances.
LEMMA TickInv ==
  ASSUME IInv, Tick
  PROVE  Preserves
<1> DEFINE table == [j \in Jobs |-> Older(jobs[j])]
<1>1. ASSUME NEW j \in Jobs
      PROVE  /\ table[j] \in Job
             /\ table[j].status = jobs[j].status
             /\ table[j].status # "ABSENT" => Succeeds(jobs[j], table[j])
             /\ SameHolder(jobs[j], table[j])
  <2> DEFINE h == table[j]
  <2>1. jobs[j] \in Job /\ Accounts(jobs[j])
    BY RecordFields
  <2>2. /\ h.status = jobs[j].status /\ h.attempts = jobs[j].attempts
        /\ h.max = jobs[j].max /\ h.key = jobs[j].key
        /\ h.error = jobs[j].error /\ h.lockedBy = jobs[j].lockedBy
    BY <2>1 DEF Older, Job
  <2>3. h \in Job
    <3>1. (IF jobs[j].wait > 0 THEN jobs[j].wait - 1 ELSE 0) \in Waits
      BY <2>1, JobAssumption DEF Job, Waits
    <3>2. (IF jobs[j].status = "RUNNING" /\ jobs[j].age <= LeaseTimeout
             THEN jobs[j].age + 1 ELSE jobs[j].age) \in Ages
      BY <2>1, JobAssumption DEF Job, Ages
    <3>3. QED BY <2>1, <3>1, <3>2 DEF Older, Job
  <2> HIDE DEF h
  <2>4. jobs[j].attempts \in Nat
    BY <2>1 DEF Job
  <2>5. Accounts(h)
    BY <2>1, <2>2 DEF Accounts
  <2>6. Succeeds(jobs[j], h) \/ h.status = "ABSENT"
    BY <2>2, <2>3, <2>4, <2>5 DEF Succeeds
  <2>7. SameHolder(jobs[j], h)
    BY <2>2 DEF SameHolder
  <2>8. QED BY <2>2, <2>3, <2>6, <2>7 DEF h
<1>2. /\ jobs' = table
      /\ created' = created /\ idempotency' = idempotency /\ running' = running
  BY DEF Tick
<1>3. table \in [Jobs -> Job]
  <2>1. table = [j \in Jobs |-> table[j]]
    OBVIOUS
  <2> HIDE DEF table
  <2>2. QED BY <1>1, <2>1
<1>4. ASSUME NEW j \in Jobs, jobs[j].status = "ABSENT"
      PROVE  table[j] = jobs[j]
  <2>1. jobs[j] = Absent
    BY <1>4 DEF IInv, Unused
  <2>2. jobs[j] \in Job /\ jobs[j].wait = 0 /\ jobs[j].status # "RUNNING"
    BY <1>4, <2>1, RecordFields DEF Absent
  <2>3. Older(jobs[j]) \in Job
    BY <1>1
  <2>4. /\ Older(jobs[j]).status = jobs[j].status
        /\ Older(jobs[j]).attempts = jobs[j].attempts
        /\ Older(jobs[j]).max = jobs[j].max
        /\ Older(jobs[j]).key = jobs[j].key
        /\ Older(jobs[j]).wait = jobs[j].wait
        /\ Older(jobs[j]).age = jobs[j].age
        /\ Older(jobs[j]).lockedBy = jobs[j].lockedBy
        /\ Older(jobs[j]).error = jobs[j].error
    BY <2>2 DEF Older, Job
  <2>5. Older(jobs[j]) = jobs[j]
    BY <2>2, <2>3, <2>4 DEF Job
  <2>6. QED BY <2>5
<1> HIDE DEF table
<1>5. \A j \in Jobs : \/ table[j] = jobs[j]
                      \/ /\ jobs[j].status # "ABSENT"
                         /\ Succeeds(jobs[j], table[j])
                         /\ SameHolder(jobs[j], table[j])
  BY <1>1, <1>4
<1>6. running' \in [Workers -> Execution]
  BY <1>2 DEF IInv, TypeOK
<1>7. QED BY <1>2, <1>3, <1>5, <1>6, ReplaceInv

-----------------------------------------------------------------------------
\* Every step keeps the invariant and the outcomes of the jobs that have ended.
LEMMA NextInv ==
  ASSUME IInv, [Next]_vars
  PROVE  Preserves
<1>1. CASE Next
  <2>1. ASSUME NEW k \in Keys, NEW m \in 1..MaxAttempts,
               NEW d \in 0..RetryDelay, Enqueue(k, m, d)
        PROVE  Preserves
    BY <2>1, EnqueueInv
  <2>2. ASSUME NEW w \in Workers, RunOnce(w)
        PROVE  Preserves
    BY <2>2, StartInv, StartUnhandledInv DEF RunOnce
  <2>3. ASSUME NEW w \in Workers, HandlerEnds(w) \/ Cancel(w)
        PROVE  Preserves
    BY <2>3, SucceedInv, FailInv, LeaveInv DEF HandlerEnds
  <2>4. ASSUME RecoverStale PROVE Preserves
    BY <2>4, RecoverStaleInv
  <2>5. ASSUME Tick PROVE Preserves
    BY <2>5, TickInv
  <2>6. QED BY <1>1, <2>1, <2>2, <2>3, <2>4, <2>5 DEF Next
<1>2. CASE UNCHANGED vars
  <2>1. IInv'
    BY <1>2 DEF vars, IInv, TypeOK, Ordered, Unused, Keyed, KeysUnique,
                AttemptsAccount, AttemptsDistinct
  <2>2. Ends
    BY <1>2 DEF vars, Ends
  <2>3. QED BY <2>1, <2>2 DEF Preserves
<1>3. QED BY <1>1, <1>2

\* The empty queue.
LEMMA InitInv == Init => IInv
<1> SUFFICES ASSUME Init PROVE IInv
  OBVIOUS
<1>1. /\ \A j \in Jobs : jobs[j] = Absent
      /\ created = 0
      /\ \A k \in Keys : idempotency[k] = 0
      /\ \A w \in Workers : running[w] = Idle
  BY DEF Init
<1>2. TypeOK
  <2>1. 0 \in Ages /\ 0 \in Waits
    BY JobAssumption DEF Ages, Waits
  <2>2. Absent \in Job
    BY <2>1 DEF Absent, Job, Errors
  <2>3. Idle \in Execution
    BY JobAssumption DEF Idle, Execution
  <2>4. QED BY <2>2, <2>3, JobAssumption DEF Init, TypeOK
<1>3. Ordered /\ Unused /\ Keyed /\ KeysUnique
  BY <1>1 DEF Ordered, Unused, Keyed, KeysUnique, Absent, Jobs
<1>4. AttemptsAccount /\ AttemptsDistinct
  BY <1>1, JobAssumption
     DEF AttemptsAccount, Accounts, AttemptsDistinct, Absent, Idle
<1>5. QED BY <1>2, <1>3, <1>4 DEF IInv

\* The inductive invariant of the queue.
LEMMA Invariance == Spec => []IInv
<1>1. IInv /\ [Next]_vars => IInv'
  BY NextInv DEF Preserves
<1>2. QED BY InitInv, <1>1, PTL DEF Spec

\* The tables of the queue keep their types, for every number of jobs.
THEOREM QueueTypeCorrect == Spec => []TypeOK
BY Invariance, PTL DEF IInv

\* A repeated command never creates a second job (repository.enqueue).
THEOREM EnqueueIsIdempotent == Spec => []KeysUnique
BY Invariance, PTL DEF IInv

\* Whatever claim(), fail(), succeed(), recover_stale() and the answers of stale
\* workers do to a job, its attempts account for its status.
THEOREM AttemptsAreAccounted == Spec => []AttemptsAccount
BY Invariance, PTL DEF IInv

\* Two workers may execute one job, but never one attempt of it.
THEOREM AttemptsAreDistinct == Spec => []AttemptsDistinct
BY Invariance, PTL DEF IInv

\* A job that has ended keeps its outcome.
THEOREM OutcomesAreFinal == Spec => OutcomeFinal
<1>1. IInv /\ [Next]_vars => [Ends]_vars
  BY NextInv DEF Preserves
<1>2. Spec => [][Ends]_vars
  BY Invariance, <1>1, PTL DEF Spec
<1>3. [Ends]_vars <=> [\A j \in Jobs : Terminal(jobs[j]) =>
          /\ jobs'[j].status = jobs[j].status
          /\ jobs'[j].attempts = jobs[j].attempts
          /\ jobs'[j].error = jobs[j].error]_vars
  BY DEF Ends
<1>4. QED BY <1>2, <1>3, PTL DEF OutcomeFinal

-----------------------------------------------------------------------------
(* The queue implements the ledger: a step that replaces one job is seen in *)
(* the entry of its key alone, because no other key is indexed to it.       *)

\* An existing job is the entry of its key, and of no other key.
LEMMA EntryOfJob ==
  ASSUME IInv, NEW j \in Jobs, jobs[j].status # "ABSENT"
  PROVE  /\ jobs[j].key \in Keys
         /\ Entries[jobs[j].key] = Entry(jobs[j])
         /\ \A k \in Keys : idempotency[k] = j <=> k = jobs[j].key
<1>1. jobs[j].key \in Keys /\ idempotency[jobs[j].key] = j /\ j # 0
  BY DEF IInv, Keyed, KeysUnique, Jobs
<1>2. \A k \in Keys : idempotency[k] = j => k = jobs[j].key
  BY <1>1 DEF IInv, KeysUnique
<1>3. QED BY <1>1, <1>2 DEF Entries

\* The keys that are indexed are those of existing jobs.
LEMMA IndexedJob ==
  ASSUME IInv, NEW k \in Keys, idempotency[k] # 0
  PROVE  /\ idempotency[k] \in Jobs
         /\ jobs[idempotency[k]].status # "ABSENT"
         /\ Entries[k] = Entry(jobs[idempotency[k]])
<1>1. idempotency[k] \in 0..created /\ created \in 0..MaxJobs
  BY DEF IInv, Keyed, TypeOK
<1>2. idempotency[k] \in Jobs /\ ~(idempotency[k] > created)
  BY <1>1, JobAssumption DEF Jobs
<1>3. QED BY <1>2 DEF IInv, Ordered, Entries

\* The replacement of one job is the replacement of one entry.
LEMMA OneEntry ==
  ASSUME IInv, NEW j \in Jobs, jobs[j].status # "ABSENT", NEW h,
         jobs' = [jobs EXCEPT ![j] = h], idempotency' = idempotency
  PROVE  Entries' = [Entries EXCEPT ![jobs[j].key] = Entry(h)]
<1>1. \A i \in Jobs : jobs'[i] = IF i = j THEN h ELSE jobs[i]
  BY DEF IInv, TypeOK
<1>2. ASSUME NEW k \in Keys
      PROVE  Entries'[k] = IF k = jobs[j].key THEN Entry(h) ELSE Entries[k]
  <2>1. idempotency[k] = j <=> k = jobs[j].key
    BY EntryOfJob
  <2>2. CASE idempotency[k] = 0
    BY <2>1, <2>2 DEF Entries, Jobs
  <2>3. CASE idempotency[k] # 0
    <3>1. Entries'[k] = Entry(jobs'[idempotency[k]])
      BY <2>3 DEF Entries
    <3>2. idempotency[k] \in Jobs /\ Entries[k] = Entry(jobs[idempotency[k]])
      BY <2>3, IndexedJob
    <3>3. QED BY <1>1, <2>1, <3>1, <3>2
  <2>4. QED BY <2>2, <2>3
<1>3. Entries' = [k \in Keys |-> Entries'[k]] /\ Entries = [k \in Keys |-> Entries[k]]
  BY DEF Entries
<1>4. QED BY <1>2, <1>3

\* What the ledger sees of the records that claim() and a lost lease leave.
LEMMA EntrySteps ==
  ASSUME NEW g \in Job, NEW w, NEW wait, NEW code
  PROVE  /\ Entry(Claimed(g, w)) = Ledger!Tried(Entry(g))
         /\ g.attempts <= g.max =>
              Entry(Lost(g, wait, code)) = Ledger!Missed(Entry(g), code)
<1>1. Entry(Claimed(g, w)) = Ledger!Tried(Entry(g))
  <2>1. /\ Claimed(g, w).status = "RUNNING"
        /\ Claimed(g, w).attempts = g.attempts + 1
        /\ Claimed(g, w).max = g.max /\ Claimed(g, w).error = g.error
    BY DEF Claimed, Job
  <2>2. Ledger!Tried(Entry(g)) =
          [status |-> "RUNNING", attempts |-> g.attempts + 1, max |-> g.max,
           error |-> g.error]
    BY DEF Entry, Ledger!Tried
  <2>3. QED BY <2>1, <2>2 DEF Entry
<1>2. ASSUME g.attempts <= g.max
      PROVE  Entry(Lost(g, wait, code)) = Ledger!Missed(Entry(g), code)
  <2>1. (g.attempts >= g.max) <=> (g.attempts = g.max)
    BY <1>2 DEF Job
  <2> DEFINE status == IF g.attempts = g.max THEN "FAILED" ELSE "QUEUED"
  <2>2. /\ Lost(g, wait, code).status = status
        /\ Lost(g, wait, code).attempts = g.attempts
        /\ Lost(g, wait, code).max = g.max /\ Lost(g, wait, code).error = code
    BY <2>1 DEF Lost, Job
  <2>3. Ledger!Missed(Entry(g), code) =
          [status |-> status, attempts |-> g.attempts, max |-> g.max,
           error |-> code]
    BY DEF Entry, Ledger!Missed
  <2> HIDE DEF status
  <2>4. QED BY <2>2, <2>3 DEF Entry
<1>3. QED BY <1>1, <1>2

LEMMA EnqueueEnters ==
  ASSUME IInv, NEW k \in Keys, NEW m \in 1..MaxAttempts,
         NEW d \in 0..RetryDelay, Enqueue(k, m, d)
  PROVE  Ledger!Submit(k, m)
<1> DEFINE n == created + 1
           g == [Absent EXCEPT !.status = "QUEUED", !.max = m, !.key = k,
                               !.wait = d]
<1>1. /\ n \in Jobs /\ n # 0 /\ idempotency[k] = 0
      /\ \A j \in Jobs : jobs'[j] = IF j = n THEN g ELSE jobs[j]
      /\ \A i \in Keys : idempotency'[i] = IF i = k THEN n ELSE idempotency[i]
  BY JobAssumption DEF Enqueue, IInv, TypeOK, Jobs
<1>2. Entry(Absent) = Ledger!Unknown
  BY DEF Entry, Absent, Ledger!Unknown
<1>3. Entry(g) = [status |-> "QUEUED", attempts |-> 0, max |-> m,
                  error |-> "NONE"]
  <2>1. g.status = "QUEUED" /\ g.attempts = 0 /\ g.max = m /\ g.error = "NONE"
    BY DEF Absent
  <2> HIDE DEF g
  <2>2. QED BY <2>1 DEF Entry
<1>4. ASSUME NEW i \in Keys
      PROVE  Entries'[i] = IF i = k THEN Entry(g) ELSE Entries[i]
  <2>1. CASE i = k
    BY <1>1, <2>1 DEF Entries
  <2>2. CASE i # k /\ idempotency[i] = 0
    BY <1>1, <2>2 DEF Entries
  <2>3. CASE i # k /\ idempotency[i] # 0
    <3>1. idempotency[i] \in Jobs /\ idempotency[i] # n
      <4>1. idempotency[i] \in 0..created /\ created \in Nat
        BY JobAssumption DEF IInv, Keyed, TypeOK
      <4>2. QED BY <2>3, <4>1, IndexedJob
    <3>2. QED BY <1>1, <2>3, <3>1 DEF Entries
  <2>4. QED BY <2>1, <2>2, <2>3
<1>5. /\ Entries[k] = Ledger!Unknown
      /\ Entries = [i \in Keys |-> Entries[i]] /\ Entries' = [i \in Keys |-> Entries'[i]]
  BY <1>1, <1>2 DEF Entries
<1> HIDE DEF g
<1>6. QED BY <1>3, <1>4, <1>5 DEF Ledger!Submit

LEMMA StartTries ==
  ASSUME IInv, NEW w \in Workers, NEW j \in Jobs, Start(w, j)
  PROVE  \E k \in Keys : Ledger!Try(k)
<1>1. /\ jobs[j] \in Job /\ jobs[j].status = "QUEUED"
      /\ jobs[j].attempts < jobs[j].max
      /\ jobs' = [jobs EXCEPT ![j] = Claimed(jobs[j], w)]
      /\ idempotency' = idempotency
  BY RecordFields DEF Start, Oldest, Eligible
<1> DEFINE k == jobs[j].key
<1>2. k \in Keys /\ Entries[k] = Entry(jobs[j])
  BY <1>1, EntryOfJob
<1>3. Entries' = [Entries EXCEPT ![k] = Entry(Claimed(jobs[j], w))]
  BY <1>1, OneEntry
<1>4. Entry(Claimed(jobs[j], w)) = Ledger!Tried(Entries[k])
  BY <1>1, <1>2, EntrySteps
<1>5. Ledger!MayTry(Entries[k])
  BY <1>1, <1>2 DEF Entry, Ledger!MayTry
<1>6. Ledger!Try(k)
  BY <1>3, <1>4, <1>5 DEF Ledger!Try
<1>7. QED BY <1>2, <1>6

LEMMA UnhandledTriesInVain ==
  ASSUME IInv, NEW w \in Workers, NEW j \in Jobs, StartUnhandled(w, j)
  PROVE  \E k \in Keys, code \in Codes : Ledger!TryInVain(k, code)
<1> DEFINE k == jobs[j].key
           g == Claimed(jobs[j], w)
           code == "HANDLER_NOT_CONFIGURED"
           h == Lost(g, RetryDelay, code)
<1>1. /\ jobs[j] \in Job /\ jobs[j].status = "QUEUED" /\ Accounts(jobs[j])
      /\ jobs[j].attempts < jobs[j].max
      /\ jobs' = [jobs EXCEPT ![j] = h] /\ idempotency' = idempotency
  BY RecordFields DEF StartUnhandled, Oldest, Eligible
<1>2. k \in Keys /\ Entries[k] = Entry(jobs[j])
  BY <1>1, EntryOfJob
<1>3. g \in Job /\ g.attempts <= g.max
  BY <1>1, ClaimedSucceeds DEF Succeeds, Accounts
<1>4. Entry(h) = Ledger!Missed(Ledger!Tried(Entries[k]), code)
  BY <1>1, <1>2, <1>3, EntrySteps
<1>5. Entries' = [Entries EXCEPT ![k] = Entry(h)]
  BY <1>1, OneEntry
<1>6. Ledger!MayTry(Entries[k])
  BY <1>1, <1>2 DEF Entry, Ledger!MayTry
<1> HIDE DEF h
<1>7. Ledger!TryInVain(k, code)
  BY <1>4, <1>5, <1>6 DEF Ledger!TryInVain
<1>8. code \in Codes
  BY DEF Codes, Errors
<1>9. QED BY <1>2, <1>7, <1>8

LEMMA SucceedEnds ==
  ASSUME IInv, NEW w \in Workers, Succeed(w)
  PROVE  \E k \in Keys : Ledger!Succeed(k)
<1> DEFINE j == running[w].job
           k == jobs[j].key
           h == [jobs[j] EXCEPT !.status = "SUCCEEDED", !.lockedBy = None,
                                !.age = 0]
<1>1. /\ j \in Jobs /\ jobs[j].status = "RUNNING"
      /\ jobs' = [jobs EXCEPT ![j].status = "SUCCEEDED", ![j].lockedBy = None,
                              ![j].age = 0]
      /\ idempotency' = idempotency
  BY DEF Succeed, IInv, TypeOK, Execution, Jobs
<1>2. jobs[j] \in Job /\ jobs' = [jobs EXCEPT ![j] = h]
  BY <1>1, RecordFields DEF IInv, TypeOK
<1>3. k \in Keys /\ Entries[k] = Entry(jobs[j])
  BY <1>1, EntryOfJob
<1>4. Entries' = [Entries EXCEPT ![k] = Entry(h)]
  BY <1>1, <1>2, OneEntry
<1>5. /\ Entry(h) = [Entries[k] EXCEPT !.status = "SUCCEEDED"]
      /\ Entries[k].status = "RUNNING"
  <2>1. /\ h.status = "SUCCEEDED" /\ h.attempts = jobs[j].attempts
        /\ h.max = jobs[j].max /\ h.error = jobs[j].error
    BY <1>2 DEF Job
  <2> HIDE DEF h
  <2>2. QED BY <1>1, <1>3, <2>1 DEF Entry
<1> HIDE DEF h
<1>6. Ledger!Succeed(k)
  BY <1>4, <1>5 DEF Ledger!Succeed
<1>7. QED BY <1>3, <1>6

LEMMA FailMisses ==
  ASSUME IInv, NEW w \in Workers, Fail(w)
  PROVE  \E K \in SUBSET Keys, code \in Codes : Ledger!Miss(K, code)
<1> DEFINE j == running[w].job
           k == jobs[j].key
           code == "SAFE_HANDLER_FAILURE"
           h == Lost(jobs[j], RetryDelay, code)
<1>1. /\ j \in Jobs /\ jobs[j].status = "RUNNING"
      /\ jobs' = [jobs EXCEPT ![j] = h] /\ idempotency' = idempotency
  BY DEF Fail, IInv, TypeOK, Execution, Jobs
<1>2. jobs[j] \in Job /\ jobs[j].attempts <= jobs[j].max
  BY <1>1, RecordFields DEF Accounts
<1>3. k \in Keys /\ Entries[k] = Entry(jobs[j])
  BY <1>1, EntryOfJob
<1>4. Entries' = [Entries EXCEPT ![k] = Entry(h)]
  BY <1>1, OneEntry
<1>5. Entry(h) = Ledger!Missed(Entries[k], code)
  BY <1>2, <1>3, EntrySteps
<1> Entries[k].status = "RUNNING"
  BY <1>1, <1>3 DEF Entry
<1>6. Entries = [i \in Keys |-> Entries[i]]
  BY DEF Entries
<1> HIDE DEF h
<1>7. Ledger!Miss({k}, code)
  BY <1>3, <1>4, <1>5, <1>6 DEF Ledger!Miss
<1>8. code \in Codes /\ {k} \in SUBSET Keys
  BY <1>3 DEF Codes, Errors
<1>9. QED BY <1>7, <1>8

LEMMA RecoverMisses ==
  ASSUME IInv, RecoverStale
  PROVE  \E K \in SUBSET Keys, code \in Codes : Ledger!Miss(K, code)
<1> DEFINE code == "STALE_LEASE_RECOVERED"
           K == {k \in Keys : idempotency[k] # 0 /\ Stale(jobs[idempotency[k]])}
<1>1. /\ \A j \in Jobs : jobs'[j] = IF Stale(jobs[j])
                                    THEN Lost(jobs[j], jobs[j].wait, code)
                                    ELSE jobs[j]
      /\ idempotency' = idempotency
  BY DEF RecoverStale
<1>2. ASSUME NEW k \in Keys
      PROVE  /\ k \in K => /\ Entries[k].status = "RUNNING"
                           /\ Entries'[k] = Ledger!Missed(Entries[k], code)
             /\ k \notin K => Entries'[k] = Entries[k]
  <2> DEFINE j == idempotency[k]
  <2>1. CASE j = 0
    BY <1>1, <2>1 DEF Entries
  <2>2. CASE j # 0
    <3>1. /\ j \in Jobs /\ Entries[k] = Entry(jobs[j])
          /\ Entries'[k] = Entry(jobs'[j])
      BY <1>1, <2>2, IndexedJob DEF Entries
    <3>2. jobs[j] \in Job /\ jobs[j].attempts <= jobs[j].max
      BY <3>1, RecordFields DEF Accounts
    <3>3. Entry(Lost(jobs[j], jobs[j].wait, code)) = Ledger!Missed(Entry(jobs[j]), code)
      BY <3>2, EntrySteps
    <3>4. Stale(jobs[j]) => Entry(jobs[j]).status = "RUNNING"
      BY DEF Stale, Entry
    <3>5. k \in K <=> Stale(jobs[j])
      BY <2>2
    <3>6. QED BY <1>1, <3>1, <3>3, <3>4, <3>5
  <2>3. QED BY <2>1, <2>2
<1>3. Entries' = [k \in Keys |-> Entries'[k]]
  BY DEF Entries
<1>4. K \in SUBSET Keys /\ code \in Codes
  BY DEF Codes, Errors
<1> HIDE DEF K
<1>5. Ledger!Miss(K, code)
  BY <1>2, <1>3, <1>4 DEF Ledger!Miss
<1>6. QED BY <1>4, <1>5

LEMMA TickUnseen ==
  ASSUME IInv, Tick
  PROVE  UNCHANGED Entries
<1>1. ASSUME NEW j \in Jobs
      PROVE  Entry(jobs'[j]) = Entry(jobs[j])
  <2>1. jobs[j] \in Job /\ jobs'[j] = Older(jobs[j])
    BY RecordFields DEF Tick
  <2>2. QED BY <2>1 DEF Entry, Older, Job
<1>2. idempotency' = idempotency
  BY DEF Tick
<1>3. \A k \in Keys : idempotency[k] # 0 => idempotency[k] \in Jobs
  BY IndexedJob
<1>4. QED BY <1>1, <1>2, <1>3 DEF Entries

\* The empty queue is the empty ledger, and every step of the queue is a step of
\* the ledger or leaves it alone.
THEOREM QueueImplementsLedger == Spec => ImplementsLedger
<1>1. Init => Ledger!Init
  BY DEF Init, Ledger!Init, Ledger!Unknown, Entries, Entry, Absent
<1>2. IInv /\ [Next]_vars => [Ledger!Next]_Entries
  <2> SUFFICES ASSUME IInv, [Next]_vars
               PROVE  [Ledger!Next]_Entries
    OBVIOUS
  <2>1. ASSUME NEW k \in Keys, NEW m \in 1..MaxAttempts,
               NEW d \in 0..RetryDelay, Enqueue(k, m, d)
        PROVE  Ledger!Next
    BY <2>1, EnqueueEnters DEF Ledger!Next
  <2>2. ASSUME NEW w \in Workers, NEW j \in Jobs, Start(w, j)
        PROVE  Ledger!Next
    BY <2>2, StartTries DEF Ledger!Next
  <2>3. ASSUME NEW w \in Workers, NEW j \in Jobs, StartUnhandled(w, j)
        PROVE  Ledger!Next
    BY <2>3, UnhandledTriesInVain DEF Ledger!Next
  <2>4. ASSUME NEW w \in Workers, Succeed(w)
        PROVE  Ledger!Next
    BY <2>4, SucceedEnds DEF Ledger!Next
  <2>5. ASSUME NEW w \in Workers, Fail(w)
        PROVE  Ledger!Next
    BY <2>5, FailMisses DEF Ledger!Next
  <2>6. ASSUME NEW w \in Workers, Conflict(w) \/ Cancel(w)
        PROVE  UNCHANGED Entries
    BY <2>6 DEF Conflict, Cancel, Entries
  <2>7. RecoverStale => Ledger!Next
    BY RecoverMisses DEF Ledger!Next
  <2>8. Tick => UNCHANGED Entries
    BY TickUnseen
  <2>9. UNCHANGED vars => UNCHANGED Entries
    BY DEF vars, Entries
  <2>10. QED
    BY <2>1, <2>2, <2>3, <2>4, <2>5, <2>6, <2>7, <2>8, <2>9
       DEF Next, RunOnce, HandlerEnds
<1>3. QED BY Invariance, <1>1, <1>2, PTL DEF Spec, ImplementsLedger, Ledger!Spec

-----------------------------------------------------------------------------
(* Leases. *)

\* What the lease timeout is chosen for: a handler ends, or its worker is
\* cancelled, before its lease is stale.
Prompt ==
  \A w \in Workers : running[w].job # 0 => ~Stale(jobs[running[w].job])

\* Whoever executes a job holds its lease.
Held == \A w \in Workers : running[w].job # 0 => jobs[running[w].job].lockedBy = w

\* A job has one handler at a time, and its result will not be refused.
OneHandler ==
  \A v, w \in Workers :
    running[v].job = running[w].job /\ running[v].job # 0 =>
      v = w /\ jobs[running[w].job].status = "RUNNING"

\* A job that is not RUNNING is executed by nobody.
LEMMA NobodyExecutes ==
  ASSUME IInv, Held, NEW j \in Jobs, jobs[j].status # "RUNNING",
         NEW w \in Workers
  PROVE  running[w].job # j
<1>1. jobs[j].lockedBy = None
  BY RecordFields DEF Accounts
<1>2. j # 0
  BY DEF Jobs
<1>3. QED BY <1>1, <1>2, JobAssumption DEF Held

\* Only the record of a job that nobody executes, or of the one that the worker
\* has just ended, loses its holder.
LEMMA HeldStep ==
  ASSUME IInv, Held, Prompt, [Next]_vars
  PROVE  Held'
<1>1. /\ jobs \in [Jobs -> Job] /\ running \in [Workers -> Execution]
      /\ \A w \in Workers : running[w].job # 0 => running[w].job \in Jobs
  BY DEF IInv, TypeOK, Execution, Jobs
<1>2. CASE UNCHANGED <<jobs, running>>
  BY <1>2 DEF Held
<1>3. ASSUME NEW k \in Keys, NEW m \in 1..MaxAttempts, NEW d \in 0..RetryDelay,
             Enqueue(k, m, d)
      PROVE  Held'
  <2>1. /\ created + 1 \in Jobs
        /\ \A j \in Jobs \ {created + 1} : jobs'[j] = jobs[j]
        /\ running' = running
    BY <1>1, <1>3, JobAssumption DEF Enqueue, IInv, TypeOK, Jobs
  <2>2. jobs[created + 1].status = "ABSENT"
    BY <2>1 DEF IInv, Ordered, TypeOK
  <2>3. \A w \in Workers : running[w].job # created + 1
    BY <2>1, <2>2, NobodyExecutes
  <2>4. QED BY <1>1, <2>1, <2>3 DEF Held
<1>4. ASSUME NEW w \in Workers, NEW j \in Jobs, Start(w, j)
      PROVE  Held'
  <2> DEFINE e == [job |-> j, attempt |-> jobs[j].attempts + 1]
  <2>1. /\ jobs' = [jobs EXCEPT ![j] = Claimed(@, w)]
        /\ running' = [running EXCEPT ![w] = e]
        /\ jobs[j].status = "QUEUED"
    BY <1>4 DEF Start, Oldest, Eligible
  <2>2. Claimed(jobs[j], w).lockedBy = w
    BY <1>1 DEF Claimed, Job
  <2>3. \A v \in Workers : running[v].job # j
    BY <2>1, NobodyExecutes
  <2>4. /\ jobs'[j].lockedBy = w /\ \A i \in Jobs \ {j} : jobs'[i] = jobs[i]
        /\ running'[w].job = j
        /\ \A v \in Workers \ {w} : running'[v] = running[v]
    BY <1>1, <2>1, <2>2
  <2>5. QED BY <1>1, <2>3, <2>4 DEF Held
<1>5. ASSUME NEW w \in Workers, NEW j \in Jobs, StartUnhandled(w, j)
      PROVE  Held'
  <2>1. /\ \A i \in Jobs \ {j} : jobs'[i] = jobs[i]
        /\ running' = running /\ jobs[j].status = "QUEUED"
    BY <1>1, <1>5 DEF StartUnhandled, Oldest, Eligible
  <2>2. \A v \in Workers : running[v].job # j
    BY <2>1, NobodyExecutes
  <2>3. QED BY <1>1, <2>1, <2>2 DEF Held
<1>6. ASSUME NEW w \in Workers, HandlerEnds(w) \/ Cancel(w)
      PROVE  Held'
  <2> DEFINE j == running[w].job
  <2>1. /\ j # 0 /\ j \in Jobs /\ running' = [running EXCEPT ![w] = Idle]
        /\ \A i \in Jobs \ {j} : jobs'[i] = jobs[i]
    BY <1>1, <1>6 DEF HandlerEnds, Succeed, Fail, Conflict, Cancel
  <2>2. \A v \in Workers \ {w} : running'[v] = running[v] /\ running[v].job # j
    BY <1>1, <2>1 DEF Held
  <2>3. running'[w].job = 0
    BY <1>1, <2>1 DEF Idle
  <2>4. QED BY <1>1, <2>1, <2>2, <2>3 DEF Held
<1>7. CASE RecoverStale
  <2>1. /\ running' = running
        /\ \A j \in Jobs : ~Stale(jobs[j]) => jobs'[j] = jobs[j]
    BY <1>7 DEF RecoverStale
  <2>2. QED BY <1>1, <2>1 DEF Held, Prompt
<1>8. CASE Tick
  <2>1. /\ running' = running
        /\ \A j \in Jobs : jobs'[j] = Older(jobs[j])
    BY <1>8 DEF Tick
  <2>2. \A g \in Job : Older(g).lockedBy = g.lockedBy
    BY DEF Older, Job
  <2>3. \A j \in Jobs : jobs'[j].lockedBy = jobs[j].lockedBy
    BY <1>1, <2>1, <2>2
  <2>4. QED BY <1>1, <2>1, <2>3 DEF Held
<1>9. QED
  BY <1>2, <1>3, <1>4, <1>5, <1>6, <1>7, <1>8 DEF Next, RunOnce, vars

\* claim(), recover_stale(): if no handler outlives its lease, a job is executed
\* by one worker at a time, the holder of its lease, and succeed() and fail()
\* refuse no result, whatever workers are cancelled and leases recovered.
THEOREM LeasesExclude == Spec /\ []Prompt => [](Held /\ OneHandler)
<1>1. Init => Held
  BY DEF Init, Held, Idle
<1>2. IInv /\ Held /\ Prompt /\ [Next]_vars => Held'
  BY HeldStep
<1>3. ASSUME IInv, Held PROVE OneHandler
  <2>1. \A w \in Workers : running[w].job # 0 => running[w].job \in Jobs
    BY <1>3 DEF IInv, TypeOK, Execution, Jobs
  <2>2. QED BY <1>3, <2>1, NobodyExecutes DEF Held, OneHandler
<1>4. QED BY Invariance, <1>1, <1>2, <1>3, PTL DEF Spec

=============================================================================
