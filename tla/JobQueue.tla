------------------------------- MODULE JobQueue -------------------------------
(***************************************************************************)
(* The job queue of src/alos/jobs: the repository (enqueue, claim, succeed,*)
(* fail, recover_stale), the workers that run handlers for claimed jobs,   *)
(* and the recovery of leases that have become stale.                      *)
(*                                                                         *)
(* A repository call holds _lock without awaiting anything, so it is one   *)
(* step.  A worker is suspended only while its handler runs; its lease may *)
(* be recovered, and its job claimed and finished by others, meanwhile.    *)
(*                                                                         *)
(* A job is identified by its place in the order of creation, by which     *)
(* claim() serves the queue.  Instants are kept as distances from the      *)
(* present: `wait' is next_retry_at - now, `age' is now - locked_at.       *)
(***************************************************************************)
EXTENDS Integers

CONSTANTS
  Keys,          \* (organization_id, job_type, idempotency_key)
  Unhandled,     \* the keys of a job_type for which workers have no handler
  Workers,
  MaxJobs,       \* bound: jobs created in a behaviour
  MaxAttempts,   \* bound: the largest max_attempts of a command
  RetryDelay,    \* retry_delay of fail()
  LeaseTimeout,  \* lease_timeout of recover_stale_jobs()
  None

ASSUME JobAssumption ==
  /\ Unhandled \subseteq Keys
  /\ MaxJobs \in Nat
  /\ MaxAttempts \in 1..20
  /\ RetryDelay \in Nat
  /\ LeaseTimeout \in Nat
  /\ None \notin Workers

Jobs == 1..MaxJobs

VARIABLES
  jobs,         \* _jobs
  created,      \* how many jobs exist: they are 1..created
  idempotency,  \* _idempotency: the job of a key, 0 if none
  running       \* the handler executions in progress, by worker

vars == <<jobs, created, idempotency, running>>

Statuses == {"QUEUED", "RUNNING", "SUCCEEDED", "FAILED"}

Errors == {"NONE", "HANDLER_NOT_CONFIGURED", "SAFE_HANDLER_FAILURE",
           "STALE_LEASE_RECOVERED"}

Ages == 0..(LeaseTimeout + 1)

Waits == 0..RetryDelay

Job == [status: Statuses \cup {"ABSENT"}, attempts: Nat, max: Nat,
        key: Keys \cup {None}, wait: Waits, age: Ages,
        lockedBy: Workers \cup {None}, error: Errors]

Absent == [status |-> "ABSENT", attempts |-> 0, max |-> 0, key |-> None,
           wait |-> 0, age |-> 0, lockedBy |-> None, error |-> "NONE"]

\* Worker w executes attempt `attempt' of job `job'; job 0 when it is idle.
Execution == [job: 0..MaxJobs, attempt: Nat]
Idle == [job |-> 0, attempt |-> 0]

-----------------------------------------------------------------------------
Init ==
  /\ jobs = [j \in Jobs |-> Absent]
  /\ created = 0
  /\ idempotency = [k \in Keys |-> 0]
  /\ running = [w \in Workers |-> Idle]

\* Mutant: the key is not looked up.
EnqueueAlways(k, m, d) ==
  /\ created < MaxJobs
  /\ created' = created + 1
  /\ jobs' = [jobs EXCEPT ![created + 1] =
                [Absent EXCEPT !.status = "QUEUED", !.max = m, !.key = k,
                               !.wait = d]]
  /\ idempotency' = [idempotency EXCEPT ![k] = created + 1]
  /\ UNCHANGED running

\* enqueue(): a known key returns its job and changes nothing.
Enqueue(k, m, d) ==
  /\ idempotency[k] = 0
  /\ created < MaxJobs
  /\ created' = created + 1
  /\ jobs' = [jobs EXCEPT ![created + 1] =
                [Absent EXCEPT !.status = "QUEUED", !.max = m, !.key = k,
                               !.wait = d]]
  /\ idempotency' = [idempotency EXCEPT ![k] = created + 1]
  /\ UNCHANGED running

Eligible(j) ==
  /\ jobs[j].status = "QUEUED"
  /\ jobs[j].wait = 0
  /\ jobs[j].attempts < jobs[j].max

Oldest(j) == Eligible(j) /\ \A i \in Jobs : i < j => ~Eligible(i)

\* claim(): the record of a job that worker w has just leased.
Claimed(g, w) ==
  [g EXCEPT !.status = "RUNNING", !.attempts = @ + 1, !.lockedBy = w,
            !.age = 0]

\* A lease ends without a result: the job waits for another attempt, or fails
\* when it has used them all.  Mutants: the comparison is off by one; a lease
\* that was lost does not count; the delay grows with the attempts.
LostOneMore(g, wait, code) ==
  [g EXCEPT !.status = IF g.attempts > g.max THEN "FAILED" ELSE "QUEUED",
            !.wait = wait, !.lockedBy = None, !.age = 0, !.error = code]

LostUncounted(g, wait, code) ==
  [g EXCEPT !.status = IF g.attempts >= g.max THEN "FAILED" ELSE "QUEUED",
            !.attempts = IF code = "STALE_LEASE_RECOVERED" THEN @ - 1 ELSE @,
            !.wait = wait, !.lockedBy = None, !.age = 0, !.error = code]

LostLonger(g, wait, code) ==
  [g EXCEPT !.status = IF g.attempts >= g.max THEN "FAILED" ELSE "QUEUED",
            !.wait = wait * g.attempts, !.lockedBy = None, !.age = 0,
            !.error = code]

Lost(g, wait, code) ==
  [g EXCEPT !.status = IF g.attempts >= g.max THEN "FAILED" ELSE "QUEUED",
            !.wait = wait, !.lockedBy = None, !.age = 0, !.error = code]

\* run_once(): the oldest eligible job is claimed and its handler started.
Start(w, j) ==
  /\ running[w] = Idle
  /\ Oldest(j)
  /\ jobs[j].key \notin Unhandled
  /\ jobs' = [jobs EXCEPT ![j] = Claimed(@, w)]
  /\ running' = [running EXCEPT ![w] =
                   [job |-> j, attempt |-> jobs[j].attempts + 1]]
  /\ UNCHANGED <<created, idempotency>>

\* run_once(): without a handler the claimed job is failed at once.
StartUnhandled(w, j) ==
  /\ running[w] = Idle
  /\ Oldest(j)
  /\ jobs[j].key \in Unhandled
  /\ jobs' = [jobs EXCEPT ![j] = Lost(Claimed(@, w), RetryDelay,
                                      "HANDLER_NOT_CONFIGURED")]
  /\ UNCHANGED <<created, idempotency, running>>

\* Mutant: a handler's result is stored whatever the status of the job.
SucceedUnchecked(w) ==
  LET j == running[w].job
  IN
  /\ j # 0
  /\ running' = [running EXCEPT ![w] = Idle]
  /\ jobs' = [jobs EXCEPT ![j].status = "SUCCEEDED", ![j].lockedBy = None,
                          ![j].age = 0]
  /\ UNCHANGED <<created, idempotency>>

\* The handler returns: succeed() requires a RUNNING job, of any lease.
Succeed(w) ==
  LET j == running[w].job
  IN
  /\ j # 0
  /\ jobs[j].status = "RUNNING"
  /\ running' = [running EXCEPT ![w] = Idle]
  /\ jobs' = [jobs EXCEPT ![j].status = "SUCCEEDED", ![j].lockedBy = None,
                          ![j].age = 0]
  /\ UNCHANGED <<created, idempotency>>

\* The handler raises: fail() requires a RUNNING job, of any lease.
Fail(w) ==
  LET j == running[w].job
  IN
  /\ j # 0
  /\ jobs[j].status = "RUNNING"
  /\ running' = [running EXCEPT ![w] = Idle]
  /\ jobs' = [jobs EXCEPT ![j] = Lost(@, RetryDelay, "SAFE_HANDLER_FAILURE")]
  /\ UNCHANGED <<created, idempotency>>

\* The handler ends after its job has left RUNNING: JobConflictError.
Conflict(w) ==
  /\ running[w].job # 0
  /\ jobs[running[w].job].status # "RUNNING"
  /\ running' = [running EXCEPT ![w] = Idle]
  /\ UNCHANGED <<jobs, created, idempotency>>

\* The worker's task is cancelled, or its process stops, during the handler:
\* run_once() catches no cancellation, so the job stays RUNNING.
Cancel(w) ==
  /\ running[w].job # 0
  /\ running' = [running EXCEPT ![w] = Idle]
  /\ UNCHANGED <<jobs, created, idempotency>>

Stale(g) ==
  /\ g.status = "RUNNING"
  /\ g.lockedBy # None
  /\ g.age > LeaseTimeout

\* Mutant: only the jobs that may be tried again are recovered.
RecoverStaleRetriable ==
  /\ \E j \in Jobs : Stale(jobs[j])
  /\ jobs' = [j \in Jobs |->
                IF Stale(jobs[j]) /\ jobs[j].attempts < jobs[j].max
                  THEN Lost(jobs[j], jobs[j].wait, "STALE_LEASE_RECOVERED")
                  ELSE jobs[j]]
  /\ UNCHANGED <<created, idempotency, running>>

\* recover_stale(): every stale lease ends, and next_retry_at stays.
RecoverStale ==
  /\ \E j \in Jobs : Stale(jobs[j])
  /\ jobs' = [j \in Jobs |->
                IF Stale(jobs[j])
                  THEN Lost(jobs[j], jobs[j].wait, "STALE_LEASE_RECOVERED")
                  ELSE jobs[j]]
  /\ UNCHANGED <<created, idempotency, running>>

\* Time passes.  Bound: a lease older than the timeout does not grow older.
Older(g) ==
  [g EXCEPT !.wait = IF @ > 0 THEN @ - 1 ELSE 0,
            !.age = IF g.status = "RUNNING" /\ @ <= LeaseTimeout
                      THEN @ + 1 ELSE @]

Tick ==
  /\ jobs' = [j \in Jobs |-> Older(jobs[j])]
  /\ UNCHANGED <<created, idempotency, running>>

-----------------------------------------------------------------------------
HandlerEnds(w) == Succeed(w) \/ Fail(w) \/ Conflict(w)

RunOnce(w) == \E j \in Jobs : Start(w, j) \/ StartUnhandled(w, j)

Next ==
  \/ \E k \in Keys, m \in 1..MaxAttempts, d \in 0..RetryDelay :
       Enqueue(k, m, d)
  \/ \E w \in Workers : RunOnce(w) \/ HandlerEnds(w) \/ Cancel(w)
  \/ RecoverStale
  \/ Tick

Spec == Init /\ [][Next]_vars

\* Time passes, recovery is called again and again, every worker keeps calling
\* run_once(), and no handler runs for ever.
Fairness ==
  /\ WF_vars(Tick)
  /\ WF_vars(RecoverStale)
  /\ \A w \in Workers : WF_vars(RunOnce(w)) /\ WF_vars(HandlerEnds(w) \/ Cancel(w))

FairSpec == Spec /\ Fairness

-----------------------------------------------------------------------------
(* Properties. *)

\* The types of the queue's tables and of the handler executions.
TypeOK ==
  /\ jobs \in [Jobs -> Job]
  /\ created \in 0..MaxJobs
  /\ idempotency \in [Keys -> 0..MaxJobs]
  /\ running \in [Workers -> Execution]

\* enqueue(): the idempotency index and the job table agree, so that a key never
\* has two jobs, however often a command is repeated.
KeysUnique ==
  /\ \A j \in Jobs : jobs[j].status # "ABSENT" => idempotency[jobs[j].key] = j
  /\ \A k \in Keys : idempotency[k] # 0 => jobs[idempotency[k]].key = k

Accounts(g) ==
  /\ g.attempts <= g.max
  /\ g.status = "QUEUED" => g.attempts < g.max
  /\ g.status = "QUEUED" /\ g.attempts > 0 => g.error # "NONE"
  /\ g.status = "FAILED" => g.attempts = g.max /\ g.error # "NONE"
  /\ g.status \in {"RUNNING", "SUCCEEDED"} => g.attempts > 0
  /\ g.status = "RUNNING" <=> g.lockedBy # None

\* The attempts of a job account for its status, whichever of claim(), fail(),
\* succeed(), recover_stale() and late answers of stale workers hit it: a queued
\* job always has an attempt left (claim() never skips it for good), a job fails
\* only after its last attempt, a used-up attempt leaves an error code, and a
\* job is leased exactly while it is RUNNING (recover_stale() finds every one).
AttemptsAccount == \A j \in Jobs : Accounts(jobs[j])

\* After a lease has been recovered two workers may execute one job, but each
\* executes an attempt of its own, and the holder of the lease the newest one:
\* a job's handler is started at most max_attempts times.
AttemptsDistinct ==
  /\ \A w \in Workers :
       running[w].job # 0 =>
         /\ running[w].attempt \in 1..jobs[running[w].job].attempts
         /\ jobs[running[w].job].lockedBy = w =>
              running[w].attempt = jobs[running[w].job].attempts
  /\ \A v, w \in Workers :
       v # w /\ running[v].job = running[w].job /\ running[v].job # 0 =>
         running[v].attempt # running[w].attempt

Terminal(g) == g.status \in {"SUCCEEDED", "FAILED"}

\* A job that has succeeded or failed keeps its outcome: a late answer, a retry
\* or the recovery never revives or rewrites it.
OutcomeFinal ==
  [][\A j \in Jobs : Terminal(jobs[j]) =>
       /\ jobs'[j].status = jobs[j].status
       /\ jobs'[j].attempts = jobs[j].attempts
       /\ jobs'[j].error = jobs[j].error]_vars

\* What an entry of the ledger shows of a job: not its place in the queue, its
\* lease or its distances in time.
Entry(g) ==
  [status |-> g.status, attempts |-> g.attempts, max |-> g.max,
   error |-> g.error]

Entries ==
  [k \in Keys |-> IF idempotency[k] = 0 THEN Entry(Absent)
                                        ELSE Entry(jobs[idempotency[k]])]

Codes == Errors \ {"NONE"}

Ledger == INSTANCE JobLedger WITH ledger <- Entries

\* The queue implements the ledger: whoever repeats a command gets the one job of
\* its key, of which concurrent workers, late answers, cancellations and
\* recovered leases make one sequence of attempts, each of which ends once.
ImplementsLedger == Ledger!Spec

\* Every enqueued job ends: a cancelled worker's lease becomes stale, recovery
\* requeues or fails the job, and the attempts run out.
EveryJobEnds ==
  \A j \in Jobs : jobs[j].status = "QUEUED" ~> Terminal(jobs[j])

=============================================================================
