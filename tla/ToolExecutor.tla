----------------------------- MODULE ToolExecutor -----------------------------
(***************************************************************************)
(* The tool executor of src/alos/tools/executor/service.py over the tool   *)
(* registry: concurrent requests that are audited, checked, replayed from  *)
(* the idempotency store or executed by an adapter, while the lifecycle of *)
(* the tools goes on.                                                      *)
(*                                                                         *)
(* execute() is suspended where it appends to the audit sink and where the *)
(* adapter runs.  The locks of the idempotency store are never contended   *)
(* (no critical section awaits), so all checks from the registry's get()   *)
(* to the start of the adapter are one step.                               *)
(***************************************************************************)
EXTENDS ToolRegistry

CONSTANTS
  Requests,      \* the ToolRequests that satisfy the canonical contract
  Callers,       \* invocations of execute(), one request each
  KeyRequired,   \* the tools of IdempotencyPolicy.REQUIRED
  Production     \* whether the executor runs in production

CacheKey(q) == <<q.tenant, q.tool, q.key>>

\* Mutant: the arguments are left out of the digest.
DigestOfTool(q) == <<q.tool, q.tenant>>

RequestDigest(q) == <<q.tool, q.tenant, q.payload>>

Keyed(q) == q.key # None

CacheKeys == {CacheKey(q) : q \in {x \in Requests : Keyed(x)}}

IdempotencyRecord ==
  [digest: {RequestDigest(q) : q \in Requests}, source: Callers]

\* `denied': the correlation, scopes, permissions or authorization of the request
\* deny it; `invalid': the adapter refuses its arguments; `payload' stands for
\* the arguments and the execution context but the tenant.
ASSUME ExecutorAssumption ==
  /\ \A q \in Requests : /\ q.tool \in Tools
                         /\ q.denied \in BOOLEAN
                         /\ q.invalid \in BOOLEAN
  /\ KeyRequired \subseteq Tools
  /\ Production \in BOOLEAN
  /\ None \notin Requests \cup Callers \cup IdempotencyRecord

VARIABLES
  call,    \* the invocations
  store,   \* _records of the idempotency store
  trail    \* the outcomes in the audit sink, by invocation

vars == <<tools, change, call, store, trail>>

Statuses == {"SUCCESS", "DENIED", "REJECTED", "FAILED", "TIMEOUT"}

\* Where an invocation is: it awaits the REQUESTED event, the adapter, the event
\* of its outcome, the event of its replay; it has returned or has raised.
Phases == {"idle", "requested", "running", "closing", "replayed", "returned",
           "raised"}

\* `source' is the invocation whose adapter execution produced the output.
Call == [phase: Phases, request: Requests \cup {None},
         status: Statuses \cup {"NONE"}, source: Callers \cup {None}]

Idle == [phase |-> "idle", request |-> None, status |-> "NONE",
         source |-> None]

-----------------------------------------------------------------------------
Init ==
  /\ RegistryInit
  /\ call = [c \in Callers |-> Idle]
  /\ store = [k \in CacheKeys |-> None]
  /\ trail = [c \in Callers |-> {}]

Goes(c, phase, status, source) ==
  call' = [call EXCEPT ![c].phase = phase, ![c].status = status,
                       ![c].source = source]

\* The event that a suspended invocation is appending.
Event(c) ==
  CASE call[c].phase = "requested" -> "REQUESTED"
    [] call[c].phase = "closing" -> call[c].status
    [] OTHER -> "IDEMPOTENT_REPLAY"

Audited(c) == trail' = [trail EXCEPT ![c] = @ \cup {Event(c)}]

Receive(c, q) ==
  /\ call[c] = Idle
  /\ call' = [call EXCEPT ![c].phase = "requested", ![c].request = q]
  /\ UNCHANGED <<registryVars, store, trail>>

Executable(t) ==
  /\ tools[t].state = "ACTIVE"
  /\ tools[t].allowlisted
  /\ ~tools[t].kill
  /\ Production => t \notin Builtin

Denied(q) == q.denied \/ ~Executable(q.tool)

Rejected(q) == q.invalid \/ (q.tool \in KeyRequired /\ ~Keyed(q))

Known(q) == Keyed(q) /\ store[CacheKey(q)] # None

Conflicting(q) ==
  Known(q) /\ store[CacheKey(q)].digest # RequestDigest(q)

\* The REQUESTED event has been appended, and the request is ...
Checking(c) ==
  /\ call[c].phase = "requested"
  /\ Audited(c)
  /\ UNCHANGED <<registryVars, store>>

Deny(c) ==
  /\ Checking(c)
  /\ Denied(call[c].request)
  /\ Goes(c, "closing", "DENIED", None)

Reject(c) ==
  /\ Checking(c)
  /\ ~Denied(call[c].request)
  /\ Rejected(call[c].request) \/ Conflicting(call[c].request)
  /\ Goes(c, "closing", "REJECTED", None)

\* Mutant: the replay is named in the result.
ReplayNamed(c) ==
  LET q == call[c].request
  IN
  /\ Checking(c)
  /\ ~Denied(q) /\ ~Rejected(q)
  /\ Known(q) /\ ~Conflicting(q)
  /\ Goes(c, "closing", "IDEMPOTENT_REPLAY", store[CacheKey(q)].source)

Replay(c) ==
  LET q == call[c].request
  IN
  /\ Checking(c)
  /\ ~Denied(q) /\ ~Rejected(q)
  /\ Known(q) /\ ~Conflicting(q)
  /\ Goes(c, "closing", "SUCCESS", store[CacheKey(q)].source)

StartAdapter(c) ==
  LET q == call[c].request
  IN
  /\ Checking(c)
  /\ ~Denied(q) /\ ~Rejected(q) /\ ~Known(q)
  /\ Goes(c, "running", "NONE", None)

(* The adapter. *)

Adapter(c) ==
  /\ call[c].phase = "running"
  /\ UNCHANGED <<registryVars, store, trail>>

AdapterReturns(c) == Adapter(c) /\ Goes(c, "closing", "SUCCESS", c)

AdapterFails(c) == Adapter(c) /\ Goes(c, "closing", "FAILED", None)

\* Mutant: nothing bounds the adapter.
AdapterUnbounded(c) == FALSE

\* asyncio.timeout() around the adapter.
AdapterTimesOut(c) == Adapter(c) /\ Goes(c, "closing", "TIMEOUT", None)

\* The output does not satisfy the canonical result contract, or the caller is
\* cancelled while the adapter runs: execute() raises without an outcome event.
AdapterAborts(c) == Adapter(c) /\ Goes(c, "raised", "NONE", None)

(* The event of the outcome has been appended. *)

Closing(c) ==
  /\ call[c].phase = "closing"
  /\ Audited(c)
  /\ UNCHANGED registryVars

Stores(c) ==
  /\ call[c].status = "SUCCESS"
  /\ call[c].source = c
  /\ Keyed(call[c].request)

Close(c) ==
  /\ Closing(c)
  /\ ~Stores(c)
  /\ IF call[c].status = "SUCCESS" /\ call[c].source # c
       THEN Goes(c, "replayed", "SUCCESS", call[c].source)
       ELSE Goes(c, "returned", call[c].status, call[c].source)
  /\ UNCHANGED store

\* Mutants: the result is returned without being stored; the key is not
\* compared again when the result is stored.
CloseUnstored(c) ==
  /\ Closing(c)
  /\ Stores(c)
  /\ ~Conflicting(call[c].request)
  /\ Goes(c, "returned", "SUCCESS", c)
  /\ UNCHANGED store

CloseAndOverwrite(c) ==
  LET q == call[c].request
  IN
  /\ Closing(c)
  /\ Stores(c)
  /\ store' = [store EXCEPT ![CacheKey(q)] =
                 [digest |-> RequestDigest(q), source |-> c]]
  /\ Goes(c, "returned", "SUCCESS", c)

CloseAndStore(c) ==
  LET q == call[c].request
  IN
  /\ Closing(c)
  /\ Stores(c)
  /\ ~Conflicting(q)
  /\ store' = [store EXCEPT ![CacheKey(q)] =
                 [digest |-> RequestDigest(q), source |-> c]]
  /\ Goes(c, "returned", "SUCCESS", c)

\* put(): the key has come to belong to another request, ValueError.
CloseConflicting(c) ==
  /\ Closing(c)
  /\ Stores(c)
  /\ Conflicting(call[c].request)
  /\ Goes(c, "raised", "SUCCESS", c)
  /\ UNCHANGED store

EndReplay(c) ==
  /\ call[c].phase = "replayed"
  /\ Audited(c)
  /\ Goes(c, "returned", "SUCCESS", call[c].source)
  /\ UNCHANGED <<registryVars, store>>

\* Mutant: a result is answered even if its event is not recorded.
AuditIgnored(c) ==
  /\ call[c].phase = "closing"
  /\ Goes(c, "returned", call[c].status, call[c].source)
  /\ UNCHANGED <<registryVars, store, trail>>

\* An append raises, or is cancelled when it may have been done: execute()
\* raises.
AuditFails(c) ==
  /\ call[c].phase \in {"requested", "closing", "replayed"}
  /\ Goes(c, "raised", call[c].status, call[c].source)
  /\ Audited(c) \/ UNCHANGED trail
  /\ UNCHANGED <<registryVars, store>>

-----------------------------------------------------------------------------
\* What happens to a call whatever its adapter does.
Progress(c) ==
  \/ Deny(c)
  \/ Reject(c)
  \/ Replay(c)
  \/ StartAdapter(c)
  \/ AdapterTimesOut(c)
  \/ Close(c)
  \/ CloseAndStore(c)
  \/ CloseConflicting(c)
  \/ EndReplay(c)

Execute(c) ==
  \/ \E q \in Requests : Receive(c, q)
  \/ Progress(c)
  \/ AdapterReturns(c)
  \/ AdapterFails(c)
  \/ AdapterAborts(c)
  \/ AuditFails(c)

Next ==
  \/ RegistryNext /\ UNCHANGED <<call, store, trail>>
  \/ \E c \in Callers : Execute(c)

Spec == Init /\ [][Next]_vars

\* Appends end, and so does, at the latest after timeout_seconds, an adapter.
FairSpec == Spec /\ \A c \in Callers : WF_vars(Progress(c))

-----------------------------------------------------------------------------
(* Properties. *)

\* The types of the registry, the calls, the store and the trail.
TypeOK ==
  /\ RegistryTypeOK
  /\ call \in [Callers -> Call]
  /\ store \in [CacheKeys -> IdempotencyRecord \cup {None}]
  /\ trail \in [Callers -> SUBSET (Statuses \cup {"REQUESTED", "IDEMPOTENT_REPLAY"})]

SameRequest(p, q) == p.tool = q.tool /\ p.tenant = q.tenant /\ p.payload = q.payload

\* TOOL_EXECUTION_BOUNDARY.md, "Idempotency": a SUCCESS carries the output of an
\* execution of the same immutable request, of the same tool and tenant, and
\* under the same key when it is another's; that execution was audited as
\* successful before anything was replayed from it.
OutputsFaithful ==
  \A c \in Callers :
    call[c].status = "SUCCESS" =>
      LET s == call[c].source
      IN
      /\ s # None
      /\ SameRequest(call[s].request, call[c].request)
      /\ s # c => /\ call[s].request.key = call[c].request.key
                  /\ Keyed(call[c].request)
                  /\ "SUCCESS" \in trail[s]

\* A keyed SUCCESS that a caller has been told of is in the store under its own
\* digest, so that a later retry is replayed and never executed again.
ReturnedIsStored ==
  \A c \in Callers :
    /\ call[c].phase = "returned"
    /\ call[c].status = "SUCCESS"
    /\ Keyed(call[c].request)
    => /\ Known(call[c].request)
       /\ ~Conflicting(call[c].request)

\* MVP1_TOOL_GOVERNANCE_RELEASE_MIGRATION.md, "Audit tool/release": a request
\* that has been answered left the request event and exactly the outcome event
\* of its answer; no call leaves two outcomes.
AnsweredIsAudited ==
  \A c \in Callers :
    LET outcomes == trail[c] \cap Statuses
    IN
    /\ \A o, p \in outcomes : o = p
    /\ outcomes # {} => "REQUESTED" \in trail[c]
    /\ call[c].phase = "returned" =>
         /\ outcomes = {call[c].status}
         /\ "IDEMPOTENT_REPLAY" \in trail[c] <=>
              call[c].source \notin {None, c}

\* A key belongs to the immutable request that was stored under it first.
KeysBelong ==
  [][\A k \in CacheKeys : store[k] # None =>
       /\ store'[k] # None
       /\ store'[k].digest = store[k].digest]_vars

Starts(c) == call[c].phase = "requested" /\ call'[c].phase = "running"

\* Call d has been told of the success of a request with the key of request q.
Answered(d, q) ==
  /\ call[d].phase = "returned"
  /\ call[d].status = "SUCCESS"
  /\ Keyed(call[d].request)
  /\ CacheKey(call[d].request) = CacheKey(q)

\* Whoever has been told of a success can repeat the request: the adapter is never
\* started again under its key, whatever other requests, failures and lifecycle
\* operations come between.
AnsweredNeverRerun ==
  [][\A c, d \in Callers : Starts(c) => ~Answered(d, call[c].request)]_vars

\* MVP1_TOOL_GOVERNANCE_RELEASE_MIGRATION.md, "Tool idempotency": an identical
\* replay does not execute the adapter again, and a substituted payload is
\* refused: of the calls with one key at most one executes successfully.
KeyExecutesOnce ==
  \A c, d \in Callers :
    /\ call[c].source = c
    /\ call[d].source = d
    /\ Keyed(call[c].request)
    /\ Keyed(call[d].request)
    /\ CacheKey(call[c].request) = CacheKey(call[d].request)
    => c = d

\* Every request is answered or raises, whatever its adapter does.
EveryCallEnds ==
  \A c \in Callers :
    call[c].phase = "requested" ~> call[c].phase \in {"returned", "raised"}

=============================================================================
