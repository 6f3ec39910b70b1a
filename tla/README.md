# Verification of the ALOS backend

TLA+ specifications of the authority of the ALOS backend (`src/src/alos`): who
may release, register, run and execute what, and what concurrent requests,
failing audit appends, lost acknowledgements, timeouts and restarts can do to
it. TLC checks every specification on small instances; TLAPS proves every safety
property that the passing runs check, and what the refuted claims would need, for
every instance.

The backend is one asyncio process over a SQL database. Code between two awaits
is atomic, so an action of a specification is a stretch of code from one
suspension to the next. What suspends is: an append to the audit sink, a save or
a lookup of a store, an adapter of a tool, a handler of a job, a call of GENESIS,
and the entry of an `asyncio.Lock` that somebody holds. Everything that is hard
about this code follows from that: a check made before an await, a write made
after it, and an exception in between.

## The system: components, state, hazards

| component (`src/src/alos/...`) | state | operations | what is hard | modelled in |
|---|---|---|---|---|
| release authority (`releases/`, `governance/`, `reviews/`) | releases, the active release of a subject, the audit trail | create, assurance, review package, IT and Director decisions, activate, suspend, kill switch, clear, rollback | the lock guards only each transition; the multi-step operations read a record, await the audit, and write it back | `ReleaseGates`, `ReleaseAuthority`, `ReleaseHistory` |
| job queue (`jobs/`) | job rows with status, attempts, lease | enqueue, claim, succeed, fail, recover_stale, run_once | answers of a worker whose lease has expired; cancelled workers; counting attempts in two places | `JobLedger`, `JobQueue` |
| tool registry (`tools/registry/`) | registrations with lifecycle, allowlist and kill switch | register, approve, activate, suspend, retire, kill, clear | each operation computes, awaits the audit, then writes without looking again | `ToolRegistry` |
| tool executor (`tools/executor/`, `tools/policy/`, `tools/adapters/`, `tools/contracts.py`) | idempotency records | execute | look-up, execution and store of a key are apart; timeouts; failing appends | `ToolExecutor`, `ToolHistory` |
| versioned registry (`registry.py`, `persistence/registry.py`), of agents, skills and capabilities | cache and SQL rows of immutable versions | register, approve, activate, suspend, hydrate | the save is awaited in the lock and may raise after its commit; restarts | `VersionLifecycle`, `VersionedRegistry`, `RegistryHistory` |
| factory (`factory/`) | none | analyze: registers a capability draft, then an agent draft | two registrations, one of which may fail; authority of what GENESIS proposes | `AgentRuns` |
| skills (`skills/`) | none of its own | register_skill, assign | derives an agent version from versions read before an await | `AgentRuns` |
| agent runs (`agents/lifecycle/`) | runs | begin, complete | checks on registries that change while the run is created; completing twice | `AgentRuns` |
| registry authority views (`registry_contracts.py`) | none | authorize | permissions and scopes against a principal | `AgentRuns` (`AuthorizedFor`) |
| audit trail (`audit/`) | events | append, queries | every append may raise after the state has changed | as suspension and failure of its callers |
| memory (`memory/`) | records | write, retrieve, expire, consolidate, delete | write replaces any record of that id; expire of a deleted record; audit as a task nobody awaits | not modelled |
| sources, documents, evidence (`sources/`, `documents/`, `evidence/`) | versions of sources, classifications, evidence, documents and their versions | register, verify, search_context, add_version | checked and changed before the append, so that a failed append is retried; evidence_ids that workspaces share | `Knowledge` |
| identity, authentication (`identity/`, `authentication/`) | tenants, organizations, workspaces, actors, memberships, accounts | register, login, whoami | a registration that gives up half-way takes nothing back | `Identity` |
| authorization (`authorization/`, `permissions/`) | role grants | enforce | a decision with many denials; its event | `Identity` (grants), `Access` |
| research (`research/`, `integrations/external_retrieval.py`) | none | request, retrieve | a principal resolved before the awaits; events before and after each contact; limits of a stream | `Access` |
| GENESIS client, context projection, contract catalogue, HTTP routes and wiring, persistence tables | none | | pure I/O, schemas and assembly | not modelled |

The components meet in few places. The tool executor reads the tool registry
once per request (`ToolExecutor` extends `ToolRegistry`, and their steps
interleave). Factory, skill assignment and agent runs read and write the
versioned registries (`AgentRuns` holds all three). Decisions, research and
retrieval take their principal from the identity authority (`Access` extends
`Identity`, and registrations interleave with requests). A search of sources writes
the evidence registry, which all workspaces share (`Knowledge`). All of them append
to one audit sink, which each specification takes as a step of its own that may
fail.

Properties that make the components correct, in one line each:

* releases: no activation without assurance, review package, IT approval and, if
  the change is material, the Director's; a kill switch stops its release;
* jobs: a job is tried at most `max_attempts` times, every claim is accounted
  for, a final outcome stays, and every job ends;
* tools: no operation, however late it writes, leaves a tool approved by its maker;
  an output belongs to the request that gets it; whatever was answered was audited;
* registries: immutable versions advance through their gates with the ids that they
  were given, and neither a failed save nor a restart takes back what took effect;
* runs: an agent never exceeds its creator, nor a run its agent and context;
* accounts: whoever can log in is anchored in one boundary, with the authority
  that its roles are granted there, whatever other registrations left behind;
* requests: what is allowed, sent or fetched stays covered by that authority; every
  answer, and every contact with an external source, has its event first (GENESIS is
  asked without one); and every request ends;
* knowledge: what is recorded never changes, and a context cites the caller's own
  verified versions.

## Modules

### ReleaseGates, ReleaseAuthority, ReleaseHistory

`ReleaseGates` is what the authority promises: a release collects the gates its
materiality asks for and is activated only with them. `ReleaseAuthority` is
`releases/service.py`: `release` and `activeBySubject` are its two dictionaries,
`lastEvent` the newest audited outcome of each release, `call` the suspended
operations with the records they have read. `_transition` is `Transition`; every operation that
calls it several times (activate with the suspension of the mapped release,
kill, clear, rollback) is a chain of continuations, one per append, and each
append may raise. `Subject[r]` stands for tenant, workspace and subject together. `RequiresDirector` and `Passed` are translated
from the materiality policy and the assurance report.

`ReleaseHistory` remembers two things about a behaviour, for what the authority
promises to one caller at a time: whether callers have been alone and no append has
failed (`alone`), and the subjects of which a kill switch was cleared (`cleared`;
`clear_kill_switch()` re-activates a release beside the mapped one).

### JobLedger, JobQueue

One action per method of `JobRepository` and per phase of `run_once`: claim a
due job (attempts, lease), run its handler (which ends, raises, or is cancelled
with the worker), answer with succeed or fail, and recover stale leases. Time is
relative: `wait` counts down to `run_after`, `age` counts up to the lease
timeout, and `Tick` moves all of them. `running` is what each worker executes and
as which attempt; the queue never sees it, which is where late answers come from.
Workers have distinct `worker_id`s.

`JobLedger` is what the queue is to whoever submits commands: an entry per key,
with attempts that are made one after the other, each of which succeeds or is
missed, and that ends once. Workers, leases, time and the order of the queue are not
in it. `Entries` reads it off the queue: the entry of a key is its job.

### ToolRegistry, ToolExecutor, ToolHistory

`ToolRegistry` has a table `tools` and, per operator, the registration that is
announced to the audit sink and written afterwards (`change`). `register_draft()`
stores the registration of its caller as it is, so that a draft (`Drafts`) may arrive
with its kill switch on, without its allowlisting, or with a name in `approved_by`;
only its state and its owner are checked. `ToolExecutor`
walks a request through `execute()`: identity, lifecycle, policy, look-up of the
idempotency key, REQUESTED event, adapter under `asyncio.timeout`, outcome event,
`put`, answer. A request carries whether the policy denies it, whether it is
valid and which payload (digest) it has; what adapters compute is left out.
`Builtin` tools are those entered by `register()`: active from the start, and not
for production. `ToolHistory` adds the tools that were ever suspended or retired
(`disabled`) and the tools two of whose lifecycle operations have overlapped
(`raced`).

### VersionLifecycle, VersionedRegistry, RegistryHistory

`VersionLifecycle` is a table of immutable versions that go DRAFT, APPROVED,
ACTIVE, SUSPENDED. `VersionedRegistry` has the cache `cache`, the SQL table
`store`, the trail and the calls. A call takes the lock, checks the cache,
awaits `save` (which may fail before or after its commit), writes the cache,
releases the lock and appends its event. `Saved` keeps the payload of an
existing row, as the SQL update does. `Approve` and `Activate` take an empty id too,
which is none at all and leaves the id of the record as it is (`Given`, for
`decision_id or current.decision_id`). `Restart` drops the calls and hydrates the
cache. A commit that arrives after its save has raised is not modelled: a
session that raises on commit is closed. `RegistryHistory` adds the versions to
which a call gave an empty id (`unnamed`).

### AgentRuns

The three registries as their process sees them (the caches of
`VersionedRegistry`: restarts and lost acknowledgements are studied there; that both
follow `VersionLifecycle` is proved, see below), the
run store, the run events and the calls. `Analyze`, `Assign` and `RegisterSkill`
make all their checks in one step and are suspended at `register()`; `Begin` is
suspended at `create()` and `Complete` at `update()`. A definition is reduced to
what the checks read: permission and scope refs (`grants`), tools, skill refs;
equal definitions have equal digests. All versions are of one agent, in one
tenant and workspace, by active principals. GENESIS may propose anything that
the contracts admit. The `agent` that `begin()` is given is the entry of the
registry at that time. `AgentRunAuthority` is not wired to a route yet: its
protocol is that of its tests.

### Identity, Access

`Identity` is `register()` of `authentication/service.py` with the directory and the
role grants it writes: `tenants` to `memberships` are the tables of
`IdentityDirectory`, `grants` those of `PermissionRegistry`, `accounts` the accounts.
`register()` awaits nothing and its route is an `async def`, so it is one step; but
it ends in five ways, and `RefuseActor`, `RefuseMembership`, `RefuseRole`,
`RefusePassword` and `Admit` are what each of them leaves behind. A taken email
changes nothing and is left out. The service takes any payload; that the schema of
the HTTP route forbids some of them (a weak password, a division) is not assumed.

`Access` adds the requests of principals who log in while others register. A
request resolves its principal, makes its checks and records what it is about to do
in one step (`Enforce`, `AskGenesis`, `Announce` and their refusals); then it is
suspended in an append (`Append`), with GENESIS (`GenesisAnswers`) or in a response
(`Respond`, `ReadChunk`, `ReadAll`, `Unavailable`), and `Abort` is an append or an
answer that fails, or a cancellation. `trail` has the outcomes of the events of each
request. The URL policy is a choice between admitted and not. `main.py` configures
no resolver, so that nothing is awaited before the first event. No route calls
`enforce()`, and the retrieval is reached through the application state: their
callers are those of the tests.

### Knowledge

`versions` and `classifications` are the dictionaries of `SourceRegistry`, `evidence`
that of `EvidenceRegistry`, `documents` and `documentVersions` those of
`DocumentRegistry`. An operation checks and changes them in one step and is then
suspended in its append, which may fail (`AuditFails`) after the change; the same
registration again finds what is there (`RegisterAgain`). A search takes some of
the passages that its access may cite, whatever the query ranks first, and registers
their evidence; at a passage whose evidence_id names other evidence it stops
(`SearchConflicts`), and the evidence of the passages before stays. An evidence_id
is a citation and a passage, because its digest contains no workspace. The citation is
`source_id@version`, with no restriction on either part, so that two sources may be
cited alike: `CitationOf` is any function of source and version, not an injective
one. A workspace stands for tenant and organization too, as `AccountsSound` justifies.
The registries are in memory and not wired to routes; `source.search_context` is
reached through its tool adapter.

## Runs

| run | instance | states | question | result |
|---|---|---|---|---|
| `release` | 3 releases of one subject, 2 callers, failing appends | 453,530 | do interleaved operations bypass or lose an approval; is `ReleaseGates` implemented; do the map, the releases and the trail agree as long as callers are alone | holds |
| `release_kill` | 2 releases, 2 callers | | is a kill switch cleared only by `clear_kill_switch` | violated, finding |
| `jobs` | 3 keys (one without a handler), 2 workers, 3 jobs, up to 2 attempts, retry delay and lease of one tick | 228,745 | attempts and their accounts; is `JobLedger` implemented; does every job end | holds |
| `tools` | 2 tools (1 builtin), 3 drafts, 2 actors, 2 operators, 2 callers, 6 requests | 672,874 | does a tool end approved by its maker although operations overlap; outputs, audit; is a request that was answered never executed again; is a disabled tool never run if its operations have not overlapped | holds |
| `tool_retired` | 2 operators, 1 caller | | is a disabled tool never run | violated, finding |
| `tool_replay` | builtin tool, 2 callers | | does a key execute once | violated, finding |
| `registry` | 2 versions, 2 payloads, 2 calls, failures, restarts, empty ids for one version | 2,016,709 | gates, durability; is `VersionLifecycle` implemented | holds |
| `registry_snapshots` | 1 version, 2 payloads, 1 call | | are served and stored snapshots equal | violated, finding |
| `agent_runs` | 2 agent versions, 1 skill, 1 capability, 2 principals, 2 grants, 1 run, 2 calls, test drafts allowed | 422,577 | authority of drafts and runs, stability of runs | holds |
| `agent_outcome` | as `agent_runs`, no test drafts | | does a run end once | violated, finding |
| `access` | 2 emails, 2 tenants, 2 organizations, 2 workspaces, 4 actors, 8 payloads, 3 commands, 1 request at a time, responses up to 2 bytes | 213,174 | accounts under refused registrations; answers, their authority and their events; that every request ends | holds |
| `knowledge` | 2 workspaces, 2 sources with 2 versions, 2 of them cited alike, 2 contents, 2 passages, 2 classifications, 1 document, limit 2, 2 calls | 266,225 | is what is recorded immutable; is every context traceable | holds |

Why these bounds are enough for the interesting cases. Two callers are what
every race above needs, and three releases what a rollback past a replaced
release needs; in `release` the third one is created only while callers have been
alone, which keeps the interleavings of two callers to two releases. In `tools` the operations of
two operators overlap before there are requests; while there are requests only one
operator goes on, and one request at a time follows an overlap. Overlapping operations
during a request are the subject of `tool_retired`. In `registry` one version is
given empty ids and the other none. Two attempts distinguish a retry from the last attempt. Two
payloads under one key, and two requests with one payload, distinguish
substitution from replay; two versions distinguish the entry of a call from
others. In `agent_runs` one principal has both grants and one only the first, so
that an assignment on behalf of the stronger one is there to be abused; a skill
can be suspended between `begin()` and `create()`.

The payloads of `access` are two that are meant for one organization and others that
each run into an obstacle of `register()`: a conflict of roles, no scopes, a weak
password, an organization or a workspace of another tenant, an invalid data scope.
Four actors are one more than the two accounts and a refused registration use up.
Two bytes in chunks of one or two cross the limit of two from both sides. Requests
share nothing but the directory, so that one request beside the registrations is
enough. In `knowledge` the two contents have one passage in common, so that
the workspaces collide with equal and with different contents, and the second
workspace has less clearance. The second source is cited like the second version of the
first and is registered in one workspace only; documents are kept with the first
version of the first source, since their registry shares nothing with that of sources.
Such restrictions are in the MC modules, as a formula `Bound` of their next-state
relations.

Identical callers are symmetric in `release`, `registry`, `agent_runs` and
`knowledge`, and in `registry` versions and payloads too. These runs check no liveness.
Deadlock is checked in `jobs`, `registry`, `access` and `knowledge`. In the release, tool and run specifications callers have
bounded supplies of releases, run ids and requests and really stop.

Every property of a passing run is known to fail for a plausible slip in the
code: next to the definition it concerns, a module keeps the slip as an operator
(marked `Mutant:`) that the specification does not use.

### Liveness and its fairness

`EveryJobEnds` (run `jobs`) assumes that time passes, that stale leases are
recovered again and again, and that every worker keeps calling `run_once` and
its handler ends or is cancelled. `src/` contains no loop around `run_once` and
`recover_stale_jobs`; the deployment has to provide it, and the property says
what it gets. A handler has no timeout, so its end is an assumption, not a
consequence. `EveryCallEnds` (run `tools`) assumes that appends end; adapters are
bounded by `asyncio.timeout`. `EveryRequestEnds` (run `access`) assumes for each
request that appends end and that GENESIS and the HTTP client answer or time out, as
both clients are configured to. That a response that keeps sending ends
too is not assumed but follows from the running total of `ReadChunk`.

## What the runs found

* `release_kill`: a rollback onto a killed release switches its kill switch off.
* `tool_retired`: a lifecycle operation that was suspended in its append puts a
  retired or suspended tool back, and the executor runs it.
* `tool_replay`: two concurrent identical requests execute the adapter twice.
* `registry_snapshots`: after a save that was committed but not acknowledged, the
  same version can be registered with another payload; cache and table differ
  until a restart swaps the served definition.
* `agent_outcome`: two results of one run are both accepted; the trail has both
  `run.completed` and `run.failed`.

`PROJECT.json` quotes for each the document or comment it disagrees with.

Three more things have no run of their own. The models contain each of them, and the
property concerned says where it ends:

* `docs/MVP1_AUTHORITY_MIGRATION.md:24` says that an approval needs a `decision_id` and
  an activation a `release_id` ("Approval memerlukan authority IT atau Director dan
  `decision_id`; activation memerlukan `release_id`"). An empty id is not refused
  (`registry.py:390-391`): `approve(decision_id="")` makes a version APPROVED without a
  decision. `Gated` of the registry is therefore about the versions that were
  never given an empty id.
* `enforce()` says of the claims of a command that "Any mismatch is an immediate
  denial" (`enforcement.py:77-78`). A division or project is compared only if the
  principal has one (`:196-207`), so that a principal without a division is allowed a
  command that claims any; the third command of `access` is one. `ClaimsHold` leaves
  out this claim and no other.
* A search stops with an error, and does so again whenever it is repeated, at a
  passage whose evidence_id another workspace has registered, or another source of
  the same workspace that is cited alike (`sources/service.py:166`, `:315`). No
  document promises the contrary. `SearchesSound` says that nothing else stops a search.

## Proofs

Each theorem holds for all constants that satisfy the module's named assumption
(types of the constants; `None` is not an element of the other sets; in `Access`
what the commands and limits are, in `Knowledge` that a limit is at least 1).

**ReleaseAuthorityProofs.** Types, gates, kill switches, rollback targets and final
approvals, for any number of releases and callers. `Gated` alone is not inductive:
a rollback writes back the record of its target that it read before an await. The
invariant says what each state implies of the approvals of a record
(`WellFormed`) and that the snapshot of a suspended rollback still agrees with the
table in everything that authorizes it (`Fresh`), because no step takes an
approval from a release that was released (`Keeps`). Every replacement of one
record is a step of `ReleaseGates` (`Lawful`), which gives the refinement.

The claims about callers that are alone (`MapNamesActive`, `TrailAgrees`,
`OneActiveUnlessCleared`) hold between calls only, so their invariant has to say what
holds in the middle of each call. `HInv` says it as a function of the call that is
under way (`Good`): which release the map may still name although it is leaving
operation, which one is already ACTIVE and not yet mapped, and by which event the
trail is behind. When a call moves, all others are idle (`OneMoves`), so that one
call at a time has to be shown `Good`.

**JobQueueProofs.** Types, one job per key, attempts within the limit and equal to
the claims that were made, distinct attempts of concurrent handlers, and final
outcomes. Each action takes a job to one that succeeds it (`Succeeds`: same key,
attempts that do not fall, nothing changed once it has ended), and the invariant
adds that ids are used in order (`Ordered`, `Unused`, `Keyed`).

That the queue implements `JobLedger` rests on `KeysUnique`: an indexed job is the entry of
its key alone (`OneEntry`), so each action changes one entry (`EntrySteps`) or, for
a recovery, the entries of the stale jobs together, and the clock none. A queued
job always has an attempt left, which makes a claim a legal try, and a RUNNING one
has used at most all of them, which makes `>=` in `fail()` the equality of the ledger.

**ToolExecutorProofs.** Maker-checker: what an operation has announced is as well
checked as what it will overwrite, so writing it late does no harm (`Pending`),
whatever the fields of a draft that the registry takes from its caller.
Executor: requests never change, trail and store only grow, so what once
justified an output goes on to. A keyed SUCCESS is returned only after its record is in
the store and the store keeps it, so the look-up of every later request finds it
before an adapter is started (`AnsweredAreNeverRerun`).

**VersionedRegistryProofs.** The store equals the cache or is exactly one
transition ahead of it (`Behind`), namely that of the one holder of the lock or of
a save that was not acknowledged. Therefore no event outlives its transition, and the
store refines `VersionLifecycle`. `VersionsAreGated` adds the history (`GateInv`): of a
version that was never given an empty id, what is served, what is stored and what a
call is about to save have the ids of their gates. Each version as the cache
serves it does so too (`CacheImplementsLifecycle`), unless a committed registration
is reported as failed.

**AgentRunsProofs.** The registries only grow (`RegistriesGrow`): a version that
exists keeps its definition, its creator, and the fact that it was once
activated. So what a suspended call saw remains good enough when it goes on
(`CoverStays`, `PendingStays`), and the invariant ties each suspended call to that:
a registration is within the authority of its principal, a record about to be
created is covered by agent, skills and context, and a record about to be written
back is the stored one with another status. Types, authority of
runs, authority of drafts along any chain of assignments and stability of runs
follow. `RegistriesKeepLifecycle` shows that the registries this module takes as
atomic and reliable refine `VersionLifecycle`, which is also all that
`CacheImplementsLifecycle` promises of them, and on the same condition: the two
specifications meet in the abstract one. No run checks this property; it was model-checked
on the instance of `agent_outcome`.

**IdentityProofs, AccessProofs.** `AccountsSound` is not inductive, since refused
registrations leave actors and memberships that no account names: the invariant of
`IdentityProofs` (`DirectoryInv`) anchors every membership, with or without an
account, and shows that registrations only add to the directory (`DirectoryGrows`).
A role grant is never changed, so what justified an answer goes on to
(`JustifiedStays`). `AccessProofs` adds what each phase of a request implies of its
event, its authority and its trail (`Shaped`, `Justified`, `Audited`). What
`AnswersJustified` says of a command (`Commanded`) is stated in terms of the
directory and not of the checks of `enforce()`, and stays true while others register
(`CommandedStays`); a retrieval
is justified from its announcement on (`Admitted`), which `AnswersJustified` alone
does not say. Types, accounts, justification and audit follow for every
set of registrations, commands and limits.

**KnowledgeProofs.** Every step only adds to the registries (`Grows`): a version keeps
its content and classification and is never unverified. The invariant ties the
classification of each version to that of its source, every piece of evidence to a
version it was made from (`EvidenceInv`, `From`), and document versions to their
documents. Hence a passage that stops a search was made from a version of another
workspace, or from another source that is cited alike (`ConflictCollides`), and what a search found stays true (`SoundStays`).
The theorems are the types, immutability as an action property, and the soundness of
searches.

**What the refuted claims need.** For each claim that a run refutes, a theorem says
what the code would have to add, and that nothing else is missing: its hypothesis is
a discipline, stated as a formula of the behaviour, and the claim then holds for every
number of callers, with all other failures and interleavings left in. For
`DisabledNeverRuns` the discipline is in the claim: `UnracedNeverRuns` is about each tool
as long as no two of its operations have overlapped, whatever happens to the others,
and needs no hypothesis. The hypotheses
are not assumptions about this code; the runs show that it does not meet them.

| claim | holds if | theorem |
|---|---|---|
| `KillClearedByClear` | no rollback is under way onto a release whose kill switch is on (`TargetsUnkilled`) | `KillsNeedAClear` |
| `DisabledNeverRuns` | no two lifecycle operations on the tool have overlapped (`UnracedNeverRuns`) | `DisabledStayOff` |
| `KeyExecutesOnce` | no two calls execute under one key at a time (`Exclusive`), and no success is lost to a failing append (`NoneLost`) | `ReservedKeysExecuteOnce` |
| `SnapshotsImmutable` | no committed registration is reported as failed (`NoRegistrationIsLost`); all other saves may be | `SnapshotsStand` |
| `OneOutcome` | no two calls of `complete()` are about to update one run (`Single`) | `SingleUpdatesLeaveOneOutcome` |

`LeasesExclude` is of the same kind: if each handler ends before its lease is stale
(`Prompt`), a job has one handler at a time and no result is refused. `run_once()`
does not bound its handlers, and without that condition the attempts are only
distinct (`AttemptsDistinct`). The invariants of the last two rows and of the leases were
model-checked, with the steps restricted to the discipline, before they were proved.

**Only model-checked:** liveness (`EveryJobEnds`, `EveryCallEnds`,
`EveryRequestEnds`). It follows from fairness, that is from ENABLED, which the
provers do not handle. Every other property of the passing runs is a theorem.

## Not modelled

* How `AssuranceEvaluator` builds a report, and the checks of reason strings.
* The job status CANCELLED, which nothing sets, and the `job_types` filter of
  claim, which narrows the choice of a worker.
* Reads: lists, projections, authorized views beyond `AuthorizedFor`.
* JSON-schema validation: values satisfy the contracts, except where an
  operation's reaction to one that does not changes state.
* Wiring: the capability registry has no SQL store (`main.py:82`); the tool
  registry behind the HTTP route is built anew for each request and contains only
  `diagnostic.echo`, which is not enabled for production
  (`dependencies.py:249-263`); approve, activate and suspend of the registries are
  called by no route, so that the specifications let humans call them any time.
* Memory: a dict behind synchronous operations that nothing in `src/` calls. Nothing
  interleaves, and properties of it would repeat single guards. A reader should know
  that `write()` replaces a record of any tenant with that id
  (`memory/repository.py:37`), that `expire()` of a DELETED record makes it EXPIRED
  (`:109`), and that the evidence bundle of any record, a deleted one too, is built
  with the same lifecycle (`:164`).
* `EvidenceRegistry.bundle()` and `PermissionRegistry.resolve()`, which nothing calls;
  inactive principals, which nothing creates.
* The trail of the knowledge authorities: that a registration whose append failed is
  repeated without an event is listed as a hazard.
* Password hashes, tokens, the URL policy with its DNS look-up, and how a query
  ranks, cuts and truncates passages.
* GENESIS client, context projection, contract catalogue, HTTP routes, wiring and
  persistence tables: no state of their own.

## Plan

Done: releases, jobs, tools, versioned registries, agent runs, identity and
access, and knowledge, each with its abstract promise or invariants, its run and its
proofs. What would be worth adding:

1. The composition of `ToolExecutor` and `Knowledge`: `source.search_context` under
   the idempotency store, where a replayed context may be older than a later
   version.
2. Pure algorithms: the order of semantic versions in `registry.py` against a
   reference order, and the next minor version of `skills/assignment.py`.
3. The SQL stores of sources and documents once they are wired, with restarts and
   lost acknowledgements as in `VersionedRegistry`.
