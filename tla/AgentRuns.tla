------------------------------- MODULE AgentRuns -------------------------------
(***************************************************************************)
(* Agents from proposal to run: the factory and the skill assignment that  *)
(* register drafts, the humans who approve, activate and suspend them, and *)
(* the authority of agent runs, src/alos/agents/lifecycle/runs.py.         *)
(*                                                                         *)
(* The three registries are taken as their process sees them: the cache of *)
(* VersionedRegistry, whose transitions are atomic.  An operation of this  *)
(* module is suspended where it registers, saves a run or appends an event;*)
(* all checks before that are one step, on what the registries held then.  *)
(***************************************************************************)
CONSTANTS
  AgentVersions,   \* the versions of one agent
  Skills,          \* exact skill versions
  Capabilities,    \* exact capability versions
  Grants,          \* permission_refs and scope_refs
  Scopes,          \* the scope_refs among them
  ToolIds,
  Definitions,     \* the payloads that skills are registered with
  Proposals,       \* the results with decision CREATE that GENESIS returns
  RunRequests,     \* what the AgentRunRequests ask for
  Outcomes,        \* the statuses of the AgentRunResults
  Principals,
  GrantsOf,        \* GrantsOf[p]: permissions and scopes of a principal
  Runs,            \* run_ids
  Calls,           \* concurrent invocations of the operations
  AllowTestDrafts, \* allow_test_drafts
  None             \* Python's None

Subjects == AgentVersions \cup Skills \cup Capabilities

\* What a payload says of authority; `refs' are an agent's skill_refs.
Definition ==
  [grants: SUBSET Grants, tools: SUBSET ToolIds, refs: SUBSET Skills]

Context == [grants: SUBSET Grants, tools: SUBSET ToolIds]

Registration == [subject: Subjects, definition: Definition]

\* `grants' are the refs of the agent draft around its definition.
Proposal ==
  [capability: [subject: Capabilities, definition: Definition],
   agent: [subject: AgentVersions, definition: Definition] \cup {None},
   grants: SUBSET Grants]

Ended == {"COMPLETED", "FAILED", "CANCELLED", "TIMED_OUT"}

RunRequest ==
  [test: BOOLEAN, context: Context, tools: SUBSET ToolIds,
   refs: {None} \cup SUBSET Skills]

ASSUME AgentAssumption ==
  /\ AgentVersions \cap (Skills \cup Capabilities) = {}
  /\ Skills \cap Capabilities = {}
  /\ Scopes \subseteq Grants
  /\ Definitions \subseteq Definition
  /\ Proposals \subseteq Proposal
  /\ RunRequests \subseteq RunRequest
  /\ Outcomes \subseteq Ended
  /\ GrantsOf \in [Principals -> SUBSET Grants]
  /\ AllowTestDrafts \in BOOLEAN
  /\ None \notin Subjects \cup Definition \cup Registration \cup Context
  /\ None \notin Principals \cup Runs

VARIABLES
  entries,   \* the entries of the agent, the skill and the capability registry
  runs,      \* the run store
  trail,     \* the events of the runs
  call       \* the invocations

vars == <<entries, runs, trail, call>>

-----------------------------------------------------------------------------
RegistryState == {"DRAFT", "APPROVED", "ACTIVE", "SUSPENDED"}

\* A version that has no entry is "ABSENT".  `by' is the created_by of an agent
\* version; that of the others is of no consequence here.
Entry == [state: RegistryState \cup {"ABSENT"},
          definition: Definition \cup {None}, by: Principals \cup {None}]

NoEntry == [state |-> "ABSENT", definition |-> None, by |-> None]

\* A run_id that is not in the store is "ABSENT".  `digest' is the payload whose
\* registry_digest the run has.
Run == [status: {"ABSENT", "RUNNING"} \cup Ended,
        agent: AgentVersions \cup {None}, digest: Definition \cup {None},
        authorization: {"NONE", "ACTIVE", "TEST_AUTHORIZED"},
        context: Context \cup {None}, tools: SUBSET ToolIds,
        skills: SUBSET Skills]

NoRun == [status |-> "ABSENT", agent |-> None, digest |-> None,
          authorization |-> "NONE", context |-> None, tools |-> {},
          skills |-> {}]

Events == {"run.started", "run.completed", "run.failed"}

\* An invocation awaits a registration (and has another one to make later), the
\* creation of a run, its update, or an event.
Call == [phase: {"idle", "registering", "creating", "updating", "recording"},
         by: Principals \cup {None},
         now: Registration \cup {None}, later: Registration \cup {None},
         run: Runs \cup {None}, record: Run]

Idle == [phase |-> "idle", by |-> None, now |-> None, later |-> None,
         run |-> None, record |-> NoRun]

Init ==
  /\ entries = [x \in Subjects |-> NoEntry]
  /\ runs = [r \in Runs |-> NoRun]
  /\ trail = [r \in Runs |-> {}]
  /\ call = [c \in Calls |-> Idle]

Goes(c, to) == call' = [call EXCEPT ![c] = to]

-----------------------------------------------------------------------------
(* Drafts. *)

Registers(c, p, now, later) ==
  /\ call[c] = Idle
  /\ Goes(c, [Idle EXCEPT !.phase = "registering", !.by = p, !.now = now,
                          !.later = later])
  /\ UNCHANGED <<entries, runs, trail>>

\* analyze(): GENESIS has proposed to create a capability, perhaps with an agent.
Analyze(c, p, proposal) ==
  /\ GrantsOf[p] \cap Scopes # {}
  /\ proposal.capability.definition.grants \subseteq GrantsOf[p]
  /\ proposal.grants \subseteq GrantsOf[p]
  /\ proposal.agent # None =>
       proposal.agent.definition.grants \subseteq GrantsOf[p]
  /\ Registers(c, p, proposal.capability, proposal.agent)

\* register_skill(): any active principal may.
RegisterSkill(c, s, d) ==
  Registers(c, None, [subject |-> s, definition |-> d], None)

Active(x) == entries[x].state = "ACTIVE"

\* get_authorized() of an ACTIVE version: only a skill may do without a scope.
AuthorizedFor(p, x) ==
  /\ x \in Skills \/ entries[x].definition.grants \cap Scopes # {}
  /\ entries[x].definition.grants \subseteq GrantsOf[p]

\* The grants and the tools of skill s are among the given ones.
Fits(s, grants, tools) ==
  /\ entries[s].definition.grants \subseteq grants
  /\ entries[s].definition.tools \subseteq tools

\* Mutant: who assigns the skill need not be authorized for the agent.
AssignUnauthorized(c, p, base, s, v) ==
  LET d == entries[base].definition
  IN
  /\ Active(base)
  /\ Active(s)
  /\ AuthorizedFor(p, s)
  /\ s \notin d.refs
  /\ Fits(s, d.grants, d.tools)
  /\ Registers(c, p, [subject |-> v,
                      definition |-> [d EXCEPT !.refs = @ \cup {s}]], None)

\* assign(): version v of the agent is proposed, which is `base' with skill s.
Assign(c, p, base, s, v) ==
  LET d == entries[base].definition
  IN
  /\ Active(base)
  /\ Active(s)
  /\ AuthorizedFor(p, base)
  /\ AuthorizedFor(p, s)
  /\ s \notin d.refs
  /\ Fits(s, d.grants, d.tools)
  /\ Registers(c, p, [subject |-> v,
                      definition |-> [d EXCEPT !.refs = @ \cup {s}]], None)

\* register(): a new version becomes a DRAFT, an equal one is returned.  The
\* factory registers the agent after its capability.
Register(c) ==
  LET x == call[c].now.subject
      d == call[c].now.definition
  IN
  /\ call[c].phase = "registering"
  /\ \/ /\ entries[x].state = "ABSENT"
        /\ entries' = [entries EXCEPT ![x] =
                         [state |-> "DRAFT", definition |-> d,
                          by |-> IF x \in AgentVersions THEN call[c].by
                                                        ELSE None]]
     \/ /\ entries[x].definition = d
        /\ UNCHANGED entries
  /\ IF call[c].later = None
       THEN Goes(c, Idle)
       ELSE Goes(c, [call[c] EXCEPT !.now = call[c].later, !.later = None])
  /\ UNCHANGED <<runs, trail>>

\* approve(), activate() and suspend() of a registry, by humans.  (A capability
\* that is ACTIVE is shown to GENESIS, whose answers are arbitrary here.)
Advance(x, from, to) ==
  /\ entries[x].state = from
  /\ entries' = [entries EXCEPT ![x].state = to]
  /\ UNCHANGED <<runs, trail, call>>

Approve(x) == Advance(x, "DRAFT", "APPROVED")
Activate(x) == Advance(x, "APPROVED", "ACTIVE")
Suspend(x) == Advance(x, "ACTIVE", "SUSPENDED")

-----------------------------------------------------------------------------
(* Runs. *)

Lifecycle(v, q) ==
  \/ Active(v)
  \/ /\ q.test
     /\ AllowTestDrafts
     /\ entries[v].state \in {"DRAFT", "APPROVED"}

\* The skills asked for, or all skills of the agent.
Requested(d, q) == IF q.refs = None THEN d.refs ELSE q.refs

\* Mutant: the skill has to be registered, not ACTIVE.
SkillRegistered(s, d, q) ==
  /\ s \in d.refs
  /\ entries[s].state # "ABSENT"
  /\ Fits(s, q.context.grants \cap d.grants, q.context.tools \cap d.tools)

\* _authorize_skills(): what the context and the agent grant must cover skill s.
SkillAuthorized(s, d, q) ==
  /\ s \in d.refs
  /\ Active(s)
  /\ Fits(s, q.context.grants \cap d.grants, q.context.tools \cap d.tools)

\* begin() up to the creation of its record, with the entry that the registry
\* holds for v when it is called.
Begin(c, r, v, q) ==
  LET d == entries[v].definition
  IN
  /\ call[c] = Idle
  /\ Lifecycle(v, q)
  /\ d.grants \subseteq q.context.grants
  /\ q.tools \subseteq d.tools
  /\ \A s \in Requested(d, q) : SkillAuthorized(s, d, q)
  /\ Goes(c, [Idle EXCEPT
       !.phase = "creating", !.run = r,
       !.record = [status |-> "RUNNING", agent |-> v, digest |-> d,
                   authorization |-> IF Active(v) THEN "ACTIVE"
                                                  ELSE "TEST_AUTHORIZED",
                   context |-> q.context, tools |-> q.tools,
                   skills |-> Requested(d, q)]])
  /\ UNCHANGED <<entries, runs, trail>>

Saves(c) ==
  /\ runs' = [runs EXCEPT ![call[c].run] = call[c].record]
  /\ Goes(c, [call[c] EXCEPT !.phase = "recording"])
  /\ UNCHANGED <<entries, trail>>

\* Mutant: a run is created whether or not its run_id exists.
CreateAgain(c) ==
  /\ call[c].phase = "creating"
  /\ Saves(c)

\* create() raises when the run_id exists.
Create(c) ==
  /\ call[c].phase = "creating"
  /\ runs[call[c].run].status = "ABSENT"
  /\ Saves(c)

\* complete() up to the update of the record that it has read.
Complete(c, r, status) ==
  /\ call[c] = Idle
  /\ runs[r].status = "RUNNING"
  /\ Goes(c, [Idle EXCEPT !.phase = "updating", !.run = r,
                          !.record = [runs[r] EXCEPT !.status = status]])
  /\ UNCHANGED <<entries, runs, trail>>

\* update() does not look at the status of the record that it replaces.
Update(c) ==
  /\ call[c].phase = "updating"
  /\ Saves(c)

\* Mutant: every end of a run has an event of its own.
EventVerbatim(g) ==
  IF g.status = "RUNNING" THEN "run.started" ELSE g.status

Event(g) ==
  CASE g.status = "RUNNING" -> "run.started"
    [] g.status = "COMPLETED" -> "run.completed"
    [] OTHER -> "run.failed"

Record(c) ==
  /\ call[c].phase = "recording"
  /\ trail' = [trail EXCEPT ![call[c].run] = @ \cup {Event(call[c].record)}]
  /\ Goes(c, Idle)
  /\ UNCHANGED <<entries, runs>>

\* A conflict, or a save or an append that raises or is cancelled: what the call
\* has done so far stands.
Fails(c) ==
  /\ call[c] # Idle
  /\ Goes(c, Idle)
  /\ UNCHANGED <<entries, runs, trail>>

-----------------------------------------------------------------------------
Drafting(c, p) ==
  \/ \E proposal \in Proposals : Analyze(c, p, proposal)
  \/ \E base, v \in AgentVersions, s \in Skills : Assign(c, p, base, s, v)

Running(c, r) ==
  \/ \E v \in AgentVersions, q \in RunRequests : Begin(c, r, v, q)
  \/ \E status \in Outcomes : Complete(c, r, status)

Next ==
  \/ \E x \in AgentVersions \cup Skills : Approve(x) \/ Activate(x) \/ Suspend(x)
  \/ \E c \in Calls :
       \/ \E p \in Principals : Drafting(c, p)
       \/ \E s \in Skills, d \in Definitions : RegisterSkill(c, s, d)
       \/ \E r \in Runs : Running(c, r)
       \/ Register(c)
       \/ Create(c)
       \/ Update(c)
       \/ Record(c)
       \/ Fails(c)

Spec == Init /\ [][Next]_vars

-----------------------------------------------------------------------------
(* Properties. *)

\* The types of the registries, the runs, the events and the calls.
TypeOK ==
  /\ entries \in [Subjects -> Entry]
  /\ runs \in [Runs -> Run]
  /\ trail \in [Runs -> SUBSET Events]
  /\ call \in [Calls -> Call]

Released == {"ACTIVE", "SUSPENDED"}

\* What a run was begun with is covered by its agent and its context.
Covered(g) ==
  LET d == g.digest
  IN
  /\ entries[g.agent].definition = d
  /\ g.authorization = "ACTIVE" => entries[g.agent].state \in Released
  /\ g.authorization = "TEST_AUTHORIZED" => AllowTestDrafts
  /\ d.grants \subseteq g.context.grants
  /\ g.tools \subseteq d.tools
  /\ \A s \in g.skills :
       /\ s \in d.refs
       /\ entries[s].state \in Released
       /\ Fits(s, g.context.grants \cap d.grants,
                  g.context.tools \cap d.tools)

\* MVP1_RUNTIME_SPLIT.md: a run is of an agent version that humans activated,
\* under the definition they saw, unless the policy allows the test of a draft;
\* its skills are activated ones of that definition, and neither a proposal of
\* GENESIS, nor an assignment, nor a suspension that races with begin() gives it
\* more than its agent and its context both grant.
RunsAuthorized == \A r \in Runs : runs[r].status # "ABSENT" => Covered(runs[r])

\* _authorize_draft() and get_authorized(): through any chain of proposals and
\* assignments, an agent version needs no permission and no scope that the
\* principal who had it registered does not have.
DraftsWithinAuthority ==
  \A v \in AgentVersions :
    entries[v].state # "ABSENT" =>
      entries[v].definition.grants \subseteq GrantsOf[entries[v].by]

\* The write-back of complete() never reopens a run, and no call changes what a
\* run was authorized with: a run_id is used once.
RunsStand ==
  [][\A r \in Runs : runs[r].status # "ABSENT" =>
       /\ runs'[r] = [runs[r] EXCEPT !.status = runs'[r].status]
       /\ runs[r].status \in Ended => runs'[r].status \in Ended]_vars

\* The registries that this module takes as atomic keep what VersionedRegistry is
\* shown to implement: versions are immutable and pass their stages in order.
snapshots == [x \in Subjects |->
                [state |-> entries[x].state, digest |-> entries[x].definition]]

Registries == INSTANCE VersionLifecycle
                WITH Versions <- Subjects, Digests <- Definition,
                     version <- snapshots

RegistriesImplementLifecycle == Registries!LifecycleSpec

\* MVP1_RUNTIME_SPLIT.md: the authority records run.completed or run.failed of a
\* run; runs.py:165 refuses the result of a run that is already terminal.
OneOutcome ==
  \A r \in Runs : ~({"run.completed", "run.failed"} \subseteq trail[r])

=============================================================================
