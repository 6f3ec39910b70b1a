---------------------------- MODULE AgentRunsProofs ----------------------------
(***************************************************************************)
(* The safety of agent drafts and agent runs for all sets of versions,     *)
(* principals, runs and calls.  A registered version keeps its definition  *)
(* and never loses the approval that it once had, so what a suspended call *)
(* found in the registries before it was suspended is still so when it     *)
(* goes on, however many others have registered, approved or suspended in  *)
(* the meantime.                                                           *)
(*                                                                         *)
(* The registries themselves refine VersionLifecycle, and the last part    *)
(* says what a run needs to have one outcome.                              *)
(***************************************************************************)
EXTENDS AgentRuns, TLAPS

\* An entry that exists has a definition.
Registered(x) == entries[x].state # "ABSENT" <=> entries[x].definition # None

\* Registration g by principal p is within the authority of p.
Within(g, p) ==
  g.subject \in AgentVersions =>
    /\ p \in Principals
    /\ g.definition.grants \subseteq GrantsOf[p]

\* A record of a run names what it was authorized with.
Named(g) ==
  /\ g.agent \in AgentVersions
  /\ g.digest \in Definition
  /\ g.context \in Context

Backed(g) == Named(g) /\ Covered(g)

\* What a suspended call is about to register, to create or to update.
Pending(c) ==
  /\ call[c].phase = "registering" =>
       /\ call[c].now # None
       /\ Within(call[c].now, call[c].by)
       /\ call[c].later # None => Within(call[c].later, call[c].by)
  /\ call[c].phase \in {"creating", "updating", "recording"} =>
       call[c].run # None
  /\ call[c].phase = "creating" =>
       /\ call[c].record.status = "RUNNING"
       /\ Backed(call[c].record)
  /\ call[c].phase = "updating" =>
       /\ runs[call[c].run].status # "ABSENT"
       /\ call[c].record.status \in Ended
       /\ call[c].record =
            [runs[call[c].run] EXCEPT !.status = call[c].record.status]

AgentsWithin ==
  \A v \in AgentVersions :
    entries[v].state # "ABSENT" =>
      /\ entries[v].by \in Principals
      /\ entries[v].definition.grants \subseteq GrantsOf[entries[v].by]

RunsBacked == \A r \in Runs : runs[r].status # "ABSENT" => Backed(runs[r])

IInv ==
  /\ TypeOK
  /\ \A x \in Subjects : Registered(x)
  /\ AgentsWithin
  /\ RunsBacked
  /\ \A c \in Calls : Pending(c)

\* RunsStand, as an action.
Stands ==
  \A r \in Runs : runs[r].status # "ABSENT" =>
    /\ runs'[r] = [runs[r] EXCEPT !.status = runs'[r].status]
    /\ runs[r].status \in Ended => runs'[r].status \in Ended

\* What every step does to the registries.
Grows ==
  \A x \in Subjects : entries[x].state # "ABSENT" =>
    /\ entries'[x].state # "ABSENT"
    /\ entries'[x].definition = entries[x].definition
    /\ entries'[x].by = entries[x].by
    /\ entries[x].state \in Released => entries'[x].state \in Released

\* What every step does to the run store.
Keeps ==
  /\ Stands
  /\ \A r \in Runs : runs[r].status # "ABSENT" => runs'[r].status # "ABSENT"

\* Call c registers a draft of x.
Drafts(c, x) ==
  /\ call[c].phase = "registering"
  /\ call[c].now.subject = x
  /\ entries'[x] = [state |-> "DRAFT", definition |-> call[c].now.definition,
                    by |-> IF x \in AgentVersions THEN call[c].by ELSE None]

-----------------------------------------------------------------------------
\* Which steps write to the registries and to the run store.
LEMMA Writers ==
  ASSUME [Next]_vars
  PROVE  \/ UNCHANGED <<entries, runs>>
         \/ /\ UNCHANGED runs
            /\ \E x \in Subjects : Approve(x) \/ Activate(x) \/ Suspend(x)
         \/ /\ UNCHANGED runs
            /\ \E c \in Calls : Register(c)
         \/ /\ UNCHANGED entries
            /\ \E c \in Calls : Create(c) \/ Update(c)
<1>1. ASSUME NEW c \in Calls, NEW p \in Principals, Drafting(c, p)
      PROVE  UNCHANGED <<entries, runs>>
  BY <1>1 DEF Drafting, Analyze, Assign, Registers
<1>2. ASSUME NEW c \in Calls, NEW r \in Runs, Running(c, r)
      PROVE  UNCHANGED <<entries, runs>>
  BY <1>2 DEF Running, Begin, Complete
<1>3. ASSUME NEW c \in Calls,
             \/ \E s \in Skills, d \in Definitions : RegisterSkill(c, s, d)
             \/ Record(c) \/ Fails(c)
      PROVE  UNCHANGED <<entries, runs>>
  BY <1>3 DEF RegisterSkill, Registers, Record, Fails
<1>4. ASSUME NEW c \in Calls, Create(c) \/ Update(c)
      PROVE  UNCHANGED entries
  BY <1>4 DEF Create, Update, Saves
<1>5. ASSUME NEW x \in Subjects, Approve(x) \/ Activate(x) \/ Suspend(x)
      PROVE  UNCHANGED runs
  BY <1>5 DEF Approve, Activate, Suspend, Advance
<1>6. ASSUME NEW c \in Calls, Register(c)
      PROVE  UNCHANGED runs
  BY <1>6 DEF Register
<1>7. AgentVersions \cup Skills \subseteq Subjects
  BY DEF Subjects
<1>8. CASE UNCHANGED vars
  BY <1>8 DEF vars
<1>9. QED
  BY <1>1, <1>2, <1>3, <1>4, <1>5, <1>6, <1>7, <1>8 DEF Next

\* Registration, approval and suspension take nothing away from the versions that
\* are registered already.
LEMMA RegistriesGrow ==
  ASSUME IInv, [Next]_vars
  PROVE  Grows
<1>1. CASE UNCHANGED entries
  BY <1>1 DEF Grows
<1>2. ASSUME NEW x \in Subjects, Approve(x) \/ Activate(x) \/ Suspend(x)
      PROVE  Grows
  <2>1. PICK from \in RegistryState, to \in RegistryState :
          /\ entries[x].state = from
          /\ entries' = [entries EXCEPT ![x].state = to]
          /\ from = "ACTIVE" => to = "SUSPENDED"
          /\ from # "SUSPENDED"
    BY <1>2 DEF Approve, Activate, Suspend, Advance, RegistryState
  <2>2. entries \in [Subjects -> Entry]
    BY DEF IInv, TypeOK
  <2>3. /\ \A y \in Subjects : y # x => entries'[y] = entries[y]
        /\ entries'[x] = [entries[x] EXCEPT !.state = to]
    BY <2>1, <2>2
  <2>4. entries[x] \in Entry
    BY <2>2
  <2>5. /\ entries'[x].state = to
        /\ entries'[x].definition = entries[x].definition
        /\ entries'[x].by = entries[x].by
    BY <2>3, <2>4 DEF Entry
  <2>6. QED
    BY <2>1, <2>3, <2>5 DEF Grows, Released, RegistryState
<1>3. ASSUME NEW c \in Calls, Register(c)
      PROVE  Grows
  <2> DEFINE x == call[c].now.subject
  <2>1. CASE UNCHANGED entries
    BY <2>1 DEF Grows
  <2>2. CASE entries[x].state = "ABSENT"
    <3>1. \A y \in Subjects : y # x => entries'[y] = entries[y]
      BY <1>3, <2>1 DEF Register, IInv, TypeOK
    <3>2. QED
      BY <2>2, <3>1 DEF Grows
  <2>3. QED
    BY <1>3, <2>1, <2>2 DEF Register
<1>4. QED
  BY <1>1, <1>2, <1>3, Writers

\* A version that is new is the draft of a call.
LEMMA NewDrafts ==
  ASSUME IInv, [Next]_vars, NEW x \in Subjects, entries[x].state = "ABSENT"
  PROVE  \/ entries'[x] = entries[x]
         \/ \E c \in Calls : Drafts(c, x)
<1>1. CASE UNCHANGED entries
  BY <1>1
<1>2. entries \in [Subjects -> Entry]
  BY DEF IInv, TypeOK
<1>3. ASSUME NEW y \in Subjects, Approve(y) \/ Activate(y) \/ Suspend(y)
      PROVE  entries'[x] = entries[x]
  <2>1. PICK to \in RegistryState :
          /\ entries[y].state # "ABSENT"
          /\ entries' = [entries EXCEPT ![y].state = to]
    BY <1>3 DEF Approve, Activate, Suspend, Advance, RegistryState
  <2>2. QED
    BY <1>2, <2>1
<1>4. ASSUME NEW c \in Calls, Register(c)
      PROVE  entries'[x] = entries[x] \/ Drafts(c, x)
  BY <1>2, <1>4 DEF Register, Drafts
<1>5. QED
  BY <1>1, <1>3, <1>4, Writers

\* The run store changes where a call saves what it was suspended with.
LEMMA RunsKept ==
  ASSUME IInv, [Next]_vars
  PROVE  Keeps
<1>1. CASE UNCHANGED runs
  <2>1. \A r \in Runs : runs[r] = [runs[r] EXCEPT !.status = runs[r].status]
    BY DEF IInv, TypeOK, Run
  <2>2. QED
    BY <1>1, <2>1 DEF Keeps, Stands
<1>2. ASSUME NEW c \in Calls, Create(c) \/ Update(c)
      PROVE  Keeps
  <2> DEFINE g == call[c].record
             r == call[c].run
  <2>1. /\ runs \in [Runs -> Run]
        /\ runs' = [runs EXCEPT ![r] = g]
    BY <1>2 DEF Create, Update, Saves, IInv, TypeOK
  <2>2. \A q \in Runs : q # r => runs'[q] = runs[q]
    BY <2>1
  <2>3. \A q \in Runs : runs[q] = [runs[q] EXCEPT !.status = runs[q].status]
    BY <2>1 DEF Run
  <2>4. \/ runs[r].status = "ABSENT"
        \/ /\ g.status \in Ended
           /\ g = [runs[r] EXCEPT !.status = g.status]
    BY <1>2 DEF Create, Update, IInv, Pending
  <2>5. r \in Runs => runs'[r] = g
    BY <2>1
  <2> HIDE DEF g, r
  <2>6. QED
    BY <2>2, <2>3, <2>4, <2>5 DEF Keeps, Stands, Ended
<1>3. QED
  BY <1>1, <1>2, Writers

\* What covers a run goes on to cover it.
LEMMA CoverStays ==
  ASSUME IInv, Grows, NEW g \in Run, Backed(g)
  PROVE  Backed(g)'
<1> USE DEF Backed, Named
<1>1. /\ g.agent \in Subjects
      /\ entries[g.agent].definition = g.digest
      /\ g.digest # None
  BY AgentAssumption DEF Covered, Subjects
<1>2. entries[g.agent].state # "ABSENT"
  BY <1>1 DEF IInv, Registered
<1>3. /\ entries'[g.agent].definition = g.digest
      /\ entries[g.agent].state \in Released => entries'[g.agent].state \in Released
  BY <1>1, <1>2 DEF Grows
<1>4. ASSUME NEW s \in g.skills
      PROVE  /\ entries'[s].state \in Released
             /\ entries'[s].definition = entries[s].definition
  <2>1. s \in Subjects /\ entries[s].state \in Released
    BY <1>4 DEF Covered, Run, Subjects
  <2>2. QED
    BY <2>1 DEF Grows, Released
<1>5. QED
  BY <1>3, <1>4 DEF Covered, Fits

-----------------------------------------------------------------------------
\* The initial state.
LEMMA InitIInv == Init => IInv
<1> SUFFICES ASSUME Init PROVE IInv
  OBVIOUS
<1>1. NoRun \in Run /\ NoEntry \in Entry
  BY DEF NoRun, Run, NoEntry, Entry
<1>2. Idle \in Call
  BY <1>1 DEF Idle, Call
<1>3. TypeOK
  BY <1>1, <1>2 DEF Init, TypeOK
<1>4. QED
  BY <1>3 DEF Init, IInv, Registered, NoEntry, AgentsWithin, RunsBacked, NoRun,
              Pending, Idle, Subjects

\* What each step does to the types.
LEMMA TypeStep ==
  ASSUME IInv, [Next]_vars
  PROVE  TypeOK'
<1> USE DEF IInv, TypeOK
<1>0. NoRun \in Run /\ Idle \in Call
  BY DEF NoRun, Run, Idle, Call
<1>1. CASE UNCHANGED vars
  BY <1>1 DEF vars
<1>2. ASSUME NEW x \in Subjects, Approve(x) \/ Activate(x) \/ Suspend(x)
      PROVE  TypeOK'
  BY <1>2 DEF Approve, Activate, Suspend, Advance, Entry, RegistryState
<1>3. ASSUME NEW c \in Calls, NEW p \in Principals \cup {None},
             NEW now \in Registration, NEW later \in Registration \cup {None},
             Registers(c, p, now, later)
      PROVE  TypeOK'
  BY <1>0, <1>3 DEF Registers, Goes, Call, Idle
<1>4. ASSUME NEW c \in Calls, NEW p \in Principals, Drafting(c, p)
      PROVE  TypeOK'
  <2>1. ASSUME NEW proposal \in Proposals, Analyze(c, p, proposal)
        PROVE  TypeOK'
    <3>1. proposal \in Proposal
      BY AgentAssumption
    <3>2. /\ proposal.capability \in Registration
          /\ proposal.agent \in Registration \cup {None}
      BY <3>1 DEF Proposal, Registration, Subjects
    <3>3. QED
      BY <1>3, <2>1, <3>2 DEF Analyze
  <2>2. ASSUME NEW base \in AgentVersions, NEW v \in AgentVersions,
               NEW s \in Skills, Assign(c, p, base, s, v)
        PROVE  TypeOK'
    <3> DEFINE d == entries[base].definition
    <3>1. d \in Definition
      BY <2>2 DEF Assign, Active, Registered, Entry, Subjects
    <3>2. [d EXCEPT !.refs = @ \cup {s}] \in Definition
      BY <3>1 DEF Definition
    <3>3. [subject |-> v, definition |-> [d EXCEPT !.refs = @ \cup {s}]]
            \in Registration
      BY <3>2 DEF Registration, Subjects
    <3>4. QED
      BY <1>3, <2>2, <3>3 DEF Assign
  <2>3. QED
    BY <1>4, <2>1, <2>2 DEF Drafting
<1>5. ASSUME NEW c \in Calls, NEW s \in Skills, NEW d \in Definitions,
             RegisterSkill(c, s, d)
      PROVE  TypeOK'
  <2>1. [subject |-> s, definition |-> d] \in Registration
    BY AgentAssumption DEF Registration, Subjects
  <2>2. QED
    BY <1>3, <1>5, <2>1 DEF RegisterSkill
<1>6. ASSUME NEW c \in Calls, NEW r \in Runs, Running(c, r)
      PROVE  TypeOK'
  <2>1. ASSUME NEW v \in AgentVersions, NEW q \in RunRequests, Begin(c, r, v, q)
        PROVE  TypeOK'
    <3> DEFINE d == entries[v].definition
               g == [status |-> "RUNNING", agent |-> v, digest |-> d,
                     authorization |-> IF Active(v) THEN "ACTIVE"
                                                    ELSE "TEST_AUTHORIZED",
                     context |-> q.context, tools |-> q.tools,
                     skills |-> Requested(d, q)]
    <3>1. d \in Definition
      BY <2>1 DEF Begin, Lifecycle, Active, Registered, Entry, Subjects
    <3>2. q \in RunRequest
      BY AgentAssumption
    <3>3. Requested(d, q) \in SUBSET Skills
      BY <3>1, <3>2 DEF Requested, RunRequest, Definition
    <3>4. g \in Run
      BY <3>1, <3>2, <3>3 DEF Run, RunRequest
    <3>5. [Idle EXCEPT !.phase = "creating", !.run = r, !.record = g] \in Call
      BY <1>0, <3>4 DEF Call, Idle
    <3>6. QED
      BY <2>1, <3>5 DEF Begin, Goes
  <2>2. ASSUME NEW status \in Outcomes, Complete(c, r, status)
        PROVE  TypeOK'
    <3> DEFINE old == runs[r]
               g == [old EXCEPT !.status = status]
    <3>1. old \in Run /\ status \in Ended
      BY <2>2, AgentAssumption DEF Complete
    <3>2. g \in Run
      <4> HIDE DEF old, IInv, TypeOK
      <4>1. QED
        BY <3>1 DEF Run, Ended
    <3>3. [Idle EXCEPT !.phase = "updating", !.run = r, !.record = g] \in Call
      <4> HIDE DEF g, IInv, TypeOK
      <4>1. QED
        BY <1>0, <3>2 DEF Call, Idle
    <3>4. QED
      BY <2>2, <3>3 DEF Complete, Goes
  <2>3. QED
    BY <1>6, <2>1, <2>2 DEF Running
<1>7. ASSUME NEW c \in Calls, Register(c)
      PROVE  TypeOK'
  <2> DEFINE x == call[c].now.subject
             d == call[c].now.definition
  <2>1. x \in Subjects /\ d \in Definition
    BY <1>7 DEF Register, Pending, Call, Registration
  <2> DEFINE n == [call[c] EXCEPT !.now = call[c].later, !.later = None]
  <2>0. call[c] \in Call
    OBVIOUS
  <2>a. call[c].later # None => n \in Call
    BY <2>0 DEF Call
  <2>2. call' \in [Calls -> Call]
    <3>1. call' = [call EXCEPT ![c] = IF call[c].later = None THEN Idle ELSE n]
      BY <1>7 DEF Register, Goes
    <3> HIDE DEF n
    <3>2. QED
      BY <1>0, <2>a, <3>1
  <2>3. entries' \in [Subjects -> Entry]
    BY <1>7, <2>1 DEF Register, Entry, RegistryState, Call
  <2>4. QED
    BY <1>7, <2>2, <2>3 DEF Register
<1>8. ASSUME NEW c \in Calls, Create(c) \/ Update(c)
      PROVE  TypeOK'
  <2> DEFINE n == [call[c] EXCEPT !.phase = "recording"]
             r == call[c].run
  <2>1. call[c] \in Call
    OBVIOUS
  <2>2. n \in Call /\ call[c].record \in Run
    BY <2>1 DEF Call
  <2>3. r \in Runs
    BY <1>8, <2>1 DEF Create, Update, Pending, Call
  <2>4. /\ runs' = [runs EXCEPT ![r] = call[c].record]
        /\ call' = [call EXCEPT ![c] = n]
        /\ UNCHANGED <<entries, trail>>
    BY <1>8 DEF Create, Update, Saves, Goes
  <2> HIDE DEF n, r
  <2>5. QED
    BY <2>2, <2>3, <2>4
<1>9. ASSUME NEW c \in Calls, Record(c)
      PROVE  TypeOK'
  <2>1. Event(call[c].record) \in Events
    BY DEF Event, Events
  <2>2. QED
    BY <1>0, <1>9, <2>1 DEF Record, Goes
<1>10. ASSUME NEW c \in Calls, Fails(c)
       PROVE  TypeOK'
  BY <1>0, <1>10 DEF Fails, Goes
<1>11. QED
  BY <1>1, <1>2, <1>4, <1>5, <1>6, <1>7, <1>8, <1>9, <1>10 DEF Next, Subjects

-----------------------------------------------------------------------------
\* Entries that exist have a definition, and agents are within the authority of
\* who had them registered.
LEMMA EntriesStep ==
  ASSUME IInv, [Next]_vars
  PROVE  (\A x \in Subjects : Registered(x))' /\ AgentsWithin'
<1>1. Grows
  BY RegistriesGrow
<1>2. \A x \in Subjects : entries[x].state = "ABSENT" =>
        \/ entries'[x] = entries[x]
        \/ \E c \in Calls : Drafts(c, x)
  BY NewDrafts
<1>3. ASSUME NEW c \in Calls, NEW x \in Subjects, Drafts(c, x)
      PROVE  /\ entries'[x].state # "ABSENT"
             /\ entries'[x].definition # None
             /\ x \in AgentVersions =>
                  /\ entries'[x].by \in Principals
                  /\ entries'[x].definition.grants
                       \subseteq GrantsOf[entries'[x].by]
  <2> DEFINE d == call[c].now.definition
  <2>1. call[c].now \in Registration /\ Within(call[c].now, call[c].by)
    BY <1>3 DEF Drafts, IInv, TypeOK, Call, Pending
  <2>2. d # None
    BY <2>1, AgentAssumption DEF Registration
  <2>3. x \in AgentVersions =>
          /\ call[c].by \in Principals
          /\ d.grants \subseteq GrantsOf[call[c].by]
    BY <1>3, <2>1 DEF Drafts, Within
  <2>4. /\ entries'[x].state = "DRAFT"
        /\ entries'[x].definition = d
        /\ x \in AgentVersions => entries'[x].by = call[c].by
    BY <1>3 DEF Drafts
  <2> HIDE DEF d
  <2>5. QED
    BY <2>2, <2>3, <2>4
<1>4. (\A x \in Subjects : Registered(x))'
  <2>1. ASSUME NEW x \in Subjects
        PROVE  entries'[x].state # "ABSENT" <=> entries'[x].definition # None
    BY <1>1, <1>2, <1>3 DEF Grows, IInv, Registered
  <2>2. QED
    BY <2>1 DEF Registered
<1>5. AgentsWithin'
  <2>1. ASSUME NEW v \in AgentVersions, entries'[v].state # "ABSENT"
        PROVE  /\ entries'[v].by \in Principals
               /\ entries'[v].definition.grants \subseteq GrantsOf[entries'[v].by]
    <3>1. v \in Subjects
      BY DEF Subjects
    <3>2. CASE entries[v].state # "ABSENT"
      <4>1. /\ entries[v].by \in Principals
            /\ entries[v].definition.grants \subseteq GrantsOf[entries[v].by]
        BY <3>2 DEF IInv, AgentsWithin
      <4>2. /\ entries'[v].by = entries[v].by
            /\ entries'[v].definition = entries[v].definition
        BY <1>1, <3>1, <3>2 DEF Grows
      <4>3. QED
        BY <4>1, <4>2
    <3>3. CASE entries[v].state = "ABSENT"
      BY <1>2, <1>3, <2>1, <3>1, <3>3
    <3>4. QED
      BY <3>2, <3>3
  <2>2. QED
    BY <2>1 DEF AgentsWithin
<1>6. QED
  BY <1>4, <1>5

\* Whatever is saved is backed, and what is saved stays so.
LEMMA RunsStep ==
  ASSUME IInv, [Next]_vars
  PROVE  RunsBacked'
<1>1. SUFFICES ASSUME NEW r \in Runs, runs'[r].status # "ABSENT"
               PROVE  Backed(runs[r])'
  BY DEF RunsBacked
<1>2. Grows
  BY RegistriesGrow
<1>3. PICK g : g = runs'[r]
  OBVIOUS
<1>4. g \in Run /\ Backed(g)
  <2>1. CASE UNCHANGED runs
    BY <1>1, <1>3, <2>1 DEF IInv, TypeOK, RunsBacked
  <2>2. ASSUME NEW c \in Calls, Create(c) \/ Update(c)
        PROVE  g \in Run /\ Backed(g)
    <3>1. /\ runs \in [Runs -> Run]
          /\ runs' = [runs EXCEPT ![call[c].run] = call[c].record]
          /\ call[c].record \in Run
      BY <2>2 DEF Create, Update, Saves, IInv, TypeOK, Call
    <3>2. CASE r # call[c].run
      BY <1>1, <1>3, <3>1, <3>2 DEF IInv, RunsBacked
    <3>3. CASE r = call[c].run
      <4>1. g = call[c].record
        BY <1>3, <3>1, <3>3
      <4>2. CASE Create(c)
        BY <3>1, <4>1, <4>2 DEF Create, IInv, Pending
      <4>3. CASE Update(c)
        <5>1. /\ runs[r].status # "ABSENT"
              /\ g = [runs[r] EXCEPT !.status = g.status]
          BY <3>3, <4>1, <4>3 DEF Update, IInv, Pending
        <5>2. Backed(runs[r]) /\ runs[r] \in Run
          BY <3>1, <5>1 DEF IInv, RunsBacked
        <5>3. /\ g.agent = runs[r].agent
              /\ g.digest = runs[r].digest
              /\ g.authorization = runs[r].authorization
              /\ g.context = runs[r].context
              /\ g.tools = runs[r].tools
              /\ g.skills = runs[r].skills
          BY <5>1, <5>2 DEF Run
        <5>4. Backed(g)
          BY <5>2, <5>3 DEF Backed, Named, Covered
        <5>5. QED
          BY <3>1, <4>1, <5>4
      <4>4. QED
        BY <2>2, <4>2, <4>3
    <3>4. QED
      BY <3>2, <3>3
  <2>3. QED
    BY <2>1, <2>2, Writers
<1>5. Backed(g)'
  BY <1>2, <1>4, CoverStays
<1>6. QED
  BY <1>3, <1>5 DEF Backed, Named, Covered, Fits

-----------------------------------------------------------------------------
\* What a suspended call holds stays good while others go on.
LEMMA PendingStays ==
  ASSUME IInv, Grows, Keeps, NEW c \in Calls, call'[c] = call[c]
  PROVE  Pending(c)'
<1> DEFINE g == call[c].record
           r == call[c].run
<1>1. Pending(c) /\ call[c] \in Call
  BY DEF IInv, TypeOK
<1>2. g \in Run
  BY <1>1 DEF Call
<1>3. CASE call[c].phase = "creating"
  <2>1. PICK h : h = g
    OBVIOUS
  <2>2. Backed(h)'
    BY <1>1, <1>2, <1>3, <2>1, CoverStays DEF Pending
  <2>3. Backed(call[c].record)'
    BY <2>1, <2>2 DEF Backed, Named, Covered, Fits
  <2>4. QED
    BY <1>1, <1>3, <2>3 DEF Pending
<1>4. CASE call[c].phase = "updating"
  <2>1. /\ runs[r].status # "ABSENT"
        /\ g.status \in Ended
        /\ g = [runs[r] EXCEPT !.status = g.status]
        /\ r \in Runs
    BY <1>1, <1>4 DEF Pending, Call
  <2>2. /\ runs'[r].status # "ABSENT"
        /\ runs'[r] = [runs[r] EXCEPT !.status = runs'[r].status]
    BY <2>1 DEF Keeps, Stands
  <2>3. runs[r] \in Run
    BY <2>1 DEF IInv, TypeOK
  <2>4. g = [runs'[r] EXCEPT !.status = g.status]
    BY <2>1, <2>2, <2>3 DEF Run
  <2>5. QED
    BY <1>1, <1>4, <2>1, <2>2, <2>4 DEF Pending
<1>5. CASE call[c].phase \notin {"creating", "updating"}
  BY <1>1, <1>5 DEF Pending
<1>6. QED
  BY <1>3, <1>4, <1>5

\* A call that has ended holds nothing.
LEMMA PendingEnds ==
  ASSUME IInv, NEW c \in Calls, Goes(c, Idle)
  PROVE  Pending(c)'
<1>1. call'[c] = Idle
  BY DEF Goes, IInv, TypeOK
<1>2. Idle.phase = "idle"
  BY DEF Idle
<1>3. QED
  BY <1>1, <1>2 DEF Pending

\* A call that has saved its run needs only its name.
LEMMA PendingRecords ==
  ASSUME IInv, NEW c \in Calls, NEW to, Goes(c, to),
         to.phase = "recording", to.run # None
  PROVE  Pending(c)'
<1>1. call'[c] = to
  BY DEF Goes, IInv, TypeOK
<1>2. QED
  BY <1>1 DEF Pending

\* A call that goes on to register is within the authority of its principal.
LEMMA RegistersWithin ==
  ASSUME IInv, NEW c \in Calls, NEW p \in Principals \cup {None},
         NEW now \in Registration, NEW later \in Registration \cup {None},
         Registers(c, p, now, later),
         Within(now, p), later # None => Within(later, p)
  PROVE  Pending(c)'
<1> DEFINE to == [Idle EXCEPT !.phase = "registering", !.by = p, !.now = now,
                              !.later = later]
<1>1. call'[c] = to
  BY DEF Registers, Goes, IInv, TypeOK
<1>2. /\ to.phase = "registering" /\ to.by = p
      /\ to.now = now /\ to.later = later
  BY DEF Idle
<1>3. now # None
  BY AgentAssumption
<1> HIDE DEF to
<1>4. QED
  BY <1>1, <1>2, <1>3 DEF Pending

\* Proposals, assignments and registrations of skills are within the authority
\* of their principals.
LEMMA DraftingPending ==
  ASSUME IInv, NEW c \in Calls
  PROVE  /\ \A p \in Principals : Drafting(c, p) => Pending(c)'
         /\ \A s \in Skills, d \in Definitions :
              RegisterSkill(c, s, d) => Pending(c)'
<1>1. ASSUME NEW p \in Principals, NEW proposal \in Proposals,
             Analyze(c, p, proposal)
      PROVE  Pending(c)'
  <2>1. proposal \in Proposal
    BY AgentAssumption
  <2>2. /\ proposal.capability \in Registration
        /\ proposal.capability.subject \notin AgentVersions
        /\ proposal.agent \in Registration \cup {None}
    BY <2>1, AgentAssumption DEF Proposal, Registration, Subjects
  <2>3. /\ Registers(c, p, proposal.capability, proposal.agent)
        /\ proposal.agent # None =>
             proposal.agent.definition.grants \subseteq GrantsOf[p]
    BY <1>1 DEF Analyze
  <2>4. QED
    BY <2>2, <2>3, RegistersWithin DEF Within
<1>2. ASSUME NEW p \in Principals, NEW base \in AgentVersions,
             NEW v \in AgentVersions, NEW s \in Skills,
             Assign(c, p, base, s, v)
      PROVE  Pending(c)'
  <2> DEFINE d == entries[base].definition
             e == [d EXCEPT !.refs = @ \cup {s}]
             now == [subject |-> v, definition |-> e]
  <2>1. d \in Definition
    BY <1>2 DEF Assign, Active, IInv, TypeOK, Registered, Entry, Subjects
  <2>2. e \in Definition /\ e.grants = d.grants
    BY <2>1 DEF Definition
  <2>3. now \in Registration
    BY <2>2 DEF Registration, Subjects
  <2>4. Registers(c, p, now, None) /\ d.grants \subseteq GrantsOf[p]
    BY <1>2 DEF Assign, AuthorizedFor
  <2>5. Within(now, p)
    BY <2>2, <2>4 DEF Within
  <2> HIDE DEF now
  <2>6. QED
    BY <2>3, <2>4, <2>5, RegistersWithin
<1>3. ASSUME NEW s \in Skills, NEW d \in Definitions, RegisterSkill(c, s, d)
      PROVE  Pending(c)'
  <2> DEFINE now == [subject |-> s, definition |-> d]
  <2>1. now \in Registration /\ s \notin AgentVersions
    BY AgentAssumption DEF Registration, Subjects
  <2>2. Registers(c, None, now, None) /\ Within(now, None)
    BY <1>3, <2>1 DEF RegisterSkill, Within
  <2> HIDE DEF now
  <2>3. QED
    BY <2>1, <2>2, RegistersWithin
<1>4. QED
  BY <1>1, <1>2, <1>3 DEF Drafting

\* begin() and complete() hand over records that are backed when they do.
LEMMA RunningPending ==
  ASSUME IInv, NEW c \in Calls, NEW r \in Runs, Running(c, r)
  PROVE  Pending(c)'
<1>1. r # None
  BY AgentAssumption
<1>2. ASSUME NEW v \in AgentVersions, NEW q \in RunRequests, Begin(c, r, v, q)
      PROVE  Pending(c)'
  <2> DEFINE d == entries[v].definition
             g == [status |-> "RUNNING", agent |-> v, digest |-> d,
                   authorization |-> IF Active(v) THEN "ACTIVE"
                                                  ELSE "TEST_AUTHORIZED",
                   context |-> q.context, tools |-> q.tools,
                   skills |-> Requested(d, q)]
             to == [Idle EXCEPT !.phase = "creating", !.run = r, !.record = g]
  <2>1. d \in Definition
    BY <1>2 DEF Begin, Lifecycle, Active, IInv, TypeOK, Registered, Entry, Subjects
  <2>2. q.context \in Context
    BY AgentAssumption DEF RunRequest
  <2>3. Named(g)
    BY <2>1, <2>2 DEF Named
  <2>4. \A s \in Requested(d, q) :
          /\ s \in d.refs
          /\ entries[s].state \in Released
          /\ Fits(s, q.context.grants \cap d.grants, q.context.tools \cap d.tools)
    BY <1>2 DEF Begin, SkillAuthorized, Active, Released
  <2>5. /\ g.authorization = "ACTIVE" => entries[v].state \in Released
        /\ g.authorization = "TEST_AUTHORIZED" => AllowTestDrafts
        /\ d.grants \subseteq q.context.grants
        /\ q.tools \subseteq d.tools
    BY <1>2 DEF Begin, Lifecycle, Active, Released
  <2>6. Covered(g)
    BY <2>4, <2>5 DEF Covered
  <2>7. /\ to.phase = "creating" /\ to.run = r /\ to.record = g
    BY DEF Idle
  <2>8. call'[c] = to /\ UNCHANGED <<entries, runs>>
    BY <1>2 DEF Begin, Goes, IInv, TypeOK
  <2>9. g.status = "RUNNING"
    OBVIOUS
  <2> HIDE DEF g, to
  <2>10. Backed(g) /\ UNCHANGED entries
    BY <2>3, <2>6, <2>8 DEF Backed
  <2>11. Backed(call[c].record)'
    BY <2>7, <2>8, <2>10 DEF Backed, Named, Covered, Fits
  <2>12. QED
    BY <1>1, <2>7, <2>8, <2>9, <2>11 DEF Pending
<1>3. ASSUME NEW status \in Outcomes, Complete(c, r, status)
      PROVE  Pending(c)'
  <2> DEFINE g == [runs[r] EXCEPT !.status = status]
             to == [Idle EXCEPT !.phase = "updating", !.run = r, !.record = g]
  <2>1. to.phase = "updating" /\ to.run = r /\ to.record = g
    BY DEF Idle
  <2>2. call'[c] = to /\ runs' = runs /\ runs[r].status # "ABSENT"
    BY <1>3 DEF Complete, Goes, IInv, TypeOK
  <2>3. g.status = status /\ status \in Ended
    BY AgentAssumption DEF IInv, TypeOK, Run
  <2>4. g = [runs[r] EXCEPT !.status = g.status]
    BY <2>3
  <2> HIDE DEF g, to
  <2>5. QED
    BY <1>1, <2>1, <2>2, <2>3, <2>4 DEF Pending
<1>4. QED
  BY <1>2, <1>3 DEF Running

\* Every call, whichever takes the step.
LEMMA PendingStep ==
  ASSUME IInv, [Next]_vars
  PROVE  \A c \in Calls : Pending(c)'
<1>1. Grows /\ Keeps
  BY RegistriesGrow, RunsKept
<1>2. ASSUME NEW c \in Calls, NEW b \in Calls, NEW to, Goes(b, to),
             b = c => Pending(c)'
      PROVE  Pending(c)'
  <2>1. CASE b = c
    BY <1>2, <2>1
  <2>2. CASE b # c
    <3>1. call'[c] = call[c]
      BY <1>2, <2>2 DEF Goes, IInv, TypeOK
    <3>2. QED
      BY <1>1, <3>1, PendingStays
  <2>3. QED
    BY <2>1, <2>2
<1>3. ASSUME NEW c \in Calls, UNCHANGED call
      PROVE  Pending(c)'
  BY <1>1, <1>3, PendingStays
<1>4. ASSUME NEW c \in Calls, NEW b \in Calls, NEW p \in Principals, Drafting(b, p)
      PROVE  Pending(c)'
  <2>1. \E to : Goes(b, to)
    BY <1>4 DEF Drafting, Analyze, Assign, Registers
  <2>2. QED
    BY <1>2, <1>4, <2>1, DraftingPending
<1>5. ASSUME NEW c \in Calls, NEW b \in Calls, NEW s \in Skills,
             NEW d \in Definitions, RegisterSkill(b, s, d)
      PROVE  Pending(c)'
  <2>1. \E to : Goes(b, to)
    BY <1>5 DEF RegisterSkill, Registers
  <2>2. QED
    BY <1>2, <1>5, <2>1, DraftingPending
<1>6. ASSUME NEW c \in Calls, NEW b \in Calls, NEW r \in Runs, Running(b, r)
      PROVE  Pending(c)'
  <2>1. \E to : Goes(b, to)
    BY <1>6 DEF Running, Begin, Complete
  <2>2. QED
    BY <1>2, <1>6, <2>1, RunningPending
<1>7. ASSUME NEW c \in Calls, NEW b \in Calls, Register(b)
      PROVE  Pending(c)'
  <2> DEFINE n == [call[b] EXCEPT !.now = call[b].later, !.later = None]
  <2>1. CASE call[b].later = None
    <3>1. Goes(b, Idle)
      BY <1>7, <2>1 DEF Register
    <3>2. Pending(b)'
      BY <3>1, PendingEnds
    <3>3. QED
      BY <1>2, <3>1, <3>2
  <2>2. CASE call[b].later # None
    <3>1. Goes(b, n)
      BY <1>7, <2>2 DEF Register
    <3>2. /\ call[b] \in Call /\ call[b].phase = "registering"
          /\ Within(call[b].later, call[b].by)
      BY <1>7, <2>2 DEF Register, IInv, TypeOK, Pending
    <3>3. /\ n.phase = "registering" /\ n.by = call[b].by
          /\ n.now = call[b].later /\ n.later = None
      BY <3>2 DEF Call
    <3> HIDE DEF n
    <3>4. call'[b] = n
      BY <3>1 DEF Goes, IInv, TypeOK
    <3>5. Pending(b)'
      BY <2>2, <3>2, <3>3, <3>4 DEF Pending
    <3>6. QED
      BY <1>2, <3>1, <3>5
  <2>3. QED
    BY <2>1, <2>2
<1>8. ASSUME NEW c \in Calls, NEW b \in Calls, Create(b) \/ Update(b)
      PROVE  Pending(c)'
  <2> DEFINE n == [call[b] EXCEPT !.phase = "recording"]
  <2>1. Goes(b, n)
    BY <1>8 DEF Create, Update, Saves
  <2>2. call[b] \in Call /\ call[b].run # None
    BY <1>8 DEF Create, Update, IInv, TypeOK, Pending
  <2>3. n.phase = "recording" /\ n.run # None
    BY <2>2 DEF Call
  <2> HIDE DEF n
  <2>4. QED
    BY <1>2, <2>1, <2>3, PendingRecords
<1>9. ASSUME NEW c \in Calls, NEW b \in Calls, Record(b) \/ Fails(b)
      PROVE  Pending(c)'
  <2>1. Goes(b, Idle)
    BY <1>9 DEF Record, Fails
  <2>2. Pending(b)'
    BY <2>1, PendingEnds
  <2>3. QED
    BY <1>2, <2>1, <2>2
<1>10. ASSUME NEW c \in Calls, NEW x \in AgentVersions \cup Skills,
              Approve(x) \/ Activate(x) \/ Suspend(x)
       PROVE  Pending(c)'
  BY <1>3, <1>10 DEF Approve, Activate, Suspend, Advance
<1>11. CASE UNCHANGED vars
  BY <1>3, <1>11 DEF vars
<1>12. QED
  BY <1>4, <1>5, <1>6, <1>7, <1>8, <1>9, <1>10, <1>11 DEF Next

-----------------------------------------------------------------------------
\* The invariant is kept by every step.
LEMMA Invariant == Spec => []IInv
<1>1. ASSUME IInv, [Next]_vars
      PROVE  IInv'
  <2>1. TypeOK'
    BY <1>1, TypeStep
  <2>2. (\A x \in Subjects : Registered(x))' /\ AgentsWithin'
    BY <1>1, EntriesStep
  <2>3. RunsBacked'
    BY <1>1, RunsStep
  <2>4. (\A c \in Calls : Pending(c))'
    BY <1>1, PendingStep
  <2>5. QED
    BY <2>1, <2>2, <2>3, <2>4 DEF IInv
<1>2. QED
  BY <1>1, InitIInv, PTL DEF Spec

\* The registries, runs, events and calls have their types, in particular only
\* known definitions are registered and only known versions are run.
THEOREM RunsTypeCorrect == Spec => []TypeOK
<1>1. IInv => TypeOK
  BY DEF IInv
<1>2. QED
  BY <1>1, Invariant, PTL

\* begin() of agents/lifecycle/runs.py: an existing run is covered by its agent,
\* its skills and its context, though the registries change while it is created.
THEOREM RunsAreAuthorized == Spec => []RunsAuthorized
<1>1. IInv => RunsAuthorized
  BY DEF IInv, RunsBacked, Backed, RunsAuthorized
<1>2. QED
  BY <1>1, Invariant, PTL

\* analyze() of the factory and assign() of the skills: no chain of proposals
\* and assignments registers an agent beyond the authority of its creator.
THEOREM DraftsStayWithinAuthority == Spec => []DraftsWithinAuthority
<1>1. IInv => DraftsWithinAuthority
  BY DEF IInv, AgentsWithin, DraftsWithinAuthority
<1>2. QED
  BY <1>1, Invariant, PTL

\* create() and update() of the run store: a run_id is used once, and a run that
\* has ended stays ended, however many calls complete it at the same time.
THEOREM RunsAreStable == Spec => RunsStand
<1>1. ASSUME IInv, [Next]_vars
      PROVE  [Stands]_vars
  BY <1>1, RunsKept DEF Keeps
<1>2. QED
  BY <1>1, Invariant, PTL DEF Spec, RunsStand, Stands

-----------------------------------------------------------------------------
(* The registries. *)

\* Every step is one of the lifecycle of one version, or none.
LEMMA LifecycleStep ==
  ASSUME IInv, [Next]_vars
  PROVE  [Registries!LifecycleNext]_snapshots
<1>1. /\ entries \in [Subjects -> Entry]
      /\ \A x \in Subjects : Registered(x)
  BY DEF IInv, TypeOK
<1>2. CASE UNCHANGED entries
  BY <1>2 DEF snapshots
<1>3. ASSUME NEW x \in Subjects, NEW from, NEW to, Advance(x, from, to)
      PROVE  Registries!Advance(x, from, to)
  <2>1. /\ entries[x].state = from
        /\ entries' = [entries EXCEPT ![x].state = to]
    BY <1>3 DEF Advance
  <2>2. /\ \A y \in Subjects \ {x} : entries'[y] = entries[y]
        /\ entries'[x].state = to
        /\ entries'[x].definition = entries[x].definition
    BY <1>1, <2>1 DEF Entry
  <2>3. snapshots' = [snapshots EXCEPT ![x].state = to]
    BY <2>2 DEF snapshots
  <2>4. snapshots[x].state = from
    BY <2>1 DEF snapshots
  <2>5. QED
    BY <2>3, <2>4 DEF Registries!Advance
<1>4. ASSUME NEW x \in Subjects, Approve(x) \/ Activate(x) \/ Suspend(x)
      PROVE  Registries!LifecycleNext
  BY <1>3, <1>4 DEF Approve, Activate, Suspend, Registries!LifecycleNext
<1>5. ASSUME NEW c \in Calls, Register(c)
      PROVE  Registries!LifecycleNext \/ UNCHANGED entries
  <2> DEFINE x == call[c].now.subject
             d == call[c].now.definition
             h == [state |-> "DRAFT", definition |-> d,
                   by |-> IF x \in AgentVersions THEN call[c].by ELSE None]
  <2>1. x \in Subjects /\ d \in Definition
    BY <1>5 DEF Register, IInv, TypeOK, Pending, Call, Registration
  <2>2. CASE entries[x].state = "ABSENT" /\ entries' = [entries EXCEPT ![x] = h]
    <3>1. /\ \A y \in Subjects \ {x} : entries'[y] = entries[y]
          /\ entries'[x].state = "DRAFT" /\ entries'[x].definition = d
      BY <1>1, <2>1, <2>2
    <3> HIDE DEF x, d, h
    <3>2. snapshots' = [snapshots EXCEPT ![x] = [state |-> "DRAFT", digest |-> d]]
      BY <2>1, <3>1 DEF snapshots
    <3>3. entries[x].definition = None
      BY <1>1, <2>1, <2>2 DEF Registered
    <3>4. snapshots[x] = Registries!Unregistered
      BY <2>1, <2>2, <3>3 DEF snapshots, Registries!Unregistered
    <3>5. QED
      BY <2>1, <3>2, <3>4 DEF Registries!LifecycleNext, Registries!Create
  <2>3. QED
    BY <1>5, <2>2 DEF Register
<1>6. QED
  BY <1>2, <1>4, <1>5, Writers

\* What this module takes the registries to be, atomic and without failures, is
\* the lifecycle of immutable versions that the store of VersionedRegistry
\* implements (StoreImplementsLifecycle).
THEOREM RegistriesKeepLifecycle == Spec => RegistriesImplementLifecycle
<1>1. Init => Registries!LifecycleInit
  BY DEF Init, NoEntry, snapshots, Registries!LifecycleInit,
         Registries!Unregistered
<1>2. IInv /\ [Next]_vars => [Registries!LifecycleNext]_snapshots
  BY LifecycleStep
<1>3. QED
  BY <1>1, <1>2, Invariant, PTL
     DEF Spec, RegistriesImplementLifecycle, Registries!LifecycleSpec

-----------------------------------------------------------------------------
(* One outcome. *)

\* What complete() would get from an update that expects the status it has read:
\* no two calls are about to update one run.
Single ==
  \A c, d \in Calls :
    /\ call[c].phase = "updating"
    /\ call[d].phase = "updating"
    /\ call[c].run = call[d].run
    => c = d

\* The events of a run are its start and, once it has ended, its own end.
Told ==
  \A r \in Runs : \A e \in trail[r] :
    \/ e = "run.started"
    \/ runs[r].status \in Ended /\ e = Event(runs[r])

\* A call updates a run that is still RUNNING, and records what it has saved.
Writing(c) ==
  /\ call[c].phase = "updating" => runs[call[c].run].status = "RUNNING"
  /\ call[c].phase = "recording" =>
       \/ call[c].record.status = "RUNNING"
       \/ /\ call[c].record.status \in Ended
          /\ call[c].record.status = runs[call[c].run].status

OutcomeInv == Told /\ \A c \in Calls : Writing(c)

\* A call that takes no part in the save of run r still writes what it did.
LEMMA WritingStays ==
  ASSUME IInv, OutcomeInv, NEW d \in Calls, call'[d] = call[d],
         \A r \in Runs :
           \/ runs'[r].status = runs[r].status
           \/ /\ runs[r].status \notin Ended
              /\ ~(call[d].phase = "updating" /\ call[d].run = r)
  PROVE  Writing(d)'
<1>1. Writing(d) /\ Pending(d) /\ call[d] \in Call
  BY DEF OutcomeInv, IInv, TypeOK
<1>2. call[d].phase \in {"updating", "recording"} => call[d].run \in Runs
  BY <1>1 DEF Pending, Call
<1>3. QED
  BY <1>1, <1>2 DEF Writing

\* A call that is not suspended in a save or an append writes nothing.
LEMMA WritingEnds ==
  ASSUME IInv, NEW c \in Calls, NEW to, Goes(c, to),
         to.phase \notin {"updating", "recording"}
  PROVE  Writing(c)'
<1>1. call'[c] = to
  BY DEF Goes, IInv, TypeOK
<1>2. QED
  BY <1>1 DEF Writing

\* Steps that leave the runs and their events alone.
LEMMA QuietOutcome ==
  ASSUME IInv, OutcomeInv, UNCHANGED <<runs, trail>>, NEW c \in Calls, NEW to,
         Goes(c, to), Writing(c)'
  PROVE  OutcomeInv'
<1>1. ASSUME NEW d \in Calls PROVE Writing(d)'
  <2>1. CASE d = c
    BY <2>1
  <2>2. CASE d # c
    <3>1. call'[d] = call[d]
      BY <2>2 DEF Goes, IInv, TypeOK
    <3>2. QED
      BY <3>1, WritingStays
  <2>3. QED
    BY <2>1, <2>2
<1>2. Told'
  BY DEF OutcomeInv, Told, Event
<1>3. QED
  BY <1>1, <1>2 DEF OutcomeInv

\* A save: no other call is about to update the run that ends.
LEMMA SaveOutcome ==
  ASSUME IInv, OutcomeInv, Single, NEW c \in Calls, Create(c) \/ Update(c)
  PROVE  OutcomeInv'
<1> DEFINE n == [call[c] EXCEPT !.phase = "recording"]
           r == call[c].run
           g == call[c].record
<1>1. /\ call[c] \in Call /\ Pending(c) /\ Writing(c)
      /\ runs \in [Runs -> Run]
  BY DEF IInv, TypeOK, OutcomeInv
<1>2. r \in Runs /\ g \in Run
  BY <1>1 DEF Create, Update, Pending, Call
<1>3. /\ runs' = [runs EXCEPT ![r] = g] /\ trail' = trail
      /\ Goes(c, n)
  BY DEF Create, Update, Saves
<1>4. /\ runs[r].status \notin Ended
      /\ g.status \in Ended \/ g.status = "RUNNING"
  BY <1>1 DEF Create, Update, Pending, Writing, Ended
<1>5. n.phase = "recording" /\ n.run = r /\ n.record = g
  BY <1>1 DEF Call
<1>6. \A d \in Calls : call[d].phase = "updating" /\ call[d].run = r => d = c
  <2>1. CASE Create(c)
    BY <2>1 DEF Create, IInv, Pending
  <2>2. CASE Update(c)
    BY <2>2 DEF Update, Single
  <2>3. QED
    BY <2>1, <2>2
<1> HIDE DEF n, r, g
<1>7. /\ runs'[r] = g /\ call'[c] = n
      /\ \A q \in Runs \ {r} : runs'[q] = runs[q]
      /\ \A d \in Calls \ {c} : call'[d] = call[d]
  BY <1>1, <1>2, <1>3 DEF Goes, IInv, TypeOK
<1>8. Writing(c)'
  BY <1>4, <1>5, <1>7 DEF Writing
<1>9. ASSUME NEW d \in Calls \ {c} PROVE Writing(d)'
  <2>1. ~(call[d].phase = "updating" /\ call[d].run = r)
    BY <1>6
  <2>2. QED
    BY <1>4, <1>7, <2>1, WritingStays
<1>10. Told'
  BY <1>3, <1>4, <1>7 DEF OutcomeInv, Told, Event
<1>11. QED
  BY <1>8, <1>9, <1>10 DEF OutcomeInv

\* An append: the event of the run as it was saved.
LEMMA RecordOutcome ==
  ASSUME IInv, OutcomeInv, NEW c \in Calls, Record(c)
  PROVE  OutcomeInv'
<1> DEFINE r == call[c].run
           e == Event(call[c].record)
<1>1. /\ call[c] \in Call /\ Pending(c) /\ Writing(c)
      /\ call[c].phase = "recording" /\ r \in Runs
  BY DEF Record, IInv, TypeOK, OutcomeInv, Pending, Call
<1>2. /\ trail' = [trail EXCEPT ![r] = @ \cup {e}] /\ runs' = runs
      /\ Goes(c, Idle)
  BY DEF Record
<1>3. \/ e = "run.started"
      \/ runs[r].status \in Ended /\ e = Event(runs[r])
  BY <1>1 DEF Writing, Event
<1> HIDE DEF r, e
<1>4. \A q \in Runs : trail'[q] \subseteq trail[q] \cup (IF q = r THEN {e} ELSE {})
  BY <1>2 DEF IInv, TypeOK
<1>5. Told'
  <2>1. ASSUME NEW q \in Runs, NEW x \in trail'[q]
        PROVE  \/ x = "run.started"
               \/ runs[q].status \in Ended /\ x = Event(runs[q])
    BY <1>3, <1>4 DEF OutcomeInv, Told
  <2>2. QED
    BY <1>2, <2>1 DEF Told, Event
<1>6. Idle.phase = "idle"
  BY DEF Idle
<1>7. Writing(c)'
  BY <1>2, <1>6, WritingEnds
<1>8. ASSUME NEW d \in Calls \ {c} PROVE Writing(d)'
  <2>1. call'[d] = call[d]
    BY <1>2 DEF Goes, IInv, TypeOK
  <2>2. QED
    BY <1>2, <2>1, WritingStays
<1>9. QED
  BY <1>5, <1>7, <1>8 DEF OutcomeInv

\* Every step.
LEMMA OutcomeStep ==
  ASSUME IInv, OutcomeInv, Single, [Next]_vars
  PROVE  OutcomeInv'
<1>0. Idle.phase = "idle"
  BY DEF Idle
<1>1. CASE UNCHANGED <<runs, trail, call>>
  <2>1. \A c \in Calls : Writing(c)'
    BY <1>1 DEF OutcomeInv, Writing
  <2>2. Told'
    BY <1>1 DEF OutcomeInv, Told, Event
  <2>3. QED
    BY <2>1, <2>2 DEF OutcomeInv
<1>2. ASSUME NEW c \in Calls, NEW p, NEW now, NEW later,
             Registers(c, p, now, later)
      PROVE  OutcomeInv'
  <2> DEFINE to == [Idle EXCEPT !.phase = "registering", !.by = p, !.now = now,
                                !.later = later]
  <2>1. to.phase = "registering" /\ Goes(c, to) /\ UNCHANGED <<runs, trail>>
    BY <1>2 DEF Registers, Idle
  <2> HIDE DEF to
  <2>2. QED
    BY <2>1, WritingEnds, QuietOutcome
<1>3. ASSUME NEW c \in Calls, NEW p \in Principals, Drafting(c, p)
      PROVE  OutcomeInv'
  <2>1. \E now, later : Registers(c, p, now, later)
    BY <1>3, Zenon DEF Drafting, Analyze, Assign
  <2>2. QED
    BY <1>2, <2>1
<1>4. ASSUME NEW c \in Calls, NEW s \in Skills, NEW d \in Definitions,
             RegisterSkill(c, s, d)
      PROVE  OutcomeInv'
  BY <1>2, <1>4 DEF RegisterSkill
<1>5. ASSUME NEW c \in Calls, NEW r \in Runs, NEW v \in AgentVersions,
             NEW q \in RunRequests, Begin(c, r, v, q)
      PROVE  OutcomeInv'
  <2>1. PICK g : Goes(c, [Idle EXCEPT !.phase = "creating", !.run = r,
                                      !.record = g])
    BY <1>5, Zenon DEF Begin
  <2> DEFINE to == [Idle EXCEPT !.phase = "creating", !.run = r, !.record = g]
  <2>2. to.phase = "creating" /\ Goes(c, to)
    BY <2>1 DEF Idle
  <2>3. UNCHANGED <<runs, trail>>
    BY <1>5 DEF Begin
  <2> HIDE DEF to
  <2>4. QED
    BY <2>2, <2>3, WritingEnds, QuietOutcome
<1>6. ASSUME NEW c \in Calls, NEW r \in Runs, NEW status \in Outcomes,
             Complete(c, r, status)
      PROVE  OutcomeInv'
  <2> DEFINE to == [Idle EXCEPT !.phase = "updating", !.run = r,
                                !.record = [runs[r] EXCEPT !.status = status]]
  <2>1. /\ to.phase = "updating" /\ to.run = r /\ Goes(c, to)
        /\ UNCHANGED <<runs, trail>> /\ runs[r].status = "RUNNING"
    BY <1>6 DEF Complete, Idle
  <2> HIDE DEF to
  <2>2. call'[c] = to
    BY <2>1 DEF Goes, IInv, TypeOK
  <2>3. Writing(c)'
    BY <2>1, <2>2 DEF Writing
  <2>4. QED
    BY <2>1, <2>3, QuietOutcome
<1>7. ASSUME NEW c \in Calls, Register(c)
      PROVE  OutcomeInv'
  <2> DEFINE n == [call[c] EXCEPT !.now = call[c].later, !.later = None]
             to == IF call[c].later = None THEN Idle ELSE n
  <2>1. call[c] \in Call /\ call[c].phase = "registering"
    BY <1>7 DEF Register, IInv, TypeOK
  <2>2. n.phase = "registering"
    BY <2>1 DEF Call
  <2>3. Goes(c, to) /\ UNCHANGED <<runs, trail>>
    BY <1>7 DEF Register
  <2> HIDE DEF n
  <2>4. to.phase \notin {"updating", "recording"}
    BY <1>0, <2>2
  <2> HIDE DEF to
  <2>5. QED
    BY <2>3, <2>4, WritingEnds, QuietOutcome
<1>8. ASSUME NEW c \in Calls, Fails(c)
      PROVE  OutcomeInv'
  BY <1>0, <1>8, WritingEnds, QuietOutcome DEF Fails
<1>9. ASSUME NEW x, Approve(x) \/ Activate(x) \/ Suspend(x)
      PROVE  UNCHANGED <<runs, trail, call>>
  BY <1>9 DEF Approve, Activate, Suspend, Advance
<1>10. QED
  BY <1>1, <1>3, <1>4, <1>5, <1>6, <1>7, <1>8, <1>9, SaveOutcome, RecordOutcome
     DEF Next, vars, Running

\* What the violated OneOutcome (run agent_outcome) lacks is an update that
\* expects the status it has read: if no two calls of complete() are about to
\* update one run, a run has at most one outcome, and that is the event of the
\* status in the run store, however often saves and appends fail.
THEOREM SingleUpdatesLeaveOneOutcome ==
  Spec /\ []Single => [](OneOutcome /\ Told)
<1>1. Init => OutcomeInv
  BY DEF Init, OutcomeInv, Told, Writing, Idle
<1>2. IInv /\ OutcomeInv /\ Single /\ [Next]_vars => OutcomeInv'
  BY OutcomeStep
<1>3. OutcomeInv => OneOutcome /\ Told
  BY DEF OutcomeInv, Told, OneOutcome, Event
<1>4. QED
  BY <1>1, <1>2, <1>3, Invariant, PTL DEF Spec

=============================================================================
