-------------------------- MODULE ToolExecutorProofs --------------------------
(***************************************************************************)
(* The safety of the tool registry and of the executor over it, for every  *)
(* number of tools, lifecycle operations and requests.                     *)
(*                                                                         *)
(* The registry: what an operation is about to write is as well approved   *)
(* as what the table holds, so that writing it late does no harm.  The     *)
(* executor: requests never change, the trail and the store only grow, and *)
(* so what was once said of the source of an output stays true.            *)
(*                                                                         *)
(* The last two parts say what the claims need that the runs tool_replay   *)
(* and tool_retired refute: a key that is reserved while it is executed,   *)
(* and lifecycle operations on one tool that do not overlap.               *)
(***************************************************************************)
EXTENDS ToolHistory, TLAPS

Pending ==
  \A m \in Admins :
    \/ change[m] = NoChange
    \/ change[m].tool \in Tools \ Builtin /\ Checked(change[m].updated)

RegistryInv == RegistryTypeOK /\ MakerChecker /\ Pending

-----------------------------------------------------------------------------
(* The registry. *)

\* Builtin tools are active, and nothing is pending.
LEMMA RegistryInitInv == RegistryInit => RegistryInv
<1> SUFFICES ASSUME RegistryInit PROVE RegistryInv
  OBVIOUS
<1>1. Unregistered \in ToolRegistration
  BY DEF Unregistered, ToolRegistration
<1>2. [Unregistered EXCEPT !.state = "ACTIVE", !.allowlisted = TRUE]
        \in ToolRegistration
  BY <1>1 DEF ToolRegistration, ToolLifecycleState
<1>3. NoChange \in Change
  BY <1>1 DEF NoChange, Change
<1>4. RegistryTypeOK
  BY <1>1, <1>2, <1>3 DEF RegistryInit, RegistryTypeOK
<1>5. MakerChecker
  BY DEF RegistryInit, MakerChecker, Checked, Unregistered
<1>6. Pending
  BY DEF RegistryInit, Pending
<1>7. QED BY <1>4, <1>5, <1>6 DEF RegistryInv

\* An operation announces a registration that is checked.
LEMMA AnnounceInv ==
  ASSUME RegistryInv, NEW m \in Admins, NEW t \in Tools,
         NEW g \in ToolRegistration, Checked(g), Announce(m, t, g)
  PROVE  RegistryInv'
<1> DEFINE e == [tool |-> t, updated |-> g]
<1>1. /\ tools' = tools /\ change' = [change EXCEPT ![m] = e]
      /\ t \in Tools \ Builtin
  BY DEF Announce
<1>2. e \in Change /\ e.tool = t /\ e.updated = g
  BY DEF Change
<1> HIDE DEF e
<1>3. RegistryTypeOK'
  BY <1>1, <1>2 DEF RegistryInv, RegistryTypeOK
<1>4. MakerChecker'
  BY <1>1 DEF RegistryInv, MakerChecker
<1>5. \A n \in Admins : change'[n] = IF n = m THEN e ELSE change[n]
  BY <1>1 DEF RegistryInv, RegistryTypeOK
<1>6. Pending'
  BY <1>1, <1>2, <1>5 DEF RegistryInv, Pending
<1>7. QED BY <1>3, <1>4, <1>6 DEF RegistryInv

\* The fields of the registration that each operation announces.
LEMMA UpdateChecked ==
  ASSUME NEW g \in ToolRegistration, Checked(g)
  PROVE  /\ \A a \in Actors : g.state = "DRAFT" /\ g.owner # a =>
              LET h == [g EXCEPT !.state = "APPROVED", !.approvedBy = a]
              IN  h \in ToolRegistration /\ Checked(h)
         /\ g.state = "APPROVED" =>
              LET h == [g EXCEPT !.state = "ACTIVE"]
              IN  h \in ToolRegistration /\ Checked(h)
         /\ g.state = "ACTIVE" =>
              LET h == [g EXCEPT !.state = "SUSPENDED"]
              IN  h \in ToolRegistration /\ Checked(h)
         /\ LET h == [g EXCEPT !.state = "RETIRED", !.allowlisted = FALSE]
            IN  h \in ToolRegistration /\ Checked(h)
         /\ g.state = "ACTIVE" =>
              LET h == [g EXCEPT !.kill = TRUE]
              IN  h \in ToolRegistration /\ Checked(h)
         /\ LET h == [g EXCEPT !.kill = FALSE]
            IN  h \in ToolRegistration /\ Checked(h)
<1>1. ASSUME NEW a \in Actors, g.state = "DRAFT", g.owner # a
      PROVE  LET h == [g EXCEPT !.state = "APPROVED", !.approvedBy = a]
             IN  h \in ToolRegistration /\ Checked(h)
  BY <1>1, RegistryAssumption DEF ToolRegistration, ToolLifecycleState, Checked
<1>2. g.state = "APPROVED" =>
        LET h == [g EXCEPT !.state = "ACTIVE"]
        IN  h \in ToolRegistration /\ Checked(h)
  BY DEF ToolRegistration, ToolLifecycleState, Checked
<1>3. g.state = "ACTIVE" =>
        LET h == [g EXCEPT !.state = "SUSPENDED"]
        IN  h \in ToolRegistration /\ Checked(h)
  BY DEF ToolRegistration, ToolLifecycleState, Checked
<1>4. LET h == [g EXCEPT !.state = "RETIRED", !.allowlisted = FALSE]
      IN  h \in ToolRegistration /\ Checked(h)
  BY DEF ToolRegistration, ToolLifecycleState, Checked
<1>5. g.state = "ACTIVE" =>
        LET h == [g EXCEPT !.kill = TRUE]
        IN  h \in ToolRegistration /\ Checked(h)
  BY DEF ToolRegistration, ToolLifecycleState, Checked
<1>6. LET h == [g EXCEPT !.kill = FALSE]
      IN  h \in ToolRegistration /\ Checked(h)
  BY DEF ToolRegistration, ToolLifecycleState, Checked
<1>7. QED BY <1>1, <1>2, <1>3, <1>4, <1>5, <1>6

\* Every lifecycle operation announces a checked registration.
LEMMA OperationInv ==
  ASSUME RegistryInv, NEW m \in Admins, NEW t \in Tools, Operation(m, t)
  PROVE  RegistryInv'
<1>1. t \in Tools \ Builtin
  BY DEF Operation, RegisterDraft, Approve, Activate, SuspendTool, Retire,
         ActivateKillSwitch, ClearKillSwitch, Announce
<1>2. tools[t] \in ToolRegistration /\ Checked(tools[t])
  BY <1>1 DEF RegistryInv, RegistryTypeOK, MakerChecker
<1>3. ASSUME NEW a \in Actors, NEW d \in Drafts, RegisterDraft(m, t, a, d)
      PROVE  RegistryInv'
  <2> DEFINE h == [state |-> "DRAFT", kill |-> d.kill,
                   allowlisted |-> d.allowlisted, owner |-> a,
                   approvedBy |-> d.approvedBy]
  <2>1. h \in ToolRegistration /\ Checked(h)
    BY RegistryAssumption DEF ToolRegistration, ToolLifecycleState, Checked
  <2>2. QED BY <1>3, <2>1, AnnounceInv DEF RegisterDraft
<1>4. ASSUME NEW a \in Actors, Approve(m, t, a) PROVE RegistryInv'
  BY <1>2, <1>4, UpdateChecked, AnnounceInv DEF Approve
<1>5. ASSUME Activate(m, t) PROVE RegistryInv'
  BY <1>2, <1>5, UpdateChecked, AnnounceInv DEF Activate
<1>6. ASSUME SuspendTool(m, t) PROVE RegistryInv'
  BY <1>2, <1>6, UpdateChecked, AnnounceInv DEF SuspendTool
<1>7. ASSUME Retire(m, t) PROVE RegistryInv'
  BY <1>2, <1>7, UpdateChecked, AnnounceInv DEF Retire
<1>8. ASSUME ActivateKillSwitch(m, t) PROVE RegistryInv'
  BY <1>2, <1>8, UpdateChecked, AnnounceInv DEF ActivateKillSwitch
<1>9. ASSUME ClearKillSwitch(m, t) PROVE RegistryInv'
  BY <1>2, <1>9, UpdateChecked, AnnounceInv DEF ClearKillSwitch
<1>10. QED
  BY <1>3, <1>4, <1>5, <1>6, <1>7, <1>8, <1>9 DEF Operation

\* The announced registration is written, over whatever is there, or dropped.
LEMMA WriteInv ==
  ASSUME RegistryInv, NEW m \in Admins, Write(m) \/ GiveUp(m)
  PROVE  RegistryInv'
<1> DEFINE e == change[m]
<1>1. e \in Change /\ e.tool \in Tools \ Builtin /\ Checked(e.updated)
  BY DEF Write, GiveUp, RegistryInv, RegistryTypeOK, Pending
<1>2. e.updated \in ToolRegistration
  BY <1>1 DEF Change
<1>3. NoChange \in Change
  BY DEF NoChange, Change, Unregistered, ToolRegistration
<1>4. change' = [change EXCEPT ![m] = NoChange]
  BY DEF Write, GiveUp
<1>5. tools' \in {tools, [tools EXCEPT ![e.tool] = e.updated]}
  BY DEF Write, GiveUp
<1> HIDE DEF e
<1>6. RegistryTypeOK'
  BY <1>1, <1>2, <1>3, <1>4, <1>5 DEF RegistryInv, RegistryTypeOK
<1>7. MakerChecker'
  BY <1>1, <1>5 DEF RegistryInv, RegistryTypeOK, MakerChecker
<1>8. Pending'
  BY <1>4 DEF RegistryInv, RegistryTypeOK, Pending
<1>9. QED BY <1>6, <1>7, <1>8 DEF RegistryInv

\* Every step of the registry keeps its invariant.
LEMMA RegistryNextInv ==
  ASSUME RegistryInv, [RegistryNext]_registryVars
  PROVE  RegistryInv'
<1>1. CASE RegistryNext
  BY <1>1, OperationInv, WriteInv DEF RegistryNext
<1>2. CASE UNCHANGED registryVars
  BY <1>2 DEF registryVars, RegistryInv, RegistryTypeOK, MakerChecker, Pending
<1>3. QED BY <1>1, <1>2

\* No order of drafts, approvals and late writes lets a tool run that its own
\* maker, or nobody, has approved.
THEOREM MakersNeverApprove == RegistrySpec => []MakerChecker
<1>1. RegistryInv => MakerChecker
  BY DEF RegistryInv
<1>2. QED BY RegistryInitInv, RegistryNextInv, <1>1, PTL DEF RegistrySpec

-----------------------------------------------------------------------------
(* The executor. *)

Tables ==
  /\ call \in [Callers -> Call]
  /\ store \in [CacheKeys -> IdempotencyRecord \cup {None}]
  /\ trail \in [Callers -> SUBSET (Statuses \cup {"REQUESTED", "IDEMPOTENT_REPLAY"})]

\* What an invocation has audited follows from where it is.
Shape(c) ==
  LET g == call[c]
  IN
  /\ g.request = None <=> g.phase = "idle"
  /\ g.source # None => g.status = "SUCCESS"
  /\ g.phase \in {"idle", "requested"} =>
       trail[c] = {} /\ g.status = "NONE" /\ g.source = None
  /\ g.phase = "running" =>
       trail[c] = {"REQUESTED"} /\ g.status = "NONE" /\ g.source = None
  /\ g.phase = "closing" => trail[c] = {"REQUESTED"} /\ g.status \in Statuses
  /\ g.phase = "replayed" =>
       /\ trail[c] = {"REQUESTED", "SUCCESS"}
       /\ g.status = "SUCCESS"
       /\ g.source \notin {None, c}
  /\ g.phase = "returned" =>
       /\ g.status \in Statuses
       /\ trail[c] = IF g.source \in {None, c}
                       THEN {"REQUESTED", g.status}
                       ELSE {"REQUESTED", g.status, "IDEMPOTENT_REPLAY"}
  /\ g.phase = "raised" =>
       \E o \in Statuses :
         /\ trail[c] \subseteq {"REQUESTED", o, "IDEMPOTENT_REPLAY"}
         /\ trail[c] # {} => "REQUESTED" \in trail[c]

Stored(q) == Known(q) /\ ~Conflicting(q)

\* Invocation s has executed a request of this key and digest successfully.
Executed(s, key, digest) ==
  /\ s \in Callers
  /\ call[s].request \in Requests
  /\ Keyed(call[s].request)
  /\ CacheKey(call[s].request) = key
  /\ RequestDigest(call[s].request) = digest
  /\ "SUCCESS" \in trail[s]

\* A SUCCESS has a source; when that is another invocation, or when it has been
\* returned, it is in the store.
Backed(c) ==
  LET g == call[c]
  IN
  g.status = "SUCCESS" =>
    /\ g.request \in Requests
    /\ g.source \in Callers
    /\ g.source # c =>
         /\ Keyed(g.request)
         /\ Stored(g.request)
         /\ Executed(g.source, CacheKey(g.request), RequestDigest(g.request))
    /\ g.phase = "returned" /\ Keyed(g.request) => Stored(g.request)

StoreBacked ==
  \A k \in CacheKeys :
    store[k] # None => Executed(store[k].source, k, store[k].digest)

IInv ==
  /\ RegistryInv
  /\ Tables
  /\ \A c \in Callers : Shape(c) /\ Backed(c)
  /\ StoreBacked

\* KeysBelong, as an action.
KeysKept ==
  \A k \in CacheKeys : store[k] # None =>
    /\ store'[k] # None
    /\ store'[k].digest = store[k].digest

\* Requests do not change, and the trail and the store only grow.
Grows ==
  /\ \A c \in Callers : call[c].request # None => call'[c].request = call[c].request
  /\ \A c \in Callers : trail[c] \subseteq trail'[c]
  /\ KeysKept

\* A keyed request has a key of the store.
LEMMA KeyFacts ==
  ASSUME NEW q \in Requests, Keyed(q)
  PROVE  CacheKey(q) \in CacheKeys
BY DEF CacheKeys

\* What has been executed and stored stays so.
LEMMA ExecutedGrows ==
  ASSUME Grows, NEW s, NEW key, NEW digest, Executed(s, key, digest)
  PROVE  Executed(s, key, digest)'
<1>1. call'[s].request = call[s].request
  BY ExecutorAssumption DEF Grows, Executed
<1>2. QED BY <1>1 DEF Grows, Executed

\* A request that is stored under its digest stays so.
LEMMA StoredGrows ==
  ASSUME Grows, NEW q \in Requests, Stored(q)
  PROVE  Stored(q)'
BY KeyFacts DEF Grows, KeysKept, Stored, Known, Conflicting

\* So does what backs the result of an invocation that does not move.
LEMMA BackedGrows ==
  ASSUME Grows, NEW c \in Callers, Backed(c), call'[c] = call[c]
  PROVE  Backed(c)'
<1> DEFINE g == call[c]
<1> SUFFICES ASSUME g.status = "SUCCESS" PROVE Backed(c)'
  BY DEF Backed
<1>1. /\ g.request \in Requests /\ g.source \in Callers
      /\ g.source # c =>
           /\ Keyed(g.request)
           /\ Stored(g.request)
           /\ Executed(g.source, CacheKey(g.request), RequestDigest(g.request))
      /\ g.phase = "returned" /\ Keyed(g.request) => Stored(g.request)
  BY DEF Backed
<1>2. Stored(g.request) => Stored(g.request)'
  BY <1>1, StoredGrows DEF g
<1>3. Executed(g.source, CacheKey(g.request), RequestDigest(g.request)) =>
        Executed(g.source, CacheKey(g.request), RequestDigest(g.request))'
  BY ExecutedGrows DEF g
<1>4. QED BY <1>1, <1>2, <1>3 DEF Backed

\* An invocation that does not move keeps its shape.
LEMMA ShapeKept ==
  ASSUME NEW c \in Callers, Shape(c), call'[c] = call[c], trail'[c] = trail[c]
  PROVE  Shape(c)'
BY DEF Shape

\* One invocation moves, and nothing that was stored is lost.
LEMMA StepInv ==
  ASSUME IInv, RegistryInv', Tables', Grows, StoreBacked', NEW c \in Callers,
         \A d \in Callers \ {c} : call'[d] = call[d] /\ trail'[d] = trail[d],
         Shape(c)', Backed(c)'
  PROVE  IInv' /\ KeysKept
<1>1. ASSUME NEW d \in Callers \ {c} PROVE Shape(d)' /\ Backed(d)'
  <2>0. /\ d \in Callers /\ Shape(d) /\ Backed(d)
        /\ call'[d] = call[d] /\ trail'[d] = trail[d]
    BY <1>1 DEF IInv
  <2>1. Shape(d)'
    BY <2>0, ShapeKept
  <2>2. Backed(d)'
    BY <2>0, BackedGrows
  <2>3. QED BY <2>1, <2>2
<1>2. QED BY <1>1 DEF IInv, Grows

\* The record of an invocation that moves.
LEMMA GoesFields ==
  ASSUME Tables, NEW c \in Callers, NEW phase \in Phases,
         NEW status \in Statuses \cup {"NONE"}, NEW source \in Callers \cup {None},
         Goes(c, phase, status, source)
  PROVE  /\ call' \in [Callers -> Call]
         /\ call'[c].phase = phase
         /\ call'[c].status = status
         /\ call'[c].source = source
         /\ call'[c].request = call[c].request
         /\ \A d \in Callers \ {c} : call'[d] = call[d]
<1> DEFINE h == [call[c] EXCEPT !.phase = phase, !.status = status,
                                !.source = source]
<1>1. call[c] \in Call
  BY DEF Tables
<1>2. call' = [call EXCEPT ![c] = h]
  BY DEF Goes, Tables
<1>3. h \in Call
  BY <1>1 DEF Call
<1>4. /\ h.phase = phase /\ h.status = status /\ h.source = source
      /\ h.request = call[c].request
  BY <1>1 DEF Call
<1> HIDE DEF h
<1>5. QED BY <1>2, <1>3, <1>4 DEF Tables

\* The trail of an invocation whose event is appended.
LEMMA AuditedFields ==
  ASSUME Tables, NEW c \in Callers, Audited(c),
         Event(c) \in Statuses \cup {"REQUESTED", "IDEMPOTENT_REPLAY"}
  PROVE  /\ trail' \in [Callers -> SUBSET (Statuses \cup {"REQUESTED", "IDEMPOTENT_REPLAY"})]
         /\ trail'[c] = trail[c] \cup {Event(c)}
         /\ \A d \in Callers \ {c} : trail'[d] = trail[d]
<1>1. trail[c] \cup {Event(c)} \in
        SUBSET (Statuses \cup {"REQUESTED", "IDEMPOTENT_REPLAY"})
  BY DEF Tables
<1>2. QED BY <1>1 DEF Audited, Tables

\* A move of an invocation that stores nothing and, perhaps, adds its event.
LEMMA MoveInv ==
  ASSUME IInv, NEW c \in Callers, NEW phase \in Phases,
         NEW status \in Statuses \cup {"NONE"}, NEW source \in Callers \cup {None},
         Goes(c, phase, status, source),
         \/ trail' = trail
         \/ /\ Audited(c)
            /\ Event(c) \in Statuses \cup {"REQUESTED", "IDEMPOTENT_REPLAY"},
         UNCHANGED <<registryVars, store>>,
         Shape(c)', Backed(c)'
  PROVE  IInv' /\ KeysKept
<1>1. /\ call' \in [Callers -> Call]
      /\ call'[c].request = call[c].request
      /\ \A d \in Callers \ {c} : call'[d] = call[d]
  BY GoesFields DEF IInv
<1>2. /\ trail' \in [Callers -> SUBSET (Statuses \cup {"REQUESTED", "IDEMPOTENT_REPLAY"})]
      /\ \A d \in Callers \ {c} : trail'[d] = trail[d]
      /\ trail[c] \subseteq trail'[c]
  BY AuditedFields DEF IInv, Tables
<1>3. RegistryInv'
  BY DEF IInv, registryVars, RegistryInv, RegistryTypeOK, MakerChecker, Pending
<1>4. Tables'
  BY <1>1, <1>2 DEF IInv, Tables
<1>5. Grows
  BY <1>1, <1>2 DEF Grows, KeysKept
<1>6. StoreBacked'
  <2> SUFFICES ASSUME NEW k \in CacheKeys, store[k] # None
               PROVE  Executed(store[k].source, k, store[k].digest)'
    BY DEF StoreBacked
  <2>1. Executed(store[k].source, k, store[k].digest)
    BY DEF IInv, StoreBacked
  <2>2. QED BY <1>5, <2>1, ExecutedGrows
<1>7. QED BY <1>1, <1>2, <1>3, <1>4, <1>5, <1>6, StepInv

-----------------------------------------------------------------------------
(* The actions of the executor. *)

\* A request arrives at an idle invocation.
LEMMA ReceiveInv ==
  ASSUME IInv, NEW c \in Callers, NEW q \in Requests, Receive(c, q)
  PROVE  IInv' /\ KeysKept
<1> DEFINE h == [Idle EXCEPT !.phase = "requested", !.request = q]
<1>1. /\ call[c] = Idle /\ trail' = trail /\ store' = store
      /\ UNCHANGED registryVars
  BY DEF Receive
<1>2. call' = [call EXCEPT ![c] = h]
  BY <1>1 DEF Receive, IInv, Tables
<1>3. h \in Call /\ h.phase = "requested" /\ h.request = q
      /\ h.status = "NONE" /\ h.source = None
  BY DEF Idle, Call, Phases
<1> HIDE DEF h
<1>4. /\ call' \in [Callers -> Call] /\ call'[c] = h
      /\ \A d \in Callers \ {c} : call'[d] = call[d]
  BY <1>2, <1>3 DEF IInv, Tables
<1>5. trail[c] = {} /\ call[c].request = None
  <2>1. call[c].phase = "idle" /\ call[c].request = None
    BY <1>1 DEF Idle
  <2>2. Shape(c)
    BY DEF IInv
  <2>3. QED BY <2>1, <2>2 DEF Shape
<1>6. Shape(c)' /\ Backed(c)'
  BY <1>1, <1>3, <1>4, <1>5, ExecutorAssumption DEF Shape, Backed
<1>7. Tables'
  BY <1>1, <1>4 DEF IInv, Tables
<1>8. Grows
  BY <1>1, <1>4, <1>5 DEF Grows, KeysKept
<1>9. RegistryInv'
  BY <1>1 DEF IInv, registryVars, RegistryInv, RegistryTypeOK, MakerChecker,
              Pending
<1>10. StoreBacked'
  <2> SUFFICES ASSUME NEW k \in CacheKeys, store[k] # None
               PROVE  Executed(store[k].source, k, store[k].digest)'
    BY <1>1 DEF StoreBacked
  <2>1. Executed(store[k].source, k, store[k].digest)
    BY DEF IInv, StoreBacked
  <2>2. QED BY <1>1, <1>8, <2>1, ExecutedGrows
<1>11. QED BY <1>1, <1>4, <1>6, <1>7, <1>8, <1>9, <1>10, StepInv

\* The facts of an invocation that is being checked.
LEMMA CheckingFacts ==
  ASSUME IInv, NEW c \in Callers, Checking(c)
  PROVE  /\ call[c].request \in Requests
         /\ Event(c) = "REQUESTED"
         /\ Audited(c) /\ UNCHANGED <<registryVars, store>>
         /\ trail'[c] = {"REQUESTED"}
<1>1. call[c].request \in Requests
  BY DEF IInv, Tables, Shape, Checking, Call
<1>2. Event(c) = "REQUESTED" /\ Audited(c) /\ trail[c] = {}
  BY DEF Checking, Event, IInv, Shape
<1>3. trail'[c] = {} \cup {"REQUESTED"}
  BY <1>2, AuditedFields DEF IInv
<1>4. QED BY <1>1, <1>2, <1>3 DEF Checking

\* Deny, Reject and StartAdapter produce no output.
LEMMA NoOutputInv ==
  ASSUME IInv, NEW c \in Callers, Deny(c) \/ Reject(c) \/ StartAdapter(c)
  PROVE  IInv' /\ KeysKept
<1>1. PICK phase \in {"closing", "running"},
           status \in {"DENIED", "REJECTED", "NONE"} :
        /\ Goes(c, phase, status, None)
        /\ phase = "closing" <=> status # "NONE"
  BY DEF Deny, Reject, StartAdapter
<1>2. Checking(c)
  BY DEF Deny, Reject, StartAdapter
<1>3. phase \in Phases /\ status \in Statuses \cup {"NONE"}
  BY DEF Phases, Statuses
<1>4. /\ call'[c].phase = phase /\ call'[c].status = status
      /\ call'[c].source = None /\ call'[c].request = call[c].request
  BY <1>1, <1>3, GoesFields DEF IInv
<1>5. Shape(c)'
  BY <1>1, <1>2, <1>4, CheckingFacts, ExecutorAssumption DEF Shape, Statuses
<1>6. Backed(c)'
  BY <1>4 DEF Backed
<1>7. QED BY <1>1, <1>2, <1>3, <1>5, <1>6, CheckingFacts, MoveInv

\* A replay inherits what the store guarantees of the execution it repeats.
LEMMA ReplayInv ==
  ASSUME IInv, NEW c \in Callers, Replay(c)
  PROVE  IInv' /\ KeysKept
<1> DEFINE q == call[c].request
           k == CacheKey(q)
           s == store[k].source
<1>1. Checking(c) /\ Known(q) /\ ~Conflicting(q) /\ Goes(c, "closing", "SUCCESS", s)
  BY DEF Replay
<1>2. /\ q \in Requests /\ Event(c) = "REQUESTED" /\ Audited(c)
      /\ UNCHANGED <<registryVars, store>> /\ trail'[c] = {"REQUESTED"}
  BY <1>1, CheckingFacts
<1>3. Keyed(q) /\ k \in CacheKeys /\ store[k] # None
      /\ store[k].digest = RequestDigest(q)
  BY <1>1, <1>2, KeyFacts DEF Known, Conflicting
<1>4. Executed(s, k, RequestDigest(q))
  BY <1>3 DEF IInv, StoreBacked
<1>5. s \in Callers /\ "SUCCESS" \in trail[s]
  BY <1>4 DEF Executed
<1>6. s # c /\ s # None
  BY <1>1, <1>5, ExecutorAssumption DEF Checking, IInv, Shape
<1>7. "closing" \in Phases /\ "SUCCESS" \in Statuses
  BY DEF Phases, Statuses
<1>8. /\ call'[c].phase = "closing" /\ call'[c].status = "SUCCESS"
      /\ call'[c].source = s /\ call'[c].request = q
  BY <1>1, <1>5, <1>7, GoesFields DEF IInv
<1>9. Shape(c)'
  BY <1>2, <1>6, <1>7, <1>8, ExecutorAssumption DEF Shape
<1>10. Grows
  <2>1. \A d \in Callers : call'[d].request = call[d].request
    BY <1>1, <1>5, <1>7, GoesFields DEF IInv
  <2>2. \A d \in Callers : trail[d] \subseteq trail'[d]
    BY <1>2, AuditedFields DEF IInv, Statuses
  <2>3. QED BY <1>2, <2>1, <2>2 DEF Grows, KeysKept
<1>11. Backed(c)'
  <2>1. Executed(s, k, RequestDigest(q))'
    BY <1>4, <1>10, <1>2, <1>8, ExecutedGrows
  <2>2. Stored(q)'
    BY <1>1, <1>2, <1>8 DEF Stored, Known, Conflicting
  <2>3. QED BY <1>2, <1>3, <1>5, <1>8, <2>1, <2>2 DEF Backed
<1>12. QED BY <1>1, <1>2, <1>5, <1>7, <1>9, <1>11, MoveInv

\* The adapter ends, or its invocation does; nothing is audited.
LEMMA AdapterInv ==
  ASSUME IInv, NEW c \in Callers,
         \/ AdapterReturns(c) \/ AdapterFails(c)
         \/ AdapterTimesOut(c) \/ AdapterAborts(c)
  PROVE  IInv' /\ KeysKept
<1>1. PICK phase \in {"closing", "raised"},
           status \in {"SUCCESS", "FAILED", "TIMEOUT", "NONE"},
           source \in {c, None} :
        /\ Goes(c, phase, status, source)
        /\ phase = "closing" <=> status # "NONE"
        /\ source = c <=> status = "SUCCESS"
  BY ExecutorAssumption
     DEF AdapterReturns, AdapterFails, AdapterTimesOut, AdapterAborts
<1>2. /\ call[c].phase = "running"
      /\ UNCHANGED <<registryVars, store, trail>>
  BY DEF AdapterReturns, AdapterFails, AdapterTimesOut, AdapterAborts, Adapter
<1>3. phase \in Phases /\ status \in Statuses \cup {"NONE"}
      /\ source \in Callers \cup {None}
  BY DEF Phases, Statuses
<1>4. /\ call'[c].phase = phase /\ call'[c].status = status
      /\ call'[c].source = source /\ call'[c].request = call[c].request
  BY <1>1, <1>3, GoesFields DEF IInv
<1>5. trail[c] = {"REQUESTED"} /\ call[c].request \in Requests
  BY <1>2 DEF IInv, Shape, Tables, Call
<1>6. Shape(c)'
  <2>1. CASE phase = "closing"
    BY <1>1, <1>2, <1>3, <1>4, <1>5, <2>1, ExecutorAssumption DEF Shape
  <2>2. CASE phase = "raised"
    <3>1. "FAILED" \in Statuses
      BY DEF Statuses
    <3>2. QED
      BY <1>1, <1>2, <1>3, <1>4, <1>5, <2>2, <3>1, ExecutorAssumption DEF Shape
  <2>3. QED BY <2>1, <2>2
<1>7. Backed(c)'
  BY <1>1, <1>4, <1>5 DEF Backed
<1>8. QED BY <1>1, <1>2, <1>3, <1>6, <1>7, MoveInv

\* The facts of an invocation whose outcome has been appended.
LEMMA ClosingFacts ==
  ASSUME IInv, NEW c \in Callers, Closing(c)
  PROVE  /\ call[c].request \in Requests
         /\ call[c].phase = "closing"
         /\ call[c].status \in Statuses
         /\ call[c].source \in Callers \cup {None}
         /\ call[c].source # None => call[c].status = "SUCCESS"
         /\ Event(c) = call[c].status
         /\ Audited(c) /\ UNCHANGED registryVars
         /\ trail'[c] = {"REQUESTED", call[c].status}
<1>1. call[c].phase = "closing" /\ Event(c) = call[c].status /\ Audited(c)
      /\ UNCHANGED registryVars
  BY DEF Closing, Event
<1>2. /\ call[c].request \in Requests
      /\ call[c].status \in Statuses
      /\ call[c].source \in Callers \cup {None}
      /\ call[c].source # None => call[c].status = "SUCCESS"
      /\ trail[c] = {"REQUESTED"}
  BY <1>1 DEF IInv, Shape, Tables, Call
<1>3. trail'[c] = {"REQUESTED"} \cup {call[c].status}
  BY <1>1, <1>2, AuditedFields DEF IInv
<1>4. QED BY <1>1, <1>2, <1>3

\* An outcome that need not be stored, and an output whose key is taken.
LEMMA CloseInv ==
  ASSUME IInv, NEW c \in Callers, Close(c) \/ CloseConflicting(c)
  PROVE  IInv' /\ KeysKept
<1> DEFINE g == call[c]
<1>1. Closing(c) /\ UNCHANGED store
  BY DEF Close, CloseConflicting
<1>2. /\ g.request \in Requests /\ g.phase = "closing" /\ g.status \in Statuses
      /\ g.source \in Callers \cup {None}
      /\ g.source # None => g.status = "SUCCESS"
      /\ Event(c) = g.status /\ Audited(c) /\ UNCHANGED registryVars
      /\ trail'[c] = {"REQUESTED", g.status}
  BY <1>1, ClosingFacts
<1>3. PICK phase \in {"replayed", "returned", "raised"} :
        /\ Goes(c, phase, g.status, g.source)
        /\ phase = "replayed" => g.status = "SUCCESS" /\ g.source # c
        /\ phase = "returned" =>
             /\ ~Stores(c)
             /\ ~(g.status = "SUCCESS" /\ g.source # c)
  <2>1. CASE Close(c)
    BY <2>1 DEF Close
  <2>2. CASE CloseConflicting(c)
    BY <2>2 DEF CloseConflicting, Stores
  <2>3. QED BY <2>1, <2>2
<1>4. phase \in Phases /\ g.status \in Statuses \cup {"NONE"}
  BY <1>2 DEF Phases
<1>5. /\ call'[c].phase = phase /\ call'[c].status = g.status
      /\ call'[c].source = g.source /\ call'[c].request = g.request
  BY <1>2, <1>3, <1>4, GoesFields DEF IInv
<1>6. Backed(c)
  BY DEF IInv
<1>7. g.status = "SUCCESS" => g.source \in Callers
  BY <1>6 DEF Backed
<1>8. Shape(c)'
  <2>1. g.request # None /\ c # None
    BY <1>2, ExecutorAssumption
  <2>2. CASE phase = "replayed"
    BY <1>2, <1>3, <1>5, <1>7, <2>1, <2>2, ExecutorAssumption DEF Shape
  <2>3. CASE phase = "returned"
    BY <1>2, <1>3, <1>5, <1>7, <2>1, <2>3, ExecutorAssumption DEF Shape
  <2>4. CASE phase = "raised"
    <3>1. \E o \in Statuses :
            /\ trail'[c] \subseteq {"REQUESTED", o, "IDEMPOTENT_REPLAY"}
            /\ trail'[c] # {} => "REQUESTED" \in trail'[c]
      BY <1>2
    <3>2. QED
      BY <1>2, <1>3, <1>5, <2>1, <2>4, <3>1 DEF Shape
  <2>5. QED BY <2>2, <2>3, <2>4
<1>9. Grows
  <2>1. \A d \in Callers : call'[d].request = call[d].request
    BY <1>2, <1>3, <1>4, GoesFields DEF IInv
  <2>2. \A d \in Callers : trail[d] \subseteq trail'[d]
    BY <1>2, AuditedFields DEF IInv
  <2>3. QED BY <1>1, <2>1, <2>2 DEF Grows, KeysKept
<1>10. Backed(c)'
  <2> SUFFICES ASSUME g.status = "SUCCESS" PROVE Backed(c)'
    BY <1>5 DEF Backed
  <2>1. g.source # c =>
          /\ Keyed(g.request)
          /\ Stored(g.request)
          /\ Executed(g.source, CacheKey(g.request), RequestDigest(g.request))
    BY <1>6 DEF Backed
  <2>2. Stored(g.request) => Stored(g.request)'
    BY <1>1, <1>5 DEF Stored, Known, Conflicting
  <2>3. Executed(g.source, CacheKey(g.request), RequestDigest(g.request)) =>
        Executed(g.source, CacheKey(g.request), RequestDigest(g.request))'
    BY <1>9, <1>5, ExecutedGrows
  <2>4. phase = "returned" => ~Keyed(g.request)
    BY <1>3 DEF Stores
  <2>5. QED BY <1>2, <1>5, <1>7, <2>1, <2>2, <2>3, <2>4 DEF Backed
<1>11. QED BY <1>1, <1>2, <1>3, <1>4, <1>8, <1>10, MoveInv

\* An output is stored under the key and the digest of its own request; a key
\* that has a record keeps its digest.
LEMMA CloseAndStoreInv ==
  ASSUME IInv, NEW c \in Callers, CloseAndStore(c)
  PROVE  IInv' /\ KeysKept
<1> DEFINE q == call[c].request
           k == CacheKey(q)
           r == [digest |-> RequestDigest(q), source |-> c]
<1>1. /\ Closing(c) /\ call[c].status = "SUCCESS" /\ call[c].source = c
      /\ Keyed(q) /\ ~Conflicting(q)
      /\ store' = [store EXCEPT ![k] = r]
      /\ Goes(c, "returned", "SUCCESS", c)
  BY DEF CloseAndStore, Stores
<1>2. /\ q \in Requests /\ Event(c) = "SUCCESS" /\ Audited(c)
      /\ UNCHANGED registryVars /\ trail'[c] = {"REQUESTED", "SUCCESS"}
  BY <1>1, ClosingFacts
<1>3. k \in CacheKeys
  BY <1>1, <1>2, KeyFacts
<1>4. "returned" \in Phases /\ "SUCCESS" \in Statuses
  BY DEF Phases, Statuses
<1>5. /\ call' \in [Callers -> Call]
      /\ call'[c].phase = "returned" /\ call'[c].status = "SUCCESS"
      /\ call'[c].source = c /\ call'[c].request = q
      /\ \A d \in Callers \ {c} : call'[d] = call[d]
  BY <1>1, <1>4, GoesFields DEF IInv
<1>6. /\ trail' \in [Callers -> SUBSET (Statuses \cup {"REQUESTED", "IDEMPOTENT_REPLAY"})]
      /\ trail'[c] = trail[c] \cup {Event(c)}
      /\ \A d \in Callers \ {c} : trail'[d] = trail[d]
  BY <1>2, <1>4, AuditedFields DEF IInv
<1>7. r \in IdempotencyRecord /\ r.digest = RequestDigest(q) /\ r.source = c
      /\ r # None
  BY <1>2, ExecutorAssumption DEF IdempotencyRecord
<1> HIDE DEF r
<1>8. /\ store' \in [CacheKeys -> IdempotencyRecord \cup {None}]
      /\ store'[k] = r
      /\ \A x \in CacheKeys \ {k} : store'[x] = store[x]
  BY <1>1, <1>3, <1>7 DEF IInv, Tables
<1>9. RegistryInv'
  BY <1>2 DEF IInv, registryVars, RegistryInv, RegistryTypeOK, MakerChecker,
              Pending
<1>10. Tables'
  BY <1>5, <1>6, <1>8 DEF Tables
<1>11. KeysKept
  <2>1. store[k] # None => store[k].digest = RequestDigest(q)
    BY <1>1 DEF Conflicting, Known
  <2>2. QED BY <1>7, <1>8, <2>1 DEF KeysKept
<1>12. Grows
  BY <1>5, <1>6, <1>11 DEF Grows
<1>13. /\ call'[c].request = q /\ "SUCCESS" \in trail'[c]
       /\ store'[k].digest = RequestDigest(q) /\ store'[k].source = c
  BY <1>2, <1>5, <1>7, <1>8
<1>14. StoreBacked'
  <2> SUFFICES ASSUME NEW x \in CacheKeys, store'[x] # None
               PROVE  Executed(store[x].source, x, store[x].digest)'
    BY DEF StoreBacked
  <2>1. CASE x = k
    BY <1>1, <1>2, <1>13, <2>1 DEF Executed
  <2>2. CASE x # k
    <3>1. store'[x] = store[x]
      BY <1>8, <2>2
    <3>2. Executed(store[x].source, x, store[x].digest)
      BY <3>1 DEF IInv, StoreBacked
    <3>3. QED BY <1>12, <3>1, <3>2, ExecutedGrows DEF Executed
  <2>3. QED BY <2>1, <2>2
<1>15. Shape(c)'
  BY <1>2, <1>4, <1>5, ExecutorAssumption DEF Shape
<1>16. Backed(c)'
  <2>0. /\ q' = q /\ q.key # None
        /\ store'[k] # None /\ store'[k].digest = RequestDigest(q)
    BY <1>1, <1>5, <1>7, <1>8 DEF Keyed
  <2>1. Stored(q)'
    BY <2>0 DEF Stored, Known, Conflicting, Keyed, RequestDigest, CacheKey
  <2>2. QED BY <1>2, <1>5, <2>1 DEF Backed, Stored, Known, Conflicting, Keyed,
                                  RequestDigest, CacheKey
<1>17. QED
  BY <1>5, <1>6, <1>9, <1>10, <1>12, <1>14, <1>15, <1>16, StepInv

\* A replay is audited once more before it is returned.
LEMMA EndReplayInv ==
  ASSUME IInv, NEW c \in Callers, EndReplay(c)
  PROVE  IInv' /\ KeysKept
<1> DEFINE g == call[c]
<1>1. /\ g.phase = "replayed" /\ Audited(c)
      /\ Goes(c, "returned", "SUCCESS", g.source)
      /\ UNCHANGED <<registryVars, store>>
      /\ Event(c) = "IDEMPOTENT_REPLAY"
  BY DEF EndReplay, Event
<1>2. /\ g.status = "SUCCESS" /\ g.source \in Callers /\ g.source # c
      /\ g.request \in Requests /\ trail[c] = {"REQUESTED", "SUCCESS"}
      /\ Keyed(g.request) /\ Stored(g.request)
      /\ Executed(g.source, CacheKey(g.request), RequestDigest(g.request))
  BY <1>1 DEF IInv, Shape, Backed
<1>3. "returned" \in Phases /\ "SUCCESS" \in Statuses
  BY DEF Phases, Statuses
<1>4. /\ call'[c].phase = "returned" /\ call'[c].status = "SUCCESS"
      /\ call'[c].source = g.source /\ call'[c].request = g.request
      /\ \A d \in Callers : call'[d].request = call[d].request
  BY <1>1, <1>2, <1>3, GoesFields DEF IInv
<1>5. /\ trail'[c] = {"REQUESTED", "SUCCESS", "IDEMPOTENT_REPLAY"}
      /\ \A d \in Callers : trail[d] \subseteq trail'[d]
  BY <1>1, <1>2, AuditedFields DEF IInv
<1>6. Shape(c)'
  BY <1>2, <1>3, <1>4, <1>5, ExecutorAssumption DEF Shape
<1>7. Grows
  BY <1>1, <1>4, <1>5 DEF Grows, KeysKept
<1>8. Backed(c)'
  <2>1. Executed(g.source, CacheKey(g.request), RequestDigest(g.request))'
    BY <1>2, <1>4, <1>7, ExecutedGrows
  <2>2. Stored(g.request)'
    BY <1>1, <1>2, <1>4 DEF Stored, Known, Conflicting
  <2>3. QED BY <1>2, <1>4, <2>1, <2>2 DEF Backed
<1>9. QED BY <1>1, <1>2, <1>3, <1>6, <1>8, MoveInv

\* An append that fails, whether its event was recorded or not.
LEMMA AuditFailsInv ==
  ASSUME IInv, NEW c \in Callers, AuditFails(c)
  PROVE  IInv' /\ KeysKept
<1> DEFINE g == call[c]
<1>1. /\ g.phase \in {"requested", "closing", "replayed"}
      /\ Goes(c, "raised", g.status, g.source)
      /\ Audited(c) \/ UNCHANGED trail
      /\ UNCHANGED <<registryVars, store>>
  BY DEF AuditFails
<1>2. /\ g.request \in Requests
      /\ g.status \in Statuses \cup {"NONE"}
      /\ g.source \in Callers \cup {None}
      /\ g.source # None => g.status = "SUCCESS"
      /\ g.phase = "requested" => trail[c] = {}
      /\ g.phase = "closing" =>
           trail[c] = {"REQUESTED"} /\ g.status \in Statuses
      /\ g.phase = "replayed" =>
           trail[c] = {"REQUESTED", "SUCCESS"} /\ g.status = "SUCCESS"
  BY <1>1 DEF IInv, Shape, Tables, Call
<1>3. "raised" \in Phases /\ "SUCCESS" \in Statuses
  BY DEF Phases, Statuses
<1>4. Event(c) \in Statuses \cup {"REQUESTED", "IDEMPOTENT_REPLAY"}
  BY <1>1, <1>2 DEF Event
<1>5. /\ call'[c].phase = "raised" /\ call'[c].status = g.status
      /\ call'[c].source = g.source /\ call'[c].request = g.request
      /\ \A d \in Callers : call'[d].request = call[d].request
  BY <1>1, <1>2, <1>3, GoesFields DEF IInv
<1>6. /\ trail'[c] \in {trail[c], trail[c] \cup {Event(c)}}
      /\ \A d \in Callers : trail[d] \subseteq trail'[d]
  BY <1>1, <1>4, AuditedFields DEF IInv
<1>7. \E o \in Statuses :
        /\ trail'[c] \subseteq {"REQUESTED", o, "IDEMPOTENT_REPLAY"}
        /\ trail'[c] # {} => "REQUESTED" \in trail'[c]
  <2>1. CASE g.phase = "requested"
    BY <1>2, <1>3, <1>6, <2>1 DEF Event
  <2>2. CASE g.phase = "closing"
    BY <1>2, <1>6, <2>2 DEF Event
  <2>3. CASE g.phase = "replayed"
    BY <1>2, <1>3, <1>6, <2>3 DEF Event
  <2>4. QED BY <1>1, <2>1, <2>2, <2>3
<1>8. Shape(c)'
  BY <1>2, <1>5, <1>7, ExecutorAssumption DEF Shape
<1>9. Grows
  BY <1>1, <1>5, <1>6 DEF Grows, KeysKept
<1>10. Backed(c)'
  <2> SUFFICES ASSUME g.status = "SUCCESS" PROVE Backed(c)'
    BY <1>5 DEF Backed
  <2>1. /\ g.source \in Callers
        /\ g.source # c =>
             /\ Keyed(g.request)
             /\ Stored(g.request)
             /\ Executed(g.source, CacheKey(g.request), RequestDigest(g.request))
    BY DEF IInv, Backed
  <2>2. Executed(g.source, CacheKey(g.request), RequestDigest(g.request)) =>
        Executed(g.source, CacheKey(g.request), RequestDigest(g.request))'
    BY <1>5, <1>9, ExecutedGrows
  <2>3. Stored(g.request) => Stored(g.request)'
    BY <1>1, <1>5 DEF Stored, Known, Conflicting
  <2>4. QED BY <1>2, <1>5, <2>1, <2>2, <2>3 DEF Backed
<1>11. QED BY <1>1, <1>2, <1>3, <1>4, <1>8, <1>10, MoveInv

-----------------------------------------------------------------------------
(* The specification. *)

\* Every action preserves the invariant and keeps the keys.
LEMMA NextInv ==
  ASSUME IInv, [Next]_vars
  PROVE  IInv' /\ [KeysKept]_vars
<1>1. ASSUME NEW c \in Callers, Execute(c)
      PROVE  IInv' /\ KeysKept
  BY <1>1, ReceiveInv, NoOutputInv, ReplayInv, AdapterInv, CloseInv,
     CloseAndStoreInv, EndReplayInv, AuditFailsInv DEF Execute, Progress
<1>2. CASE RegistryNext /\ UNCHANGED <<call, store, trail>>
  <2>1. RegistryInv'
    BY <1>2, RegistryNextInv DEF IInv
  <2>2. Tables' /\ StoreBacked' /\ \A c \in Callers : Shape(c)' /\ Backed(c)'
    BY <1>2 DEF IInv, Tables, StoreBacked, Executed, Shape, Backed, Stored,
                Known, Conflicting
  <2>3. KeysKept
    BY <1>2 DEF KeysKept
  <2>4. QED BY <2>1, <2>2, <2>3 DEF IInv
<1>3. CASE UNCHANGED vars
  <2>1. RegistryInv'
    BY <1>3 DEF vars, IInv, RegistryInv, RegistryTypeOK, MakerChecker, Pending
  <2>2. Tables' /\ StoreBacked' /\ \A c \in Callers : Shape(c)' /\ Backed(c)'
    BY <1>3 DEF vars, IInv, Tables, StoreBacked, Executed, Shape, Backed,
                Stored, Known, Conflicting
  <2>3. QED BY <1>3, <2>1, <2>2 DEF IInv
<1>4. QED BY <1>1, <1>2, <1>3 DEF Next

\* Nothing has been asked, stored or audited.
LEMMA InitInv == Init => IInv
<1> SUFFICES ASSUME Init PROVE IInv
  OBVIOUS
<1>1. Idle \in Call
  BY DEF Idle, Call, Phases
<1>2. Tables
  BY <1>1 DEF Init, Tables
<1>3. \A c \in Callers : Shape(c) /\ Backed(c)
  BY DEF Init, Shape, Backed, Idle
<1>4. StoreBacked
  BY DEF Init, StoreBacked
<1>5. QED BY <1>2, <1>3, <1>4, RegistryInitInv DEF Init, IInv

\* The inductive invariant of the executor.
LEMMA Invariance == Spec => []IInv
<1>1. IInv /\ [Next]_vars => IInv'
  BY NextInv
<1>2. QED BY InitInv, <1>1, PTL DEF Spec

\* The registry, the calls, the store and the trail keep their types.
THEOREM ExecutorTypeCorrect == Spec => []TypeOK
<1>1. IInv => TypeOK
  BY DEF IInv, RegistryInv, Tables, TypeOK
<1>2. QED BY Invariance, <1>1, PTL

\* Nor do requests, executed and replayed meanwhile, change who approved a tool.
THEOREM MakersNeverApproveExecuted == Spec => []MakerChecker
<1>1. IInv => MakerChecker
  BY DEF IInv, RegistryInv
<1>2. QED BY Invariance, <1>1, PTL

\* execute() never answers with the output of another request.
THEOREM OutputsAreFaithful == Spec => []OutputsFaithful
<1>1. ASSUME IInv PROVE OutputsFaithful
  <2> SUFFICES ASSUME NEW c \in Callers, call[c].status = "SUCCESS"
               PROVE  LET s == call[c].source
                      IN  /\ s # None
                          /\ SameRequest(call[s].request, call[c].request)
                          /\ s # c => /\ call[s].request.key = call[c].request.key
                                      /\ Keyed(call[c].request)
                                      /\ "SUCCESS" \in trail[s]
    BY DEF OutputsFaithful
  <2> DEFINE s == call[c].source
  <2>1. /\ s \in Callers
        /\ s # c =>
             /\ Keyed(call[c].request)
             /\ Executed(s, CacheKey(call[c].request), RequestDigest(call[c].request))
    BY <1>1 DEF IInv, Backed
  <2>2. CASE s = c
    BY <2>1, <2>2, ExecutorAssumption DEF SameRequest
  <2>3. CASE s # c
    BY <2>1, <2>3, ExecutorAssumption
       DEF SameRequest, Executed, CacheKey, RequestDigest
  <2>4. QED BY <2>2, <2>3
<1>2. QED BY Invariance, <1>1, PTL

\* A keyed success is stored before it is returned, and its record is never
\* lost or replaced by another request's.
THEOREM ReturnedAreStored == Spec => []ReturnedIsStored
<1>1. IInv => ReturnedIsStored
  BY DEF IInv, Backed, Stored, ReturnedIsStored
<1>2. QED BY Invariance, <1>1, PTL

\* The audit trail of a call that has been answered is complete and has one
\* outcome, whichever appends of other calls fail.
THEOREM AnsweredAreAudited == Spec => []AnsweredIsAudited
<1>1. ASSUME IInv PROVE AnsweredIsAudited
  <2> SUFFICES ASSUME NEW c \in Callers
               PROVE  LET outcomes == trail[c] \cap Statuses
                      IN  /\ \A o, p \in outcomes : o = p
                          /\ outcomes # {} => "REQUESTED" \in trail[c]
                          /\ call[c].phase = "returned" =>
                               /\ outcomes = {call[c].status}
                               /\ "IDEMPOTENT_REPLAY" \in trail[c] <=>
                                    call[c].source \notin {None, c}
    BY DEF AnsweredIsAudited
  <2>1. Shape(c) /\ call[c].phase \in Phases
    BY <1>1 DEF IInv, Tables, Call
  <2>2. "REQUESTED" \notin Statuses /\ "IDEMPOTENT_REPLAY" \notin Statuses
    BY DEF Statuses
  <2>3. CASE call[c].phase \in {"idle", "requested", "running", "closing"}
    BY <2>1, <2>2, <2>3 DEF Shape
  <2>4. CASE call[c].phase \in {"replayed", "returned"}
    BY <2>1, <2>2, <2>4 DEF Shape, Statuses
  <2>5. CASE call[c].phase = "raised"
    BY <2>1, <2>2, <2>5 DEF Shape
  <2>6. QED BY <2>1, <2>3, <2>4, <2>5 DEF Phases
<1>2. QED BY Invariance, <1>1, PTL

\* A key stays with the immutable request that was stored under it first.
THEOREM KeysStayBound == Spec => KeysBelong
<1>1. Spec => [][KeysKept]_vars
  BY Invariance, NextInv, PTL DEF Spec
<1>2. [KeysKept]_vars <=> [\A k \in CacheKeys : store[k] # None =>
          /\ store'[k] # None
          /\ store'[k].digest = store[k].digest]_vars
  BY DEF KeysKept
<1>3. QED BY <1>1, <1>2, PTL DEF KeysBelong

-----------------------------------------------------------------------------
(* Keys and executions. *)

\* An invocation is moved by its own steps only.
LEMMA OthersStay ==
  ASSUME IInv, NEW e \in Callers, Execute(e), NEW c \in Callers \ {e}
  PROVE  call'[c] = call[c]
BY DEF Execute, Progress, Receive, Deny, Reject, Replay, StartAdapter,
       AdapterReturns, AdapterFails, AdapterTimesOut, AdapterAborts, Close,
       CloseAndStore, CloseConflicting, EndReplay, AuditFails, Goes, IInv, Tables

\* An adapter is started by StartAdapter only, so after all checks.
LEMMA StartsAdapter ==
  ASSUME IInv, Next, NEW c \in Callers, Starts(c)
  PROVE  StartAdapter(c)
<1>1. CASE RegistryNext /\ UNCHANGED <<call, store, trail>>
  BY <1>1 DEF Starts
<1>2. ASSUME NEW e \in Callers, Execute(e) PROVE StartAdapter(c)
  <2>1. e = c
    BY <1>2, OthersStay DEF Starts
  <2>2. QED
    BY <1>2, <2>1 DEF Execute, Progress, Receive, Deny, Reject, Replay,
       StartAdapter, AdapterReturns, AdapterFails, AdapterTimesOut,
       AdapterAborts, Adapter, Close, CloseAndStore, CloseConflicting, Closing,
       EndReplay, AuditFails, Goes, Starts, IInv, Tables, Call, Idle
<1>3. QED BY <1>1, <1>2 DEF Next

\* Whoever has been told of a success is never executed again: the success is in
\* the store (ReturnedIsStored), and no adapter is started under a stored key.
THEOREM AnsweredAreNeverRerun == Spec => AnsweredNeverRerun
<1>1. ASSUME IInv, Next, NEW c \in Callers, NEW d \in Callers, Starts(c),
             Answered(d, call[c].request)
      PROVE  FALSE
  <2> DEFINE q == call[c].request
             p == call[d].request
  <2>1. /\ p \in Requests /\ Keyed(p) /\ Known(p)
        /\ CacheKey(p) = CacheKey(q)
    BY <1>1 DEF IInv, Backed, Stored, Answered
  <2>2. q.key = p.key
    BY <2>1, ExecutorAssumption DEF CacheKey
  <2>3. Known(q)
    BY <2>1, <2>2 DEF Known, Keyed
  <2>4. QED BY <1>1, <2>3, StartsAdapter DEF StartAdapter
<1>2. ASSUME IInv, [Next]_vars
      PROVE  [\A c, d \in Callers : Starts(c) => ~Answered(d, call[c].request)]_vars
  BY <1>1, <1>2
<1>3. QED BY Invariance, <1>2, PTL DEF Spec, AnsweredNeverRerun

\* Invocation c is executing the adapter, or has and is auditing its success.
Executing(c) ==
  \/ call[c].phase = "running"
  \/ call[c].phase = "closing" /\ call[c].source = c

SameKey(c, d) ==
  /\ Keyed(call[c].request)
  /\ Keyed(call[d].request)
  /\ CacheKey(call[c].request) = CacheKey(call[d].request)

\* What execute() would get from a reservation of the key: no two invocations
\* execute under one key at a time.
Exclusive ==
  \A c, d \in Callers : Executing(c) /\ Executing(d) /\ SameKey(c, d) => c = d

\* No keyed success is lost to a failing append of its event.
NoneLost ==
  \A c \in Callers :
    call[c].phase = "raised" /\ Keyed(call[c].request) => call[c].source # c

\* Under that discipline a key is unknown while it is executed, and its record
\* is that of its one successful execution.
Reserved(c) ==
  Keyed(call[c].request) =>
    /\ Executing(c) => ~Known(call[c].request)
    /\ call[c].phase = "returned" /\ call[c].source = c =>
         /\ Known(call[c].request)
         /\ store[CacheKey(call[c].request)].source = c

KeyInv == \A c \in Callers : Reserved(c)

\* An invocation that neither moves nor meets a record of its key.
LEMMA ReservedStays ==
  ASSUME NEW c \in Callers, Reserved(c), call'[c] = call[c],
         Keyed(call[c].request) =>
           store'[CacheKey(call[c].request)] = store[CacheKey(call[c].request)]
  PROVE  Reserved(c)'
BY DEF Reserved, Executing, Known, Keyed, CacheKey

\* Steps other than that of CloseAndStore leave the store alone, and begin an
\* execution only under an unknown key.
LEMMA KeyStepInv ==
  ASSUME IInv, KeyInv, NEW c \in Callers, Execute(c), ~CloseAndStore(c)
  PROVE  KeyInv'
<1>1. store' = store
  BY DEF Execute, Progress, Receive, Deny, Reject, Replay, StartAdapter, Checking,
         AdapterReturns, AdapterFails, AdapterTimesOut, AdapterAborts, Adapter,
         Close, CloseConflicting, EndReplay, AuditFails
<1>2. ASSUME NEW d \in Callers \ {c} PROVE Reserved(d)'
  BY <1>1, OthersStay, ReservedStays DEF KeyInv
<1>3. c # None
  BY ExecutorAssumption
<1>4. Reserved(c)'
  <2> DEFINE g == call[c]
  <2>1. /\ g \in Call /\ Shape(c) /\ Reserved(c)
    BY DEF IInv, Tables, KeyInv
  <2>2. ASSUME NEW q \in Requests, Receive(c, q) PROVE Reserved(c)'
    BY <2>1, <2>2 DEF Receive, Reserved, Executing, IInv, Tables, Idle
  <2>3. ASSUME Deny(c) \/ Reject(c) PROVE Reserved(c)'
    BY <1>3, <2>1, <2>3 DEF Deny, Reject, Goes, Reserved, Executing, IInv, Tables,
       Call
  <2>4. ASSUME Replay(c) PROVE Reserved(c)'
    <3>1. store[CacheKey(g.request)].source # c
      <4>1. /\ g.request \in Requests /\ Known(g.request)
            /\ g.phase = "requested" /\ trail[c] = {}
        BY <2>1, <2>4 DEF Replay, Checking, Shape, Call
      <4>2. "SUCCESS" \in trail[store[CacheKey(g.request)].source]
        BY <4>1, KeyFacts DEF IInv, StoreBacked, Executed, Known
      <4>3. QED BY <4>1, <4>2
    <3>2. QED
      BY <2>1, <2>4, <3>1 DEF Replay, Goes, Reserved, Executing, IInv, Tables, Call
  <2>5. ASSUME StartAdapter(c) PROVE Reserved(c)'
    BY <1>1, <2>1, <2>5 DEF StartAdapter, Goes, Reserved, Executing, Known, Keyed,
       IInv, Tables, Call
  <2>6. ASSUME AdapterReturns(c) PROVE Reserved(c)'
    BY <1>1, <2>1, <2>6 DEF AdapterReturns, Adapter, Goes, Reserved, Executing,
       Known, Keyed, IInv, Tables, Call
  <2>7. ASSUME AdapterFails(c) \/ AdapterTimesOut(c) \/ AdapterAborts(c)
        PROVE  Reserved(c)'
    BY <1>3, <2>1, <2>7 DEF AdapterFails, AdapterTimesOut, AdapterAborts, Adapter,
       Goes, Reserved, Executing, IInv, Tables, Call
  <2>8. ASSUME Close(c) PROVE Reserved(c)'
    BY <1>3, <2>1, <2>8 DEF Close, Closing, Stores, Goes, Reserved, Executing,
       Keyed, Shape, IInv, Tables, Call
  <2>9. ASSUME CloseConflicting(c) \/ AuditFails(c) PROVE Reserved(c)'
    BY <2>1, <2>9 DEF CloseConflicting, AuditFails, Goes, Reserved, Executing,
       IInv, Tables, Call
  <2>10. ASSUME EndReplay(c) PROVE Reserved(c)'
    BY <2>1, <2>10 DEF EndReplay, Goes, Reserved, Executing, Shape, IInv, Tables,
       Call
  <2>11. QED
    BY <2>2, <2>3, <2>4, <2>5, <2>6, <2>7, <2>8, <2>9, <2>10
       DEF Execute, Progress
<1>5. QED BY <1>2, <1>4 DEF KeyInv

\* The success that is stored is the only execution under its key.
LEMMA KeyStoreInv ==
  ASSUME IInv, KeyInv, Exclusive, NEW c \in Callers, CloseAndStore(c)
  PROVE  KeyInv'
<1> DEFINE q == call[c].request
           k == CacheKey(q)
           r == [digest |-> RequestDigest(q), source |-> c]
<1>1. /\ Closing(c) /\ call[c].source = c /\ Keyed(q)
      /\ store' = [store EXCEPT ![k] = r]
      /\ Goes(c, "returned", "SUCCESS", c)
  BY DEF CloseAndStore, Stores
<1>2. q \in Requests /\ Executing(c)
  BY <1>1, ClosingFacts DEF Executing
<1>3. ~Known(q)
  BY <1>1, <1>2 DEF KeyInv, Reserved
<1>4. k \in CacheKeys
  BY <1>1, <1>2, KeyFacts
<1>5. r # None /\ r.source = c
  BY <1>2, ExecutorAssumption DEF IdempotencyRecord
<1> HIDE DEF r
<1>6. store'[k] = r /\ \A x \in CacheKeys \ {k} : store'[x] = store[x]
  BY <1>1, <1>4 DEF IInv, Tables
<1>7. /\ call'[c].phase = "returned" /\ call'[c].request = q
  BY <1>1, GoesFields DEF IInv, Phases, Statuses
<1>8. Reserved(c)'
  BY <1>1, <1>5, <1>6, <1>7 DEF Reserved, Executing, Known, Keyed, CacheKey
<1>9. ASSUME NEW d \in Callers \ {c} PROVE Reserved(d)'
  <2>1. Reserved(d) /\ call'[d] = call[d]
    BY <1>1 DEF KeyInv, Goes, IInv, Tables
  <2>2. CASE ~Keyed(call[d].request)
    BY <2>1, <2>2 DEF Reserved, Keyed
  <2>3. CASE Keyed(call[d].request) /\ CacheKey(call[d].request) = k
    <3>1. ~Executing(d)
      BY <1>1, <1>2, <2>3 DEF Exclusive, SameKey
    <3>2. ~(call[d].phase = "returned" /\ call[d].source = d)
      BY <1>1, <1>3, <2>1, <2>3 DEF Reserved, Known
    <3>3. QED BY <2>1, <3>1, <3>2 DEF Reserved, Executing
  <2>4. CASE Keyed(call[d].request) /\ CacheKey(call[d].request) # k
    <3>1. call[d].request \in Requests \/ call[d].phase = "idle"
      BY DEF IInv, Tables, Call, Shape
    <3>2. CASE call[d].request \in Requests
      BY <1>6, <2>1, <2>4, <3>2, KeyFacts, ReservedStays
    <3>3. CASE call[d].phase = "idle"
      BY <2>1, <3>3 DEF Reserved, Executing
    <3>4. QED BY <3>1, <3>2, <3>3
  <2>5. QED BY <2>2, <2>3, <2>4
<1>10. QED BY <1>8, <1>9 DEF KeyInv

\* What the violated KeyExecutesOnce (run tool_replay) lacks is a reservation of
\* the key: if no two invocations execute under one key at a time, and no success
\* is lost to a failing append, then a key executes successfully at most once.
THEOREM ReservedKeysExecuteOnce ==
  Spec /\ [](Exclusive /\ NoneLost) => []KeyExecutesOnce
<1>1. Init => KeyInv
  BY DEF Init, KeyInv, Reserved, Executing, Idle
<1>2. IInv /\ Exclusive /\ KeyInv /\ [Next]_vars => KeyInv'
  <2> SUFFICES ASSUME IInv, Exclusive, KeyInv, [Next]_vars
               PROVE  KeyInv'
    OBVIOUS
  <2>1. CASE UNCHANGED <<call, store>>
    BY <2>1, ReservedStays DEF KeyInv
  <2>2. ASSUME NEW c \in Callers, Execute(c) PROVE KeyInv'
    BY <2>2, KeyStepInv, KeyStoreInv
  <2>3. QED BY <2>1, <2>2 DEF Next, vars
<1>3. ASSUME IInv, KeyInv, Exclusive, NoneLost
      PROVE  KeyExecutesOnce
  <2> SUFFICES ASSUME NEW c \in Callers, NEW d \in Callers, SameKey(c, d),
                      call[c].source = c, call[d].source = d
               PROVE  c = d
    BY DEF KeyExecutesOnce, SameKey
  <2>1. ASSUME NEW e \in {c, d}
        PROVE  Executing(e) \/ call[e].phase = "returned"
    BY <1>3, <2>1, ExecutorAssumption
       DEF IInv, Tables, Call, Phases, Shape, NoneLost, SameKey, Executing
  <2>2. Reserved(c) /\ Reserved(d)
    BY <1>3 DEF KeyInv
  <2>3. Known(call[c].request) <=> Known(call[d].request)
    BY DEF SameKey, Known
  <2>4. CASE Executing(c) /\ Executing(d)
    BY <1>3, <2>4 DEF Exclusive
  <2>5. CASE call[c].phase = "returned" /\ call[d].phase = "returned"
    BY <2>2, <2>5 DEF Reserved, SameKey
  <2>6. QED BY <2>1, <2>2, <2>3, <2>4, <2>5 DEF Reserved, SameKey
<1>4. QED BY Invariance, <1>1, <1>2, <1>3, PTL DEF Spec

-----------------------------------------------------------------------------
(* Disabled tools. *)

\* A tool that was disabled is still, and no operation announces otherwise, as
\* long as operations on it have not overlapped.
DisabledInv ==
  /\ disabled \subseteq Tools
  /\ \A t \in Tools \ raced :
       /\ t \in disabled => tools[t].state \in Off
       /\ \A m \in Admins :
            change[m].tool = t /\ tools[t].state \in Off =>
              change[m].updated.state \in Off

\* What HistoryNext does to the history variables.
Remembers ==
  /\ disabled' = disabled \cup {t \in Tools : tools[t].state \in Off}
  /\ raced' = raced \cup {t \in Tools : Overlapping(t)}

\* No operation leads out of SUSPENDED and RETIRED.
LEMMA OperationKeepsOff ==
  ASSUME RegistryInv, DisabledInv, NEW m \in Admins, NEW t \in Tools,
         Operation(m, t), Remembers
  PROVE  DisabledInv'
<1>1. PICK g : Announce(m, t, g) /\ (tools[t].state \in Off => g.state \in Off)
  <2>1. tools[t] \in ToolRegistration
    BY DEF RegistryInv, RegistryTypeOK
  <2>2. ASSUME NEW a \in Actors, Approve(m, t, a)
        PROVE  tools[t].state \notin Off /\ \E g : Announce(m, t, g)
    <3>1. tools[t].state \notin Off
      BY <2>2 DEF Approve, Off
    <3>2. \E g : Announce(m, t, g)
      BY <2>2, Zenon DEF Approve
    <3>3. QED BY <3>1, <3>2
  <2>3. ASSUME NEW a \in Actors, NEW d \in Drafts, RegisterDraft(m, t, a, d)
        PROVE  tools[t].state \notin Off /\ \E g : Announce(m, t, g)
    <3>1. tools[t].state \notin Off
      BY <2>3 DEF RegisterDraft, Off
    <3>2. \E g : Announce(m, t, g)
      BY <2>3, Zenon DEF RegisterDraft
    <3>3. QED BY <3>1, <3>2
  <2>4. ASSUME Activate(m, t) \/ SuspendTool(m, t) \/ ActivateKillSwitch(m, t)
        PROVE  tools[t].state \notin Off /\ \E g : Announce(m, t, g)
    <3>1. tools[t].state \notin Off
      BY <2>4 DEF Activate, SuspendTool, ActivateKillSwitch, Off
    <3>2. Activate(m, t) => \E g : Announce(m, t, g)
      BY Zenon DEF Activate
    <3>3. SuspendTool(m, t) => \E g : Announce(m, t, g)
      BY Zenon DEF SuspendTool
    <3>4. ActivateKillSwitch(m, t) => \E g : Announce(m, t, g)
      BY Zenon DEF ActivateKillSwitch
    <3>5. QED BY <2>4, <3>1, <3>2, <3>3, <3>4
  <2>5. ASSUME Retire(m, t)
        PROVE  \E g : Announce(m, t, g) /\ g.state \in Off
    <3> DEFINE h == [tools[t] EXCEPT !.state = "RETIRED", !.allowlisted = FALSE]
    <3>1. Announce(m, t, h)
      BY <2>5 DEF Retire
    <3>2. h.state \in Off
      BY <2>1 DEF Off, ToolRegistration
    <3> HIDE DEF h
    <3>3. QED BY <3>1, <3>2
  <2>6. ASSUME ClearKillSwitch(m, t)
        PROVE  \E g : Announce(m, t, g) /\ g.state = tools[t].state
    BY <2>1, <2>6 DEF ClearKillSwitch, ToolRegistration
  <2>7. QED BY <2>2, <2>3, <2>4, <2>5, <2>6 DEF Operation
<1> DEFINE e == [tool |-> t, updated |-> g]
<1>2. /\ tools' = tools
      /\ \A n \in Admins : change'[n] = IF n = m THEN e ELSE change[n]
  BY <1>1 DEF Announce, RegistryInv, RegistryTypeOK
<1>3. e.tool = t /\ e.updated = g
  OBVIOUS
<1> HIDE DEF e
<1>4. QED BY <1>1, <1>2, <1>3 DEF DisabledInv, Remembers

\* A late write, when it is the only one on its tool, writes what was announced
\* over the registration it was announced for.
LEMMA WriteKeepsOff ==
  ASSUME RegistryInv, DisabledInv, NEW m \in Admins, Write(m) \/ GiveUp(m),
         Remembers
  PROVE  DisabledInv'
<1> DEFINE e == change[m]
<1>1. /\ e.tool \in Tools
      /\ \A n \in Admins : change'[n] = IF n = m THEN NoChange ELSE change[n]
  BY DEF Write, GiveUp, RegistryInv, RegistryTypeOK, Pending
<1>2. \A t \in Tools : tools'[t] = IF Write(m) /\ t = e.tool THEN e.updated
                                                          ELSE tools[t]
  BY <1>1 DEF Write, GiveUp, RegistryInv, RegistryTypeOK
<1>3. disabled' \subseteq Tools
  BY DEF DisabledInv, Remembers
<1>4. ASSUME NEW t \in Tools \ raced'
      PROVE  /\ t \in disabled' => tools'[t].state \in Off
             /\ \A n \in Admins :
                  change'[n].tool = t /\ tools'[t].state \in Off =>
                    change'[n].updated.state \in Off
  <2>1. t \in Tools \ raced /\ ~Overlapping(t)
    BY <1>4 DEF Remembers
  <2>2. t \in disabled' => tools'[t].state \in Off
    BY <1>2, <2>1 DEF DisabledInv, Remembers
  <2>3. ASSUME NEW n \in Admins, change'[n].tool = t, tools'[t].state \in Off
        PROVE  change'[n].updated.state \in Off
    <3>1. n # m /\ change'[n] = change[n]
      BY <1>1, <2>3, RegistryAssumption DEF NoChange
    <3>2. e.tool # t
      BY <2>1, <2>3, <3>1 DEF Overlapping
    <3>3. tools'[t] = tools[t]
      BY <1>2, <3>2
    <3>4. QED BY <2>1, <2>3, <3>1, <3>3 DEF DisabledInv
  <2>4. QED BY <2>2, <2>3
<1>5. QED BY <1>3, <1>4 DEF DisabledInv

\* What the violated DisabledNeverRuns (run tool_retired) lacks is a serialization
\* of the lifecycle operations of the tool itself: unless two of them have
\* overlapped, the adapter of a tool that was suspended or retired is never started
\* again, however many requests, operations on other tools and failing appends
\* there are.
THEOREM DisabledStayOff == HistorySpec => UnracedNeverRuns
<1>1. HistorySpec => []IInv
  <2>1. HistoryInit => Init
    BY DEF HistoryInit
  <2>2. [HistoryNext]_historyVars => [Next]_vars
    BY DEF HistoryNext, historyVars
  <2>3. QED BY Invariance, <2>1, <2>2, PTL DEF HistorySpec, Spec
<1>2. HistoryInit => DisabledInv
  BY RegistryAssumption DEF HistoryInit, Init, RegistryInit, NoChange, DisabledInv
<1>3. IInv /\ DisabledInv /\ [HistoryNext]_historyVars => DisabledInv'
  <2> SUFFICES ASSUME IInv, DisabledInv, [HistoryNext]_historyVars
               PROVE  DisabledInv'
    OBVIOUS
  <2>1. RegistryInv
    BY DEF IInv
  <2>2. HistoryNext => Remembers
    BY DEF HistoryNext, Remembers
  <2>3. CASE HistoryNext /\ RegistryNext
    BY <2>1, <2>2, <2>3, OperationKeepsOff, WriteKeepsOff DEF RegistryNext
  <2>4. CASE HistoryNext /\ UNCHANGED registryVars
    BY <2>2, <2>4 DEF Remembers, registryVars, DisabledInv
  <2>5. CASE UNCHANGED historyVars
    BY <2>5 DEF historyVars, vars, DisabledInv
  <2>6. ASSUME NEW c \in Callers, Execute(c) PROVE UNCHANGED registryVars
    BY <2>6 DEF Execute, Progress, Receive, Deny, Reject, Replay, StartAdapter,
       Checking, AdapterReturns, AdapterFails, AdapterTimesOut, AdapterAborts,
       Adapter, Close, CloseAndStore, CloseConflicting, Closing, EndReplay,
       AuditFails
  <2>7. QED BY <2>3, <2>4, <2>5, <2>6 DEF HistoryNext, Next
<1>4. ASSUME IInv, DisabledInv, [HistoryNext]_historyVars
      PROVE  [\A c \in Callers : Starts(c) =>
                call[c].request.tool \notin disabled \ raced]_historyVars
  <2> SUFFICES ASSUME HistoryNext, NEW c \in Callers, Starts(c)
               PROVE  call[c].request.tool \notin disabled \ raced
    BY <1>4
  <2>1. Executable(call[c].request.tool)
    BY <1>4, StartsAdapter DEF HistoryNext, StartAdapter, Denied
  <2>2. QED BY <1>4, <2>1 DEF Executable, DisabledInv, Off
<1>5. QED BY <1>1, <1>2, <1>3, <1>4, PTL DEF HistorySpec, UnracedNeverRuns

=============================================================================
