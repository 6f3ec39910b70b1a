--------------------------- MODULE VersionedRegistry ---------------------------
(***************************************************************************)
(* The registry of versioned contract definitions, src/alos/registry.py,   *)
(* over the SQL store of src/alos/persistence/registry.py: the base of the *)
(* agent and the skill registry.                                           *)
(*                                                                         *)
(* A transition is checked against the process's cache, saved and cached   *)
(* under one lock, and audited after the lock is released.  A save may     *)
(* fail before it is committed, or raise although it is committed: its     *)
(* acknowledgement is lost, or its caller is cancelled.  A restart loses   *)
(* the cache and every call, and hydrates the cache from the store.        *)
(***************************************************************************)
EXTENDS Naturals

CONSTANTS
  Versions,    \* tenant, workspace, subject_id and version of a definition
  Digests,     \* digests of payloads
  Decisions,   \* decision_ids, but the empty string
  Releases,    \* release_ids, but the empty string
  Calls,       \* concurrent invocations of the operations
  None         \* Python's None

ASSUME RegistryAssumption == None \notin Digests \cup Decisions \cup Releases

VARIABLES
  cache,   \* _entries
  store,   \* the table registry_definitions
  trail,   \* the events of the audit sink
  call     \* the invocations

vars == <<cache, store, trail, call>>

RegistryState == {"DRAFT", "APPROVED", "ACTIVE", "SUSPENDED", "RETIRED"}

\* A version that has no entry is "ABSENT".
RegistryEntry ==
  [digest: Digests \cup {None}, state: RegistryState \cup {"ABSENT"},
   decision: Decisions \cup {None}, release: Releases \cup {None}]

Absent == [digest |-> None, state |-> "ABSENT", decision |-> None,
           release |-> None]

\* The event of a transition names the state it leads to.
Event == [version: Versions, state: RegistryState, digest: Digests]

\* An invocation awaits its save before the commit, after it, or its event.
Phases == {"idle", "saving", "saved", "recording"}

Call == [phase: Phases, version: Versions \cup {None}, entry: RegistryEntry]

Idle == [phase |-> "idle", version |-> None, entry |-> Absent]

Init ==
  /\ cache = [v \in Versions |-> Absent]
  /\ store = [v \in Versions |-> Absent]
  /\ trail = {}
  /\ call = [c \in Calls |-> Idle]

-----------------------------------------------------------------------------
(* The operations up to their save. *)

Locks(c) == call[c].phase \in {"saving", "saved"}

Begin(c, v, entry) ==
  /\ call[c] = Idle
  /\ \A d \in Calls : ~Locks(d)
  /\ call' = [call EXCEPT ![c] = [phase |-> "saving", version |-> v,
                                  entry |-> entry]]
  /\ UNCHANGED <<cache, store, trail>>

\* A version that is cached is returned, or refused when its digest differs.
Register(c, v, d) ==
  /\ cache[v].state = "ABSENT"
  /\ Begin(c, v, [Absent EXCEPT !.state = "DRAFT", !.digest = d])

\* The id that a transition is given, None for the empty string, or the one that
\* the entry has: an empty decision_id or release_id is not refused.
Given(id, current) == IF id = None THEN current ELSE id

Approve(c, v, k) ==
  /\ cache[v].state = "DRAFT"
  /\ Begin(c, v, [cache[v] EXCEPT !.state = "APPROVED",
                                  !.decision = Given(k, cache[v].decision)])

\* Mutant: the ids are passed in the wrong order.
ActivateSwapped(c, v, r) ==
  /\ cache[v].state = "APPROVED"
  /\ Begin(c, v, [cache[v] EXCEPT !.state = "ACTIVE", !.decision = r])

Activate(c, v, r) ==
  /\ cache[v].state = "APPROVED"
  /\ Begin(c, v, [cache[v] EXCEPT !.state = "ACTIVE",
                                  !.release = Given(r, cache[v].release)])

Suspend(c, v) ==
  /\ cache[v].state = "ACTIVE"
  /\ Begin(c, v, [cache[v] EXCEPT !.state = "SUSPENDED"])

(* The save. *)

\* Mutants: the whole row is replaced, as InMemoryRegistryStore does; only its
\* state is updated.
SavedWhole(row, entry) == entry

SavedState(row, entry) ==
  IF row.state = "ABSENT" THEN entry ELSE [row EXCEPT !.state = entry.state]

\* save() inserts an entry, or updates all of its row but the definition.
Saved(row, entry) ==
  IF row.state = "ABSENT" THEN entry ELSE [entry EXCEPT !.digest = row.digest]

\* Mutant: the entry is cached and not saved.
CommitCached(c) ==
  LET v == call[c].version
  IN
  /\ call[c].phase = "saving"
  /\ call' = [call EXCEPT ![c].phase = "saved"]
  /\ cache' = [cache EXCEPT ![v] = call[c].entry]
  /\ UNCHANGED <<store, trail>>

Commit(c) ==
  LET v == call[c].version
  IN
  /\ call[c].phase = "saving"
  /\ store' = [store EXCEPT ![v] = Saved(store[v], call[c].entry)]
  /\ call' = [call EXCEPT ![c].phase = "saved"]
  /\ UNCHANGED <<cache, trail>>

Acknowledge(c) ==
  /\ call[c].phase = "saved"
  /\ cache' = [cache EXCEPT ![call[c].version] = call[c].entry]
  /\ call' = [call EXCEPT ![c].phase = "recording"]
  /\ UNCHANGED <<store, trail>>

\* Mutant: an exception of save() is swallowed.
SaveIgnored(c) ==
  /\ Locks(c)
  /\ call' = [call EXCEPT ![c].phase = "recording"]
  /\ UNCHANGED <<cache, store, trail>>

\* save() raises, or its caller is cancelled, before or after the commit.
SaveFails(c) ==
  /\ Locks(c)
  /\ call' = [call EXCEPT ![c] = Idle]
  /\ UNCHANGED <<cache, store, trail>>

(* The event. *)

Record(c) ==
  LET e == call[c].entry
  IN
  /\ call[c].phase = "recording"
  /\ trail' = trail \cup
       {[version |-> call[c].version, state |-> e.state, digest |-> e.digest]}
  /\ call' = [call EXCEPT ![c] = Idle]
  /\ UNCHANGED <<cache, store>>

\* append() raises: so does the operation, whose transition stands.
RecordFails(c) ==
  /\ call[c].phase = "recording"
  /\ call' = [call EXCEPT ![c] = Idle]
  /\ UNCHANGED <<cache, store, trail>>

\* The process ends at any point and starts again with hydrate().
Restart ==
  /\ cache' = store
  /\ call' = [c \in Calls |-> Idle]
  /\ UNCHANGED <<store, trail>>

-----------------------------------------------------------------------------
Operation(c, v) ==
  \/ \E d \in Digests : Register(c, v, d)
  \/ \E k \in Decisions \cup {None} : Approve(c, v, k)
  \/ \E r \in Releases \cup {None} : Activate(c, v, r)
  \/ Suspend(c, v)

Next ==
  \/ \E c \in Calls :
       \/ \E v \in Versions : Operation(c, v)
       \/ Commit(c)
       \/ Acknowledge(c)
       \/ SaveFails(c)
       \/ Record(c)
       \/ RecordFails(c)
  \/ Restart

Spec == Init /\ [][Next]_vars

-----------------------------------------------------------------------------
(* Properties. *)

\* The types of the cache, the store, the trail and the calls.
TypeOK ==
  /\ cache \in [Versions -> RegistryEntry]
  /\ store \in [Versions -> RegistryEntry]
  /\ trail \subseteq Event
  /\ call \in [Calls -> Call]

Rank(s) ==
  CASE s = "ABSENT" -> 0
    [] s = "DRAFT" -> 1
    [] s = "APPROVED" -> 2
    [] s = "ACTIVE" -> 3
    [] s = "SUSPENDED" -> 4
    [] OTHER -> 5

\* A transition that took effect is never taken back, by a restart least of all:
\* a suspended definition does not become ACTIVE again.
NeverTakenBack ==
  [][\A v \in Versions : Rank(cache[v].state) <= Rank(cache'[v].state)]_vars

\* An event is recorded of durable transitions only: what the trail says of a
\* version survives every restart.
TrailDurable ==
  \A e \in trail : Rank(e.state) <= Rank(store[e.version].state)

\* The store implements the lifecycle of immutable versions.
snapshots == [v \in Versions |->
                [state |-> store[v].state, digest |-> store[v].digest]]

Lifecycle == INSTANCE VersionLifecycle WITH version <- snapshots

ImplementsLifecycle == Lifecycle!LifecycleSpec

\* VersionedContractRegistry, registry.py:93: "retain immutable snapshots".  The
\* definition that the registry serves under a version never changes.
SnapshotsImmutable ==
  [][\A v \in Versions :
       cache[v].state # "ABSENT" => cache'[v].digest = cache[v].digest]_vars

=============================================================================
