------------------------ MODULE VersionedRegistryProofs ------------------------
(***************************************************************************)
(* The safety of the versioned registry for every number of versions and   *)
(* calls.  The store is the cache or one transition ahead of it, whatever  *)
(* fails: a call that holds the lock saves the one transition that leads   *)
(* on from the cache, so saving it again changes nothing but its ids.      *)
(* Those are given where no call was to do without them: the cache, the    *)
(* store and the entry that a call holds pass their gates together.        *)
(*                                                                         *)
(* The last two parts assume that no committed registration is reported as *)
(* failed: then the cache and the store hold one definition of a version,  *)
(* and what the cache serves of it follows the same lifecycle.             *)
(***************************************************************************)
EXTENDS RegistryHistory, TLAPS

Transitions ==
  {<<"ABSENT", "DRAFT">>, <<"DRAFT", "APPROVED">>, <<"APPROVED", "ACTIVE">>,
   <<"ACTIVE", "SUSPENDED">>}

Leads(s, t) == <<s, t>> \in Transitions

\* An entry has a digest exactly when it is registered.
Whole(e) == e.state = "ABSENT" <=> e.digest = None

Entries ==
  \A v \in Versions : Whole(cache[v]) /\ Whole(store[v])

Behind ==
  \A v \in Versions : \/ store[v].state = cache[v].state
                      \/ Leads(cache[v].state, store[v].state)

OneHolder == \A c, d \in Calls : Locks(c) /\ Locks(d) => c = d

\* What a suspended call is about to save, to cache or to record.
Pending(c) ==
  LET v == call[c].version
      e == call[c].entry
  IN
  call[c].phase # "idle" =>
    /\ v \in Versions
    /\ e.state # "ABSENT"
    /\ Whole(e)
    /\ Locks(c) => Leads(cache[v].state, e.state)
    /\ call[c].phase = "saved" => store[v].state = e.state
    /\ call[c].phase = "recording" => Rank(e.state) <= Rank(store[v].state)

IInv ==
  /\ TypeOK
  /\ Entries
  /\ Behind
  /\ OneHolder
  /\ \A c \in Calls : Pending(c)
  /\ TrailDurable

\* NeverTakenBack, as an action.
Rises == \A v \in Versions : Rank(cache[v].state) <= Rank(cache'[v].state)

\* What every step does.
Preserves == IInv' /\ Rises /\ [Lifecycle!LifecycleNext]_snapshots

\* A transition leads upwards.
LEMMA LeadsUp ==
  ASSUME NEW s, NEW t, Leads(s, t)
  PROVE  /\ s # t /\ t # "ABSENT"
         /\ Rank(s) \in Nat /\ Rank(t) \in Nat
         /\ Rank(s) <= Rank(t)
BY DEF Leads, Transitions, Rank

\* From every state at most one transition leads on.
LEMMA LeadsToOne ==
  ASSUME NEW s, NEW t, NEW u, Leads(s, t), Leads(s, u)
  PROVE  t = u
BY DEF Leads, Transitions

LEMMA RankNat ==
  ASSUME NEW s
  PROVE  Rank(s) \in Nat
BY DEF Rank

-----------------------------------------------------------------------------
(* The actions. *)

\* An operation asks for the transition that leads on from the cache.
LEMMA BeginInv ==
  ASSUME IInv, NEW c \in Calls, NEW v \in Versions, NEW e \in RegistryEntry,
         Whole(e), Leads(cache[v].state, e.state),
         Begin(c, v, e)
  PROVE  Preserves
<1> DEFINE g == [phase |-> "saving", version |-> v, entry |-> e]
<1>1. /\ cache' = cache /\ store' = store /\ trail' = trail
      /\ call' = [call EXCEPT ![c] = g]
      /\ \A d \in Calls : ~Locks(d)
  BY DEF Begin
<1>2. /\ g \in Call /\ g.phase = "saving" /\ g.version = v /\ g.entry = e
  BY DEF Call, Phases
<1> HIDE DEF g
<1>3. /\ call' \in [Calls -> Call] /\ call'[c] = g
      /\ \A d \in Calls \ {c} : call'[d] = call[d]
  BY <1>1, <1>2 DEF IInv, TypeOK
<1>4. TypeOK' /\ Entries' /\ Behind' /\ TrailDurable'
  BY <1>1, <1>3 DEF IInv, TypeOK, Entries, Behind, TrailDurable
<1>5. \A d \in Calls \ {c} : ~Locks(d)'
  BY <1>1, <1>3 DEF Locks
<1>6. OneHolder'
  BY <1>5 DEF OneHolder
<1>7. Pending(c)'
  BY <1>1, <1>2, <1>3, LeadsUp DEF Pending
<1>8. ASSUME NEW d \in Calls \ {c} PROVE Pending(d)'
  BY <1>1, <1>3 DEF IInv, Pending, Locks
<1>9. Rises /\ UNCHANGED snapshots
  BY <1>1, RankNat DEF Rises, snapshots
<1>10. QED BY <1>4, <1>6, <1>7, <1>8, <1>9 DEF Preserves, IInv

LEMMA OperationInv ==
  ASSUME IInv, NEW c \in Calls, NEW v \in Versions, Operation(c, v)
  PROVE  Preserves
<1>1. cache[v] \in RegistryEntry /\ Whole(cache[v])
  BY DEF IInv, TypeOK, Entries
<1>2. ASSUME NEW d \in Digests, Register(c, v, d) PROVE Preserves
  <2> DEFINE e == [Absent EXCEPT !.state = "DRAFT", !.digest = d]
  <2>1. e \in RegistryEntry /\ Whole(e) /\ Leads("ABSENT", e.state)
    BY RegistryAssumption
       DEF Absent, RegistryEntry, RegistryState, Whole, Leads, Transitions
  <2>2. QED BY <1>2, <2>1, BeginInv DEF Register
<1>3. ASSUME NEW k \in Decisions \cup {None}, Approve(c, v, k) PROVE Preserves
  <2> DEFINE e == [cache[v] EXCEPT !.state = "APPROVED",
                                   !.decision = Given(k, cache[v].decision)]
  <2>1. cache[v].state = "DRAFT" /\ Begin(c, v, e)
    BY <1>3 DEF Approve
  <2>2. e \in RegistryEntry /\ e.state = "APPROVED"
        /\ e.digest = cache[v].digest
    BY <1>1 DEF RegistryEntry, RegistryState, Given
  <2> HIDE DEF e
  <2>3. Whole(e) /\ Leads(cache[v].state, e.state)
    BY <1>1, <2>1, <2>2 DEF Whole, Leads, Transitions
  <2>4. QED BY <2>1, <2>2, <2>3, BeginInv
<1>4. ASSUME NEW r \in Releases \cup {None}, Activate(c, v, r) PROVE Preserves
  <2> DEFINE e == [cache[v] EXCEPT !.state = "ACTIVE",
                                   !.release = Given(r, cache[v].release)]
  <2>1. cache[v].state = "APPROVED" /\ Begin(c, v, e)
    BY <1>4 DEF Activate
  <2>2. e \in RegistryEntry /\ e.state = "ACTIVE"
        /\ e.digest = cache[v].digest
    BY <1>1 DEF RegistryEntry, RegistryState, Given
  <2> HIDE DEF e
  <2>3. Whole(e) /\ Leads(cache[v].state, e.state)
    BY <1>1, <2>1, <2>2 DEF Whole, Leads, Transitions
  <2>4. QED BY <2>1, <2>2, <2>3, BeginInv
<1>5. ASSUME Suspend(c, v) PROVE Preserves
  <2> DEFINE e == [cache[v] EXCEPT !.state = "SUSPENDED"]
  <2>1. cache[v].state = "ACTIVE" /\ Begin(c, v, e)
    BY <1>5 DEF Suspend
  <2>2. e \in RegistryEntry /\ e.state = "SUSPENDED"
        /\ e.digest = cache[v].digest
    BY <1>1 DEF RegistryEntry, RegistryState
  <2> HIDE DEF e
  <2>3. Whole(e) /\ Leads(cache[v].state, e.state)
    BY <1>1, <2>1, <2>2 DEF Whole, Leads, Transitions
  <2>4. QED BY <2>1, <2>2, <2>3, BeginInv
<1>6. QED BY <1>2, <1>3, <1>4, <1>5 DEF Operation

\* The row that save() leaves makes the transition, or was already there.
LEMMA CommitInv ==
  ASSUME IInv, NEW c \in Calls, Commit(c)
  PROVE  Preserves
<1> DEFINE v == call[c].version
           e == call[c].entry
           h == Saved(store[v], e)
           g == [call[c] EXCEPT !.phase = "saved"]
<1>1. /\ call[c].phase = "saving" /\ cache' = cache /\ trail' = trail
      /\ store' = [store EXCEPT ![v] = h]
      /\ call' = [call EXCEPT ![c] = g]
  BY DEF Commit, IInv, TypeOK
<1>2. /\ call[c] \in Call /\ v \in Versions /\ e \in RegistryEntry
      /\ e.state # "ABSENT" /\ Whole(e)
      /\ Leads(cache[v].state, e.state)
  BY <1>1 DEF IInv, TypeOK, Call, Pending, Locks
<1>3. /\ store[v] \in RegistryEntry /\ Whole(store[v])
      /\ cache[v].state = store[v].state \/ Leads(cache[v].state, store[v].state)
  BY <1>2 DEF IInv, TypeOK, Entries, Behind
<1>4. /\ g \in Call /\ g.phase = "saved" /\ g.version = v /\ g.entry = e
  BY <1>2 DEF Call, Phases
<1>5. /\ h \in RegistryEntry /\ h.state = e.state
      /\ h.digest = IF store[v].state = "ABSENT" THEN e.digest
                                                 ELSE store[v].digest
  BY <1>2, <1>3 DEF Saved, RegistryEntry
<1>6. Whole(h)
  BY <1>2, <1>3, <1>5 DEF Whole
<1>7. store[v].state = e.state \/ Leads(store[v].state, e.state)
  BY <1>2, <1>3, LeadsToOne
<1> HIDE DEF g, h, e, v
<1>8. /\ call' \in [Calls -> Call] /\ call'[c] = g
      /\ \A d \in Calls \ {c} : call'[d] = call[d]
      /\ store' \in [Versions -> RegistryEntry] /\ store'[v] = h
      /\ \A x \in Versions \ {v} : store'[x] = store[x]
  BY <1>1, <1>2, <1>4, <1>5 DEF IInv, TypeOK
<1>9. TypeOK'
  BY <1>1, <1>8 DEF IInv, TypeOK
<1>10. Entries' /\ Behind'
  BY <1>1, <1>2, <1>5, <1>6, <1>8 DEF IInv, Entries, Behind
<1>11. \A x \in Versions : Rank(store[x].state) <= Rank(store'[x].state)
  BY <1>5, <1>7, <1>8, RankNat, LeadsUp
<1>12. TrailDurable'
  <2> SUFFICES ASSUME NEW t \in trail
               PROVE  Rank(t.state) <= Rank(store'[t.version].state)
    BY <1>1 DEF TrailDurable
  <2>1. t.version \in Versions
    BY DEF IInv, TypeOK, Event
  <2>2. Rank(t.state) <= Rank(store[t.version].state)
    BY DEF IInv, TrailDurable
  <2>3. QED BY <1>11, <2>1, <2>2, RankNat
<1>13. OneHolder'
  <2>1. \A d \in Calls : Locks(d)' <=> Locks(d)
    BY <1>1, <1>4, <1>8 DEF Locks
  <2>2. QED BY <2>1 DEF IInv, OneHolder
<1>14. Pending(c)'
  BY <1>1, <1>2, <1>4, <1>5, <1>8 DEF Pending
<1>15. ASSUME NEW d \in Calls \ {c} PROVE Pending(d)'
  <2>1. ~Locks(d) /\ Pending(d)
    BY <1>1 DEF IInv, OneHolder, Locks
  <2>2. call[d].phase = "recording" =>
          Rank(call[d].entry.state) <= Rank(store'[call[d].version].state)
    BY <1>11, <2>1, RankNat DEF Pending
  <2>3. QED BY <1>8, <2>1, <2>2 DEF Pending, Locks
<1>16. Rises
  BY <1>1, RankNat DEF Rises
<1>17. [Lifecycle!LifecycleNext]_snapshots
  <2>1. /\ snapshots' = [snapshots EXCEPT ![v] =
                           [state |-> h.state, digest |-> h.digest]]
        /\ snapshots[v] = [state |-> store[v].state, digest |-> store[v].digest]
    BY <1>2, <1>8 DEF snapshots
  <2>2. CASE store[v].state = e.state
    <3>1. h.state = store[v].state /\ h.digest = store[v].digest
      BY <1>2, <1>5, <2>2
    <3>2. UNCHANGED snapshots
      BY <1>2, <1>8, <3>1 DEF snapshots
    <3>3. QED BY <3>2
  <2>3. CASE store[v].state = "ABSENT" /\ Leads("ABSENT", e.state)
    <3>1. e.state = "DRAFT" /\ h.state = "DRAFT" /\ h.digest = e.digest
      BY <1>5, <2>3 DEF Leads, Transitions
    <3>2. e.digest \in Digests
      BY <1>2, <2>3 DEF RegistryEntry, Whole
    <3>3. snapshots[v] = Lifecycle!Unregistered
      BY <1>3, <2>1, <2>3 DEF Whole, Lifecycle!Unregistered
    <3>4. Lifecycle!Create(v, e.digest)
      BY <2>1, <3>1, <3>3 DEF Lifecycle!Create
    <3>5. QED BY <1>2, <3>2, <3>4 DEF Lifecycle!LifecycleNext
  <2>4. CASE store[v].state # "ABSENT" /\ Leads(store[v].state, e.state)
    <3>1. h.digest = store[v].digest /\ h.state = e.state
      BY <1>5, <2>4
    <3>2. snapshots' = [snapshots EXCEPT ![v].state = e.state]
      BY <1>2, <2>1, <3>1 DEF snapshots
    <3>3. snapshots[v].state = store[v].state
      BY <2>1
    <3>4. Lifecycle!Advance(v, store[v].state, e.state)
      BY <3>2, <3>3 DEF Lifecycle!Advance
    <3>5. <<store[v].state, e.state>> \in
            {<<"DRAFT", "APPROVED">>, <<"APPROVED", "ACTIVE">>,
             <<"ACTIVE", "SUSPENDED">>}
      BY <2>4 DEF Leads, Transitions
    <3>6. QED BY <1>2, <3>4, <3>5 DEF Lifecycle!LifecycleNext
  <2>5. QED BY <1>7, <2>2, <2>3, <2>4
<1>18. QED
  BY <1>9, <1>10, <1>12, <1>13, <1>14, <1>15, <1>16, <1>17 DEF Preserves, IInv

\* The cache follows the store.
LEMMA AcknowledgeInv ==
  ASSUME IInv, NEW c \in Calls, Acknowledge(c)
  PROVE  Preserves
<1> DEFINE v == call[c].version
           e == call[c].entry
           g == [call[c] EXCEPT !.phase = "recording"]
<1>1. /\ call[c].phase = "saved" /\ store' = store /\ trail' = trail
      /\ cache' = [cache EXCEPT ![v] = e]
      /\ call' = [call EXCEPT ![c] = g]
  BY DEF Acknowledge, IInv, TypeOK
<1>2. /\ call[c] \in Call /\ v \in Versions /\ e \in RegistryEntry
      /\ e.state # "ABSENT" /\ Whole(e)
      /\ Leads(cache[v].state, e.state) /\ store[v].state = e.state
  BY <1>1 DEF IInv, TypeOK, Call, Pending, Locks
<1>3. /\ g \in Call /\ g.phase = "recording" /\ g.version = v /\ g.entry = e
  BY <1>2 DEF Call, Phases
<1> HIDE DEF g, e, v
<1>4. /\ call' \in [Calls -> Call] /\ call'[c] = g
      /\ \A d \in Calls \ {c} : call'[d] = call[d]
      /\ cache' \in [Versions -> RegistryEntry] /\ cache'[v] = e
      /\ \A x \in Versions \ {v} : cache'[x] = cache[x]
  BY <1>1, <1>2, <1>3 DEF IInv, TypeOK
<1>5. TypeOK' /\ TrailDurable'
  BY <1>1, <1>4 DEF IInv, TypeOK, TrailDurable
<1>6. Entries' /\ Behind'
  BY <1>1, <1>2, <1>4 DEF IInv, Entries, Behind
<1>7. \A d \in Calls \ {c} : ~Locks(d) /\ ~Locks(d)'
  BY <1>1, <1>4 DEF IInv, OneHolder, Locks
<1>8. OneHolder'
  BY <1>7 DEF OneHolder
<1>9. Pending(c)'
  BY <1>1, <1>2, <1>3, <1>4, RankNat DEF Pending, Locks
<1>10. ASSUME NEW d \in Calls \ {c} PROVE Pending(d)'
  BY <1>1, <1>4, <1>7 DEF IInv, Pending
<1>11. Rises
  BY <1>2, <1>4, LeadsUp, RankNat DEF Rises
<1>12. UNCHANGED snapshots
  BY <1>1 DEF snapshots
<1>13. QED
  BY <1>5, <1>6, <1>8, <1>9, <1>10, <1>11, <1>12 DEF Preserves, IInv

\* A call ends, with its event or without.
LEMMA EndInv ==
  ASSUME IInv, NEW c \in Calls, SaveFails(c) \/ Record(c) \/ RecordFails(c)
  PROVE  Preserves
<1>1. /\ cache' = cache /\ store' = store
      /\ call' = [call EXCEPT ![c] = Idle]
  BY DEF SaveFails, Record, RecordFails
<1>2. Idle \in Call /\ Idle.phase = "idle"
  BY DEF Idle, Call, Phases, Absent, RegistryEntry
<1>3. /\ call' \in [Calls -> Call] /\ call'[c] = Idle
      /\ \A d \in Calls \ {c} : call'[d] = call[d]
  BY <1>1, <1>2 DEF IInv, TypeOK
<1>4. trail' \subseteq Event /\ TrailDurable'
  <2>1. CASE trail' = trail
    BY <1>1, <2>1 DEF IInv, TypeOK, TrailDurable
  <2>2. CASE Record(c)
    <3> DEFINE e == call[c].entry
               t == [version |-> call[c].version, state |-> e.state,
                     digest |-> e.digest]
    <3>1. /\ call[c].phase = "recording" /\ trail' = trail \cup {t}
      BY <2>2 DEF Record
    <3>2. /\ call[c].version \in Versions /\ e \in RegistryEntry
          /\ e.state # "ABSENT" /\ Whole(e)
          /\ Rank(e.state) <= Rank(store[call[c].version].state)
      BY <3>1 DEF IInv, TypeOK, Call, Pending
    <3>3. t \in Event
      BY <3>2 DEF Event, RegistryEntry, Whole
    <3>4. \A x \in trail' : Rank(x.state) <= Rank(store[x.version].state)
      BY <3>1, <3>2 DEF IInv, TrailDurable
    <3>5. QED BY <1>1, <3>1, <3>3, <3>4 DEF IInv, TypeOK, TrailDurable
  <2>3. QED BY <2>1, <2>2 DEF SaveFails, RecordFails
<1>5. TypeOK'
  BY <1>1, <1>3, <1>4 DEF IInv, TypeOK
<1>6. Entries' /\ Behind'
  BY <1>1 DEF IInv, Entries, Behind
<1>7. OneHolder'
  BY <1>2, <1>3 DEF IInv, OneHolder, Locks
<1>8. \A d \in Calls : Pending(d)'
  BY <1>1, <1>2, <1>3 DEF IInv, Pending, Locks
<1>9. Rises /\ UNCHANGED snapshots
  BY <1>1, RankNat DEF Rises, snapshots
<1>10. QED BY <1>4, <1>5, <1>6, <1>7, <1>8, <1>9 DEF Preserves, IInv

\* A restart brings the cache up to the store.
LEMMA RestartInv ==
  ASSUME IInv, Restart
  PROVE  Preserves
<1>1. /\ cache' = store /\ store' = store /\ trail' = trail
      /\ call' = [c \in Calls |-> Idle]
  BY DEF Restart
<1>2. Idle \in Call /\ Idle.phase = "idle"
  BY DEF Idle, Call, Phases, Absent, RegistryEntry
<1>3. TypeOK' /\ TrailDurable'
  BY <1>1, <1>2 DEF IInv, TypeOK, TrailDurable
<1>4. Entries' /\ Behind'
  BY <1>1 DEF IInv, Entries, Behind
<1>5. OneHolder' /\ \A c \in Calls : Pending(c)'
  BY <1>1, <1>2 DEF OneHolder, Locks, Pending
<1>6. Rises
  BY <1>1, RankNat, LeadsUp DEF IInv, Behind, Rises
<1>7. UNCHANGED snapshots
  BY <1>1 DEF snapshots
<1>8. QED BY <1>3, <1>4, <1>5, <1>6, <1>7 DEF Preserves, IInv

-----------------------------------------------------------------------------
(* The specification. *)

\* Every step keeps the invariant, takes nothing back and is one of the abstract
\* lifecycle or none.
LEMMA NextInv ==
  ASSUME IInv, [Next]_vars
  PROVE  IInv' /\ [Rises]_vars /\ [Lifecycle!LifecycleNext]_snapshots
<1>1. CASE Next
  BY <1>1, OperationInv, CommitInv, AcknowledgeInv, EndInv, RestartInv
     DEF Next, Preserves
<1>2. CASE UNCHANGED vars
  <2>1. TypeOK' /\ Entries' /\ Behind' /\ OneHolder' /\ TrailDurable'
    BY <1>2 DEF vars, IInv, TypeOK, Entries, Behind, OneHolder, Locks,
                TrailDurable
  <2>2. \A c \in Calls : Pending(c)'
    BY <1>2 DEF vars, IInv, Pending, Locks
  <2>3. UNCHANGED snapshots
    BY <1>2 DEF vars, snapshots
  <2>4. QED BY <1>2, <2>1, <2>2, <2>3 DEF IInv
<1>3. QED BY <1>1, <1>2

\* Nothing is registered.
LEMMA InitInv == Init => IInv /\ Lifecycle!LifecycleInit
<1> SUFFICES ASSUME Init PROVE IInv /\ Lifecycle!LifecycleInit
  OBVIOUS
<1>1. Absent \in RegistryEntry /\ Whole(Absent)
  BY DEF Absent, RegistryEntry, Whole
<1>2. Idle \in Call /\ Idle.phase = "idle"
  BY <1>1 DEF Idle, Call, Phases
<1>3. TypeOK /\ Entries /\ Behind /\ TrailDurable
  BY <1>1, <1>2 DEF Init, TypeOK, Entries, Behind, TrailDurable
<1>4. OneHolder /\ \A c \in Calls : Pending(c)
  BY <1>2 DEF Init, OneHolder, Locks, Pending
<1>5. Lifecycle!LifecycleInit
  BY DEF Init, Absent, snapshots, Lifecycle!LifecycleInit,
         Lifecycle!Unregistered
<1>6. QED BY <1>3, <1>4, <1>5 DEF IInv

\* The inductive invariant of the registry.
LEMMA Invariance == Spec => []IInv
<1>1. Init => IInv
  BY InitInv
<1>2. IInv /\ [Next]_vars => IInv'
  BY NextInv
<1>3. QED BY <1>1, <1>2, PTL DEF Spec

\* The cache, the store, the trail and the calls keep their types.
THEOREM RegistryTypeCorrect == Spec => []TypeOK
<1>1. IInv => TypeOK
  BY DEF IInv
<1>2. QED BY Invariance, <1>1, PTL

\* _record() is reached after the commit only.
THEOREM TrailIsDurable == Spec => []TrailDurable
<1>1. IInv => TrailDurable
  BY DEF IInv
<1>2. QED BY Invariance, <1>1, PTL

\* hydrate() never takes back what _transition() did.
THEOREM TransitionsStand == Spec => NeverTakenBack
<1>1. IInv /\ [Next]_vars =>
        [\A v \in Versions : Rank(cache[v].state) <= Rank(cache'[v].state)]_vars
  BY NextInv DEF Rises
<1>2. QED BY Invariance, <1>1, PTL DEF Spec, NeverTakenBack

\* The table of the store refines the lifecycle of immutable versions.
THEOREM StoreImplementsLifecycle == Spec => ImplementsLifecycle
<1>1. Init => Lifecycle!LifecycleInit
  BY InitInv
<1>2. IInv /\ [Next]_vars => [Lifecycle!LifecycleNext]_snapshots
  BY NextInv
<1>3. QED
  BY Invariance, <1>1, <1>2, PTL
     DEF Spec, ImplementsLifecycle, Lifecycle!LifecycleSpec

-----------------------------------------------------------------------------
(* The gates. *)

\* Outside unnamed, what is cached, stored or held by a call passed its gates.
GateInv ==
  /\ Gated
  /\ \A c \in Calls :
       call[c].phase # "idle" /\ call[c].version \notin unnamed =>
         GatesPassed(call[c].entry)

\* The versions that a step adds to the history.
Remembers ==
  unnamed' = unnamed \cup
    {v \in Versions : \E c \in Calls : \/ Approve(c, v, None)
                                       \/ Activate(c, v, None)}

\* An operation that is given its id begins with an entry that passes the gate.
LEMMA BeginGated ==
  ASSUME IInv, GateInv, Remembers, NEW c \in Calls, NEW v \in Versions,
         Operation(c, v)
  PROVE  \E e : Begin(c, v, e) /\ (v \notin unnamed' => GatesPassed(e))
<1>1. cache[v] \in RegistryEntry
  BY DEF IInv, TypeOK
<1>2. v \notin unnamed' => GatesPassed(cache[v])
  BY DEF GateInv, Gated, Remembers
<1>3. ASSUME NEW d \in Digests, Register(c, v, d)
      PROVE  \E e : Begin(c, v, e) /\ (v \notin unnamed' => GatesPassed(e))
  <2> DEFINE e == [Absent EXCEPT !.state = "DRAFT", !.digest = d]
  <2>1. Begin(c, v, e) /\ GatesPassed(e)
    BY <1>3 DEF Register, Absent, GatesPassed
  <2>2. QED BY <2>1
<1>4. ASSUME NEW k \in Decisions \cup {None}, Approve(c, v, k)
      PROVE  \E e : Begin(c, v, e) /\ (v \notin unnamed' => GatesPassed(e))
  <2> DEFINE e == [cache[v] EXCEPT !.state = "APPROVED",
                                   !.decision = Given(k, cache[v].decision)]
  <2>1. Begin(c, v, e)
    BY <1>4 DEF Approve
  <2>2. k = None => v \in unnamed'
    BY <1>4 DEF Remembers
  <2>3. k # None => e.state = "APPROVED" /\ e.decision \in Decisions
    BY <1>1 DEF RegistryEntry, Given
  <2>4. v \notin unnamed' => GatesPassed(e)
    BY <2>2, <2>3, RegistryAssumption DEF GatesPassed
  <2>5. QED BY <2>1, <2>4
<1>5. ASSUME NEW r \in Releases \cup {None}, Activate(c, v, r)
      PROVE  \E e : Begin(c, v, e) /\ (v \notin unnamed' => GatesPassed(e))
  <2> DEFINE e == [cache[v] EXCEPT !.state = "ACTIVE",
                                   !.release = Given(r, cache[v].release)]
  <2>1. Begin(c, v, e) /\ cache[v].state = "APPROVED"
    BY <1>5 DEF Activate
  <2>2. r = None => v \in unnamed'
    BY <1>5 DEF Remembers
  <2>3. r # None => e.decision = cache[v].decision /\ e.release \in Releases
    BY <1>1 DEF RegistryEntry, Given
  <2>4. v \notin unnamed' => GatesPassed(e)
    BY <1>2, <2>1, <2>2, <2>3, RegistryAssumption DEF GatesPassed
  <2>5. QED BY <2>1, <2>4
<1>6. ASSUME Suspend(c, v)
      PROVE  \E e : Begin(c, v, e) /\ (v \notin unnamed' => GatesPassed(e))
  <2> DEFINE e == [cache[v] EXCEPT !.state = "SUSPENDED"]
  <2>1. Begin(c, v, e) /\ cache[v].state = "ACTIVE"
    BY <1>6 DEF Suspend
  <2>2. e.decision = cache[v].decision /\ e.release = cache[v].release
    BY <1>1 DEF RegistryEntry
  <2>3. v \notin unnamed' => GatesPassed(e)
    BY <1>2, <2>1, <2>2 DEF GatesPassed
  <2>4. QED BY <2>1, <2>3
<1>7. QED BY <1>3, <1>4, <1>5, <1>6 DEF Operation

\* Every step of the registry keeps the ids of the gates.
LEMMA GateStep ==
  ASSUME IInv, GateInv, [Next]_vars, Remembers
  PROVE  GateInv'
<1>1. unnamed \subseteq unnamed'
  BY DEF Remembers
<1>2. ASSUME NEW c \in Calls, NEW v \in Versions, Operation(c, v) PROVE GateInv'
  <2>1. PICK e : Begin(c, v, e) /\ (v \notin unnamed' => GatesPassed(e))
    BY <1>2, BeginGated
  <2> DEFINE g == [phase |-> "saving", version |-> v, entry |-> e]
  <2>2. /\ cache' = cache /\ store' = store
        /\ call'[c] = g /\ \A d \in Calls \ {c} : call'[d] = call[d]
    BY <2>1 DEF Begin, IInv, TypeOK
  <2>3. g.version = v /\ g.entry = e
    OBVIOUS
  <2> HIDE DEF g
  <2>4. QED BY <1>1, <2>1, <2>2, <2>3 DEF GateInv, Gated
<1>3. ASSUME NEW c \in Calls, Commit(c) PROVE GateInv'
  <2> DEFINE v == call[c].version
             e == call[c].entry
             h == Saved(store[v], e)
             g == [call[c] EXCEPT !.phase = "saved"]
  <2>1. /\ call[c].phase = "saving" /\ cache' = cache
        /\ store' = [store EXCEPT ![v] = h]
        /\ call' = [call EXCEPT ![c] = g]
    BY <1>3 DEF Commit, IInv, TypeOK
  <2>2. call[c] \in Call /\ v \in Versions /\ e \in RegistryEntry
    BY <2>1 DEF IInv, TypeOK, Call, Pending
  <2>3. h.state = e.state /\ h.decision = e.decision /\ h.release = e.release
    BY <2>2 DEF Saved, RegistryEntry
  <2>4. g.version = v /\ g.entry = e
    BY <2>2 DEF Call
  <2>5. v \notin unnamed => GatesPassed(h)
    BY <2>1, <2>3 DEF GateInv, GatesPassed
  <2> HIDE DEF v, e, h, g
  <2>6. /\ call'[c] = g /\ \A d \in Calls \ {c} : call'[d] = call[d]
        /\ store'[v] = h /\ \A x \in Versions \ {v} : store'[x] = store[x]
    BY <2>1, <2>2 DEF IInv, TypeOK
  <2>7. Gated'
    BY <1>1, <2>1, <2>5, <2>6 DEF GateInv, Gated
  <2>8. v = call[c].version /\ e = call[c].entry /\ call[c].phase # "idle"
    BY <2>1 DEF v, e
  <2>9. QED BY <1>1, <2>4, <2>6, <2>7, <2>8 DEF GateInv
<1>4. ASSUME NEW c \in Calls, Acknowledge(c) PROVE GateInv'
  <2> DEFINE v == call[c].version
             e == call[c].entry
             g == [call[c] EXCEPT !.phase = "recording"]
  <2>1. /\ call[c].phase = "saved" /\ store' = store
        /\ cache' = [cache EXCEPT ![v] = e]
        /\ call' = [call EXCEPT ![c] = g]
    BY <1>4 DEF Acknowledge, IInv, TypeOK
  <2>2. call[c] \in Call /\ v \in Versions
    BY <2>1 DEF IInv, TypeOK, Pending
  <2>3. g.version = v /\ g.entry = e
    BY <2>2 DEF Call
  <2>4. v \notin unnamed => GatesPassed(e)
    BY <2>1 DEF GateInv
  <2>5. v = call[c].version /\ e = call[c].entry /\ call[c].phase # "idle"
    BY <2>1
  <2> HIDE DEF v, e, g
  <2>6. /\ call'[c] = g /\ \A d \in Calls \ {c} : call'[d] = call[d]
        /\ cache'[v] = e /\ \A x \in Versions \ {v} : cache'[x] = cache[x]
    BY <2>1, <2>2 DEF IInv, TypeOK
  <2>7. Gated'
    BY <1>1, <2>1, <2>4, <2>6 DEF GateInv, Gated
  <2>8. QED BY <1>1, <2>3, <2>5, <2>6, <2>7 DEF GateInv
<1>5. ASSUME NEW c \in Calls, SaveFails(c) \/ Record(c) \/ RecordFails(c)
      PROVE  GateInv'
  <2>1. /\ cache' = cache /\ store' = store
        /\ call'[c] = Idle /\ \A d \in Calls \ {c} : call'[d] = call[d]
    BY <1>5 DEF SaveFails, Record, RecordFails, IInv, TypeOK
  <2>2. Idle.phase = "idle"
    BY DEF Idle
  <2>3. QED BY <1>1, <2>1, <2>2 DEF GateInv, Gated
<1>6. ASSUME Restart PROVE GateInv'
  <2>1. /\ cache' = store /\ store' = store
        /\ \A c \in Calls : call'[c].phase = "idle"
    BY <1>6 DEF Restart, Idle
  <2>2. QED BY <1>1, <2>1 DEF GateInv, Gated
<1>7. CASE UNCHANGED vars
  BY <1>1, <1>7 DEF vars, GateInv, Gated
<1>8. QED BY <1>2, <1>3, <1>4, <1>5, <1>6, <1>7 DEF Next

\* approve() and activate() leave their ids on every entry that they let pass, if
\* they were given any, however often a save fails and is repeated.
THEOREM VersionsAreGated == HistorySpec => []Gated
<1>1. HistoryInit => Init /\ GateInv
  BY DEF HistoryInit, Init, Absent, Idle, GateInv, Gated, GatesPassed
<1>2. IInv /\ GateInv /\ [HistoryNext]_historyVars => GateInv'
  <2>1. ASSUME IInv, GateInv, HistoryNext PROVE GateInv'
    BY <2>1, GateStep DEF HistoryNext, Remembers
  <2>2. ASSUME GateInv, UNCHANGED historyVars PROVE GateInv'
    BY <2>2 DEF historyVars, vars, GateInv, Gated
  <2>3. QED BY <2>1, <2>2
<1>3. [HistoryNext]_historyVars => [Next]_vars
  BY DEF HistoryNext, historyVars
<1>4. GateInv => Gated
  BY DEF GateInv
<1>5. QED BY <1>1, <1>2, <1>3, <1>4, Invariance, PTL DEF HistorySpec, Spec

-----------------------------------------------------------------------------
(* Immutable snapshots. *)

\* The registration that call c has committed is reported as failed.
RegistrationLost(c) ==
  /\ call[c].phase = "saved"
  /\ call[c].entry.state = "DRAFT"
  /\ SaveFails(c)

NoRegistrationIsLost == [][\A c \in Calls : ~RegistrationLost(c)]_vars

\* Call c has saved version v and not yet cached it.
Ahead(c, v) == call[c].phase = "saved" /\ call[c].version = v

\* The cache and the store hold one definition, unless the call that has just
\* saved the first one is still to cache it.
Agreed(v) ==
  /\ cache[v].state # "ABSENT" => store[v].digest = cache[v].digest
  /\ cache[v].state = "ABSENT" /\ store[v].state # "ABSENT" =>
       \E c \in Calls : Ahead(c, v)

\* A call that holds the lock saves the definition that is there.
Faithful(c) ==
  LET v == call[c].version
      e == call[c].entry
  IN
  Locks(c) =>
    /\ cache[v].state # "ABSENT" => e.digest = cache[v].digest
    /\ call[c].phase = "saved" => store[v].digest = e.digest

SnapshotInv ==
  /\ \A v \in Versions : Agreed(v)
  /\ \A c \in Calls : Faithful(c)

\* SnapshotsImmutable, as an action.
Immutable ==
  \A v \in Versions :
    cache[v].state # "ABSENT" => cache'[v].digest = cache[v].digest

\* An operation that is begun holds the definition of the cache.
LEMMA BeginSnapshot ==
  ASSUME IInv, SnapshotInv, NEW c \in Calls, NEW v \in Versions,
         Operation(c, v)
  PROVE  SnapshotInv' /\ Immutable
<1>1. PICK e : Begin(c, v, e) /\ (cache[v].state # "ABSENT" =>
                                   e.digest = cache[v].digest)
  <2>1. cache[v] \in RegistryEntry
    BY DEF IInv, TypeOK
  <2>2. ASSUME NEW d \in Digests, Register(c, v, d)
        PROVE  cache[v].state = "ABSENT" /\ \E e : Begin(c, v, e)
    BY <2>2, Zenon DEF Register
  <2>3. ASSUME NEW k \in Decisions \cup {None}, Approve(c, v, k)
        PROVE  \E e : Begin(c, v, e) /\ e.digest = cache[v].digest
    <3> DEFINE e == [cache[v] EXCEPT !.state = "APPROVED",
                                     !.decision = Given(k, cache[v].decision)]
    <3>1. Begin(c, v, e) /\ e.digest = cache[v].digest
      BY <2>1, <2>3 DEF Approve, RegistryEntry
    <3>2. QED BY <3>1
  <2>4. ASSUME NEW r \in Releases \cup {None}, Activate(c, v, r)
        PROVE  \E e : Begin(c, v, e) /\ e.digest = cache[v].digest
    <3> DEFINE e == [cache[v] EXCEPT !.state = "ACTIVE",
                                     !.release = Given(r, cache[v].release)]
    <3>1. Begin(c, v, e) /\ e.digest = cache[v].digest
      BY <2>1, <2>4 DEF Activate, RegistryEntry
    <3>2. QED BY <3>1
  <2>5. ASSUME Suspend(c, v)
        PROVE  \E e : Begin(c, v, e) /\ e.digest = cache[v].digest
    <3> DEFINE e == [cache[v] EXCEPT !.state = "SUSPENDED"]
    <3>1. Begin(c, v, e) /\ e.digest = cache[v].digest
      BY <2>1, <2>5 DEF Suspend, RegistryEntry
    <3>2. QED BY <3>1
  <2>6. QED BY <2>2, <2>3, <2>4, <2>5 DEF Operation
<1> DEFINE g == [phase |-> "saving", version |-> v, entry |-> e]
<1>2. /\ cache' = cache /\ store' = store
      /\ call'[c] = g /\ \A d \in Calls \ {c} : call'[d] = call[d]
      /\ \A d \in Calls : ~Locks(d)
  BY <1>1 DEF Begin, IInv, TypeOK
<1>3. g.phase = "saving" /\ g.version = v /\ g.entry = e
  OBVIOUS
<1> HIDE DEF g
<1>4. \A x \in Versions : Agreed(x)'
  BY <1>2 DEF SnapshotInv, Agreed, Ahead, Locks
<1>5. \A d \in Calls : Faithful(d)'
  BY <1>1, <1>2, <1>3 DEF Faithful, Locks
<1>6. QED BY <1>2, <1>4, <1>5 DEF SnapshotInv, Immutable

\* save() leaves the definition that is cached, or the first one.
LEMMA CommitSnapshot ==
  ASSUME IInv, SnapshotInv, NEW c \in Calls, Commit(c)
  PROVE  SnapshotInv' /\ Immutable
<1> DEFINE v == call[c].version
           e == call[c].entry
           h == Saved(store[v], e)
           g == [call[c] EXCEPT !.phase = "saved"]
<1>1. /\ call[c].phase = "saving" /\ cache' = cache
      /\ store' = [store EXCEPT ![v] = h]
      /\ call' = [call EXCEPT ![c] = g]
  BY DEF Commit, IInv, TypeOK
<1>2. /\ call[c] \in Call /\ v \in Versions /\ e \in RegistryEntry
      /\ store[v] \in RegistryEntry /\ Whole(store[v]) /\ Whole(cache[v])
      /\ Faithful(c) /\ Agreed(v)
  BY <1>1 DEF IInv, TypeOK, Call, Pending, Entries, SnapshotInv
<1>3. g.phase = "saved" /\ g.version = v /\ g.entry = e
  BY <1>2 DEF Call
<1>4. h.digest = IF store[v].state = "ABSENT" THEN e.digest ELSE store[v].digest
  BY <1>2 DEF Saved, RegistryEntry
<1>5. Locks(c) /\ \A d \in Calls \ {c} : ~Locks(d)
  BY <1>1 DEF IInv, OneHolder, Locks
<1>6. h.digest = e.digest
  <2>1. CASE cache[v].state = "ABSENT"
    BY <1>1, <1>2, <1>4, <1>5, <2>1 DEF Agreed, Ahead, Locks
  <2>2. CASE cache[v].state # "ABSENT"
    BY <1>2, <1>4, <1>5, <2>2 DEF Agreed, Faithful
  <2>3. QED BY <2>1, <2>2
<1>7. cache[v].state # "ABSENT" => e.digest = cache[v].digest
  BY <1>2, <1>5 DEF Faithful
<1> HIDE DEF v, e, h, g
<1>8. /\ call'[c] = g /\ \A d \in Calls \ {c} : call'[d] = call[d]
      /\ store'[v] = h /\ \A x \in Versions \ {v} : store'[x] = store[x]
  BY <1>1, <1>2 DEF IInv, TypeOK
<1>9. \A x \in Versions : x = v => Agreed(x)'
  BY <1>1, <1>3, <1>6, <1>7, <1>8 DEF Agreed, Ahead
<1>10. ASSUME NEW x \in Versions \ {v} PROVE Agreed(x)'
  <2>1. Agreed(x)
    BY DEF SnapshotInv
  <2>2. \A d \in Calls : ~Ahead(d, x)
    BY <1>1, <1>5 DEF Ahead, Locks
  <2>3. QED BY <1>1, <1>8, <2>1, <2>2 DEF Agreed
<1>11. Faithful(c)'
  BY <1>1, <1>3, <1>6, <1>7, <1>8 DEF Faithful
<1>12. \A d \in Calls \ {c} : Faithful(d)'
  BY <1>5, <1>8 DEF Faithful, Locks
<1>13. QED BY <1>1, <1>9, <1>10, <1>11, <1>12 DEF SnapshotInv, Immutable

\* The cache takes what was saved.
LEMMA AcknowledgeSnapshot ==
  ASSUME IInv, SnapshotInv, NEW c \in Calls, Acknowledge(c)
  PROVE  SnapshotInv' /\ Immutable
<1> DEFINE v == call[c].version
           e == call[c].entry
           g == [call[c] EXCEPT !.phase = "recording"]
<1>1. /\ call[c].phase = "saved" /\ store' = store
      /\ cache' = [cache EXCEPT ![v] = e]
      /\ call' = [call EXCEPT ![c] = g]
  BY DEF Acknowledge, IInv, TypeOK
<1>2. /\ call[c] \in Call /\ v \in Versions /\ e.state # "ABSENT"
      /\ Locks(c) /\ Faithful(c)
      /\ \A d \in Calls \ {c} : ~Locks(d)
  BY <1>1 DEF IInv, TypeOK, Pending, SnapshotInv, OneHolder, Locks
<1>3. g.phase = "recording"
  BY <1>2 DEF Call
<1>4. /\ cache[v].state # "ABSENT" => e.digest = cache[v].digest
      /\ store[v].digest = e.digest
  BY <1>1, <1>2 DEF Faithful
<1>a. \A x \in Versions \ {v} : \A d \in Calls : ~Ahead(d, x)
  BY <1>2 DEF Ahead, Locks
<1> HIDE DEF v, e, g
<1>5. /\ call'[c] = g /\ \A d \in Calls \ {c} : call'[d] = call[d]
      /\ cache'[v] = e /\ \A x \in Versions \ {v} : cache'[x] = cache[x]
  BY <1>1, <1>2 DEF IInv, TypeOK
<1>6. \A x \in Versions : x = v => Agreed(x)'
  BY <1>1, <1>2, <1>4, <1>5 DEF Agreed
<1>7. \A x \in Versions \ {v} : Agreed(x)'
  BY <1>1, <1>5, <1>a DEF SnapshotInv, Agreed
<1>8. \A d \in Calls : Faithful(d)'
  BY <1>2, <1>3, <1>5 DEF Faithful, Locks
<1>9. Immutable
  BY <1>4, <1>5 DEF Immutable
<1>10. QED BY <1>6, <1>7, <1>8, <1>9 DEF SnapshotInv

\* A call that ends leaves the cache behind the store by a registration only if
\* that was lost.
LEMMA EndSnapshot ==
  ASSUME IInv, SnapshotInv, NEW c \in Calls, ~RegistrationLost(c),
         SaveFails(c) \/ Record(c) \/ RecordFails(c)
  PROVE  SnapshotInv' /\ Immutable
<1>1. /\ cache' = cache /\ store' = store
      /\ call'[c] = Idle /\ \A d \in Calls \ {c} : call'[d] = call[d]
  BY DEF SaveFails, Record, RecordFails, IInv, TypeOK
<1>2. Idle.phase = "idle"
  BY DEF Idle
<1>3. ASSUME NEW x \in Versions, cache[x].state = "ABSENT" PROVE ~Ahead(c, x)
  <2>1. SUFFICES ASSUME Ahead(c, x) PROVE FALSE
    OBVIOUS
  <2>2. SaveFails(c) /\ Locks(c)
    BY <2>1 DEF Ahead, Locks, Record, RecordFails
  <2>3. Leads("ABSENT", call[c].entry.state)
    BY <1>3, <2>1, <2>2 DEF Ahead, IInv, Pending
  <2>4. call[c].entry.state = "DRAFT"
    BY <2>3 DEF Leads, Transitions
  <2>5. QED BY <2>1, <2>2, <2>4 DEF RegistrationLost, Ahead
<1>4. \A x \in Versions : Agreed(x)'
  BY <1>1, <1>3 DEF SnapshotInv, Agreed, Ahead
<1>5. \A d \in Calls : Faithful(d)'
  BY <1>1, <1>2 DEF SnapshotInv, Faithful, Locks
<1>6. QED BY <1>1, <1>4, <1>5 DEF SnapshotInv, Immutable

\* hydrate() finds the definitions that the cache held.
LEMMA RestartSnapshot ==
  ASSUME IInv, SnapshotInv, Restart
  PROVE  SnapshotInv' /\ Immutable
<1>1. /\ cache' = store /\ store' = store
      /\ call' = [c \in Calls |-> Idle]
  BY DEF Restart
<1>2. Idle.phase = "idle"
  BY DEF Idle
<1>3. (\A x \in Versions : Agreed(x)') /\ (\A d \in Calls : Faithful(d)')
  BY <1>1, <1>2 DEF Agreed, Faithful, Locks
<1>4. QED BY <1>1, <1>3 DEF SnapshotInv, Immutable, Agreed

\* Every step, unless a registration is lost.
LEMMA SnapshotStep ==
  ASSUME IInv, SnapshotInv, [Next]_vars,
         [\A c \in Calls : ~RegistrationLost(c)]_vars
  PROVE  SnapshotInv' /\ [Immutable]_vars
<1>1. CASE UNCHANGED vars
  <2>1. \A v \in Versions : Agreed(v)'
    BY <1>1 DEF vars, SnapshotInv, Agreed, Ahead
  <2>2. \A c \in Calls : Faithful(c)'
    BY <1>1 DEF vars, SnapshotInv, Faithful, Locks
  <2>3. QED BY <1>1, <2>1, <2>2 DEF SnapshotInv
<1>2. CASE Next /\ \A c \in Calls : ~RegistrationLost(c)
  BY <1>2, BeginSnapshot, CommitSnapshot, AcknowledgeSnapshot, EndSnapshot,
     RestartSnapshot DEF Next
<1>3. QED BY <1>1, <1>2

\* What the violated SnapshotsImmutable (run registry_snapshots) lacks is that
\* register() tells a save that was committed from one that was not: if no
\* committed registration is reported as failed, a version keeps its definition,
\* however many other saves and acknowledgements are lost and however often the
\* process restarts.
THEOREM SnapshotsStand == Spec /\ NoRegistrationIsLost => SnapshotsImmutable
<1>1. Init => SnapshotInv
  BY DEF Init, Absent, Idle, SnapshotInv, Agreed, Faithful, Locks
<1>2. ASSUME IInv, SnapshotInv, [Next]_vars,
             [\A c \in Calls : ~RegistrationLost(c)]_vars
      PROVE  SnapshotInv' /\ [Immutable]_vars
  BY <1>2, SnapshotStep
<1>3. QED
  BY <1>1, <1>2, Invariance, PTL
     DEF Spec, NoRegistrationIsLost, SnapshotsImmutable, Immutable

-----------------------------------------------------------------------------
(* What the registry serves. *)

\* Version v as the cache has it.
served(v) == [x \in {v} |-> [state |-> cache[x].state, digest |-> cache[x].digest]]

Served(v) == INSTANCE VersionLifecycle
               WITH Versions <- {v}, version <- served(v)

\* A transition of one version that keeps its definition is one of its lifecycle.
LEMMA ServedLeads ==
  ASSUME IInv, IInv', NEW v \in Versions,
         Leads(cache[v].state, cache'[v].state),
         cache[v].state # "ABSENT" => cache'[v].digest = cache[v].digest
  PROVE  Served(v)!LifecycleNext
<1>1. /\ cache[v] \in RegistryEntry /\ Whole(cache[v])
      /\ cache'[v] \in RegistryEntry /\ (Whole(cache[v]))'
  BY DEF IInv, TypeOK, Entries
<1> DEFINE s == cache[v].state
           t == cache'[v].state
<1>2. /\ served(v)[v] = [state |-> s, digest |-> cache[v].digest]
      /\ served(v)' = [x \in {v} |-> [state |-> t, digest |-> cache'[v].digest]]
  BY DEF served
<1>3. CASE s = "ABSENT"
  <2>1. t = "DRAFT"
    BY <1>3 DEF Leads, Transitions
  <2>2. cache'[v].digest \in Digests
    BY <1>1, <2>1 DEF RegistryEntry, Whole
  <2>3. served(v)[v] = Served(v)!Unregistered
    BY <1>1, <1>2, <1>3 DEF Whole, Served!Unregistered
  <2>4. served(v)' = [served(v) EXCEPT ![v] =
                        [state |-> "DRAFT", digest |-> cache'[v].digest]]
    BY <1>2, <2>1 DEF served
  <2>5. Served(v)!Create(v, cache'[v].digest)
    BY <2>3, <2>4 DEF Served!Create
  <2>6. QED BY <2>2, <2>5 DEF Served!LifecycleNext
<1>4. CASE s # "ABSENT"
  <2>1. served(v)' = [served(v) EXCEPT ![v].state = t]
    BY <1>2, <1>4 DEF served
  <2>2. Served(v)!Advance(v, s, t)
    BY <1>2, <2>1 DEF served, Served!Advance
  <2>3. <<s, t>> \in {<<"DRAFT", "APPROVED">>, <<"APPROVED", "ACTIVE">>,
                      <<"ACTIVE", "SUSPENDED">>}
    BY <1>4 DEF Leads, Transitions
  <2>4. QED BY <2>2, <2>3 DEF Served!LifecycleNext
<1>5. QED BY <1>3, <1>4

\* Whatever a call or a restart puts into the cache leads on from it.
LEMMA ServedStep ==
  ASSUME IInv, IInv', SnapshotInv, SnapshotInv', Immutable, Next,
         NEW v \in Versions
  PROVE  [Served(v)!LifecycleNext]_(served(v))
<1>1. \/ cache'[v] = cache[v]
      \/ Leads(cache[v].state, cache'[v].state)
      \/ cache'[v].state = cache[v].state
  <2>1. ASSUME NEW c \in Calls, Acknowledge(c)
        PROVE  \/ cache'[v] = cache[v]
               \/ Leads(cache[v].state, cache'[v].state)
    <3>1. /\ cache' = [cache EXCEPT ![call[c].version] = call[c].entry]
          /\ Leads(cache[call[c].version].state, call[c].entry.state)
      BY <2>1 DEF Acknowledge, IInv, Pending, Locks
    <3>2. QED BY <3>1 DEF IInv, TypeOK
  <2>2. CASE Restart
    BY <2>2 DEF Restart, IInv, Behind
  <2>3. ASSUME NEW c \in Calls,
               \/ \E x \in Versions : Operation(c, x)
               \/ Commit(c) \/ SaveFails(c) \/ Record(c) \/ RecordFails(c)
        PROVE  cache' = cache
    BY <2>3 DEF Operation, Register, Approve, Activate, Suspend, Begin, Commit,
       SaveFails, Record, RecordFails
  <2>4. QED BY <2>1, <2>2, <2>3 DEF Next
<1>2. cache[v].state # "ABSENT" => cache'[v].digest = cache[v].digest
  BY DEF Immutable
<1>3. CASE cache'[v].state = cache[v].state
  <2>1. cache'[v].digest = cache[v].digest
    BY <1>2, <1>3 DEF IInv, Entries, Whole
  <2>2. served(v)' = served(v)
    BY <1>3, <2>1 DEF served
  <2>3. QED BY <2>2
<1>4. CASE Leads(cache[v].state, cache'[v].state)
  BY <1>2, <1>4, ServedLeads
<1>5. QED BY <1>1, <1>3, <1>4

\* What AgentRuns takes the registries to be, for each version: unless a committed
\* registration is reported as failed, the version that the cache serves passes
\* through the lifecycle of immutable versions, across failures and restarts.
\* (A restart may take several versions a step further at once.)
THEOREM CacheImplementsLifecycle ==
  ASSUME NEW v \in Versions
  PROVE  Spec /\ NoRegistrationIsLost => Served(v)!LifecycleSpec
<1>1. Init => Served(v)!LifecycleInit /\ SnapshotInv
  BY DEF Init, Absent, Idle, SnapshotInv, Agreed, Faithful, Locks, served,
         Served!LifecycleInit, Served!Unregistered
<1>2. ASSUME IInv, IInv', SnapshotInv, [Next]_vars,
             [\A c \in Calls : ~RegistrationLost(c)]_vars
      PROVE  SnapshotInv' /\ [Served(v)!LifecycleNext]_(served(v))
  <2>1. SnapshotInv' /\ [Immutable]_vars
    BY <1>2, SnapshotStep
  <2>2. CASE UNCHANGED vars
    BY <2>1, <2>2 DEF vars, served
  <2>3. CASE Next /\ Immutable
    BY <1>2, <2>1, <2>3, ServedStep
  <2>4. QED BY <1>2, <2>1, <2>2, <2>3 DEF vars
<1>3. QED
  BY <1>1, <1>2, Invariance, PTL
     DEF Spec, NoRegistrationIsLost, Served!LifecycleSpec

=============================================================================
