------------------------ MODULE ReleaseAuthorityProofs ------------------------
(***************************************************************************)
(* What holds of the release authority for every set of releases, callers  *)
(* and decisions.  The central argument: every step replaces at most one   *)
(* release, by a record that is well formed in its state (WellFormed) and  *)
(* that keeps what authorised the old one (Keeps).  The snapshot a         *)
(* rollback carries over its suspension point therefore stays equal to the *)
(* target in everything that authorises it, and writing it back is safe.   *)
(*                                                                         *)
(* The second half is about callers that are alone (ReleaseHistory): where *)
(* the one call that is under way stands determines how far the map, the   *)
(* releases and the trail have got ahead of each other (Good).             *)
(***************************************************************************)
EXTENDS ReleaseHistory, TLAPS

(* The inductive invariant. *)

BeforeIt == {"ABSENT", "DRAFT", "IMPLEMENTED", "AUTOMATED_ASSURANCE",
             "AI_REVIEWED", "READY_FOR_IT"}

BeforeDirector == BeforeIt \cup {"IT_APPROVED", "READY_FOR_DIRECTOR"}

AfterIt == {"IT_APPROVED", "READY_FOR_DIRECTOR", "DIRECTOR_APPROVED"}
           \cup AfterRelease

\* What the state of the record g of release r says of its other fields.
WellFormed(g, r) ==
  /\ g.state \notin {"REVISION_REQUIRED", "BLOCKED"}
  /\ g.state \in BeforeIt => g.it = None
  /\ g.state \in BeforeDirector => g.director = None
  /\ g.state \in AfterIt => Approves(g.it, r, "IT")
  /\ g.state = "DIRECTOR_APPROVED" => Approves(g.director, r, "DIRECTOR")
  /\ g.state \in AfterRelease /\ r \in Material =>
       Approves(g.director, r, "DIRECTOR")
  /\ g.state \in {"READY_FOR_DIRECTOR", "DIRECTOR_APPROVED"} => r \in Material
  /\ g.director # None => r \in Material
  /\ g.everReleased <=> g.state \in AfterRelease
  /\ g.kill => g.state = "SUSPENDED"

\* What no step may change of a release that has been released.
Keeps(old, new) ==
  old.everReleased => /\ new.everReleased
                      /\ new.it = old.it
                      /\ new.director = old.director

\* A suspended rollback's snapshot still agrees with the target's record.
Fresh(p, table) ==
  p.next = "restore" =>
    /\ p.target \in Releases
    /\ p.snapshot.everReleased
    /\ Keeps(p.snapshot, table[p.target])

\* A suspended call knows its release and the entity of its event.
Located(p) == p.next # "idle" => p.release \in Releases /\ p.entity \in Releases

IInv ==
  /\ TypeOK
  /\ \A r \in Releases : WellFormed(release[r], r)
  /\ RollbackTraceable
  /\ \A c \in Calls : Fresh(call[c], release) /\ Located(call[c])

-----------------------------------------------------------------------------
(* One release is replaced. *)

\* Replacing release r by g is one of the steps of ReleaseGates: it starts or
\* stops r or nothing, it collects one more approval, or it publishes.
Lawful(r, g) ==
  \/ /\ Approvals(g) = Approvals(release[r])
     /\ g.everReleased = release[r].everReleased
  \/ /\ ~release[r].everReleased /\ ~g.everReleased
     /\ \E a \in Gates!Required(r) :
          /\ a = "DIRECTOR" => "IT" \in Approvals(release[r])
          /\ Approvals(g) = Approvals(release[r]) \cup {a}
  \/ /\ ~release[r].everReleased /\ g.everReleased
     /\ g.state # "ACTIVE"
     /\ Approvals(release[r]) = Gates!Required(r)
     /\ Approvals(g) = Approvals(release[r])

\* The conditions under which replacing release r by g is safe.
Safe(r, g) ==
  /\ g \in GovernedRelease
  /\ WellFormed(g, r)
  /\ Keeps(release[r], g)
  /\ Lawful(r, g)
  /\ g.state = "ROLLED_BACK" =>
       \E t \in Releases \ {r} : /\ g.rollbackTarget = t
                                 /\ Subject[t] = Subject[r]
                                 /\ release[t].everReleased

\* Replacing one release safely keeps the table typed and well formed, every
\* rolled back release traceable, and every suspended snapshot fresh.
LEMMA Replacement ==
  ASSUME IInv, NEW r \in Releases, NEW g, Safe(r, g),
         release' = [release EXCEPT ![r] = g]
  PROVE  /\ release' \in [Releases -> GovernedRelease]
         /\ \A x \in Releases : Keeps(release[x], release'[x])
         /\ \A x \in Releases : WellFormed(release'[x], x)
         /\ RollbackTraceable'
         /\ \A p \in Call : Fresh(p, release) => Fresh(p, release')
<1>1. release' \in [Releases -> GovernedRelease]
  BY DEF IInv, TypeOK, Safe
<1>2. \A x \in Releases : release'[x] = IF x = r THEN g ELSE release[x]
  BY DEF IInv, TypeOK
<1>3. \A x \in Releases : Keeps(release[x], release'[x])
  BY <1>2 DEF Safe, Keeps
<1>4. \A x \in Releases : WellFormed(release'[x], x)
  BY <1>2 DEF Safe, IInv
<1>5. RollbackTraceable'
  <2>1. \A t \in Releases : release[t].everReleased => release'[t].everReleased
    BY <1>3 DEF Keeps
  <2>2. SUFFICES ASSUME NEW x \in Releases, release'[x].state = "ROLLED_BACK"
                 PROVE  \E t \in Releases \ {x} :
                          /\ release'[x].rollbackTarget = t
                          /\ Subject[t] = Subject[x]
                          /\ release'[t].everReleased
    BY DEF RollbackTraceable
  <2>3. CASE x = r
    BY <2>1, <2>2, <2>3, <1>2 DEF Safe
  <2>4. CASE x # r
    BY <2>1, <2>2, <2>4, <1>2 DEF IInv, RollbackTraceable
  <2>5. QED BY <2>3, <2>4
<1>6. \A p \in Call : Fresh(p, release) => Fresh(p, release')
  BY <1>3 DEF Fresh, Keeps
<1>7. QED BY <1>1, <1>3, <1>4, <1>5, <1>6

\* Replacing one release safely is a step of the abstract specification.
LEMMA ReplacementSimulates ==
  ASSUME IInv, NEW r \in Releases, NEW g, Safe(r, g),
         release' = [release EXCEPT ![r] = g]
  PROVE  [Gates!Next]_(Gates!vars)
<1> DEFINE approved == [x \in Releases |-> Approvals(release[x])]
           published == {x \in Releases : release[x].everReleased}
           executable == {x \in Releases : ExecutionAllowed(x)}
<1>1. \A x \in Releases : release'[x] = IF x = r THEN g ELSE release[x]
  BY DEF IInv, TypeOK
<1>2. approved' = [approved EXCEPT ![r] = Approvals(g)]
  <2>1. approved' = [x \in Releases |-> Approvals(release'[x])]
    BY DEF Approvals
  <2>2. approved = [x \in Releases |-> Approvals(release[x])]
    OBVIOUS
  <2> HIDE DEF approved
  <2>3. QED BY <1>1, <2>1, <2>2
<1>3. published' = IF g.everReleased THEN published \cup {r}
                                     ELSE published \ {r}
  BY <1>1 DEF Safe, GovernedRelease
<1>4. executable' = IF g.state = "ACTIVE" /\ ~g.kill
                    THEN executable \cup {r} ELSE executable \ {r}
  BY <1>1 DEF ExecutionAllowed
<1>5. r \in executable => r \in published
  BY DEF ExecutionAllowed, IInv, WellFormed, AfterRelease
<1>6. g.state = "ACTIVE" => g.everReleased
  BY DEF Safe, WellFormed, AfterRelease
<1>7. /\ approved[r] = Approvals(release[r])
      /\ r \in published <=> release[r].everReleased
      /\ g.everReleased \in BOOLEAN /\ release[r].everReleased \in BOOLEAN
  BY DEF IInv, TypeOK, Safe, GovernedRelease
<1> HIDE DEF approved, published, executable
<1>8. CASE /\ Approvals(g) = Approvals(release[r])
           /\ g.everReleased = release[r].everReleased
  <2>1. approved' = approved
    BY <1>2, <1>8 DEF approved
  <2>2. published' = published
    BY <1>3, <1>7, <1>8
  <2>3. CASE g.state = "ACTIVE" /\ ~g.kill
    BY <1>4, <1>6, <1>7, <1>8, <2>1, <2>2, <2>3
       DEF Gates!Next, Gates!Start, approved, published, executable
  <2>4. CASE ~(g.state = "ACTIVE" /\ ~g.kill)
    BY <1>4, <2>1, <2>2, <2>4
       DEF Gates!Next, Gates!Stop, approved, published, executable
  <2>5. QED BY <2>3, <2>4
<1>9. ASSUME ~release[r].everReleased, ~g.everReleased,
             NEW a \in Gates!Required(r),
             a = "DIRECTOR" => "IT" \in Approvals(release[r]),
             Approvals(g) = Approvals(release[r]) \cup {a}
      PROVE  Gates!Next
  <2>1. published' = published /\ executable' = executable
    BY <1>3, <1>4, <1>5, <1>6, <1>7, <1>9
  <2>2. approved' = [approved EXCEPT ![r] = @ \cup {a}]
    BY <1>2, <1>7, <1>9
  <2>3. r \notin published /\ (a = "DIRECTOR" => "IT" \in approved[r])
    BY <1>7, <1>9
  <2>4. a \in {"IT", "DIRECTOR"}
    BY DEF Gates!Required
  <2>5. QED
    BY <2>1, <2>2, <2>3, <2>4
       DEF Gates!Next, Gates!Approve, approved, published, executable
<1>10. CASE /\ ~release[r].everReleased /\ g.everReleased
            /\ g.state # "ACTIVE"
            /\ Approvals(release[r]) = Gates!Required(r)
            /\ Approvals(g) = Approvals(release[r])
  <2>1. published' = published \cup {r}
    BY <1>3, <1>10
  <2>2. executable' = executable
    BY <1>4, <1>5, <1>7, <1>10
  <2>3. approved' = approved /\ approved[r] = Gates!Required(r)
    BY <1>2, <1>7, <1>10 DEF approved
  <2>4. QED
    BY <2>1, <2>2, <2>3
       DEF Gates!Next, Gates!Publish, approved, published, executable
<1>11. QED BY <1>8, <1>9, <1>10 DEF Safe, Lawful

\* What every step achieves: the invariant again, nothing lost of a released
\* release, and a step of the abstract specification.
Preserves ==
  /\ IInv'
  /\ \A x \in Releases : Keeps(release[x], release'[x])
  /\ [Gates!Next]_(Gates!vars)

\* The invariant after a step that replaces one release safely and leaves
\* every call idle, as it was, or located with a fresh snapshot.
LEMMA ReplacementInv ==
  ASSUME IInv, NEW r \in Releases, NEW g, Safe(r, g),
         release' = [release EXCEPT ![r] = g],
         NEW c \in Calls, NEW p \in Call,
         Fresh(p, release), Located(p),
         call' = [call EXCEPT ![c] = p],
         activeBySubject' \in [Subjects -> Releases \cup {None}],
         lastEvent' \in [Releases -> ReleaseState \cup {"ABSENT"}]
  PROVE  Preserves
<1>1. /\ release' \in [Releases -> GovernedRelease]
      /\ \A x \in Releases : WellFormed(release'[x], x)
      /\ RollbackTraceable'
      /\ \A q \in Call : Fresh(q, release) => Fresh(q, release')
      /\ \A x \in Releases : Keeps(release[x], release'[x])
  BY Replacement
<1>2. call \in [Calls -> Call] /\ call' \in [Calls -> Call]
  BY DEF IInv, TypeOK
<1>3. \A d \in Calls : Fresh(call'[d], release) /\ Located(call'[d])
  BY <1>2 DEF IInv
<1>4. \A d \in Calls : Fresh(call'[d], release')
  BY <1>1, <1>2, <1>3
<1>5. TypeOK'
  BY <1>1, <1>2 DEF TypeOK
<1>6. IInv'
  BY <1>1, <1>3, <1>4, <1>5 DEF IInv
<1>7. [Gates!Next]_(Gates!vars)
  BY ReplacementSimulates
<1>8. QED BY <1>1, <1>6, <1>7 DEF Preserves

\* A transition that awaits its append leaves a well-typed call.
LEMMA AwaitingCall ==
  ASSUME NEW n \in Continuations \ {"restore"},
         NEW r \in Releases, NEW e \in Releases,
         NEW o \in ReleaseState \cup {"ABSENT"}
  PROVE  LET p == Awaiting(n, r, e, o)
         IN p \in Call /\ Fresh(p, release) /\ Located(p)
BY ReleaseAssumption
   DEF Awaiting, Idle, Absent, Call, GovernedRelease, Fresh, Located,
       Continuations

\* A caller that is not suspended holds nothing that could be stale.
LEMMA IdleCall == Idle \in Call /\ Fresh(Idle, release) /\ Located(Idle)
BY ReleaseAssumption
   DEF Idle, Absent, Call, GovernedRelease, Fresh, Located, Continuations

\* A safe transition preserves the invariant, whatever its continuation.
LEMMA TransitionInv ==
  ASSUME IInv, NEW c \in Calls, NEW r \in Releases, NEW expected, NEW g,
         NEW n \in Continuations \ {"restore"}, Safe(r, g),
         Transition(c, r, expected, g, n)
  PROVE  Preserves
<1> DEFINE p == Awaiting(n, r, r, g.state)
<1>1. p \in Call /\ Fresh(p, release) /\ Located(p)
  <2>1. g.state \in ReleaseState \cup {"ABSENT"}
    BY DEF Safe, GovernedRelease
  <2>2. QED BY <2>1, AwaitingCall
<1>2. /\ release' = [release EXCEPT ![r] = g]
      /\ call' = [call EXCEPT ![c] = p]
      /\ activeBySubject' \in [Subjects -> Releases \cup {None}]
      /\ lastEvent' \in [Releases -> ReleaseState \cup {"ABSENT"}]
  BY DEF Transition, Suspend, IInv, TypeOK
<1> HIDE DEF p
<1>3. QED BY <1>1, <1>2, ReplacementInv

\* A step that leaves the releases alone and keeps every other call.
LEMMA CallStepInv ==
  ASSUME IInv, NEW c \in Calls, call' = [call EXCEPT ![c] = Idle],
         release' = release,
         activeBySubject' \in [Subjects -> Releases \cup {None}],
         lastEvent' \in [Releases -> ReleaseState \cup {"ABSENT"}]
  PROVE  Preserves
<1>1. call' \in [Calls -> Call]
  BY IdleCall DEF IInv, TypeOK
<1>2. \A d \in Calls : Fresh(call'[d], release) /\ Located(call'[d])
  BY IdleCall DEF IInv, TypeOK
<1>3. TypeOK'
  BY <1>1 DEF IInv, TypeOK
<1>4. IInv'
  BY <1>2, <1>3 DEF IInv, RollbackTraceable
<1>5. QED
  BY <1>4 DEF Preserves, Keeps, Gates!vars, ExecutionAllowed

-----------------------------------------------------------------------------
(* The lifecycle. *)

\* The fields of a release in a given state, as far as they matter below.
LEMMA RecordFields ==
  ASSUME IInv, NEW r \in Releases
  PROVE  /\ release[r] \in GovernedRelease
         /\ WellFormed(release[r], r)
BY DEF IInv, TypeOK

\* The moves between the states before the IT decision, and those that only
\* hand the release on to the Director.
LEMMA MoveInv ==
  ASSUME IInv, NEW c \in Calls, NEW r \in Releases,
         NEW expected, NEW s,
         \/ expected \subseteq BeforeIt \cup {"REVISION_REQUIRED"} /\ s \in BeforeIt
         \/ /\ expected = {"IT_APPROVED"}
            /\ s = "READY_FOR_DIRECTOR"
            /\ r \in Material,
         Move(c, r, expected, s)
  PROVE  Preserves
<1> DEFINE g == [release[r] EXCEPT !.state = s]
<1>1. release[r].state \in expected
  BY DEF Move, Transition
<1>2. Safe(r, g)
  <2>1. g \in GovernedRelease
    BY RecordFields
       DEF GovernedRelease, ReleaseState, BeforeIt
  <2>2. WellFormed(g, r)
    BY <1>1, RecordFields
       DEF WellFormed, GovernedRelease, BeforeIt, BeforeDirector, AfterIt,
           AfterRelease
  <2>3. Keeps(release[r], g)
    BY <1>1, RecordFields
       DEF Keeps, WellFormed, GovernedRelease, BeforeIt, AfterRelease
  <2>4. g.state # "ROLLED_BACK"
    BY RecordFields DEF BeforeIt, GovernedRelease
  <2>5. Lawful(r, g)
    BY RecordFields DEF Lawful, Approvals, GovernedRelease
  <2>6. QED BY <2>1, <2>2, <2>3, <2>4, <2>5 DEF Safe
<1>3. Transition(c, r, expected, g, "return")
  BY DEF Move
<1>4. "return" \in Continuations \ {"restore"}
  BY DEF Continuations
<1> HIDE DEF g
<1>5. QED BY <1>2, <1>3, <1>4, TransitionInv

\* A decision is an element of the type that the submitted ones come from.
LEMMA DecisionFields ==
  ASSUME NEW d \in Decisions
  PROVE  d \in Decision /\ d # None
BY ReleaseAssumption

\* A transition to a safe record preserves the invariant, and every lifecycle
\* step but the plain moves is one: what it writes is safe.
LEMMA ItDecisionSafe ==
  ASSUME IInv, NEW r \in Releases, NEW d \in Decisions,
         d.authority = "IT", DecisionFits(d, r),
         release[r].state = "READY_FOR_IT"
  PROVE  Safe(r, [release[r] EXCEPT
                    !.state = DecisionTarget(d.outcome, "IT_APPROVED"),
                    !.it = d])
<1> DEFINE s == DecisionTarget(d.outcome, "IT_APPROVED")
           g == [release[r] EXCEPT !.state = s, !.it = d]
<1>1. /\ s \in {"IT_APPROVED", "RETURNED", "REJECTED", "HOLD"}
      /\ s = "IT_APPROVED" => d.outcome = "APPROVED"
  BY DecisionFields DEF DecisionTarget, Decision, Outcomes
<1> HIDE DEF s
<1>2. g \in GovernedRelease
  BY <1>1, RecordFields DEF GovernedRelease, ReleaseState
<1>3. WellFormed(g, r)
  BY <1>1, RecordFields, DecisionFields
     DEF WellFormed, GovernedRelease, BeforeIt, BeforeDirector, AfterIt,
         AfterRelease, Approves, DecisionFits
<1>4. Keeps(release[r], g) /\ g.state # "ROLLED_BACK"
  BY <1>1, RecordFields
     DEF Keeps, WellFormed, GovernedRelease, AfterRelease
<1>5. Lawful(r, g)
  <2>1. release[r].it = None /\ release[r].director = None
    BY RecordFields DEF WellFormed, BeforeIt, BeforeDirector
  <2>2. /\ g.it = d /\ g.director = None
        /\ g.everReleased = release[r].everReleased
        /\ ~release[r].everReleased
    BY <2>1, RecordFields DEF GovernedRelease, WellFormed, AfterRelease
  <2>3. Approvals(release[r]) = {}
    BY <2>1 DEF Approvals
  <2>4. CASE d.outcome = "APPROVED"
    BY <2>2, <2>3, <2>4, DecisionFields
       DEF Lawful, Approvals, Authorities, Gates!Required
  <2>5. CASE d.outcome # "APPROVED"
    BY <2>2, <2>3, <2>5 DEF Lawful, Approvals
  <2>6. QED BY <2>4, <2>5
<1>6. QED BY <1>2, <1>3, <1>4, <1>5 DEF Safe, s

\* record_director_decision() adds the decision and moves on within the gates.
LEMMA DirectorDecisionSafe ==
  ASSUME IInv, NEW r \in Releases, NEW d \in Decisions,
         d.authority = "DIRECTOR", DecisionFits(d, r),
         release[r].state = "READY_FOR_DIRECTOR"
  PROVE  Safe(r, [release[r] EXCEPT
                    !.state = DecisionTarget(d.outcome, "DIRECTOR_APPROVED"),
                    !.director = d])
<1> DEFINE s == DecisionTarget(d.outcome, "DIRECTOR_APPROVED")
           g == [release[r] EXCEPT !.state = s, !.director = d]
<1>1. /\ s \in {"DIRECTOR_APPROVED", "RETURNED", "REJECTED", "HOLD"}
      /\ s = "DIRECTOR_APPROVED" => d.outcome = "APPROVED"
  BY DecisionFields DEF DecisionTarget, Decision, Outcomes
<1> HIDE DEF s
<1>2. g \in GovernedRelease
  BY <1>1, RecordFields DEF GovernedRelease, ReleaseState
<1>3. WellFormed(g, r)
  BY <1>1, RecordFields, DecisionFields
     DEF WellFormed, GovernedRelease, BeforeIt, BeforeDirector, AfterIt,
         AfterRelease, Approves, DecisionFits
<1>4. Keeps(release[r], g) /\ g.state # "ROLLED_BACK"
  BY <1>1, RecordFields
     DEF Keeps, WellFormed, GovernedRelease, AfterRelease
<1>5. Lawful(r, g)
  <2>1. /\ release[r].director = None /\ r \in Material
        /\ Approves(release[r].it, r, "IT")
    BY RecordFields DEF WellFormed, BeforeDirector, AfterIt
  <2>2. /\ g.it = release[r].it /\ g.director = d
        /\ g.everReleased = release[r].everReleased
        /\ ~release[r].everReleased
    BY RecordFields DEF GovernedRelease, WellFormed, AfterRelease
  <2>3. Approvals(release[r]) = {"IT"}
    BY <2>1 DEF Approvals, Approves, Authorities
  <2>4. CASE d.outcome = "APPROVED"
    BY <2>1, <2>2, <2>3, <2>4, DecisionFields
       DEF Lawful, Approvals, Approves, Authorities, Gates!Required
  <2>5. CASE d.outcome # "APPROVED"
    BY <2>1, <2>2, <2>3, <2>5 DEF Lawful, Approvals, Approves, Authorities
  <2>6. QED BY <2>4, <2>5
<1>6. QED BY <1>2, <1>3, <1>4, <1>5 DEF Safe, s

\* release() finds its decisions approved.
LEMMA ReleaseSafe ==
  ASSUME IInv, NEW r \in Releases, release[r].state \in ReleaseGate(r)
  PROVE  Safe(r, [release[r] EXCEPT !.state = "RELEASED",
                                    !.everReleased = TRUE])
<1> DEFINE g == [release[r] EXCEPT !.state = "RELEASED", !.everReleased = TRUE]
<1>1. g \in GovernedRelease
  BY RecordFields DEF GovernedRelease, ReleaseState
<1>2. WellFormed(g, r)
  BY RecordFields
     DEF WellFormed, GovernedRelease, BeforeIt, BeforeDirector, AfterIt,
         AfterRelease, ReleaseGate, RequiresDirector
<1>3. Keeps(release[r], g) /\ g.state # "ROLLED_BACK"
  BY RecordFields DEF Keeps, GovernedRelease
<1>4. Lawful(r, g)
  <2>1. /\ ~release[r].everReleased
        /\ g.it = release[r].it /\ g.director = release[r].director
        /\ g.everReleased /\ g.state # "ACTIVE"
    BY RecordFields
       DEF WellFormed, AfterRelease, ReleaseGate, GovernedRelease
  <2>2. Approves(release[r].it, r, "IT")
    BY RecordFields DEF WellFormed, AfterIt, ReleaseGate
  <2>3. IF r \in Material THEN Approves(release[r].director, r, "DIRECTOR")
                          ELSE release[r].director = None
    BY RecordFields
       DEF WellFormed, ReleaseGate, RequiresDirector, BeforeDirector
  <2>4. Approvals(release[r]) = Gates!Required(r)
    BY <2>2, <2>3 DEF Approvals, Approves, Authorities, Gates!Required
  <2>5. QED BY <2>1, <2>4 DEF Lawful, Approvals
<1>5. QED BY <1>1, <1>2, <1>3, <1>4 DEF Safe

\* A released record stays well formed in any of the states of operation, as
\* long as a kill switch is on in SUSPENDED only.
LEMMA OperationSafe ==
  ASSUME IInv, NEW r \in Releases, NEW g \in GovernedRelease,
         release[r].everReleased,
         g.everReleased,
         g.it = release[r].it,
         g.director = release[r].director,
         g.state \in {"ACTIVE", "SUSPENDED"},
         g.kill => g.state = "SUSPENDED"
  PROVE  Safe(r, g)
<1>1. release[r].state \in AfterRelease
  BY RecordFields DEF WellFormed, GovernedRelease
<1>2. WellFormed(g, r)
  BY <1>1, RecordFields
     DEF WellFormed, BeforeIt, BeforeDirector, AfterIt, AfterRelease
<1>3. Keeps(release[r], g)
  BY DEF Keeps
<1>4. Lawful(r, g)
  BY RecordFields DEF Lawful, Approvals, GovernedRelease
<1>5. QED BY <1>2, <1>3, <1>4 DEF Safe

-----------------------------------------------------------------------------
(* Every step preserves the invariant. *)

\* The operations up to release() keep the invariant.
LEMMA LifecycleInv ==
  ASSUME IInv, NEW c \in Calls, NEW r \in Releases, Lifecycle(c, r)
  PROVE  Preserves
<1>0. "return" \in Continuations \ {"restore"}
  BY DEF Continuations
<1>1. CASE Create(c, r)
  BY <1>1, MoveInv DEF Create, BeforeIt
<1>2. CASE MarkImplemented(c, r)
  BY <1>2, MoveInv DEF MarkImplemented, BeforeIt
<1>3. CASE \E report \in Reports : RecordAutomatedAssurance(c, r, report)
  BY <1>3, MoveInv DEF RecordAutomatedAssurance, BeforeIt
<1>4. CASE \E package \in Packages : RecordAiReviewPackage(c, r, package)
  BY <1>4, MoveInv DEF RecordAiReviewPackage, BeforeIt
<1>5. CASE SubmitForIt(c, r)
  BY <1>5, MoveInv DEF SubmitForIt, BeforeIt
<1>6. CASE \E d \in Decisions : RecordItDecision(c, r, d)
  <2>1. PICK d \in Decisions : RecordItDecision(c, r, d)
    BY <1>6
  <2> DEFINE g == [release[r] EXCEPT
                     !.state = DecisionTarget(d.outcome, "IT_APPROVED"),
                     !.it = d]
  <2>2. /\ d.authority = "IT" /\ DecisionFits(d, r)
        /\ Transition(c, r, {"READY_FOR_IT"}, g, "return")
    BY <2>1 DEF RecordItDecision
  <2>3. Safe(r, g)
    BY <2>2, ItDecisionSafe DEF Transition
  <2> HIDE DEF g
  <2>4. QED BY <1>0, <2>2, <2>3, TransitionInv
<1>7. CASE SubmitForDirector(c, r)
  BY <1>7, MoveInv DEF SubmitForDirector, RequiresDirector
<1>8. CASE \E d \in Decisions : RecordDirectorDecision(c, r, d)
  <2>1. PICK d \in Decisions : RecordDirectorDecision(c, r, d)
    BY <1>8
  <2> DEFINE g == [release[r] EXCEPT
                     !.state = DecisionTarget(d.outcome, "DIRECTOR_APPROVED"),
                     !.director = d]
  <2>2. /\ d.authority = "DIRECTOR" /\ DecisionFits(d, r)
        /\ Transition(c, r, {"READY_FOR_DIRECTOR"}, g, "return")
    BY <2>1 DEF RecordDirectorDecision
  <2>3. Safe(r, g)
    BY <2>2, DirectorDecisionSafe DEF Transition
  <2> HIDE DEF g
  <2>4. QED BY <1>0, <2>2, <2>3, TransitionInv
<1>9. CASE Release(c, r)
  <2> DEFINE g == [release[r] EXCEPT !.state = "RELEASED",
                                     !.everReleased = TRUE]
  <2>1. Transition(c, r, ReleaseGate(r), g, "return")
    BY <1>9 DEF Release
  <2>2. Safe(r, g)
    BY <2>1, ReleaseSafe DEF Transition
  <2> HIDE DEF g
  <2>3. QED BY <1>0, <2>1, <2>2, TransitionInv
<1>10. QED
  BY <1>1, <1>2, <1>3, <1>4, <1>5, <1>6, <1>7, <1>8, <1>9 DEF Lifecycle

\* The step of rollback() up to its suspension: the rolled back release names a
\* released target, and the snapshot is the target's record.
LEMMA RollbackInv ==
  ASSUME IInv, NEW c \in Calls, NEW r \in Releases, NEW target \in Releases,
         Rollback(c, r, target)
  PROVE  Preserves
<1> DEFINE g == [release[r] EXCEPT !.state = "ROLLED_BACK",
                                   !.rollbackTarget = target]
           p == [Awaiting("restore", r, r, "ROLLED_BACK") EXCEPT
                   !.target = target, !.snapshot = release[target]]
<1>1. /\ release[r].state = "ACTIVE"
      /\ target # r
      /\ Subject[target] = Subject[r]
      /\ release[target].everReleased
      /\ release' = [release EXCEPT ![r] = g]
      /\ call' = [call EXCEPT ![c] = p]
      /\ activeBySubject' \in [Subjects -> Releases \cup {None}]
      /\ lastEvent' \in [Releases -> ReleaseState \cup {"ABSENT"}]
  BY DEF Rollback, Suspend, IInv, TypeOK
<1>2. Safe(r, g)
  <2>1. g \in GovernedRelease
    BY RecordFields DEF GovernedRelease, ReleaseState
  <2>2. WellFormed(g, r)
    BY <1>1, RecordFields
       DEF WellFormed, GovernedRelease, BeforeIt, BeforeDirector, AfterIt,
           AfterRelease
  <2>3. Keeps(release[r], g) /\ g.rollbackTarget = target
    BY RecordFields DEF Keeps, GovernedRelease
  <2>4. Lawful(r, g)
    BY RecordFields DEF Lawful, Approvals, GovernedRelease
  <2>5. QED BY <1>1, <2>1, <2>2, <2>3, <2>4 DEF Safe
<1>3. p \in Call /\ Fresh(p, release) /\ Located(p)
  <2>1. release[target] \in GovernedRelease
    BY RecordFields
  <2>2. QED
    BY <1>1, <2>1, ReleaseAssumption
       DEF Awaiting, Idle, Absent, Call, Continuations, ReleaseState, Fresh,
           Keeps, Located
<1> HIDE DEF g, p
<1>4. QED BY <1>1, <1>2, <1>3, ReplacementInv

\* Every operation of an idle caller keeps the invariant.
LEMMA OperationInv ==
  ASSUME IInv, NEW c \in Calls, NEW r \in Releases, Operation(c, r)
  PROVE  Preserves
<1>0. {"supersede", "map", "unmap"} \subseteq Continuations \ {"restore"}
  BY DEF Continuations
<1>1. CASE Activate(c, r)
  <2> DEFINE g == [release[r] EXCEPT !.state = "ACTIVE", !.everReleased = TRUE]
  <2>1. Transition(c, r, {"RELEASED"}, g, "supersede")
    BY <1>1 DEF Activate
  <2>2. release[r].state = "RELEASED"
    BY <2>1 DEF Transition
  <2>3. g \in GovernedRelease
    BY RecordFields DEF GovernedRelease, ReleaseState
  <2>4. Safe(r, g)
    BY <2>2, <2>3, RecordFields, OperationSafe
       DEF WellFormed, AfterRelease, GovernedRelease
  <2> HIDE DEF g
  <2>5. QED BY <1>0, <2>1, <2>4, TransitionInv
<1>2. CASE ActivateKillSwitch(c, r)
  <2> DEFINE g == [release[r] EXCEPT !.state = "SUSPENDED", !.kill = TRUE]
  <2>1. Transition(c, r, {"ACTIVE"}, g, "unmap")
    BY <1>2 DEF ActivateKillSwitch
  <2>2. release[r].state = "ACTIVE"
    BY <2>1 DEF Transition
  <2>3. g \in GovernedRelease
    BY RecordFields DEF GovernedRelease, ReleaseState
  <2>4. Safe(r, g)
    BY <2>2, <2>3, RecordFields, OperationSafe
       DEF WellFormed, AfterRelease, GovernedRelease
  <2> HIDE DEF g
  <2>5. QED BY <1>0, <2>1, <2>4, TransitionInv
<1>3. CASE ClearKillSwitch(c, r)
  <2> DEFINE g == [release[r] EXCEPT !.state = "ACTIVE", !.kill = FALSE]
  <2>1. Transition(c, r, {"SUSPENDED"}, g, "map")
    BY <1>3 DEF ClearKillSwitch
  <2>2. release[r].state = "SUSPENDED"
    BY <2>1 DEF Transition
  <2>3. g \in GovernedRelease
    BY RecordFields DEF GovernedRelease, ReleaseState
  <2>4. Safe(r, g)
    BY <2>2, <2>3, RecordFields, OperationSafe
       DEF WellFormed, AfterRelease, GovernedRelease
  <2> HIDE DEF g
  <2>5. QED BY <1>0, <2>1, <2>4, TransitionInv
<1>4. CASE \E target \in Releases : Rollback(c, r, target)
  BY <1>4, RollbackInv
<1>5. QED BY <1>1, <1>2, <1>3, <1>4 DEF Operation

\* The write of supersede(): the mapped release is suspended.
LEMMA SupersedeInv ==
  ASSUME IInv, NEW c \in Calls, Supersede(c)
  PROVE  Preserves
<1> DEFINE r == call[c].release
           other == activeBySubject[Subject[r]]
           g == [release[other] EXCEPT !.state = "SUSPENDED"]
           p == Awaiting("map", r, other, "SUSPENDED")
<1>1. /\ call[c].next = "supersede"
      /\ other \notin {None, r}
      /\ release[other].state = "ACTIVE"
      /\ release' = [release EXCEPT ![other].state = "SUSPENDED"]
      /\ call' = [call EXCEPT ![c] = p]
      /\ activeBySubject' = activeBySubject
  BY DEF Supersede, Resume, Suspend
<1>2. r \in Releases /\ call[c].entity \in Releases /\ call[c] \in Call
  BY <1>1 DEF IInv, Located, TypeOK
<1>3. other \in Releases
  BY <1>1, <1>2, ReleaseAssumption DEF IInv, TypeOK
<1>4. g \in GovernedRelease
  BY <1>3, RecordFields DEF GovernedRelease, ReleaseState
<1>5. Safe(other, g)
  BY <1>1, <1>3, <1>4, RecordFields, OperationSafe
     DEF WellFormed, AfterRelease, GovernedRelease
<1>6. release' = [release EXCEPT ![other] = g]
  BY <1>1
<1>7. p \in Call /\ Fresh(p, release) /\ Located(p)
  BY <1>2, <1>3, AwaitingCall DEF Continuations, ReleaseState
<1>8. lastEvent' \in [Releases -> ReleaseState \cup {"ABSENT"}]
  BY <1>2 DEF Supersede, Resume, Appended, IInv, TypeOK, Call
<1>9. activeBySubject' \in [Subjects -> Releases \cup {None}]
  BY <1>1 DEF IInv, TypeOK
<1> HIDE DEF r, other, g, p
<1>10. QED
  BY <1>1, <1>3, <1>5, <1>6, <1>7, <1>8, <1>9, ReplacementInv

\* The write-back of rollback(): the snapshot is fresh, so it is safe.
LEMMA RestoreInv ==
  ASSUME IInv, NEW c \in Calls, Restore(c)
  PROVE  Preserves
<1> DEFINE target == call[c].target
           g == [call[c].snapshot EXCEPT !.state = "ACTIVE", !.kill = FALSE]
           p == Awaiting("return", target, target, "ACTIVE")
<1>1. /\ call[c].next = "restore"
      /\ release' = [release EXCEPT ![target] = g]
      /\ activeBySubject' = [activeBySubject EXCEPT ![Subject[target]] = target]
      /\ call' = [call EXCEPT ![c] = p]
  BY DEF Restore, Resume, SetActive, Suspend
<1>2. /\ call[c] \in Call
      /\ call[c].entity \in Releases
      /\ target \in Releases
      /\ call[c].snapshot \in GovernedRelease
      /\ call[c].snapshot.everReleased
      /\ release[target].everReleased
      /\ release[target].it = call[c].snapshot.it
      /\ release[target].director = call[c].snapshot.director
  BY <1>1 DEF IInv, TypeOK, Fresh, Located, Keeps, Call
<1>3. g \in GovernedRelease
  BY <1>2 DEF GovernedRelease, ReleaseState
<1>4. Safe(target, g)
  BY <1>2, <1>3, OperationSafe DEF GovernedRelease
<1>5. p \in Call /\ Fresh(p, release) /\ Located(p)
  BY <1>2, AwaitingCall DEF Continuations, ReleaseState
<1>6. lastEvent' \in [Releases -> ReleaseState \cup {"ABSENT"}]
  BY <1>2 DEF Restore, Resume, Appended, IInv, TypeOK, Call
<1>7. activeBySubject' \in [Subjects -> Releases \cup {None}]
  BY <1>1, <1>2 DEF IInv, TypeOK
<1> HIDE DEF target, g, p
<1>8. QED
  BY <1>1, <1>2, <1>4, <1>5, <1>6, <1>7, ReplacementInv

\* The continuations that end a call without touching a release.
LEMMA EndInv ==
  ASSUME IInv, NEW c \in Calls,
         \/ Return(c) \/ TakeOver(c) \/ SupersedeRefused(c)
         \/ MapActive(c) \/ Unmap(c) \/ AuditFails(c)
  PROVE  Preserves
<1>1. /\ call' = [call EXCEPT ![c] = Idle]
      /\ release' = release
      /\ call[c].next # "idle"
  BY DEF Return, TakeOver, SupersedeRefused, MapActive, Unmap, AuditFails,
         Resume, Suspend
<1>2. /\ call[c] \in Call
      /\ call[c].release \in Releases
      /\ call[c].entity \in Releases
  BY <1>1 DEF IInv, TypeOK, Located
<1>3. lastEvent' \in [Releases -> ReleaseState \cup {"ABSENT"}]
  BY <1>2 DEF Return, TakeOver, SupersedeRefused, MapActive, Unmap,
              AuditFails, Resume, Appended, IInv, TypeOK, Call
<1>4. activeBySubject' \in [Subjects -> Releases \cup {None}]
  BY <1>2 DEF Return, TakeOver, SupersedeRefused, MapActive, Unmap,
              AuditFails, SetActive, IInv, TypeOK
<1>5. QED BY <1>1, <1>3, <1>4, CallStepInv

\* So does every step.
LEMMA NextInv == IInv /\ [Next]_vars => Preserves
<1> SUFFICES ASSUME IInv, [Next]_vars PROVE Preserves
  OBVIOUS
<1>1. ASSUME NEW c \in Calls, Continue(c) PROVE Preserves
  BY <1>1, SupersedeInv, RestoreInv, EndInv DEF Continue
<1>2. ASSUME NEW c \in Calls, NEW r \in Releases, Lifecycle(c, r) PROVE Preserves
  BY <1>2, LifecycleInv
<1>3. ASSUME NEW c \in Calls, NEW r \in Releases, Operation(c, r) PROVE Preserves
  BY <1>3, OperationInv
<1>4. CASE UNCHANGED vars
  BY <1>4 DEF vars, IInv, TypeOK, RollbackTraceable, Preserves, Keeps,
              Gates!vars, ExecutionAllowed
<1>5. QED BY <1>1, <1>2, <1>3, <1>4 DEF Next

\* The empty authority.
LEMMA InitInv == Init => IInv
<1> SUFFICES ASSUME Init PROVE IInv
  OBVIOUS
<1>1. TypeOK
  BY ReleaseAssumption, IdleCall
     DEF Init, TypeOK, Absent, GovernedRelease
<1>2. \A r \in Releases : WellFormed(release[r], r)
  BY DEF Init, Absent, WellFormed, BeforeIt, BeforeDirector, AfterIt,
         AfterRelease
<1>3. RollbackTraceable
  BY DEF Init, Absent, RollbackTraceable
<1>4. \A c \in Calls : Fresh(call[c], release) /\ Located(call[c])
  BY IdleCall DEF Init
<1>5. QED BY <1>1, <1>2, <1>3, <1>4 DEF IInv

-----------------------------------------------------------------------------
(* The theorems. *)

\* The inductive invariant of the authority.
LEMMA Invariance == Spec => []IInv
<1>1. IInv /\ [Next]_vars => IInv'
  BY NextInv DEF Preserves
<1>2. QED BY <1>1, InitInv, PTL DEF Spec

\* The tables and the suspended calls of the authority keep their types, for
\* every set of releases, callers and decisions.
THEOREM TypeCorrect == Spec => []TypeOK
<1>1. IInv => TypeOK
  BY DEF IInv
<1>2. QED BY <1>1, Invariance, PTL

\* release(), activate(), rollback(): whatever was released carries the
\* approvals it needed.
THEOREM ReleasesAreGated == Spec => []Gated
<1>1. IInv => Gated
  BY DEF IInv, WellFormed, Gated, AfterIt, RequiresDirector
<1>2. QED BY <1>1, Invariance, PTL

\* activate_kill_switch(): a release whose kill switch is on does not execute.
THEOREM KillSwitchSuspends == Spec => []KillSuspends
<1>1. IInv => KillSuspends
  BY DEF IInv, WellFormed, KillSuspends
<1>2. QED BY <1>1, Invariance, PTL

\* rollback(): a rolled back release names a released one of its subject.
THEOREM RollbacksAreTraceable == Spec => []RollbackTraceable
<1>1. IInv => RollbackTraceable
  BY DEF IInv
<1>2. QED BY <1>1, Invariance, PTL

\* rollback(): no stale write-back changes what authorised a release.
THEOREM ApprovalsAreFinal == Spec => ApprovalsFinal
<1>1. IInv /\ [Next]_vars =>
        [\A r \in Releases : release[r].everReleased =>
           /\ release'[r].everReleased
           /\ release'[r].it = release[r].it
           /\ release'[r].director = release[r].director]_vars
  BY NextInv DEF Preserves, Keeps
<1>2. QED BY <1>1, Invariance, PTL DEF Spec, ApprovalsFinal

\* The release authority implements its gates.
THEOREM AuthorityImplementsGates == Spec => ImplementsGates
<1>1. Init => Gates!Init
  BY DEF Init, Gates!Init, Absent, Approvals, ExecutionAllowed
<1>2. IInv /\ [Next]_vars => [Gates!Next]_(Gates!vars)
  BY NextInv DEF Preserves
<1>3. QED
  BY <1>1, <1>2, Invariance, PTL DEF Spec, ImplementsGates, Gates!Spec

-----------------------------------------------------------------------------
(* One caller at a time.  While nobody else is suspended, what holds of the *)
(* tables depends on where the one suspended call is (Good).                *)

\* The mapped release r is about to be replaced by call p in its subject's entry.
Leaving(p, r) ==
  \/ p.next = "map" /\ p.entity = r
  \/ p.next \in {"unmap", "restore"} /\ p.release = r

MapSound(p) ==
  \A s \in Subjects :
    activeBySubject[s] # None =>
      /\ Subject[activeBySubject[s]] = s
      /\ \/ release[activeBySubject[s]].state = "ACTIVE"
         \/ Leaving(p, activeBySubject[s])

\* Call p has taken the mapped release of its subject out of operation.
Vacated(p) == p.next \in {"map", "unmap", "restore"}

\* An ACTIVE release is the mapped one or the one that p activates.
SoleActive(p) ==
  \A r \in Releases :
    release[r].state = "ACTIVE" /\ Subject[r] \notin cleared =>
      \/ /\ activeBySubject[Subject[r]] = r
         /\ Vacated(p) => Subject[r] # Subject[p.release]
      \/ p.next \in {"supersede", "map"} /\ p.release = r

\* The trail is behind by the event that p awaits, if it awaits one.
EventDue(p) ==
  \A r \in Releases :
    lastEvent[r] = release[r].state \/ (p.next # "idle" /\ p.entity = r)

Underway(p) ==
  p.next # "idle" =>
    /\ p.outcome = release[p.entity].state
    /\ p.next \in {"supersede", "map"} => release[p.release].state = "ACTIVE"
    /\ p.next = "supersede" => p.entity = p.release
    /\ p.next = "map" => Subject[p.entity] = Subject[p.release]
    /\ p.next = "restore" => Subject[p.target] = Subject[p.release]

Good(p) == MapSound(p) /\ SoleActive(p) /\ EventDue(p) /\ Underway(p)

HInv ==
  alone =>
    /\ OneCaller
    /\ Quiescent => Good(Idle)
    /\ \A c \in Calls : call[c].next # "idle" => Good(call[c])

\* When one call moves, only what holds with that call has to be shown.
LEMMA OneMoves ==
  ASSUME HInv, alone, OneCaller', NEW c \in Calls,
         \A d \in Calls \ {c} : call'[d] = call[d],
         call[c].next # "idle" \/ call'[c].next # "idle",
         Good(call[c]) => Good(call[c])'
  PROVE  HInv'
<1>1. \A d \in Calls \ {c} : call[d].next = "idle" /\ call'[d].next = "idle"
  BY DEF HInv, OneCaller
<1>2. Good(call[c])
  <2>1. CASE call[c].next # "idle"
    BY <2>1 DEF HInv
  <2>2. CASE call[c].next = "idle"
    <3>1. Good(Idle)
      BY <1>1, <2>2 DEF HInv, Quiescent
    <3>2. QED
      BY <2>2, <3>1
         DEF Good, MapSound, SoleActive, EventDue, Underway, Leaving, Vacated, Idle
  <2>3. QED BY <2>1, <2>2
<1>3. Good(call[c])'
  BY <1>2
<1>4. Quiescent' => Good(Idle)'
  <2>1. SUFFICES ASSUME Quiescent' PROVE Good(Idle)'
    OBVIOUS
  <2>2. call'[c].next = "idle"
    BY <2>1 DEF Quiescent
  <2>3. QED
    BY <1>3, <2>2
       DEF Good, MapSound, SoleActive, EventDue, Underway, Leaving, Vacated, Idle
<1>5. QED BY <1>1, <1>3, <1>4 DEF HInv

\* What a transition leaves behind.
LEMMA TransitionFields ==
  ASSUME IInv, NEW c \in Calls, NEW r \in Releases, NEW expected, NEW g,
         NEW n \in Continuations \ {"idle"}, Transition(c, r, expected, g, n)
  PROVE  /\ call[c].next = "idle"
         /\ release[r].state \in expected
         /\ release'[r] = g
         /\ \A x \in Releases \ {r} : release'[x] = release[x]
         /\ activeBySubject' = activeBySubject /\ lastEvent' = lastEvent
         /\ \A d \in Calls \ {c} : call'[d] = call[d]
         /\ call'[c].next = n
         /\ call'[c].release = r
         /\ call'[c].entity = r
         /\ call'[c].outcome = g.state
BY DEF Transition, Suspend, Awaiting, Idle, IInv, TypeOK

\* A transition between states other than ACTIVE.
LEMMA PlainGood ==
  ASSUME IInv, NEW c \in Calls, NEW r \in Releases, NEW expected, NEW g,
         Transition(c, r, expected, g, "return"),
         "ACTIVE" \notin expected, g.state # "ACTIVE",
         cleared \subseteq cleared', Good(call[c])
  PROVE  Good(call[c])'
<1>1. "return" \in Continuations \ {"idle"}
  BY DEF Continuations
<1>2. /\ call[c].next = "idle"
      /\ release[r].state # "ACTIVE"
      /\ release'[r] = g
      /\ \A x \in Releases \ {r} : release'[x] = release[x]
      /\ activeBySubject' = activeBySubject /\ lastEvent' = lastEvent
      /\ call'[c].next = "return"
      /\ call'[c].entity = r
      /\ call'[c].outcome = g.state
  BY <1>1, TransitionFields
<1>3. activeBySubject \in [Subjects -> Releases \cup {None}]
  BY DEF IInv, TypeOK
<1>4. MapSound(call[c])'
  BY <1>2, <1>3 DEF Good, MapSound, Leaving
<1>5. SoleActive(call[c])'
  BY <1>2 DEF Good, SoleActive, Vacated
<1>6. EventDue(call[c])'
  BY <1>2 DEF Good, EventDue
<1>7. Underway(call[c])'
  BY <1>2 DEF Underway
<1>8. QED BY <1>4, <1>5, <1>6, <1>7 DEF Good

\* No lifecycle operation but those below touches an ACTIVE release.
LEMMA LifecycleGood ==
  ASSUME IInv, NEW c \in Calls, NEW r \in Releases, Lifecycle(c, r),
         cleared \subseteq cleared', Good(call[c])
  PROVE  Good(call[c])'
<1>1. ASSUME NEW expected, NEW s, Move(c, r, expected, s),
             "ACTIVE" \notin expected, s # "ACTIVE"
      PROVE  Good(call[c])'
  <2> DEFINE g == [release[r] EXCEPT !.state = s]
  <2>1. g.state = s
    BY RecordFields DEF GovernedRelease
  <2>2. Transition(c, r, expected, g, "return")
    BY <1>1 DEF Move
  <2> HIDE DEF g
  <2>3. QED BY <1>1, <2>1, <2>2, PlainGood
<1>2. ASSUME NEW d \in Decisions,
             RecordItDecision(c, r, d) \/ RecordDirectorDecision(c, r, d)
      PROVE  Good(call[c])'
  <2>1. d.outcome \in Outcomes
    BY DecisionFields DEF Decision
  <2>2. CASE RecordItDecision(c, r, d)
    <3> DEFINE s == DecisionTarget(d.outcome, "IT_APPROVED")
               g == [release[r] EXCEPT !.state = s, !.it = d]
    <3>1. s # "ACTIVE"
      BY <2>1 DEF DecisionTarget, Outcomes
    <3>2. g.state = s
      BY RecordFields DEF GovernedRelease
    <3>3. Transition(c, r, {"READY_FOR_IT"}, g, "return")
      BY <2>2 DEF RecordItDecision
    <3> HIDE DEF g, s
    <3>4. QED BY <3>1, <3>2, <3>3, PlainGood
  <2>3. CASE RecordDirectorDecision(c, r, d)
    <3> DEFINE s == DecisionTarget(d.outcome, "DIRECTOR_APPROVED")
               g == [release[r] EXCEPT !.state = s, !.director = d]
    <3>1. s # "ACTIVE"
      BY <2>1 DEF DecisionTarget, Outcomes
    <3>2. g.state = s
      BY RecordFields DEF GovernedRelease
    <3>3. Transition(c, r, {"READY_FOR_DIRECTOR"}, g, "return")
      BY <2>3 DEF RecordDirectorDecision
    <3> HIDE DEF g, s
    <3>4. QED BY <3>1, <3>2, <3>3, PlainGood
  <2>4. QED BY <1>2, <2>2, <2>3
<1>3. CASE Release(c, r)
  <2> DEFINE g == [release[r] EXCEPT !.state = "RELEASED",
                                     !.everReleased = TRUE]
  <2>1. g.state = "RELEASED"
    BY RecordFields DEF GovernedRelease
  <2>2. Transition(c, r, ReleaseGate(r), g, "return")
    BY <1>3 DEF Release
  <2>3. "ACTIVE" \notin ReleaseGate(r)
    BY DEF ReleaseGate
  <2> HIDE DEF g
  <2>4. QED BY <2>1, <2>2, <2>3, PlainGood
<1>4. QED
  BY <1>1, <1>2, <1>3
     DEF Lifecycle, Create, MarkImplemented, RecordAutomatedAssurance,
         RecordAiReviewPackage, SubmitForIt, SubmitForDirector

\* activate() up to its append: release r is ACTIVE and not mapped yet.
LEMMA ActivateGood ==
  ASSUME IInv, NEW c \in Calls, NEW r \in Releases, Activate(c, r),
         cleared \subseteq cleared', Good(call[c])
  PROVE  Good(call[c])'
<1> DEFINE g == [release[r] EXCEPT !.state = "ACTIVE", !.everReleased = TRUE]
<1>1. g.state = "ACTIVE"
  BY RecordFields DEF GovernedRelease
<1>2. Transition(c, r, {"RELEASED"}, g, "supersede")
  BY DEF Activate
<1>3. "supersede" \in Continuations \ {"idle"}
  BY DEF Continuations
<1> HIDE DEF g
<1>4. /\ call[c].next = "idle"
      /\ release[r].state = "RELEASED"
      /\ release'[r] = g
      /\ \A x \in Releases \ {r} : release'[x] = release[x]
      /\ activeBySubject' = activeBySubject /\ lastEvent' = lastEvent
      /\ call'[c].next = "supersede"
      /\ call'[c].release = r
      /\ call'[c].entity = r
      /\ call'[c].outcome = "ACTIVE"
  BY <1>1, <1>2, <1>3, TransitionFields
<1>5. activeBySubject \in [Subjects -> Releases \cup {None}]
  BY DEF IInv, TypeOK
<1>6. MapSound(call[c])'
  BY <1>1, <1>4, <1>5 DEF Good, MapSound, Leaving
<1>7. SoleActive(call[c])'
  BY <1>1, <1>4 DEF Good, SoleActive, Vacated
<1>8. EventDue(call[c])' /\ Underway(call[c])'
  BY <1>1, <1>4 DEF Good, EventDue, Underway
<1>9. QED BY <1>6, <1>7, <1>8 DEF Good

\* activate_kill_switch() and rollback() up to their appends: the release that
\* was ACTIVE was the only one of its subject.
LEMMA VacateGood ==
  ASSUME IInv, NEW c \in Calls, NEW r \in Releases,
         call[c].next = "idle",
         release[r].state = "ACTIVE",
         release'[r].state # "ACTIVE",
         \A x \in Releases \ {r} : release'[x] = release[x],
         activeBySubject' = activeBySubject, lastEvent' = lastEvent,
         call'[c].next \in {"unmap", "restore"},
         call'[c].release = r,
         call'[c].entity = r,
         call'[c].outcome = release'[r].state,
         call'[c].next = "restore" => Subject[call'[c].target] = Subject[r],
         cleared \subseteq cleared', Good(call[c])
  PROVE  Good(call[c])'
<1>1. activeBySubject \in [Subjects -> Releases \cup {None}]
  BY DEF IInv, TypeOK
<1>2. MapSound(call[c])'
  BY <1>1 DEF Good, MapSound, Leaving
<1>3. SoleActive(call[c])'
  <2>1. SUFFICES ASSUME NEW x \in Releases, release'[x].state = "ACTIVE",
                        Subject[x] \notin cleared'
                 PROVE  activeBySubject[Subject[x]] = x /\ Subject[x] # Subject[r]
    BY DEF SoleActive
  <2>2. x # r /\ release[x].state = "ACTIVE" /\ Subject[x] \notin cleared
    BY <2>1
  <2>3. activeBySubject[Subject[x]] = x
    BY <2>2 DEF Good, SoleActive
  <2>4. Subject[r] \notin cleared => activeBySubject[Subject[r]] = r
    BY DEF Good, SoleActive
  <2>5. QED BY <2>2, <2>3, <2>4
<1>4. EventDue(call[c])' /\ Underway(call[c])'
  BY DEF Good, EventDue, Underway
<1>5. QED BY <1>2, <1>3, <1>4 DEF Good

\* clear_kill_switch() up to its append: its subject counts as cleared.
LEMMA ClearGood ==
  ASSUME IInv, NEW c \in Calls, NEW r \in Releases, ClearKillSwitch(c, r),
         cleared \subseteq cleared', Subject[r] \in cleared', Good(call[c])
  PROVE  Good(call[c])'
<1> DEFINE g == [release[r] EXCEPT !.state = "ACTIVE", !.kill = FALSE]
<1>1. g.state = "ACTIVE"
  BY RecordFields DEF GovernedRelease
<1>2. Transition(c, r, {"SUSPENDED"}, g, "map")
  BY DEF ClearKillSwitch
<1>3. "map" \in Continuations \ {"idle"}
  BY DEF Continuations
<1> HIDE DEF g
<1>4. /\ call[c].next = "idle"
      /\ release'[r] = g
      /\ \A x \in Releases \ {r} : release'[x] = release[x]
      /\ activeBySubject' = activeBySubject /\ lastEvent' = lastEvent
      /\ call'[c].next = "map"
      /\ call'[c].release = r
      /\ call'[c].entity = r
      /\ call'[c].outcome = "ACTIVE"
  BY <1>1, <1>2, <1>3, TransitionFields
<1>5. activeBySubject \in [Subjects -> Releases \cup {None}]
  BY DEF IInv, TypeOK
<1>6. MapSound(call[c])'
  BY <1>1, <1>4, <1>5 DEF Good, MapSound, Leaving
<1>7. SoleActive(call[c])'
  BY <1>1, <1>4 DEF Good, SoleActive, Vacated
<1>8. EventDue(call[c])' /\ Underway(call[c])'
  BY <1>1, <1>4 DEF Good, EventDue, Underway
<1>9. QED BY <1>6, <1>7, <1>8 DEF Good

\* The operations of released subjects.
LEMMA OperationGood ==
  ASSUME IInv, NEW c \in Calls, NEW r \in Releases, Operation(c, r),
         cleared \subseteq cleared',
         ClearKillSwitch(c, r) => Subject[r] \in cleared',
         Good(call[c])
  PROVE  Good(call[c])'
<1>1. CASE Activate(c, r)
  BY <1>1, ActivateGood
<1>2. CASE ActivateKillSwitch(c, r)
  <2> DEFINE g == [release[r] EXCEPT !.state = "SUSPENDED", !.kill = TRUE]
  <2>1. g.state = "SUSPENDED"
    BY RecordFields DEF GovernedRelease
  <2>2. Transition(c, r, {"ACTIVE"}, g, "unmap")
    BY <1>2 DEF ActivateKillSwitch
  <2>3. "unmap" \in Continuations \ {"idle"}
    BY DEF Continuations
  <2> HIDE DEF g
  <2>4. QED BY <2>1, <2>2, <2>3, TransitionFields, VacateGood
<1>3. CASE ClearKillSwitch(c, r)
  BY <1>3, ClearGood
<1>4. ASSUME NEW target \in Releases, Rollback(c, r, target)
      PROVE  Good(call[c])'
  <2> DEFINE p == [Awaiting("restore", r, r, "ROLLED_BACK") EXCEPT
                     !.target = target, !.snapshot = release[target]]
  <2>1. /\ call[c].next = "idle"
        /\ release[r].state = "ACTIVE"
        /\ Subject[target] = Subject[r]
        /\ activeBySubject' = activeBySubject /\ lastEvent' = lastEvent
    BY <1>4 DEF Rollback, Idle
  <2>2. /\ release'[r].state = "ROLLED_BACK"
        /\ \A x \in Releases \ {r} : release'[x] = release[x]
    BY <1>4, RecordFields DEF Rollback, IInv, TypeOK, GovernedRelease
  <2>3. call'[c] = p
    BY <1>4 DEF Rollback, Suspend, IInv, TypeOK
  <2>4. /\ p.next = "restore" /\ p.release = r /\ p.entity = r
        /\ p.outcome = "ROLLED_BACK" /\ p.target = target
    BY DEF Awaiting, Idle
  <2> HIDE DEF p
  <2>5. QED BY <2>1, <2>2, <2>3, <2>4, VacateGood
<1>5. QED BY <1>1, <1>2, <1>3, <1>4 DEF Operation

\* The call that goes on after its append: the trail is up to date again.
LEMMA ResumeFacts ==
  ASSUME IInv, NEW c \in Calls, call[c].next # "idle", Appended(c), Good(call[c])
  PROVE  /\ call[c].release \in Releases
         /\ call[c].entity \in Releases
         /\ activeBySubject \in [Subjects -> Releases \cup {None}]
         /\ Subject \in [Releases -> Subjects]
         /\ None \notin Releases
         /\ lastEvent'[call[c].entity] = release[call[c].entity].state
         /\ \A r \in Releases : lastEvent'[r] = release[r].state
<1>1. call[c].release \in Releases /\ call[c].entity \in Releases
  BY DEF IInv, Located
<1>2. call[c].outcome = release[call[c].entity].state
  BY DEF Good, Underway
<1>3. \A r \in Releases : lastEvent'[r] = release[r].state
  BY <1>1, <1>2 DEF Appended, IInv, TypeOK, Good, EventDue
<1>4. QED BY <1>1, <1>3, ReleaseAssumption DEF IInv, TypeOK

\* A call that ends leaves the releases as they are and the map sound.
LEMMA EndGood ==
  ASSUME IInv, NEW c \in Calls, Good(call[c]),
         \/ Return(c) \/ TakeOver(c) \/ MapActive(c) \/ Unmap(c),
         cleared \subseteq cleared'
  PROVE  Good(call[c])'
<1> DEFINE r == call[c].release
           s == Subject[r]
<1>1. /\ call[c].next \in {"return", "supersede", "map", "unmap"}
      /\ Appended(c) /\ release' = release /\ call'[c] = Idle
  BY DEF Return, TakeOver, MapActive, Unmap, Resume, Suspend, IInv, TypeOK
<1>2. /\ r \in Releases /\ s \in Subjects /\ None \notin Releases
      /\ activeBySubject \in [Subjects -> Releases \cup {None}]
      /\ \A x \in Releases : lastEvent'[x] = release[x].state
      /\ \A x \in Releases : Subject[x] \in Subjects
  BY <1>1, ResumeFacts
<1>3. call'[c].next = "idle"
  BY <1>1 DEF Idle
<1>4. EventDue(call[c])' /\ Underway(call[c])'
  BY <1>1, <1>2, <1>3 DEF EventDue, Underway
<1>5. CASE Return(c)
  <2>1. call[c].next = "return" /\ activeBySubject' = activeBySubject
    BY <1>5 DEF Return, Resume
  <2>2. MapSound(call[c])'
    BY <1>1, <1>3, <2>1 DEF Good, MapSound, Leaving
  <2>3. SoleActive(call[c])'
    BY <1>1, <1>3, <2>1 DEF Good, SoleActive, Vacated
  <2>4. QED BY <1>4, <2>2, <2>3 DEF Good
<1>6. CASE TakeOver(c) \/ MapActive(c)
  <2>1. /\ call[c].next \in {"supersede", "map"}
        /\ call[c].next = "supersede" => activeBySubject[s] \in {None, r}
        /\ activeBySubject' = [activeBySubject EXCEPT ![s] = r]
    BY <1>6 DEF TakeOver, MapActive, Resume, SetActive
  <2>2. /\ release[r].state = "ACTIVE"
        /\ call[c].next = "map" => Subject[call[c].entity] = s
    BY <2>1 DEF Good, Underway
  <2>3. /\ activeBySubject'[s] = r
        /\ \A x \in Subjects \ {s} : activeBySubject'[x] = activeBySubject[x]
    BY <1>2, <2>1
  <2>4. MapSound(call[c])'
    BY <1>1, <1>2, <2>1, <2>2, <2>3 DEF Good, MapSound, Leaving
  <2>5. SoleActive(call[c])'
    BY <1>1, <1>2, <1>3, <2>1, <2>2, <2>3 DEF Good, SoleActive, Vacated
  <2>6. QED BY <1>4, <2>4, <2>5 DEF Good
<1>7. CASE Unmap(c)
  <2>1. /\ call[c].next = "unmap"
        /\ activeBySubject' = [activeBySubject EXCEPT ![s] = None]
    BY <1>7 DEF Unmap, Resume
  <2>2. /\ activeBySubject'[s] = None
        /\ \A x \in Subjects \ {s} : activeBySubject'[x] = activeBySubject[x]
    BY <1>2, <2>1
  <2>3. MapSound(call[c])'
    BY <1>1, <1>2, <2>1, <2>2 DEF Good, MapSound, Leaving
  <2>4. SoleActive(call[c])'
    BY <1>1, <1>2, <1>3, <2>1, <2>2 DEF Good, SoleActive, Vacated
  <2>5. QED BY <1>4, <2>3, <2>4 DEF Good
<1>8. QED BY <1>5, <1>6, <1>7

\* activate(): the mapped release is suspended, and nothing else is ACTIVE in
\* its subject but the release that takes over.
LEMMA SupersedeGood ==
  ASSUME IInv, NEW c \in Calls, Good(call[c]), Supersede(c),
         cleared \subseteq cleared'
  PROVE  Good(call[c])'
<1> DEFINE r == call[c].release
           s == Subject[r]
           other == activeBySubject[s]
           p == Awaiting("map", r, other, "SUSPENDED")
<1>1. /\ call[c].next = "supersede" /\ Appended(c)
      /\ other \notin {None, r}
      /\ release' = [release EXCEPT ![other].state = "SUSPENDED"]
      /\ activeBySubject' = activeBySubject
  BY DEF Supersede, Resume
<1>2. /\ r \in Releases /\ s \in Subjects /\ None \notin Releases
      /\ activeBySubject \in [Subjects -> Releases \cup {None}]
      /\ \A x \in Releases : lastEvent'[x] = release[x].state
      /\ \A x \in Releases : Subject[x] \in Subjects
  BY <1>1, ResumeFacts
<1>3. other \in Releases /\ Subject[other] = s
  BY <1>1, <1>2 DEF Good, MapSound
<1>4. release[r].state = "ACTIVE"
  BY <1>1 DEF Good, Underway
<1>5. /\ release'[other].state = "SUSPENDED"
      /\ \A x \in Releases \ {other} : release'[x] = release[x]
  BY <1>1, <1>3, RecordFields DEF IInv, TypeOK, GovernedRelease
<1>6. call'[c] = p
  BY DEF Supersede, Suspend, IInv, TypeOK
<1>7. /\ p.next = "map" /\ p.release = r /\ p.entity = other
      /\ p.outcome = "SUSPENDED"
  BY DEF Awaiting, Idle
<1> HIDE DEF p
<1>8. MapSound(call[c])'
  BY <1>1, <1>2, <1>3, <1>5, <1>6, <1>7 DEF Good, MapSound, Leaving
<1>9. SoleActive(call[c])'
  BY <1>1, <1>2, <1>3, <1>5, <1>6, <1>7 DEF Good, SoleActive, Vacated
<1>10. EventDue(call[c])'
  BY <1>2, <1>5, <1>6, <1>7 DEF EventDue
<1>11. Underway(call[c])'
  BY <1>1, <1>3, <1>4, <1>5, <1>6, <1>7 DEF Underway
<1>12. QED BY <1>8, <1>9, <1>10, <1>11 DEF Good

\* rollback(): the target becomes the ACTIVE and the mapped release.
LEMMA RestoreGood ==
  ASSUME IInv, NEW c \in Calls, Good(call[c]), Restore(c),
         cleared \subseteq cleared'
  PROVE  Good(call[c])'
<1> DEFINE r == call[c].release
           s == Subject[r]
           target == call[c].target
           p == Awaiting("return", target, target, "ACTIVE")
<1>1. /\ call[c].next = "restore" /\ Appended(c)
      /\ release' = [release EXCEPT ![target] =
                       [call[c].snapshot EXCEPT !.state = "ACTIVE",
                                                !.kill = FALSE]]
      /\ activeBySubject' = [activeBySubject EXCEPT ![Subject[target]] = target]
  BY DEF Restore, Resume, SetActive
<1>2. /\ r \in Releases /\ s \in Subjects /\ None \notin Releases
      /\ activeBySubject \in [Subjects -> Releases \cup {None}]
      /\ \A x \in Releases : lastEvent'[x] = release[x].state
      /\ \A x \in Releases : Subject[x] \in Subjects
  BY <1>1, ResumeFacts
<1>3. target \in Releases /\ Subject[target] = s
  BY <1>1 DEF Good, Underway, IInv, Fresh
<1>4. call[c].snapshot \in GovernedRelease
  BY DEF IInv, TypeOK, Call
<1>5. /\ release'[target].state = "ACTIVE"
      /\ \A x \in Releases \ {target} : release'[x] = release[x]
  BY <1>1, <1>3, <1>4 DEF IInv, TypeOK, GovernedRelease
<1>6. /\ activeBySubject'[s] = target
      /\ \A x \in Subjects \ {s} : activeBySubject'[x] = activeBySubject[x]
  BY <1>1, <1>2, <1>3
<1>7. call'[c] = p
  BY DEF Restore, Suspend, IInv, TypeOK
<1>8. /\ p.next = "return" /\ p.release = target /\ p.entity = target
      /\ p.outcome = "ACTIVE"
  BY DEF Awaiting, Idle
<1> HIDE DEF p
<1>9. MapSound(call[c])'
  BY <1>1, <1>2, <1>3, <1>5, <1>6, <1>7, <1>8 DEF Good, MapSound, Leaving
<1>10. SoleActive(call[c])'
  BY <1>1, <1>2, <1>3, <1>5, <1>6, <1>7, <1>8 DEF Good, SoleActive, Vacated
<1>11. EventDue(call[c])' /\ Underway(call[c])'
  BY <1>2, <1>5, <1>7, <1>8 DEF EventDue, Underway
<1>12. QED BY <1>9, <1>10, <1>11 DEF Good

\* activate() never finds a mapped release that it cannot suspend.
LEMMA NeverRefused ==
  ASSUME IInv, NEW c \in Calls, Good(call[c])
  PROVE  ~SupersedeRefused(c)
<1>1. SUFFICES ASSUME SupersedeRefused(c) PROVE FALSE
  OBVIOUS
<1>2. /\ call[c].next = "supersede"
      /\ activeBySubject[Subject[call[c].release]] # None
      /\ release[activeBySubject[Subject[call[c].release]]].state # "ACTIVE"
  BY <1>1 DEF SupersedeRefused, Resume
<1>3. Subject[call[c].release] \in Subjects
  BY <1>2, ReleaseAssumption DEF IInv, Located
<1>4. QED BY <1>2, <1>3 DEF Good, MapSound, Leaving

\* The continuations, as long as no append has failed.
LEMMA ContinueGood ==
  ASSUME IInv, NEW c \in Calls, Good(call[c]), Continue(c), ~AppendFailed,
         cleared \subseteq cleared'
  PROVE  Good(call[c])'
<1>1. CASE Return(c) \/ TakeOver(c) \/ MapActive(c) \/ Unmap(c)
  BY <1>1, EndGood
<1>2. CASE Supersede(c)
  BY <1>2, SupersedeGood
<1>3. CASE Restore(c)
  BY <1>3, RestoreGood
<1>4. CASE AuditFails(c) \/ SupersedeRefused(c)
  BY <1>1, <1>4, NeverRefused DEF AppendFailed
<1>5. QED BY <1>1, <1>2, <1>3, <1>4 DEF Continue

\* Every call is at rest or suspended; a step moves one of them.
LEMMA MovesOne ==
  ASSUME IInv, NEW c \in Calls,
         Continue(c) \/ \E r \in Releases : Lifecycle(c, r) \/ Operation(c, r)
  PROVE  /\ \A d \in Calls \ {c} : call'[d] = call[d]
         /\ call[c].next # "idle" \/ call'[c].next # "idle"
<1>1. CASE Continue(c)
  <2>1. call[c].next # "idle"
    BY <1>1 DEF Continue, Return, TakeOver, Supersede, SupersedeRefused,
                MapActive, Unmap, Restore, AuditFails, Resume
  <2>2. \A d \in Calls \ {c} : call'[d] = call[d]
    BY <1>1 DEF Continue, Return, TakeOver, Supersede, SupersedeRefused,
                MapActive, Unmap, Restore, AuditFails, Suspend, IInv, TypeOK
  <2>3. QED BY <2>1, <2>2
<1>2. ASSUME NEW r \in Releases, NEW expected, NEW g,
             NEW n \in Continuations \ {"idle"}, Transition(c, r, expected, g, n)
      PROVE  /\ \A d \in Calls \ {c} : call'[d] = call[d]
             /\ call[c].next # "idle" \/ call'[c].next # "idle"
  BY <1>2, TransitionFields
<1>3. {"return", "supersede", "map", "unmap"} \subseteq Continuations \ {"idle"}
  BY DEF Continuations
<1>4. ASSUME NEW r \in Releases, Lifecycle(c, r)
      PROVE  /\ \A d \in Calls \ {c} : call'[d] = call[d]
             /\ call[c].next # "idle" \/ call'[c].next # "idle"
  BY <1>2, <1>3, <1>4
     DEF Lifecycle, Create, MarkImplemented, RecordAutomatedAssurance,
         RecordAiReviewPackage, SubmitForIt, RecordItDecision,
         SubmitForDirector, RecordDirectorDecision, Release, Move
<1>5. ASSUME NEW r \in Releases, Operation(c, r)
      PROVE  /\ \A d \in Calls \ {c} : call'[d] = call[d]
             /\ call[c].next # "idle" \/ call'[c].next # "idle"
  <2>1. CASE \E target \in Releases : Rollback(c, r, target)
    BY <2>1 DEF Rollback, Suspend, Awaiting, Idle, IInv, TypeOK
  <2>2. CASE Activate(c, r) \/ ActivateKillSwitch(c, r) \/ ClearKillSwitch(c, r)
    BY <1>2, <1>3, <2>2 DEF Activate, ActivateKillSwitch, ClearKillSwitch
  <2>3. QED BY <1>5, <2>1, <2>2 DEF Operation
<1>6. QED BY <1>1, <1>4, <1>5

\* Every step keeps the invariant of one caller at a time.
LEMMA HistoryNextInv == IInv /\ HInv /\ [HistoryNext]_historyVars => HInv'
<1> SUFFICES ASSUME IInv, HInv, [HistoryNext]_historyVars, alone' PROVE HInv'
  BY DEF HInv
<1>1. CASE HistoryNext
  <2>1. /\ Next /\ alone /\ OneCaller' /\ ~AppendFailed
        /\ cleared' = cleared \cup ClearedNow
    BY <1>1 DEF HistoryNext
  <2>2. PICK c \in Calls :
          Continue(c) \/ \E r \in Releases : Lifecycle(c, r) \/ Operation(c, r)
    BY <2>1 DEF Next
  <2>3. Good(call[c]) => Good(call[c])'
    <3>1. SUFFICES ASSUME Good(call[c]) PROVE Good(call[c])'
      OBVIOUS
    <3>2. CASE Continue(c)
      BY <2>1, <3>1, <3>2, ContinueGood
    <3>3. ASSUME NEW r \in Releases, Lifecycle(c, r) PROVE Good(call[c])'
      BY <2>1, <3>1, <3>3, LifecycleGood
    <3>4. ASSUME NEW r \in Releases, Operation(c, r) PROVE Good(call[c])'
      <4>1. ClearKillSwitch(c, r) => Subject[r] \in cleared'
        BY <2>1, ReleaseAssumption DEF ClearedNow
      <4>2. QED BY <2>1, <3>1, <3>4, <4>1, OperationGood
    <3>5. QED BY <2>2, <3>2, <3>3, <3>4
  <2>4. QED BY <2>1, <2>2, <2>3, MovesOne, OneMoves
<1>2. CASE UNCHANGED historyVars
  BY <1>2 DEF historyVars, vars, HInv, OneCaller, Quiescent, Good, MapSound,
              SoleActive, EventDue, Underway, Leaving, Vacated
<1>3. QED BY <1>1, <1>2

\* The empty authority.
LEMMA HistoryInitInv == HistoryInit => HInv
<1> SUFFICES ASSUME HistoryInit PROVE HInv
  OBVIOUS
<1>1. Good(Idle)
  BY DEF HistoryInit, Init, Absent, Idle, Good, MapSound, SoleActive, EventDue,
         Underway
<1>2. QED BY <1>1 DEF HistoryInit, Init, HInv, OneCaller, Idle

LEMMA HistoryInvariance == HistorySpec => [](IInv /\ HInv)
<1>1. HistoryInit => IInv
  BY InitInv DEF HistoryInit
<1>2. IInv /\ [HistoryNext]_historyVars => IInv'
  BY NextInv DEF HistoryNext, historyVars, Preserves
<1>3. QED
  BY <1>1, <1>2, HistoryInitInv, HistoryNextInv, PTL DEF HistorySpec

\* activate(): as long as callers are alone and no append fails, the mapped
\* release is one that activate() can suspend.
THEOREM MapStaysActive == HistorySpec => []MapNamesActive
<1>1. HInv => MapNamesActive
  <2>1. SUFFICES ASSUME HInv, alone,
                        \A c \in Calls : call[c].next \in {"idle", "supersede"},
                        NEW s \in Subjects, activeBySubject[s] # None
                 PROVE  /\ release[activeBySubject[s]].state = "ACTIVE"
                        /\ Subject[activeBySubject[s]] = s
    BY DEF MapNamesActive
  <2>2. PICK p : Good(p) /\ p.next \in {"idle", "supersede"}
    BY <2>1 DEF HInv, Quiescent, Idle
  <2>3. QED BY <2>1, <2>2 DEF Good, MapSound, Leaving
<1>2. QED BY <1>1, HistoryInvariance, PTL

\* _record(): as long as callers are alone and no append fails, the trail tells
\* the state of every release.
THEOREM TrailStaysInStep == HistorySpec => []TrailAgrees
<1>1. HInv => TrailAgrees
  BY DEF HInv, TrailAgrees, Orderly, Good, EventDue, Idle
<1>2. QED BY <1>1, HistoryInvariance, PTL

\* activate(), rollback(): as long as callers are alone and no append fails, the
\* subjects of which no kill switch was cleared have one ACTIVE release.
THEOREM SubjectsHaveOneActive == HistorySpec => []OneActiveUnlessCleared
<1>1. HInv => OneActiveUnlessCleared
  <2>1. SUFFICES ASSUME HInv, Orderly, NEW s \in Subjects \ cleared,
                        NEW r \in Active(s), NEW t \in Active(s)
                 PROVE  r = t
    BY DEF OneActiveUnlessCleared
  <2>2. Good(Idle)
    BY <2>1 DEF HInv, Orderly
  <2>3. activeBySubject[s] = r /\ activeBySubject[s] = t
    BY <2>2 DEF Good, SoleActive, Active, Idle
  <2>4. QED BY <2>3
<1>2. QED BY <1>1, HistoryInvariance, PTL

-----------------------------------------------------------------------------
(* What the documented rule of the kill switch needs. *)

\* No rollback is under way onto a release whose kill switch is on.
TargetsUnkilled ==
  \A c \in Calls :
    call[c].next = "restore" => ~release[call[c].target].kill

\* A transition other than clear_kill_switch() turns no kill switch off.
LEMMA KillKept ==
  ASSUME IInv, NEW c \in Calls, NEW r \in Releases,
         Lifecycle(c, r) \/ Operation(c, r), ~ClearKillSwitch(c, r)
  PROVE  \A x \in Releases : release[x].kill => release'[x].kill
<1>1. ASSUME NEW expected, NEW g, NEW n, Transition(c, r, expected, g, n),
             release[r].kill => g.kill
      PROVE  \A x \in Releases : release[x].kill => release'[x].kill
  BY <1>1 DEF Transition, IInv, TypeOK
<1>2. release[r] \in GovernedRelease
  BY RecordFields
<1>3. CASE Lifecycle(c, r)
  <2>1. ASSUME NEW expected, NEW s, Move(c, r, expected, s)
        PROVE  \A x \in Releases : release[x].kill => release'[x].kill
    BY <1>1, <1>2, <2>1 DEF Move, GovernedRelease
  <2>2. ASSUME NEW d \in Decisions,
               RecordItDecision(c, r, d) \/ RecordDirectorDecision(c, r, d)
        PROVE  \A x \in Releases : release[x].kill => release'[x].kill
    BY <1>1, <1>2, <2>2
       DEF RecordItDecision, RecordDirectorDecision, GovernedRelease
  <2>3. CASE Release(c, r)
    BY <1>1, <1>2, <2>3 DEF Release, GovernedRelease
  <2>4. QED
    BY <1>3, <2>1, <2>2, <2>3
       DEF Lifecycle, Create, MarkImplemented, RecordAutomatedAssurance,
           RecordAiReviewPackage, SubmitForIt, SubmitForDirector
<1>4. CASE Activate(c, r) \/ ActivateKillSwitch(c, r)
  BY <1>1, <1>2, <1>4 DEF Activate, ActivateKillSwitch, GovernedRelease
<1>5. CASE \E target \in Releases : Rollback(c, r, target)
  BY <1>2, <1>5 DEF Rollback, GovernedRelease, IInv, TypeOK
<1>6. QED BY <1>3, <1>4, <1>5 DEF Operation

\* rollback(): the write-back onto a release whose kill switch is on is the only
\* step that turns a kill switch off behind the back of clear_kill_switch().
THEOREM KillsNeedAClear ==
  Spec /\ []TargetsUnkilled => KillClearedByClear
<1>1. IInv /\ TargetsUnkilled /\ [Next]_vars =>
        [\A r \in Releases :
           release[r].kill /\ ~release'[r].kill =>
             \E c \in Calls : ClearKillSwitch(c, r)]_vars
  <2>1. SUFFICES ASSUME IInv, TargetsUnkilled, Next, NEW r \in Releases,
                        release[r].kill, ~release'[r].kill
                 PROVE  \E c \in Calls : ClearKillSwitch(c, r)
    OBVIOUS
  <2>2. PICK c \in Calls :
          Continue(c) \/ \E x \in Releases : Lifecycle(c, x) \/ Operation(c, x)
    BY <2>1 DEF Next
  <2>3. CASE \E x \in Releases : Lifecycle(c, x) \/ Operation(c, x)
    <3>1. PICK x \in Releases : Lifecycle(c, x) \/ Operation(c, x)
      BY <2>3
    <3>2. ClearKillSwitch(c, x)
      BY <2>1, <3>1, KillKept
    <3>3. x = r
      BY <2>1, <3>2 DEF ClearKillSwitch, Transition, IInv, TypeOK
    <3>4. QED BY <3>2, <3>3
  <2>4. CASE Supersede(c)
    BY <2>1, <2>4 DEF Supersede, IInv, TypeOK, GovernedRelease
  <2>5. CASE Restore(c)
    BY <2>1, <2>5 DEF Restore, Resume, TargetsUnkilled, IInv, TypeOK
  <2>6. CASE release' = release
    BY <2>1, <2>6
  <2>7. QED
    BY <2>2, <2>3, <2>4, <2>5, <2>6
       DEF Continue, Return, TakeOver, SupersedeRefused, MapActive, Unmap,
           AuditFails
<1>2. QED BY <1>1, Invariance, PTL DEF Spec, KillClearedByClear

=============================================================================
