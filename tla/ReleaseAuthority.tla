--------------------------- MODULE ReleaseAuthority ---------------------------
(***************************************************************************)
(* The release authority of src/alos/releases/service.py: the lifecycle of *)
(* governed releases, its IT and Director gates, the kill switch and the   *)
(* rollback.                                                               *)
(*                                                                         *)
(* The service runs on one asyncio loop.  A critical section under _lock   *)
(* contains no await, so it is never contended and runs in one step; a     *)
(* call is suspended only where it awaits the append of an audit event.    *)
(* Each operation is therefore one action up to its first append, and one  *)
(* action per continuation after it.  A suspended call is kept in `call'   *)
(* together with the values it read before it was suspended.               *)
(***************************************************************************)
EXTENDS FiniteSets

CONSTANTS
  Releases,     \* release_ids that callers may create
  Calls,        \* concurrent invocations of the service
  Subjects,     \* (tenant_id, workspace_id, subject_id)
  Reviews,      \* review_ids
  Subject,      \* Subject[r], Review[r]: what create() was given for r
  Review,
  Material,     \* the releases created with Materiality.MATERIAL
  Decisions,    \* the AuthoritativeDecisions humans submit
  Packages,     \* the ReviewPackageReferences submitted after the AI review
  Reports,      \* the AutomatedAssuranceReports submitted
  AuditCanFail, \* whether an append may raise, or be cancelled
  None          \* Python's None

Authorities == {"IT", "DIRECTOR"}

Outcomes == {"APPROVED", "RETURNED", "REJECTED", "HOLD"}

Decision == [authority: Authorities, outcome: Outcomes, review: Reviews,
             release: Releases \cup {None}, subject: Subjects \cup {None}]

ASSUME ReleaseAssumption ==
  /\ Subject \in [Releases -> Subjects]
  /\ Review \in [Releases -> Reviews]
  /\ Material \subseteq Releases
  /\ Decisions \subseteq Decision
  /\ AuditCanFail \in BOOLEAN
  /\ None \notin Releases \cup Subjects \cup Decision

VARIABLES
  release,          \* _releases
  activeBySubject,  \* _active_by_subject
  call,             \* the suspended invocations
  lastEvent         \* the outcome of the newest audit event of each release

vars == <<release, activeBySubject, call, lastEvent>>

-----------------------------------------------------------------------------
(* Releases. *)

ReleaseState ==
  {"DRAFT", "IMPLEMENTED", "AUTOMATED_ASSURANCE", "AI_REVIEWED",
   "READY_FOR_IT", "IT_APPROVED", "READY_FOR_DIRECTOR", "DIRECTOR_APPROVED",
   "RELEASED", "ACTIVE", "REVISION_REQUIRED", "RETURNED", "REJECTED", "HOLD",
   "BLOCKED", "SUSPENDED", "ROLLED_BACK"}

\* A release_id that is not a key of _releases is "ABSENT".
GovernedRelease ==
  [state: ReleaseState \cup {"ABSENT"},
   it: Decisions \cup {None},
   director: Decisions \cup {None},
   kill: BOOLEAN,
   rollbackTarget: Releases \cup {None},
   everReleased: BOOLEAN]

Absent == [state |-> "ABSENT", it |-> None, director |-> None, kill |-> FALSE,
           rollbackTarget |-> None, everReleased |-> FALSE]

ExecutionAllowed(r) == release[r].state = "ACTIVE" /\ ~release[r].kill

-----------------------------------------------------------------------------
(* Suspended calls.  `next' names the continuation that runs once the event *)
(* (entity, outcome) has been appended.                                      *)

Continuations == {"idle", "return", "supersede", "map", "unmap", "restore"}

Call == [next: Continuations,
         release: Releases \cup {None},
         entity: Releases \cup {None},
         outcome: ReleaseState \cup {"ABSENT"},
         target: Releases \cup {None},
         snapshot: GovernedRelease]

Idle == [next |-> "idle", release |-> None, entity |-> None,
         outcome |-> "ABSENT", target |-> None, snapshot |-> Absent]

\* Call c on release r awaits the append of (e, o) and then goes on at n.
Awaiting(n, r, e, o) ==
  [Idle EXCEPT !.next = n, !.release = r, !.entity = e, !.outcome = o]

Suspend(c, pending) == call' = [call EXCEPT ![c] = pending]

\* _transition: the checked replacement of one release, then its event.
Transition(c, r, expected, updated, n) ==
  /\ call[c] = Idle
  /\ release[r].state \in expected
  /\ release' = [release EXCEPT ![r] = updated]
  /\ Suspend(c, Awaiting(n, r, r, updated.state))
  /\ UNCHANGED <<activeBySubject, lastEvent>>

\* A transition that changes nothing but the state.
Move(c, r, expected, s) ==
  Transition(c, r, expected, [release[r] EXCEPT !.state = s], "return")

-----------------------------------------------------------------------------
Init ==
  /\ release = [r \in Releases |-> Absent]
  /\ activeBySubject = [s \in Subjects |-> None]
  /\ call = [c \in Calls |-> Idle]
  /\ lastEvent = [r \in Releases |-> "ABSENT"]

(* The lifecycle up to the release. *)

Create(c, r) == Move(c, r, {"ABSENT"}, "DRAFT")

MarkImplemented(c, r) ==
  Move(c, r, {"DRAFT", "REVISION_REQUIRED"}, "IMPLEMENTED")

\* AutomatedAssuranceReport.passed
Passed(report) ==
  /\ report.checks # {}
  /\ report.required \subseteq {check.category : check \in report.checks}
  /\ \A check \in report.checks : check.passed

RecordAutomatedAssurance(c, r, report) ==
  /\ Passed(report)
  /\ Move(c, r, {"IMPLEMENTED"}, "AUTOMATED_ASSURANCE")

RecordAiReviewPackage(c, r, package) ==
  /\ package.review = Review[r]
  /\ package.subject = Subject[r]
  /\ Move(c, r, {"AUTOMATED_ASSURANCE"}, "AI_REVIEWED")

SubmitForIt(c, r) == Move(c, r, {"AI_REVIEWED"}, "READY_FOR_IT")

\* _require_decision_context: optional fields are compared when supplied.
DecisionFits(d, r) ==
  /\ d.review = Review[r]
  /\ d.release \in {None, r}
  /\ d.subject \in {None, Subject[r]}

\* Mutant: the outcome is used as the state.
DecisionTargetVerbatim(outcome, approved) == outcome

DecisionTarget(outcome, approved) ==
  IF outcome = "APPROVED" THEN approved ELSE outcome

RecordItDecision(c, r, d) ==
  /\ d.authority = "IT"
  /\ DecisionFits(d, r)
  /\ Transition(c, r, {"READY_FOR_IT"},
       [release[r] EXCEPT !.state = DecisionTarget(d.outcome, "IT_APPROVED"),
                          !.it = d],
       "return")

RequiresDirector(r) == r \in Material

SubmitForDirector(c, r) ==
  /\ RequiresDirector(r)
  /\ Move(c, r, {"IT_APPROVED"}, "READY_FOR_DIRECTOR")

RecordDirectorDecision(c, r, d) ==
  /\ d.authority = "DIRECTOR"
  /\ DecisionFits(d, r)
  /\ Transition(c, r, {"READY_FOR_DIRECTOR"},
       [release[r] EXCEPT
          !.state = DecisionTarget(d.outcome, "DIRECTOR_APPROVED"),
          !.director = d],
       "return")

\* Mutants: the Director's gate is forgotten; it may be left out for a
\* material release that waits for it.
ReleaseGateItOnly(r) == {"IT_APPROVED"}
ReleaseGateEarly(r) == {"IT_APPROVED", "READY_FOR_DIRECTOR", "DIRECTOR_APPROVED"}

ReleaseGate(r) ==
  IF RequiresDirector(r) THEN {"DIRECTOR_APPROVED"} ELSE {"IT_APPROVED"}

Release(c, r) ==
  Transition(c, r, ReleaseGate(r),
    [release[r] EXCEPT !.state = "RELEASED", !.everReleased = TRUE], "return")

-----------------------------------------------------------------------------
(* Operation of released subjects. *)

\* Mutant: the release that ran before is not looked for.
ActivateAlone(c, r) ==
  Transition(c, r, {"RELEASED"},
    [release[r] EXCEPT !.state = "ACTIVE", !.everReleased = TRUE], "map")

Activate(c, r) ==
  Transition(c, r, {"RELEASED"},
    [release[r] EXCEPT !.state = "ACTIVE", !.everReleased = TRUE],
    "supersede")

\* Mutant: the subject's entry stays behind.
ActivateKillSwitchMapped(c, r) ==
  Transition(c, r, {"ACTIVE"},
    [release[r] EXCEPT !.state = "SUSPENDED", !.kill = TRUE], "return")

ActivateKillSwitch(c, r) ==
  Transition(c, r, {"ACTIVE"},
    [release[r] EXCEPT !.state = "SUSPENDED", !.kill = TRUE], "unmap")

ClearKillSwitch(c, r) ==
  /\ release[r].kill
  /\ Transition(c, r, {"SUSPENDED"},
       [release[r] EXCEPT !.state = "ACTIVE", !.kill = FALSE], "map")

\* Mutant: the target need not have been released.
RollbackToAny(c, r, target) ==
  /\ call[c] = Idle
  /\ release[r].state = "ACTIVE"
  /\ target # r
  /\ Subject[target] = Subject[r]
  /\ release[target].state # "ABSENT"
  /\ release' = [release EXCEPT ![r].state = "ROLLED_BACK",
                               ![r].rollbackTarget = target]
  /\ Suspend(c, [Awaiting("restore", r, r, "ROLLED_BACK") EXCEPT
                   !.target = target, !.snapshot = release[target]])
  /\ UNCHANGED <<activeBySubject, lastEvent>>

\* The target's record is read here and written back after the append.
Rollback(c, r, target) ==
  LET updated == [release[r] EXCEPT !.state = "ROLLED_BACK",
                                    !.rollbackTarget = target]
  IN
  /\ call[c] = Idle
  /\ ~release[r].kill
  /\ release[r].state = "ACTIVE"
  /\ target # r
  /\ Subject[target] = Subject[r]
  /\ release[target].everReleased
  /\ release' = [release EXCEPT ![r] = updated]
  /\ Suspend(c, [Awaiting("restore", r, r, "ROLLED_BACK") EXCEPT
                   !.target = target, !.snapshot = release[target]])
  /\ UNCHANGED <<activeBySubject, lastEvent>>

-----------------------------------------------------------------------------
(* Continuations: the awaited event has been appended. *)

Appended(c) ==
  lastEvent' = [lastEvent EXCEPT ![call[c].entity] = call[c].outcome]

Resume(c, n) == call[c].next = n /\ Appended(c)

SetActive(r) ==
  activeBySubject' = [activeBySubject EXCEPT ![Subject[r]] = r]

Return(c) ==
  /\ Resume(c, "return")
  /\ Suspend(c, Idle)
  /\ UNCHANGED <<release, activeBySubject>>

\* activate(): no other release is mapped, so this one is.
TakeOver(c) ==
  LET r == call[c].release
  IN
  /\ Resume(c, "supersede")
  /\ activeBySubject[Subject[r]] \in {None, r}
  /\ SetActive(r)
  /\ Suspend(c, Idle)
  /\ UNCHANGED release

\* activate(): the mapped release is suspended first.
Supersede(c) ==
  LET r == call[c].release
      other == activeBySubject[Subject[r]]
  IN
  /\ Resume(c, "supersede")
  /\ other \notin {None, r}
  /\ release[other].state = "ACTIVE"
  /\ release' = [release EXCEPT ![other].state = "SUSPENDED"]
  /\ Suspend(c, Awaiting("map", r, other, "SUSPENDED"))
  /\ UNCHANGED activeBySubject

\* activate(): the mapped release is not ACTIVE, so _transition raises.
SupersedeRefused(c) ==
  LET other == activeBySubject[Subject[call[c].release]]
  IN
  /\ Resume(c, "supersede")
  /\ other \notin {None, call[c].release}
  /\ release[other].state # "ACTIVE"
  /\ Suspend(c, Idle)
  /\ UNCHANGED <<release, activeBySubject>>

\* The last step of activate() and of clear_kill_switch().
MapActive(c) ==
  /\ Resume(c, "map")
  /\ SetActive(call[c].release)
  /\ Suspend(c, Idle)
  /\ UNCHANGED release

\* activate_kill_switch(): the subject's entry goes, whoever it names.
Unmap(c) ==
  /\ Resume(c, "unmap")
  /\ activeBySubject' =
       [activeBySubject EXCEPT ![Subject[call[c].release]] = None]
  /\ Suspend(c, Idle)
  /\ UNCHANGED release

\* Mutants: the target keeps its kill switch; its activation leaves no event.
RestoreKilled(c) ==
  /\ Resume(c, "restore")
  /\ release' = [release EXCEPT ![call[c].target] =
                   [call[c].snapshot EXCEPT !.state = "ACTIVE"]]
  /\ SetActive(call[c].target)
  /\ Suspend(c, Awaiting("return", call[c].target, call[c].target, "ACTIVE"))

RestoreSilently(c) ==
  /\ Resume(c, "restore")
  /\ release' = [release EXCEPT ![call[c].target] =
                   [call[c].snapshot EXCEPT !.state = "ACTIVE",
                                            !.kill = FALSE]]
  /\ SetActive(call[c].target)
  /\ Suspend(c, Idle)

\* rollback(): the target's snapshot is written back as ACTIVE.
Restore(c) ==
  LET target == call[c].target
  IN
  /\ Resume(c, "restore")
  /\ release' = [release EXCEPT ![target] =
                   [call[c].snapshot EXCEPT !.state = "ACTIVE",
                                            !.kill = FALSE]]
  /\ SetActive(target)
  /\ Suspend(c, Awaiting("return", target, target, "ACTIVE"))

\* The append raises or is cancelled: the call ends, what it did stays.
AuditFails(c) ==
  /\ AuditCanFail
  /\ call[c].next # "idle"
  /\ Appended(c) \/ UNCHANGED lastEvent
  /\ Suspend(c, Idle)
  /\ UNCHANGED <<release, activeBySubject>>

-----------------------------------------------------------------------------
Lifecycle(c, r) ==
  \/ Create(c, r)
  \/ MarkImplemented(c, r)
  \/ \E report \in Reports : RecordAutomatedAssurance(c, r, report)
  \/ \E package \in Packages : RecordAiReviewPackage(c, r, package)
  \/ SubmitForIt(c, r)
  \/ \E d \in Decisions : RecordItDecision(c, r, d)
  \/ SubmitForDirector(c, r)
  \/ \E d \in Decisions : RecordDirectorDecision(c, r, d)
  \/ Release(c, r)

Operation(c, r) ==
  \/ Activate(c, r)
  \/ ActivateKillSwitch(c, r)
  \/ ClearKillSwitch(c, r)
  \/ \E target \in Releases : Rollback(c, r, target)

Continue(c) ==
  \/ Return(c)
  \/ TakeOver(c)
  \/ Supersede(c)
  \/ SupersedeRefused(c)
  \/ MapActive(c)
  \/ Unmap(c)
  \/ Restore(c)
  \/ AuditFails(c)

Next ==
  \E c \in Calls :
    \/ Continue(c)
    \/ \E r \in Releases : Lifecycle(c, r) \/ Operation(c, r)

Spec == Init /\ [][Next]_vars

-----------------------------------------------------------------------------
(* Properties. *)

\* The types of the authority's tables and of its suspended calls.
TypeOK ==
  /\ release \in [Releases -> GovernedRelease]
  /\ activeBySubject \in [Subjects -> Releases \cup {None}]
  /\ call \in [Calls -> Call]
  /\ lastEvent \in [Releases -> ReleaseState \cup {"ABSENT"}]

AfterRelease == {"RELEASED", "ACTIVE", "SUSPENDED", "ROLLED_BACK"}

Approves(d, r, a) ==
  /\ d # None
  /\ d.authority = a
  /\ d.outcome = "APPROVED"
  /\ d.review = Review[r]
  /\ d.release \in {None, r}

\* AUTHORITY_MODEL.md, "Governance dan release": a release that is, or once
\* was, released carries an approving IT decision taken in its own review
\* context and, when material, an approving Director decision as well.  The
\* activate, kill, clear and rollback calls that interleave with one another,
\* and the write-back of a stale rollback snapshot, never lose or bypass them.
Gated ==
  \A r \in Releases :
    release[r].everReleased \/ release[r].state \in AfterRelease =>
      /\ release[r].everReleased
      /\ Approves(release[r].it, r, "IT")
      /\ RequiresDirector(r) => Approves(release[r].director, r, "DIRECTOR")

\* A release whose kill switch is on is SUSPENDED, so that execution_allowed
\* refuses it on two grounds, and clear_kill_switch finds it where it expects
\* it.
KillSuspends ==
  \A r \in Releases : release[r].kill => release[r].state = "SUSPENDED"

\* rollback(): a rolled back release names the release that replaces it: a
\* different one, of the same subject, that had passed the gates.
RollbackTraceable ==
  \A r \in Releases :
    release[r].state = "ROLLED_BACK" =>
      \E t \in Releases \ {r} :
        /\ release[r].rollbackTarget = t
        /\ Subject[t] = Subject[r]
        /\ release[t].everReleased

\* The snapshot that rollback() writes back may be stale in its state, never in
\* what authorised the target: once a release has been released, its decisions
\* and its history are fixed.
ApprovalsFinal ==
  [][\A r \in Releases : release[r].everReleased =>
       /\ release'[r].everReleased
       /\ release'[r].it = release[r].it
       /\ release'[r].director = release[r].director]_vars

Quiescent == \A c \in Calls : call[c].next = "idle"

\* AUTHORITY_MODEL.md: an active kill switch has to be cleared by a human before
\* a rollback.  So the only step that turns a kill switch off is the
\* clear_kill_switch call itself.
KillClearedByClear ==
  [][\A r \in Releases :
       release[r].kill /\ ~release'[r].kill =>
         \E c \in Calls : ClearKillSwitch(c, r)]_vars

(* The abstract specification that the authority implements. *)

\* The authorities that have approved the release with record g.
Approvals(g) ==
  (IF g.it # None /\ g.it.outcome = "APPROVED" THEN {"IT"} ELSE {})
  \cup
  (IF g.director # None /\ g.director.outcome = "APPROVED"
     THEN {"DIRECTOR"} ELSE {})

Gates == INSTANCE ReleaseGates WITH
  approved <- [r \in Releases |-> Approvals(release[r])],
  published <- {r \in Releases : release[r].everReleased},
  executable <- {r \in Releases : ExecutionAllowed(r)}

\* Under every interleaving and every failing append the authority behaves
\* like its gates: approvals are collected in order, a release is published
\* once they are complete, only published releases are executable, and no
\* stale write-back undoes an approval or a publication.
ImplementsGates == Gates!Spec

=============================================================================
