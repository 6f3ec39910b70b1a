---------------------------- MODULE ReleaseHistory ----------------------------
(***************************************************************************)
(* The release authority with two history variables, for what it promises  *)
(* to one caller at a time: whether there has been one caller at a time    *)
(* and no append has failed, and the subjects of which a kill switch has   *)
(* been cleared.                                                           *)
(***************************************************************************)
EXTENDS ReleaseAuthority

VARIABLES alone, cleared

historyVars == <<vars, alone, cleared>>

OneCaller ==
  \A c, d \in Calls : call[c].next # "idle" /\ call[d].next # "idle" => c = d

\* An append that failed, unless the step is also what a call does after an
\* append that did not.
AppendFailed ==
  \E c \in Calls :
    /\ AuditFails(c)
    /\ ~(Return(c) \/ TakeOver(c) \/ SupersedeRefused(c) \/ MapActive(c) \/ Unmap(c))

ClearedNow ==
  {s \in Subjects : \E c \in Calls, r \in Releases :
                      Subject[r] = s /\ ClearKillSwitch(c, r)}

HistoryInit == Init /\ alone = TRUE /\ cleared = {}

HistoryNext ==
  /\ Next
  /\ alone' = (alone /\ OneCaller' /\ ~AppendFailed)
  /\ cleared' = IF alone' THEN cleared \cup ClearedNow ELSE {}

HistorySpec == HistoryInit /\ [][HistoryNext]_historyVars

-----------------------------------------------------------------------------
(* Properties. *)

Orderly == alone /\ Quiescent

\* With one caller and no failing append: the release that _active_by_subject
\* names is ACTIVE, between calls and when activate() goes on after its own
\* append, so that activate() never finds a mapped release it cannot suspend
\* and never stops half-way.
MapNamesActive ==
  alone /\ (\A c \in Calls : call[c].next \in {"idle", "supersede"}) =>
    \A s \in Subjects :
      activeBySubject[s] # None =>
        /\ release[activeBySubject[s]].state = "ACTIVE"
        /\ Subject[activeBySubject[s]] = s

\* With one caller and no failing append: between calls the newest audit event
\* of a release reports the state it is in (MVP1_TOOL_GOVERNANCE_RELEASE_MIGRATION.md,
\* row "Audit tool/release").
TrailAgrees ==
  Orderly => \A r \in Releases : lastEvent[r] = release[r].state

Active(s) == {r \in Releases : Subject[r] = s /\ release[r].state = "ACTIVE"}

\* activate(): "Superseded by a newly activated release".  Between the calls of
\* one caller a subject has at most one ACTIVE release, through activations,
\* kill switches and rollbacks, until one of its kill switches is cleared:
\* clear_kill_switch() re-activates without suspending the mapped release.
OneActiveUnlessCleared ==
  Orderly => \A s \in Subjects \ cleared : \A r, t \in Active(s) : r = t

=============================================================================
