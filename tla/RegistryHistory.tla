---------------------------- MODULE RegistryHistory ----------------------------
(***************************************************************************)
(* The versioned registry with a history variable: the versions that a     *)
(* call was to approve or to activate with an empty id.                    *)
(***************************************************************************)
EXTENDS VersionedRegistry

VARIABLE unnamed

historyVars == <<vars, unnamed>>

HistoryInit == Init /\ unnamed = {}

HistoryNext ==
  /\ Next
  /\ unnamed' = unnamed \cup
       {v \in Versions : \E c \in Calls : \/ Approve(c, v, None)
                                          \/ Activate(c, v, None)}

HistorySpec == HistoryInit /\ [][HistoryNext]_historyVars

GatesPassed(e) ==
  /\ e.state \in {"APPROVED", "ACTIVE", "SUSPENDED"} => e.decision # None
  /\ e.state \in {"ACTIVE", "SUSPENDED"} => e.release # None

\* MVP1_AUTHORITY_MIGRATION.md: "Approval memerlukan authority IT atau Director
\* dan decision_id; activation memerlukan release_id."  approve() and activate()
\* take an empty id for none at all and go on.  Where no call has given one, no
\* failed save, restart or repeated transition leaves a version, served or
\* stored, without the ids of its gates.
Gated ==
  \A v \in Versions \ unnamed : GatesPassed(cache[v]) /\ GatesPassed(store[v])

=============================================================================
