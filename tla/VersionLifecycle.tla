--------------------------- MODULE VersionLifecycle ---------------------------
(***************************************************************************)
(* What the versioned registry promises of a definition: a version is      *)
(* registered once, as a draft with an immutable digest, and passes        *)
(* through DRAFT, APPROVED, ACTIVE and SUSPENDED in this order only.       *)
(***************************************************************************)
CONSTANTS Versions, Digests, None

VARIABLE version

Unregistered == [state |-> "ABSENT", digest |-> None]

LifecycleInit == version = [v \in Versions |-> Unregistered]

Create(v, d) ==
  /\ version[v] = Unregistered
  /\ version' = [version EXCEPT ![v] = [state |-> "DRAFT", digest |-> d]]

Advance(v, from, to) ==
  /\ version[v].state = from
  /\ version' = [version EXCEPT ![v].state = to]

LifecycleNext ==
  \E v \in Versions :
    \/ \E d \in Digests : Create(v, d)
    \/ Advance(v, "DRAFT", "APPROVED")
    \/ Advance(v, "APPROVED", "ACTIVE")
    \/ Advance(v, "ACTIVE", "SUSPENDED")

LifecycleSpec == LifecycleInit /\ [][LifecycleNext]_version

=============================================================================
