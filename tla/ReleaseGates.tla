----------------------------- MODULE ReleaseGates -----------------------------
(***************************************************************************)
(* What the release authority promises, whatever the order of the calls:   *)
(* nobody publishes a release before every authority it needs has approved *)
(* it, nothing runs that was not published, and neither an approval nor a  *)
(* publication is ever taken back.  Which releases run may change at any   *)
(* time: activation, kill switch and rollback are just Start and Stop.     *)
(***************************************************************************)
CONSTANTS Releases, Material

VARIABLES
  approved,    \* approved[r]: the authorities that have approved release r
  published,   \* the releases that have passed the release gate
  executable   \* the releases whose execution is allowed

vars == <<approved, published, executable>>

Required(r) == IF r \in Material THEN {"IT", "DIRECTOR"} ELSE {"IT"}

Init ==
  /\ approved = [r \in Releases |-> {}]
  /\ published = {}
  /\ executable = {}

\* The Director decides on material releases only, and after IT.
Approve(r, authority) ==
  /\ r \notin published
  /\ authority \in Required(r)
  /\ authority = "DIRECTOR" => "IT" \in approved[r]
  /\ approved' = [approved EXCEPT ![r] = @ \cup {authority}]
  /\ UNCHANGED <<published, executable>>

Publish(r) ==
  /\ approved[r] = Required(r)
  /\ published' = published \cup {r}
  /\ UNCHANGED <<approved, executable>>

Start(r) ==
  /\ r \in published
  /\ executable' = executable \cup {r}
  /\ UNCHANGED <<approved, published>>

Stop(r) ==
  /\ executable' = executable \ {r}
  /\ UNCHANGED <<approved, published>>

Next ==
  \E r \in Releases :
    \/ \E authority \in {"IT", "DIRECTOR"} : Approve(r, authority)
    \/ Publish(r)
    \/ Start(r)
    \/ Stop(r)

Spec == Init /\ [][Next]_vars

=============================================================================
