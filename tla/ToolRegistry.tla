----------------------------- MODULE ToolRegistry -----------------------------
(***************************************************************************)
(* The tool registry of src/alos/tools/registry/registry.py.               *)
(*                                                                         *)
(* Every lifecycle operation reads the registration, checks it, computes   *)
(* the updated one, awaits the append of its audit event and only then     *)
(* writes the updated registration, without looking at the table again.    *)
(* So an operation is two steps, and the second may overwrite what other   *)
(* operations have written in between.                                     *)
(***************************************************************************)
CONSTANTS
  Tools,     \* tool_ids
  Builtin,   \* tools entered by register(): active, without owner and tenant
  Actors,    \* actor_ids of the humans who manage tools
  Admins,    \* concurrent invocations of lifecycle operations
  Drafts,    \* what the callers of register_draft() set in a registration
  None       \* Python's None

ASSUME RegistryAssumption ==
  /\ Builtin \subseteq Tools
  /\ None \notin Actors \cup Tools
  /\ Drafts \subseteq [kill: BOOLEAN, allowlisted: BOOLEAN,
                       approvedBy: Actors \cup {None}]

VARIABLES
  tools,   \* _tools
  change   \* the lifecycle operations that await their audit event

registryVars == <<tools, change>>

ToolLifecycleState == {"DRAFT", "APPROVED", "ACTIVE", "SUSPENDED", "RETIRED"}

\* A tool_id that is not a key of _tools is "ABSENT".
ToolRegistration ==
  [state: ToolLifecycleState \cup {"ABSENT"}, kill: BOOLEAN,
   allowlisted: BOOLEAN, owner: Actors \cup {None},
   approvedBy: Actors \cup {None}]

Unregistered == [state |-> "ABSENT", kill |-> FALSE, allowlisted |-> FALSE,
                 owner |-> None, approvedBy |-> None]

Change == [tool: Tools \cup {None}, updated: ToolRegistration]

NoChange == [tool |-> None, updated |-> Unregistered]

RegistryInit ==
  /\ tools = [t \in Tools |->
                IF t \in Builtin
                  THEN [Unregistered EXCEPT !.state = "ACTIVE",
                                            !.allowlisted = TRUE]
                  ELSE Unregistered]
  /\ change = [m \in Admins |-> NoChange]

-----------------------------------------------------------------------------
(* Lifecycle operations up to their audit event. *)

\* _record: an event requires the tenant context that a builtin tool lacks.
Announce(m, t, updated) ==
  /\ change[m] = NoChange
  /\ t \notin Builtin
  /\ change' = [change EXCEPT ![m] = [tool |-> t, updated |-> updated]]
  /\ UNCHANGED tools

\* The registration is the caller's: only its state and its owner are checked.
RegisterDraft(m, t, a, d) ==
  /\ tools[t].state = "ABSENT"
  /\ Announce(m, t, [state |-> "DRAFT", kill |-> d.kill,
                     allowlisted |-> d.allowlisted, owner |-> a,
                     approvedBy |-> d.approvedBy])

Approve(m, t, a) ==
  /\ tools[t].state = "DRAFT"
  /\ tools[t].owner # a
  /\ Announce(m, t, [tools[t] EXCEPT !.state = "APPROVED", !.approvedBy = a])

\* Mutant: a suspended tool is resumed.
ActivateAgain(m, t) ==
  /\ tools[t].state \in {"APPROVED", "SUSPENDED"}
  /\ Announce(m, t, [tools[t] EXCEPT !.state = "ACTIVE"])

Activate(m, t) ==
  /\ tools[t].state = "APPROVED"
  /\ Announce(m, t, [tools[t] EXCEPT !.state = "ACTIVE"])

SuspendTool(m, t) ==
  /\ tools[t].state = "ACTIVE"
  /\ Announce(m, t, [tools[t] EXCEPT !.state = "SUSPENDED"])

Retire(m, t) ==
  /\ tools[t].state \notin {"ABSENT", "RETIRED"}
  /\ Announce(m, t, [tools[t] EXCEPT !.state = "RETIRED",
                                     !.allowlisted = FALSE])

ActivateKillSwitch(m, t) ==
  /\ tools[t].state = "ACTIVE"
  /\ Announce(m, t, [tools[t] EXCEPT !.kill = TRUE])

\* The state of the tool is not looked at.
ClearKillSwitch(m, t) ==
  /\ tools[t].kill
  /\ Announce(m, t, [tools[t] EXCEPT !.kill = FALSE])

(* Their ends. *)

\* Mutant: a transition leaves the owner as it finds it.
WriteKeepingOwner(m) ==
  LET t == change[m].tool
      g == change[m].updated
  IN
  /\ change[m] # NoChange
  /\ tools' = [tools EXCEPT ![t] =
                 IF g.state = "DRAFT" THEN g ELSE [g EXCEPT !.owner = tools[t].owner]]
  /\ change' = [change EXCEPT ![m] = NoChange]

\* The event has been appended: the update is written over what is there.
Write(m) ==
  /\ change[m] # NoChange
  /\ tools' = [tools EXCEPT ![change[m].tool] = change[m].updated]
  /\ change' = [change EXCEPT ![m] = NoChange]

\* The append raises, or the caller is cancelled in it: nothing is written.
GiveUp(m) ==
  /\ change[m] # NoChange
  /\ change' = [change EXCEPT ![m] = NoChange]
  /\ UNCHANGED tools

Operation(m, t) ==
  \/ \E a \in Actors, d \in Drafts : RegisterDraft(m, t, a, d)
  \/ \E a \in Actors : Approve(m, t, a)
  \/ Activate(m, t)
  \/ SuspendTool(m, t)
  \/ Retire(m, t)
  \/ ActivateKillSwitch(m, t)
  \/ ClearKillSwitch(m, t)

RegistryNext ==
  \E m \in Admins :
    \/ \E t \in Tools : Operation(m, t)
    \/ Write(m)
    \/ GiveUp(m)

RegistrySpec == RegistryInit /\ [][RegistryNext]_registryVars

-----------------------------------------------------------------------------
(* Properties. *)

RegistryTypeOK ==
  /\ tools \in [Tools -> ToolRegistration]
  /\ change \in [Admins -> Change]

\* A registration that has left DRAFT towards execution was approved by someone
\* other than the human who made it.
Checked(g) ==
  g.state \in {"APPROVED", "ACTIVE", "SUSPENDED"} =>
    g.approvedBy \notin {None, g.owner}

\* TOOL_EXECUTION_BOUNDARY.md: "Maker tidak boleh menyetujui tool miliknya
\* sendiri".  Whatever approver a draft arrives with, and although the draft of
\* another maker may be written over it while its approval awaits its event, no
\* tool is left approved by its own maker or by nobody.
MakerChecker == \A t \in Tools \ Builtin : Checked(tools[t])

=============================================================================
