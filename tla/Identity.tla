-------------------------------- MODULE Identity --------------------------------
(***************************************************************************)
(* The identity authority of src/alos/authentication/service.py over the   *)
(* directory of src/alos/identity/directory.py and the role grants of      *)
(* src/alos/permissions/registry.py.                                       *)
(*                                                                         *)
(* register() awaits nothing and is one step, but it gives up at five      *)
(* places and takes nothing back: the tenants, organizations, workspaces,  *)
(* actors, memberships and role grants entered so far stay.  There is one  *)
(* action per way in which it ends.  Nothing is ever deactivated, and      *)
(* actor_ids are fresh: neither is represented.                            *)
(***************************************************************************)
CONSTANTS
  Emails,
  Tenants,        \* tenant_ids
  Organizations,  \* organization_ids
  Workspaces,     \* workspace_ids
  Actors,         \* the actor_ids that uuid4 returns
  Roles,          \* role_ids
  Permissions,    \* permission_refs
  Scopes,         \* scope_refs
  Units,          \* division_ids and project_ids
  Registrations,  \* the payloads that register() is given
  None            \* Python's None

UnitKinds == {"division", "project"}

Unit == [UnitKinds -> Units \cup {None}]

\* What a membership carries into the principal.  tenant, organization and
\* workspace are those of the payload.
Membership ==
  [tenant: Tenants, organization: Organizations, workspace: Workspaces,
   roles: SUBSET Roles, permissions: SUBSET Permissions, scopes: SUBSET Scopes,
   units: Unit]

\* `scoped': data_scope names a DataScope; `strong': the password is accepted.
Registration ==
  [email: Emails, membership: Membership, scoped: BOOLEAN, strong: BOOLEAN]

Boundary == [tenant: Tenants, organization: Organizations]

GrantKeys == Tenants \X Organizations \X Roles

Grant == [permissions: SUBSET Permissions, scopes: SUBSET Scopes]

ASSUME IdentityAssumption ==
  /\ Registrations \subseteq Registration
  /\ None \notin Tenants \cup Workspaces \cup Actors \cup Units
  /\ None \notin Boundary \cup Grant \cup Membership

VARIABLES
  tenants,        \* _tenants
  organizations,  \* _organizations, each with its tenant
  workspaces,     \* _workspaces, each with its tenant and organization
  actors,         \* _actors, each with its tenant and organization
  memberships,    \* _memberships: an actor is registered in one workspace
  grants,         \* _grants, by tenant, organization and role
  accounts        \* _accounts, by email

identityVars ==
  <<tenants, organizations, workspaces, actors, memberships, grants, accounts>>

IdentityInit ==
  /\ tenants = {}
  /\ organizations = [o \in Organizations |-> None]
  /\ workspaces = [w \in Workspaces |-> None]
  /\ actors = [a \in Actors |-> None]
  /\ memberships = [a \in Actors |-> None]
  /\ grants = [k \in GrantKeys |-> None]
  /\ accounts = [e \in Emails |-> None]

-----------------------------------------------------------------------------
(* The stages of register(). *)

BoundaryOf(m) == [tenant |-> m.tenant, organization |-> m.organization]

\* add_tenant(), add_organization() and add_workspace(); that one of them is
\* refused, because it exists or because its boundary is invalid, is ignored.
Founds(m) ==
  /\ tenants' = tenants \cup {m.tenant}
  /\ organizations' =
       [organizations EXCEPT ![m.organization] = IF @ = None THEN m.tenant ELSE @]
  /\ workspaces' =
       IF organizations'[m.organization] = m.tenant
       THEN [workspaces EXCEPT ![m.workspace] =
               IF @ = None THEN BoundaryOf(m) ELSE @]
       ELSE workspaces

AddActor(a, m) ==
  /\ organizations'[m.organization] = m.tenant
  /\ actors[a] = None
  /\ actors' = [actors EXCEPT ![a] = BoundaryOf(m)]

\* Mutant: add_membership() looks at the actor alone.
InBoundaryOfActor(m) == organizations'[m.organization] = m.tenant

\* add_membership() of an actor that has just been added.
InBoundary(m) == workspaces'[m.workspace] = BoundaryOf(m)

AddMembership(a, m) ==
  /\ InBoundary(m)
  /\ memberships' = [memberships EXCEPT ![a] = m]

RoleKey(m, role) == <<m.tenant, m.organization, role>>

GrantOf(m) == [permissions |-> m.permissions, scopes |-> m.scopes]

\* Mutant: a role that exists is taken as it is.
GrantableAnyway(m, role) == TRUE

\* PermissionRegistry.register(): a role is granted once, and again if nothing
\* changes.
Grantable(m, role) ==
  grants[RoleKey(m, role)] \in {None, GrantOf(m)}

\* The grants of some of the roles of m; others keep theirs.
GrantRoles(m, roles) ==
  grants' = [k \in GrantKeys |->
               IF /\ grants[k] = None
                  /\ \E role \in roles : k = RoleKey(m, role)
               THEN GrantOf(m) ELSE grants[k]]

-----------------------------------------------------------------------------
(* register(). *)

Free(p) == accounts[p.email] = None

\* IDENTITY_CONFLICT: the organization belongs to another tenant.
RefuseActor(p) ==
  /\ Free(p)
  /\ Founds(p.membership)
  /\ organizations'[p.membership.organization] # p.membership.tenant
  /\ UNCHANGED <<actors, memberships, grants, accounts>>

\* INVALID_SCOPE_OR_IDENTITY: the actor stays.
RefuseMembership(p, a) ==
  /\ Free(p)
  /\ Founds(p.membership)
  /\ AddActor(a, p.membership)
  /\ p.scoped => ~InBoundary(p.membership)
  /\ UNCHANGED <<memberships, grants, accounts>>

\* PermissionConflictError: the actor, its membership and the grants of the roles
\* that came before the one in conflict stay; roles is a frozenset and its order
\* is arbitrary.
RefuseRole(p, a, before) ==
  LET m == p.membership
  IN
  /\ Free(p) /\ p.scoped
  /\ Founds(m)
  /\ AddActor(a, m)
  /\ AddMembership(a, m)
  /\ before \subseteq {role \in m.roles : Grantable(m, role)}
  /\ \E role \in m.roles : ~Grantable(m, role)
  /\ GrantRoles(m, before)
  /\ UNCHANGED accounts

\* WEAK_PASSWORD: everything but the account stays.
RefusePassword(p, a) ==
  LET m == p.membership
  IN
  /\ Free(p) /\ p.scoped /\ ~p.strong
  /\ Founds(m)
  /\ AddActor(a, m)
  /\ AddMembership(a, m)
  /\ \A role \in m.roles : Grantable(m, role)
  /\ GrantRoles(m, m.roles)
  /\ UNCHANGED accounts

Admit(p, a) ==
  LET m == p.membership
  IN
  /\ Free(p) /\ p.scoped /\ p.strong
  /\ Founds(m)
  /\ AddActor(a, m)
  /\ AddMembership(a, m)
  /\ \A role \in m.roles : Grantable(m, role)
  /\ GrantRoles(m, m.roles)
  /\ accounts' = [accounts EXCEPT ![p.email] = a]

Register ==
  \E p \in Registrations :
    \/ RefuseActor(p)
    \/ \E a \in Actors :
         \/ RefuseMembership(p, a)
         \/ RefusePassword(p, a)
         \/ Admit(p, a)
         \/ \E before \in SUBSET p.membership.roles : RefuseRole(p, a, before)

-----------------------------------------------------------------------------
(* login() and whoami(). *)

Registered == {e \in Emails : accounts[e] # None}

\* principal_for() of the account that a token is resolved to: tokens are digests
\* of accounts and, as these, distinct.
PrincipalOf(e) == memberships[accounts[e]]

\* The tables of the directory.
IdentityTypeOK ==
  /\ tenants \subseteq Tenants
  /\ organizations \in [Organizations -> Tenants \cup {None}]
  /\ workspaces \in [Workspaces -> Boundary \cup {None}]
  /\ actors \in [Actors -> Boundary \cup {None}]
  /\ memberships \in [Actors -> Membership \cup {None}]
  /\ grants \in [GrantKeys -> Grant \cup {None}]
  /\ accounts \in [Emails -> Actors \cup {None}]

\* Whoever can log in is a member of a workspace of an organization of a tenant
\* that all agree on it.
AccountsAnchored ==
  \A e \in Registered :
    LET a == accounts[e]
        m == PrincipalOf(e)
    IN
    /\ m.tenant \in tenants
    /\ organizations[m.organization] = m.tenant
    /\ workspaces[m.workspace] = BoundaryOf(m)
    /\ actors[a] = BoundaryOf(m)

\* Members of an organization who can log in have the authority that their roles
\* are granted.
RolesAgree ==
  \A e \in Registered :
    LET m == PrincipalOf(e)
    IN  \A role \in m.roles : grants[RoleKey(m, role)] = GrantOf(m)

\* AUTHORITY_MODEL.md, "Identity hierarchy", and permissions/registry.py:25-31:
\* whatever other registrations, in other tenants, succeeded or stopped half-way
\* before, an account is anchored in one boundary, and who shares a role there
\* shares its authority, although a refused registration may have fixed it.
AccountsSound == AccountsAnchored /\ RolesAgree

=============================================================================
