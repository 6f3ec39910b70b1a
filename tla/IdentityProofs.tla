------------------------------ MODULE IdentityProofs ------------------------------
(***************************************************************************)
(* What a registration does to the directory, for every set of tenants,    *)
(* roles and payloads: wherever it stops, nothing that is there changes,   *)
(* and whoever is a member is anchored in one boundary.                    *)
(***************************************************************************)
EXTENDS Identity, TLAPS

\* A member is in a workspace of an organization of its tenant, as an actor of both.
Anchored(a) ==
  LET m == memberships[a]
  IN
  /\ m.tenant \in tenants
  /\ organizations[m.organization] = m.tenant
  /\ workspaces[m.workspace] = BoundaryOf(m)
  /\ actors[a] = BoundaryOf(m)

MembersAnchored == \A a \in Actors : memberships[a] # None => Anchored(a)

AccountsMember == \A e \in Emails : accounts[e] # None => memberships[accounts[e]] # None

DirectoryInv ==
  /\ IdentityTypeOK
  /\ MembersAnchored
  /\ AccountsMember
  /\ RolesAgree

\* Nothing that is in the directory changes.
DirectoryGrows ==
  /\ tenants \subseteq tenants'
  /\ \A o \in Organizations : organizations[o] # None => organizations'[o] = organizations[o]
  /\ \A w \in Workspaces : workspaces[w] # None => workspaces'[w] = workspaces[w]
  /\ \A a \in Actors : actors[a] # None => actors'[a] = actors[a]
  /\ \A a \in Actors : memberships[a] # None => memberships'[a] = memberships[a]
  /\ \A k \in GrantKeys : grants[k] # None => grants'[k] = grants[k]
  /\ \A e \in Emails : accounts[e] # None => accounts'[e] = accounts[e]

-----------------------------------------------------------------------------
(* The stages of register(). *)

\* The payload of a registration, field by field.
LEMMA MembershipFields ==
  ASSUME NEW m \in Membership
  PROVE  /\ m.tenant \in Tenants
         /\ m.organization \in Organizations
         /\ m.workspace \in Workspaces
         /\ m.roles \subseteq Roles
         /\ m.permissions \subseteq Permissions
         /\ m.scopes \subseteq Scopes
         /\ BoundaryOf(m) \in Boundary
         /\ GrantOf(m) \in Grant
BY DEF Membership, BoundaryOf, Boundary, GrantOf, Grant

\* Tenants, organizations and workspaces are added, never replaced.
LEMMA FoundsGrows ==
  ASSUME IdentityTypeOK, NEW m \in Membership, Founds(m)
  PROVE  /\ tenants' \subseteq Tenants
         /\ organizations' \in [Organizations -> Tenants \cup {None}]
         /\ workspaces' \in [Workspaces -> Boundary \cup {None}]
         /\ tenants \subseteq tenants'
         /\ m.tenant \in tenants'
         /\ \A o \in Organizations :
              organizations[o] # None => organizations'[o] = organizations[o]
         /\ \A w \in Workspaces :
              workspaces[w] # None => workspaces'[w] = workspaces[w]
<1>1. /\ m.tenant \in Tenants
      /\ m.organization \in Organizations
      /\ m.workspace \in Workspaces
      /\ BoundaryOf(m) \in Boundary
  BY MembershipFields
<1>2. tenants' \subseteq Tenants /\ tenants \subseteq tenants' /\ m.tenant \in tenants'
  BY <1>1 DEF Founds, IdentityTypeOK
<1>3. /\ organizations' \in [Organizations -> Tenants \cup {None}]
      /\ \A o \in Organizations :
           organizations[o] # None => organizations'[o] = organizations[o]
  BY <1>1 DEF Founds, IdentityTypeOK
<1>4. /\ workspaces' \in [Workspaces -> Boundary \cup {None}]
      /\ \A w \in Workspaces :
           workspaces[w] # None => workspaces'[w] = workspaces[w]
  <2>1. workspaces \in [Workspaces -> Boundary \cup {None}]
    BY DEF IdentityTypeOK
  <2>2. workspaces' \in {workspaces,
                         [workspaces EXCEPT ![m.workspace] =
                            IF @ = None THEN BoundaryOf(m) ELSE @]}
    BY DEF Founds
  <2>. QED  BY <1>1, <2>1, <2>2
<1>. QED  BY <1>2, <1>3, <1>4

\* The actor is new.
LEMMA ActorAdded ==
  ASSUME IdentityTypeOK, NEW m \in Membership, NEW a \in Actors, AddActor(a, m)
  PROVE  /\ actors' \in [Actors -> Boundary \cup {None}]
         /\ actors[a] = None
         /\ actors'[a] = BoundaryOf(m)
         /\ \A b \in Actors : b # a => actors'[b] = actors[b]
         /\ organizations'[m.organization] = m.tenant
<1>1. BoundaryOf(m) \in Boundary
  BY MembershipFields
<1>. QED  BY <1>1 DEF AddActor, IdentityTypeOK

\* Some of the roles that m asks for are granted.
LEMMA RolesGranted ==
  ASSUME IdentityAssumption, IdentityTypeOK, NEW m \in Membership, NEW roles,
         roles \subseteq m.roles, GrantRoles(m, roles)
  PROVE  /\ grants' \in [GrantKeys -> Grant \cup {None}]
         /\ \A k \in GrantKeys : grants[k] # None => grants'[k] = grants[k]
         /\ \A role \in roles :
              Grantable(m, role) => grants'[RoleKey(m, role)] = GrantOf(m)
<1>1. GrantOf(m) \in Grant
  BY MembershipFields
<1>2. \A role \in roles : RoleKey(m, role) \in GrantKeys
  BY MembershipFields DEF RoleKey, GrantKeys
<1>3. grants \in [GrantKeys -> Grant \cup {None}]
  BY DEF IdentityTypeOK
<1>4. grants' \in [GrantKeys -> Grant \cup {None}]
  BY <1>1, <1>3 DEF GrantRoles
<1>5. \A k \in GrantKeys : grants[k] # None => grants'[k] = grants[k]
  BY <1>3 DEF GrantRoles
<1>6. ASSUME NEW role \in roles, Grantable(m, role)
      PROVE  grants'[RoleKey(m, role)] = GrantOf(m)
  <2>1. RoleKey(m, role) \in GrantKeys
    BY <1>2
  <2>2. grants[RoleKey(m, role)] \in {None, GrantOf(m)}
    BY <1>6 DEF Grantable
  <2>3. CASE grants[RoleKey(m, role)] = None
    BY <2>1, <2>3 DEF GrantRoles
  <2>4. CASE grants[RoleKey(m, role)] # None
    BY <2>1, <2>2, <2>4, <1>5
  <2>. QED  BY <2>3, <2>4
<1>. QED  BY <1>4, <1>5, <1>6

-----------------------------------------------------------------------------
(* What follows from growth. *)

\* Members that were there stay anchored.
LEMMA AnchoredStays ==
  ASSUME IdentityAssumption, DirectoryInv, DirectoryGrows,
         NEW a \in Actors, memberships[a] # None
  PROVE  Anchored(a)' /\ memberships'[a] = memberships[a]
<1> DEFINE m == memberships[a]
<1>1. m \in Membership
  BY DEF DirectoryInv, IdentityTypeOK
<1>2. /\ m.tenant \in Tenants
      /\ m.organization \in Organizations
      /\ m.workspace \in Workspaces
      /\ BoundaryOf(m) \in Boundary
  BY <1>1, MembershipFields
<1>3. Anchored(a)
  BY DEF DirectoryInv, MembersAnchored
<1>4. memberships'[a] = m
  BY DEF DirectoryGrows
<1>5. m.tenant \in tenants'
  BY <1>3 DEF Anchored, DirectoryGrows
<1>6. organizations'[m.organization] = m.tenant
  <2>1. organizations[m.organization] # None
    BY <1>2, <1>3 DEF Anchored, IdentityAssumption
  <2>. QED  BY <1>2, <1>3, <2>1 DEF Anchored, DirectoryGrows
<1>7. workspaces'[m.workspace] = BoundaryOf(m)
  <2>1. workspaces[m.workspace] # None
    BY <1>2, <1>3 DEF Anchored, IdentityAssumption
  <2>. QED  BY <1>2, <1>3, <2>1 DEF Anchored, DirectoryGrows
<1>8. actors'[a] = BoundaryOf(m)
  <2>1. actors[a] # None
    BY <1>2, <1>3 DEF Anchored, IdentityAssumption
  <2>. QED  BY <1>3, <2>1 DEF Anchored, DirectoryGrows
<1>. QED  BY <1>4, <1>5, <1>6, <1>7, <1>8 DEF Anchored, BoundaryOf

\* Whoever could log in before still can, and has what its roles are granted.
LEMMA AccountStays ==
  ASSUME IdentityAssumption, DirectoryInv, DirectoryGrows,
         NEW e \in Emails, accounts[e] # None
  PROVE  /\ accounts'[e] = accounts[e]
         /\ accounts[e] \in Actors
         /\ memberships[accounts[e]] # None
         /\ memberships'[accounts[e]] = memberships[accounts[e]]
         /\ \A role \in PrincipalOf(e).roles :
              grants'[RoleKey(PrincipalOf(e), role)] = GrantOf(PrincipalOf(e))
<1> DEFINE m == memberships[accounts[e]]
<1>1. accounts'[e] = accounts[e] /\ accounts[e] \in Actors /\ m # None
  BY DEF DirectoryInv, IdentityTypeOK, AccountsMember, DirectoryGrows
<1>2. m \in Membership /\ memberships'[accounts[e]] = m
  BY <1>1 DEF DirectoryInv, IdentityTypeOK, DirectoryGrows
<1>3. ASSUME NEW role \in m.roles
      PROVE  grants'[RoleKey(m, role)] = GrantOf(m)
  <2>1. grants[RoleKey(m, role)] = GrantOf(m)
    BY DEF DirectoryInv, RolesAgree, Registered, PrincipalOf
  <2>2. RoleKey(m, role) \in GrantKeys /\ GrantOf(m) \in Grant
    BY <1>2, MembershipFields DEF RoleKey, GrantKeys
  <2>3. grants[RoleKey(m, role)] # None
    BY <2>1, <2>2 DEF IdentityAssumption
  <2>. QED  BY <2>1, <2>2, <2>3 DEF DirectoryGrows
<1>. QED  BY <1>1, <1>2, <1>3 DEF PrincipalOf

-----------------------------------------------------------------------------
(* The ways in which a registration ends. *)

\* Types and growth of a registration that adds an actor; its membership, its
\* grants and its account may follow.
LEMMA ActorGrows ==
  ASSUME IdentityAssumption, DirectoryInv, NEW m \in Membership, NEW a \in Actors,
         Founds(m), AddActor(a, m),
         memberships' \in {memberships, [memberships EXCEPT ![a] = m]},
         grants' \in [GrantKeys -> Grant \cup {None}],
         \A k \in GrantKeys : grants[k] # None => grants'[k] = grants[k],
         accounts' \in [Emails -> Actors \cup {None}],
         \A e \in Emails : accounts[e] # None => accounts'[e] = accounts[e]
  PROVE  IdentityTypeOK' /\ DirectoryGrows
<1>1. IdentityTypeOK
  BY DEF DirectoryInv
<1>2. memberships[a] = None
  <2>1. actors[a] = None
    BY DEF AddActor
  <2>2. SUFFICES ASSUME memberships[a] # None PROVE FALSE
    OBVIOUS
  <2>3. actors[a] = BoundaryOf(memberships[a]) /\ memberships[a] \in Membership
    BY <1>1, <2>2 DEF DirectoryInv, MembersAnchored, Anchored, IdentityTypeOK
  <2>. QED  BY <2>1, <2>3, MembershipFields DEF IdentityAssumption
<1>3. /\ memberships' \in [Actors -> Membership \cup {None}]
      /\ \A b \in Actors : memberships[b] # None => memberships'[b] = memberships[b]
  <2>1. memberships \in [Actors -> Membership \cup {None}]
    BY <1>1 DEF IdentityTypeOK
  <2>. QED  BY <1>2, <2>1
<1>4. /\ actors' \in [Actors -> Boundary \cup {None}]
      /\ \A b \in Actors : actors[b] # None => actors'[b] = actors[b]
  BY <1>1, ActorAdded
<1>. QED  BY <1>1, <1>3, <1>4, FoundsGrows DEF IdentityTypeOK, DirectoryGrows

\* Members old and new are anchored.
LEMMA MembersStay ==
  ASSUME IdentityAssumption, DirectoryInv, DirectoryGrows, IdentityTypeOK',
         NEW m \in Membership, NEW a \in Actors,
         \/ memberships' = memberships
         \/ /\ Founds(m)
            /\ AddActor(a, m)
            /\ AddMembership(a, m)
  PROVE  MembersAnchored'
<1>1. SUFFICES ASSUME NEW b \in Actors, memberships'[b] # None
               PROVE  Anchored(b)'
  BY DEF MembersAnchored
<1>2. IdentityTypeOK
  BY DEF DirectoryInv
<1>3. CASE memberships[b] # None
  BY <1>3, AnchoredStays
<1>4. CASE memberships[b] = None
  <2>1. Founds(m) /\ AddActor(a, m) /\ AddMembership(a, m)
    BY <1>1, <1>4
  <2>2. memberships \in [Actors -> Membership \cup {None}]
    BY <1>2 DEF IdentityTypeOK
  <2>3. memberships' = [memberships EXCEPT ![a] = m]
    BY <2>1 DEF AddMembership
  <2>4. b = a /\ memberships'[b] = m
    BY <1>1, <1>4, <2>2, <2>3
  <2>5. m.tenant \in tenants'
    BY <1>2, <2>1, FoundsGrows
  <2>6. organizations'[m.organization] = m.tenant /\ actors'[a] = BoundaryOf(m)
    BY <1>2, <2>1, ActorAdded
  <2>7. workspaces'[m.workspace] = BoundaryOf(m)
    BY <2>1 DEF AddMembership, InBoundary
  <2>. QED  BY <2>4, <2>5, <2>6, <2>7 DEF Anchored, BoundaryOf
<1>. QED  BY <1>3, <1>4

\* Accounts old and new are of members who have what their roles are granted.
LEMMA AccountsStay ==
  ASSUME IdentityAssumption, DirectoryInv, DirectoryGrows, IdentityTypeOK',
         NEW m \in Membership, NEW a \in Actors,
         \A e \in Emails :
           \/ accounts'[e] = accounts[e]
           \/ /\ accounts'[e] = a
              /\ memberships'[a] = m
              /\ \A role \in m.roles : grants'[RoleKey(m, role)] = GrantOf(m)
  PROVE  AccountsMember' /\ RolesAgree'
<1>1. SUFFICES ASSUME NEW e \in Emails, accounts'[e] # None
               PROVE  /\ memberships'[accounts'[e]] # None
                      /\ \A role \in PrincipalOf(e)'.roles :
                           grants'[RoleKey(PrincipalOf(e)', role)] = GrantOf(PrincipalOf(e)')
  BY DEF AccountsMember, RolesAgree, Registered, PrincipalOf, RoleKey, GrantOf
<1>2. CASE accounts'[e] = accounts[e]
  <2>1. accounts[e] # None
    BY <1>1, <1>2
  <2>. QED  BY <1>2, <2>1, AccountStays DEF PrincipalOf
<1>3. CASE accounts'[e] # accounts[e]
  <2>1. /\ accounts'[e] = a
        /\ memberships'[a] = m
        /\ \A role \in m.roles : grants'[RoleKey(m, role)] = GrantOf(m)
    BY <1>3
  <2>2. m # None
    BY DEF IdentityAssumption
  <2>. QED  BY <2>1, <2>2 DEF PrincipalOf
<1>. QED  BY <1>2, <1>3

\* A registration that stops before an account is made.
LEMMA StoppedSound ==
  ASSUME IdentityAssumption, DirectoryInv, IdentityTypeOK', DirectoryGrows,
         NEW m \in Membership, NEW a \in Actors,
         \/ memberships' = memberships
         \/ Founds(m) /\ AddActor(a, m) /\ AddMembership(a, m),
         accounts' = accounts
  PROVE  DirectoryInv'
<1>1. MembersAnchored'
  BY MembersStay
<1>2. AccountsMember' /\ RolesAgree'
  BY AccountsStay
<1>. QED  BY <1>1, <1>2 DEF DirectoryInv

LEMMA RefuseActorSound ==
  ASSUME IdentityAssumption, DirectoryInv, NEW p \in Registration, RefuseActor(p)
  PROVE  DirectoryInv' /\ DirectoryGrows
<1> DEFINE m == p.membership
<1>1. m \in Membership
  BY DEF Registration
<1>2. IdentityTypeOK /\ Founds(m)
  BY DEF DirectoryInv, RefuseActor
<1>3. UNCHANGED <<actors, memberships, grants, accounts>>
  BY DEF RefuseActor
<1>4. IdentityTypeOK' /\ DirectoryGrows
  <2> HIDE DEF m
  <2>. QED  BY <1>1, <1>2, <1>3, FoundsGrows DEF IdentityTypeOK, DirectoryGrows
<1>5. MembersAnchored'
  <2>1. SUFFICES ASSUME NEW b \in Actors, memberships'[b] # None
                 PROVE  Anchored(b)'
    BY DEF MembersAnchored
  <2>. QED  BY <1>3, <1>4, <2>1, AnchoredStays
<1>6. AccountsMember' /\ RolesAgree'
  <2>1. SUFFICES ASSUME NEW e \in Emails, accounts[e] # None
                 PROVE  /\ memberships'[accounts'[e]] # None
                        /\ \A role \in PrincipalOf(e)'.roles :
                             grants'[RoleKey(PrincipalOf(e)', role)] = GrantOf(PrincipalOf(e)')
    BY <1>3 DEF AccountsMember, RolesAgree, Registered, PrincipalOf, RoleKey, GrantOf
  <2>. QED  BY <1>4, <2>1, AccountStays DEF PrincipalOf
<1>. QED  BY <1>4, <1>5, <1>6 DEF DirectoryInv

LEMMA RefuseMembershipSound ==
  ASSUME IdentityAssumption, DirectoryInv, NEW p \in Registration,
         NEW a \in Actors, RefuseMembership(p, a)
  PROVE  DirectoryInv' /\ DirectoryGrows
<1> DEFINE m == p.membership
<1>1. m \in Membership
  BY DEF Registration
<1>2. /\ Founds(m)
      /\ AddActor(a, m)
      /\ UNCHANGED <<memberships, grants, accounts>>
  BY DEF RefuseMembership
<1>3. /\ grants \in [GrantKeys -> Grant \cup {None}]
      /\ accounts \in [Emails -> Actors \cup {None}]
  BY DEF DirectoryInv, IdentityTypeOK
<1> HIDE DEF m
<1>4. IdentityTypeOK' /\ DirectoryGrows
  BY <1>1, <1>2, <1>3, ActorGrows
<1>. QED  BY <1>1, <1>2, <1>4, StoppedSound

LEMMA RefuseRoleSound ==
  ASSUME IdentityAssumption, DirectoryInv, NEW p \in Registration,
         NEW a \in Actors, NEW before \in SUBSET p.membership.roles,
         RefuseRole(p, a, before)
  PROVE  DirectoryInv' /\ DirectoryGrows
<1> DEFINE m == p.membership
<1>1. m \in Membership
  BY DEF Registration
<1>2. /\ Founds(m)
      /\ AddActor(a, m)
      /\ AddMembership(a, m)
      /\ GrantRoles(m, before)
      /\ before \subseteq m.roles
      /\ accounts' = accounts
  BY DEF RefuseRole
<1>3. IdentityTypeOK /\ accounts \in [Emails -> Actors \cup {None}]
  BY DEF DirectoryInv, IdentityTypeOK
<1> HIDE DEF m
<1>4. /\ grants' \in [GrantKeys -> Grant \cup {None}]
      /\ \A k \in GrantKeys : grants[k] # None => grants'[k] = grants[k]
  BY <1>1, <1>2, <1>3, RolesGranted
<1>5. memberships' = [memberships EXCEPT ![a] = m]
  BY <1>2 DEF AddMembership
<1>6. IdentityTypeOK' /\ DirectoryGrows
  BY <1>1, <1>2, <1>3, <1>4, <1>5, ActorGrows
<1>. QED  BY <1>1, <1>2, <1>6, StoppedSound

LEMMA RefusePasswordSound ==
  ASSUME IdentityAssumption, DirectoryInv, NEW p \in Registration,
         NEW a \in Actors, RefusePassword(p, a)
  PROVE  DirectoryInv' /\ DirectoryGrows
<1> DEFINE m == p.membership
<1>1. m \in Membership
  BY DEF Registration
<1>2. /\ Founds(m)
      /\ AddActor(a, m)
      /\ AddMembership(a, m)
      /\ GrantRoles(m, m.roles)
      /\ accounts' = accounts
  BY DEF RefusePassword
<1>3. IdentityTypeOK /\ accounts \in [Emails -> Actors \cup {None}]
  BY DEF DirectoryInv, IdentityTypeOK
<1> HIDE DEF m
<1>4. /\ grants' \in [GrantKeys -> Grant \cup {None}]
      /\ \A k \in GrantKeys : grants[k] # None => grants'[k] = grants[k]
  BY <1>1, <1>2, <1>3, RolesGranted
<1>5. memberships' = [memberships EXCEPT ![a] = m]
  BY <1>2 DEF AddMembership
<1>6. IdentityTypeOK' /\ DirectoryGrows
  BY <1>1, <1>2, <1>3, <1>4, <1>5, ActorGrows
<1>. QED  BY <1>1, <1>2, <1>6, StoppedSound

LEMMA AdmitSound ==
  ASSUME IdentityAssumption, DirectoryInv, NEW p \in Registration,
         NEW a \in Actors, Admit(p, a)
  PROVE  DirectoryInv' /\ DirectoryGrows
<1> DEFINE m == p.membership
<1>1. m \in Membership /\ p.email \in Emails
  BY DEF Registration
<1>2. /\ Founds(m)
      /\ AddActor(a, m)
      /\ AddMembership(a, m)
      /\ \A role \in m.roles : Grantable(m, role)
      /\ GrantRoles(m, m.roles)
      /\ accounts[p.email] = None
      /\ accounts' = [accounts EXCEPT ![p.email] = a]
  BY DEF Admit, Free
<1>3. IdentityTypeOK /\ accounts \in [Emails -> Actors \cup {None}]
  BY DEF DirectoryInv, IdentityTypeOK
<1> HIDE DEF m
<1>4. /\ grants' \in [GrantKeys -> Grant \cup {None}]
      /\ \A k \in GrantKeys : grants[k] # None => grants'[k] = grants[k]
      /\ \A role \in m.roles : grants'[RoleKey(m, role)] = GrantOf(m)
  BY <1>1, <1>2, <1>3, RolesGranted
<1>5. memberships' = [memberships EXCEPT ![a] = m]
  BY <1>2 DEF AddMembership
<1>6. /\ accounts' \in [Emails -> Actors \cup {None}]
      /\ \A e \in Emails : accounts[e] # None => accounts'[e] = accounts[e]
  BY <1>1, <1>2, <1>3
<1>7. IdentityTypeOK' /\ DirectoryGrows
  BY <1>1, <1>2, <1>3, <1>4, <1>5, <1>6, ActorGrows
<1>8. MembersAnchored'
  BY <1>1, <1>2, <1>7, MembersStay
<1>9. AccountsMember' /\ RolesAgree'
  <2>1. memberships'[a] = m
    BY <1>3, <1>5 DEF IdentityTypeOK
  <2>2. \A e \in Emails : accounts'[e] = accounts[e] \/ accounts'[e] = a
    BY <1>2, <1>3
  <2>. QED  BY <1>1, <1>4, <1>7, <2>1, <2>2, AccountsStay
<1>. QED  BY <1>7, <1>8, <1>9 DEF DirectoryInv

\* register() as a whole: it keeps the directory sound, and only adds to it.
LEMMA RegisterSound ==
  ASSUME IdentityAssumption, DirectoryInv, Register
  PROVE  DirectoryInv' /\ DirectoryGrows
<1>1. PICK p \in Registrations :
        \/ RefuseActor(p)
        \/ \E a \in Actors :
             \/ RefuseMembership(p, a)
             \/ RefusePassword(p, a)
             \/ Admit(p, a)
             \/ \E before \in SUBSET p.membership.roles : RefuseRole(p, a, before)
  BY DEF Register
<1>2. p \in Registration
  BY DEF IdentityAssumption
<1>. QED  BY <1>1, <1>2, RefuseActorSound, RefuseMembershipSound, RefusePasswordSound,
             AdmitSound, RefuseRoleSound

\* An empty directory is sound.
LEMMA EmptySound ==
  ASSUME IdentityAssumption, IdentityInit
  PROVE  DirectoryInv
<1>1. IdentityTypeOK
  BY DEF IdentityInit, IdentityTypeOK
<1>2. MembersAnchored /\ AccountsMember /\ RolesAgree
  BY DEF IdentityInit, MembersAnchored, AccountsMember, RolesAgree, Registered
<1>. QED  BY <1>1, <1>2 DEF DirectoryInv

\* A sound directory does not change in a step that leaves it alone.
LEMMA DirectoryFrame ==
  ASSUME DirectoryInv, UNCHANGED identityVars
  PROVE  DirectoryInv' /\ DirectoryGrows
<1>1. DirectoryGrows
  BY DEF identityVars, DirectoryGrows
<1>2. IdentityTypeOK' /\ MembersAnchored' /\ AccountsMember' /\ RolesAgree'
  BY DEF DirectoryInv, identityVars, IdentityTypeOK, MembersAnchored, Anchored,
         AccountsMember, RolesAgree, Registered, PrincipalOf, BoundaryOf, GrantOf, RoleKey
<1>. QED  BY <1>1, <1>2 DEF DirectoryInv

\* Who can log in is anchored, and what its roles are granted.
LEMMA DirectorySound ==
  ASSUME DirectoryInv
  PROVE  AccountsSound
<1>1. AccountsAnchored
  BY DEF DirectoryInv, IdentityTypeOK, MembersAnchored, AccountsMember, Anchored,
         AccountsAnchored, Registered, PrincipalOf
<1>. QED  BY <1>1 DEF AccountsSound, DirectoryInv

=============================================================================
