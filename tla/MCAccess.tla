-------------------------------- MODULE MCAccess --------------------------------
(***************************************************************************)
(* Access for TLC.  x1 and x2 are meant for organization o1 of tenant t1;  *)
(* the other registrations each run into one of the obstacles of           *)
(* register().                                                             *)
(***************************************************************************)
EXTENDS Access

CONSTANTS e1, e2, t1, t2, o1, o2, w1, w2, a1, a2, a3, a4, staff, lead, research,
          external, domain, outside, d1, d2

NoUnit == [k \in UnitKinds |-> None]

Division(d) == [NoUnit EXCEPT !["division"] = d]

Joins(t, o, w, roles, permissions, scopes, units) ==
  [tenant |-> t, organization |-> o, workspace |-> w, roles |-> roles,
   permissions |-> permissions, scopes |-> scopes, units |-> units]

Full == Joins(t1, o1, w1, {staff}, {research, external}, {domain, outside},
              Division(d1))

Asking(e, m, scoped, strong) ==
  [email |-> e, membership |-> m, scoped |-> scoped, strong |-> strong]

MCRegistrations ==
  {Asking(e1, Full, TRUE, TRUE),
   Asking(e2, [Full EXCEPT !.roles = {staff, lead}, !.units = NoUnit], TRUE, TRUE),
   \* Fewer scopes: a conflict, if another has been granted one of the roles.
   Asking(e2, [Full EXCEPT !.scopes = {domain}], TRUE, TRUE),
   Asking(e2, Joins(t1, o1, w1, {lead}, {research}, {}, NoUnit), TRUE, FALSE),
   Asking(e2, Joins(t1, o1, w1, {lead}, {research}, {}, NoUnit), TRUE, TRUE),
   \* Another tenant: o1, or an organization of its own, but w1.
   Asking(e1, Joins(t2, o1, w1, {staff}, {research}, {domain}, NoUnit), TRUE, TRUE),
   Asking(e1, Joins(t2, o2, w1, {staff}, {research}, {domain}, NoUnit), TRUE, TRUE),
   Asking(e2, [Full EXCEPT !.workspace = w2], FALSE, TRUE)}

Nothing == [actor |-> None, tenant |-> None, workspace |-> None, units |-> NoUnit]

MCCommands ==
  {[permission |-> research, scopes |-> {domain, outside}, units |-> Division(d1),
    claims |-> Nothing],
   [permission |-> external, scopes |-> {}, units |-> NoUnit,
    claims |-> [Nothing EXCEPT !.actor = a1, !.tenant = t1, !.workspace = w1]],
   \* Allowed to an actor without a division.
   [permission |-> research, scopes |-> {domain}, units |-> NoUnit,
    claims |-> [Nothing EXCEPT !.units = Division(d2)]]}

=============================================================================
