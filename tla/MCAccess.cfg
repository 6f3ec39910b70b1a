CONSTANTS
  e1 = e1
  e2 = e2
  t1 = t1
  t2 = t2
  o1 = o1
  o2 = o2
  w1 = w1
  w2 = w2
  a1 = a1
  a2 = a2
  a3 = a3
  a4 = a4
  staff = staff
  lead = lead
  research = research
  external = external
  domain = domain
  outside = outside
  d1 = d1
  d2 = d2
  None = None
  Emails = {e1, e2}
  Tenants = {t1, t2}
  Organizations = {o1, o2}
  Workspaces = {w1, w2}
  Actors = {a1, a2, a3, a4}
  Roles = {staff, lead}
  Permissions = {research, external}
  Scopes = {domain, outside}
  Units = {d1, d2}
  Registrations <- MCRegistrations
  Calls = {c1}
  Commands <- MCCommands
  Domains = {domain}
  RequestPermission = research
  ExternalPermission = external
  ExternalScope = outside
  MaxBytes = 2
  MaxChunk = 2

SPECIFICATION Spec
INVARIANTS TypeOK AccountsSound AnswersJustified AnswersAudited
PROPERTY EveryRequestEnds
