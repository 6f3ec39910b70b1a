CONSTANTS
  w1 = w1
  w2 = w2
  a1 = a1
  a2 = a2
  new = new
  old = old
  common = common
  long = long
  s1 = s1
  s2 = s2
  x = x
  v1 = v1
  v2 = v2
  None = None
  Workspaces = {w1, w2}
  Actors = {a1, a2}
  Scopes <- MCScopes
  Sources = {s1, s2}
  Versions = {v1, v2}
  Contents = {old, new}
  Citations <- MCCitations
  CitationOf <- MCCitationOf
  Passages = {common, long}
  PassagesOf <- MCPassagesOf
  Classifications = {1, 2}
  Documents = {d1}
  Revisions = {n1}
  Metadata = {m1}
  References = {x1, x2}
  Accesses <- MCAccesses
  Registrations <- MCRegistrations
  Limit = 2
  Calls = {c1, c2}

SPECIFICATION MCSpec
SYMMETRY Symmetry
INVARIANTS TypeOK SearchesSound
PROPERTY KnowledgeImmutable
