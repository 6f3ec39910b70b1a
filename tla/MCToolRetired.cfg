CONSTANTS
  t1 = t1
  t2 = t2
  k = k
  p1 = p1
  p2 = p2
  n1 = n1
  n2 = n2
  m1 = m1
  a1 = a1
  a2 = a2
  None = None
  Tools = {t1, t2}
  Builtin = {t2}
  Actors = {a1, a2}
  Admins = {m1, m2}
  Drafts <- MCDrafts
  Requests <- MCRequests
  Callers = {c1}
  KeyRequired = {t2}
  Production = FALSE

SPECIFICATION HistorySpec
PROPERTY DisabledNeverRuns
CHECK_DEADLOCK FALSE
