CONSTANTS
  r1 = r1
  r2 = r2
  r3 = r3
  s1 = s1
  s2 = s2
  v1 = v1
  v2 = v2
  None = None
  Releases = {r1, r2}
  Calls = {c1}
  Subjects <- MCSubjects
  Reviews <- MCReviews
  Subject <- MCSubject
  Review <- MCReview
  Material = {}
  Decisions <- MCDecisions
  Packages <- MCPackages
  Reports <- MCReports
  AuditCanFail = FALSE

SPECIFICATION Spec

PROPERTY KillClearedByClear
CHECK_DEADLOCK FALSE
