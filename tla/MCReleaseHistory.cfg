CONSTANTS
  r1 = r1
  r2 = r2
  r3 = r3
  s1 = s1
  s2 = s2
  v1 = v1
  v2 = v2
  None = None
  Releases = {r1, r2, r3}
  Calls = {c1, c2}
  Subjects <- MCSubjects
  Reviews <- MCReviews
  Subject <- MCSubject
  Review <- MCReview
  Material = {r1}
  Decisions <- MCDecisions
  Packages <- MCPackages
  Reports <- MCReports
  AuditCanFail = TRUE

SPECIFICATION BoundedSpec
SYMMETRY Symmetry
INVARIANTS TypeOK Gated KillSuspends RollbackTraceable
           MapNamesActive TrailAgrees OneActiveUnlessCleared
PROPERTIES ApprovalsFinal ImplementsGates
CHECK_DEADLOCK FALSE
