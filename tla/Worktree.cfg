SPECIFICATION Spec
CONSTANTS
  Paths = {src, pem, env}
  TestPaths = {pem}
  IgnoredPaths = {env}
  UngatedPaths = {pem}
  Contents = {a, b}
  Absent = Absent
  MaxTasks = 2
  MaxRejections = 1
SYMMETRY ContentSymmetry
INVARIANTS
  CheckpointsStayReachable
  RewritesStartClean
  ApprovedIsReviewed
  TestEditsReportedUnlessReplanned
CHECK_DEADLOCK FALSE
