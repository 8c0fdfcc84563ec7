SPECIFICATION RunSpec
CONSTANTS
  None = None
  RungBudgets <- UnitBudgets
  MaxIterationsPerTask = 6
  MaxIterationsPerRun = 12
  Tasks = {t1}
  Signatures = {s1}
  InfraSignatures = {i1}
  Diffs <- RealDiffs
  MaxRejectionsPerRun = 1
  MaxNewTasks = 1
  Paths = {src, tst}
  TestPaths = {tst}
  IgnoredPaths = {}
  UngatedPaths = {}
  Contents = {a, b}
  Absent = Absent
  Lines <- OneLine
  MaxDeletedLines = 1
  MaxTasks = 9
SYMMETRY ContentSymmetry
INVARIANTS
  TreeWordIsTrue
PROPERTIES
  FollowsWorktree
CHECK_DEADLOCK FALSE
