SPECIFICATION Spec
CONSTANTS
  None = None
  RungBudgets <- UnitBudgets
  MaxIterationsPerTask = 6
  MaxIterationsPerRun = 16
  Tasks = {t1, t2}
  Signatures = {s1}
  InfraSignatures = {i1, i2}
  Diffs = {d1, d2}
  MaxRejectionsPerRun = 1
  MaxNewTasks = 1
INVARIANTS
  UnreviewedIsSignalled
