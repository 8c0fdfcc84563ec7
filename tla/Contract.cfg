SPECIFICATION HistorySpec
CONSTANTS
  None = None
  RungBudgets <- UnitBudgets
  MaxIterationsPerTask = 6
  MaxIterationsPerRun = 12
  Tasks = {t1, t2}
  Signatures = {s1, s2}
  InfraSignatures = {i1}
  Diffs = {d1, d2, d3}
  MaxRejectionsPerRun = 2
  MaxNewTasks = 2
PROPERTIES
  ImplementsContract
  EveryStepBurnsFuel
  Termination
