SPECIFICATION Spec
CONSTANTS
  None = None
  RungBudgets <- CodeBudgets
  MaxIterationsPerTask = 9
  MaxIterationsPerRun = 24
  Tasks = {t1, t2}
  Signatures = {s1, s2}
  InfraSignatures = {i1}
  Diffs = {d1, d2, d3}
  MaxRejectionsPerRun = 1
  MaxNewTasks = 2
SYMMETRY RunSymmetry
INVARIANTS
  CheckpointsArePlanPrefix
  ApprovalIsEarned
  InterventionIsHonest
  NoThrashSurvives
  WritesWithinLadder
  HaltsReachCerberus
  RejectionIsConsumed
