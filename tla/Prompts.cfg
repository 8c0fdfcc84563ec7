SPECIFICATION Spec
CONSTANTS
  Trees = {t1, t2}
  None = None
  MaxPrompts = 7
SYMMETRY TreeSymmetry
INVARIANTS
  MapIsCurrent
  KeyFollowsWrites
  HistoryKeysAreUnique
CHECK_DEADLOCK FALSE
