SPECIFICATION ProcessSpec
CONSTANTS
  Unset = Unset
INVARIANTS
  
  RunEndIsLast
  ExitZeroIsEarned
CHECK_DEADLOCK FALSE
