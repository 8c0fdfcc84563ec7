SPECIFICATION Spec
CONSTANTS
  None = None
  Main = main
  Workers = {w1, w2}
  Size = 2
  Faults = {"create", "start", "remove", "transport"}
  MaxEvaluations = 3
  MaxContainers <- EnoughContainers
INVARIANTS
  PoolKeepsItsSize
PROPERTIES
  ImplementsContainerLife
  AcquiresEnd
  ShutdownEnds
