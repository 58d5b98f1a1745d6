SPECIFICATION Spec
CONSTANTS
  Programs <- PullPrograms
  Heap <- MCHeap
  Vector <- MCVector
  InitialValues <- MCInitialValues
  CSLimit = 24
  CSExtraLimit = 34
  Bits = 4
  MaxTraps = 1
  PullFaults = TRUE
  MaxIndirections = 3
  MaxElements = 6
  MaxProbes = 3
INVARIANT ArgumentsPreserved
