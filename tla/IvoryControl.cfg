SPECIFICATION FairSpec
CONSTANTS
  Programs <- AllPrograms
  Heap <- MCHeap
  Vector <- MCVector
  InitialValues <- MCInitialValues
  CSLimit = 24
  CSExtraLimit = 34
  Bits = 4
  MaxTraps = 2
  PullFaults = FALSE
  MaxIndirections = 3
  MaxElements = 6
  MaxProbes = 3
INVARIANTS TypeOK ArgumentsPreserved CleanupBitsAgree
PROPERTIES ReturnRestoresCaller EntryDelivers CleanupAtItsLevel Terminates
