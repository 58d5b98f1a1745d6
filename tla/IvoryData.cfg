SPECIFICATION Spec
CHECK_DEADLOCK FALSE
CONSTANTS
  Bits = 14
  HeapSize = 28
  MaxHops = 3
  ImmBits = 3
  MaxStack = 9
  MaxCells = 4
  ByteBits = 8
  CacheSlots = 2
  MaxSteps <- MCMaxSteps
  InitialHeap <- MCInitialHeap
  InitialStacks <- MCInitialStacks
  InitialRegs <- MCInitialRegs
  InitialBars <- MCInitialBars
  Fields <- MCFields
  Variables <- MCVariables
  Modes <- MCModes
  Pages <- MCPages
  NewPlace <- MCNewPlace
INVARIANTS
  TypeOK
  CacheCoherent
  BindingsUndo
  AsetStoresOneElement
PROPERTIES
  StoresKeepStructure
