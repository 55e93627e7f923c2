\* Five programs fill the pipeline; three of them are copies on one memory.
CONSTANTS
  Register <- MCRegister
  WordLimit <- MCWordLimit
  StackPointer <- MCStackPointer
  DataAddress <- MCDataAddress
  InitialData <- MCInitialData
  BitOr <- MCBitOr
  ShiftLeft <- MCShiftLeft
  Programs <- MCAccumulating
  Size = 5
  MemoryOf <- MCShared
SPECIFICATION Spec
INVARIANTS TypeOK StagesHoldDifferentPrograms
PROPERTIES AsIfAlone NobodyStarves EndsWithTheLast CopiesStayInStep
