\* Four programs: each is fetched again before its last instruction is done.
CONSTANTS
  Register <- MCRegister
  WordLimit <- MCWordLimit
  StackPointer <- MCStackPointer
  DataAddress <- MCDataAddress
  InitialData <- MCInitialData
  BitOr <- MCBitOr
  ShiftLeft <- MCShiftLeft
  Programs <- MCLoads
  Size = 4
  MemoryOf <- MCSeparate
SPECIFICATION Spec
PROPERTY AsIfAlone
