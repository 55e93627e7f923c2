\* Stalling with the global history unit: loops that do not end.
CONSTANTS
  Register <- MCRegister
  WordLimit <- MCWordLimit
  StackPointer <- MCStackPointer
  DataAddress <- MCDataAddress
  InitialData <- MCInitialData
  BitOr <- MCBitOr
  ShiftLeft <- MCShiftLeft
  BufferSize = 16
  MaximumHistoryValue = 16
  Programs <- MCLoopPrograms
  Units <- MCGlobalHistoryUnit
SPECIFICATION Spec
PROPERTY NeverStopsShort
