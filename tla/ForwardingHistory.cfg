\* Forwarding with the local history unit: a counterexample to program order.
CONSTANTS
  Register <- MCRegister
  WordLimit <- MCWordLimit
  StackPointer <- MCStackPointer
  DataAddress <- MCDataAddress
  InitialData <- MCInitialData
  BitOr <- MCBitOr
  ShiftLeft <- MCShiftLeft
  BufferSize = 16
  MaximumHistoryValue = 16
  Programs <- MCLoopPrograms
  Units <- MCLocalHistoryUnit
SPECIFICATION Spec
PROPERTY TakesEffectInOrder
