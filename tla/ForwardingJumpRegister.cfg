\* Forwarding does not reach the operand of a jump register.
CONSTANTS
  Register <- MCRegister
  WordLimit <- MCWordLimit
  StackPointer <- MCStackPointer
  DataAddress <- MCDataAddress
  InitialData <- MCInitialData
  BitOr <- MCBitOr
  ShiftLeft <- MCShiftLeft
  BufferSize = 4
  MaximumHistoryValue = 4
  Programs <- MCUnsettledPrograms
  Units <- MCPlainUnit
SPECIFICATION Spec
PROPERTY TakesEffectInOrder
