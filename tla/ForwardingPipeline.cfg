\* ForwardingPipelineControlUnit with every unit, on programs that fit it.
CONSTANTS
  Register <- MCRegister
  WordLimit <- MCWordLimit
  StackPointer <- MCStackPointer
  DataAddress <- MCDataAddress
  InitialData <- MCInitialData
  BitOr <- MCBitOr
  ShiftLeft <- MCShiftLeft
  BufferSize = 4
  MaximumHistoryValue = 4
  Programs <- MCCompiledPrograms
  Units <- MCUnits
SPECIFICATION FittingSpec
INVARIANTS TypeOK SquashedIsInert HaltedWhenDrained EndIsNoticed OperandsCurrent
PROPERTIES TakesEffectInOrder NeverStopsShort
