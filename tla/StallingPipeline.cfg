\* StallingPipelineControlUnit with every unit, on programs that fit it.
CONSTANTS
  Register <- MCRegister
  WordLimit <- MCWordLimit
  StackPointer <- MCStackPointer
  DataAddress <- MCDataAddress
  InitialData <- MCInitialData
  BitOr <- MCBitOr
  ShiftLeft <- MCShiftLeft
  BufferSize = 4
  MaximumHistoryValue = 4
  Programs <- MCConventionalPrograms
  Units <- MCUnits
SPECIFICATION FittingSpec
INVARIANTS StallTypeOK SquashedIsInert HaltedWhenDrained EndIsNoticed OperandsCurrent ReadersWait BookingsHaveWriters NoHazardIsDropped
PROPERTIES TakesEffectInOrder NeverStopsShort
