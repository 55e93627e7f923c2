\* SingleCycleControlUnit against the architecture: every short program, and
\* the sample programs, which compute what their C functions return.
CONSTANTS
  Register <- MCSampleRegister
  WordLimit <- MCSampleWordLimit
  StackPointer <- MCSampleStack
  DataAddress <- MCSampleData
  InitialData <- MCInitialData
  BitOr <- MCBitOr
  ShiftLeft <- MCShiftLeft
  Programs <- MCPrograms3
  BufferSize = 64
  DataSize = 3
  Rounds = 3
  NoResult = NoResult
  Runs <- MCRuns
SPECIFICATION SampleSpec
INVARIANTS TypeOK SamplesCompute
PROPERTIES TakesEffectInOrder NeverStopsShort
