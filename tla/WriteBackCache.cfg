\* The write-back cache against the memory it stands for, with any victim.
CONSTANTS
  SetSize = 2
  LineSize = 2
  BlockSize = 2
  TagSize = 3
  Value = {0, 1}
  NoReply = NoReply
  InitialMemory <- MCInitialMemory
  Strategies <- MCStrategies
  Used <- MCUsed
SPECIFICATION Spec
INVARIANTS TypeOK Coherent FlushedIsClean
PROPERTY ActsAsMemory
