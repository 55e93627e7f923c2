\* The write-through cache against the memory it stands for, with every strategy.
CONSTANTS
  SetSize = 2
  LineSize = 2
  BlockSize = 2
  TagSize = 3
  Value = {0, 1}
  NoReply = NoReply
  InitialMemory <- MCInitialMemory
  Strategies <- MCStrategies
  Used <- MCUsed
SPECIFICATION HistorySpec
INVARIANTS TypeOK Coherent
PROPERTIES ActsAsMemory RecentHitsAreKept
