\* LRU: what was used last may be replaced next.
CONSTANTS
  SetSize = 3
  LineSize = 2
  BlockSize = 1
  TagSize = 4
  Value = {0}
  NoReply = NoReply
  InitialMemory <- MCEmptyMemory
  Strategies <- MCLru
  Used <- Address
SPECIFICATION HistorySpec
PROPERTY LeastRecentlyUsed
