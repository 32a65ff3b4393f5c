SPECIFICATION Spec
CONSTANTS
  Word = 512
  WindowBase = 8
  WindowEnd = 136
  FirstBreak = 16
  GROW_MIN = 48
  Requests = {0, 9, 41}
  Counts = {1, 57}
  MaxLive = 2
INVARIANTS HeapTiles ContentsKept
PROPERTY AllocatorRefined
