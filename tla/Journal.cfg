SPECIFICATION Spec
CONSTANTS
  BitmapSects = {"bitmap1", "bitmap2"}
  DirSects = {"dir1"}
  HBFS_JOURNAL_SECTS = 8
  MaxOps = 2
  MaxPowerOffs = 2
  MaxFaults = 2
INVARIANTS AnswersKept
PROPERTIES MetadataAtomic
CHECK_DEADLOCK FALSE
