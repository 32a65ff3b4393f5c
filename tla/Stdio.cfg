SPECIFICATION Spec
CONSTANTS
  a = a
  nl = nl
  s1 = s1
  p = p
  Streams = {s1}
  Paths = {p}
  Chars = {a, nl}
  NL = nl
  Texts <- SmallTexts
  FIRST_CAP = 1
  TMPFS_FILE_MAX = 2
  MaxFile = 3
INVARIANTS ReadsSnapshot
PROPERTY ClosedFileWhole
