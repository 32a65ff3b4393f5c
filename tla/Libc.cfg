SPECIFICATION Spec
CONSTANTS
  Word = 256
  OUT_CHUNK = 4
  HBPKG_MAX_DEPS = 1
  HBPKG_MAX_FILES = 2
  TOK_MAX = 3
  TOK_LIMIT = 4
  ATEXIT_MAX_FUNCS = 3
  Calls <- AllCalls
INVARIANTS SortedStable DatesAgree UnicodeWhole  TextHandled OptionsRead PackagesOrdered NewestFirst
 
CHECK_DEADLOCK FALSE
