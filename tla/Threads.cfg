SPECIFICATION LiveSpec
CONSTANTS
  MAX_TASKS = 4
  MV_THREAD_MAX_JOINABLE = 1
  Areas = 3
  MaxCreates = 3
  Callers = {1}
  Returned = {"number", "negative"}
INVARIANTS ThreadsStand StacksReleased
PROPERTY JoinReturns
CHECK_DEADLOCK FALSE
