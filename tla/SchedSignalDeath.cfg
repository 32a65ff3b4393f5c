SPECIFICATION Spec
CONSTANTS
  MAX_TASKS = 3
  Signals = {14, 17}
  Workloads <- AlarmLoads
PROPERTY DeathEndsWait
CHECK_DEADLOCK FALSE
