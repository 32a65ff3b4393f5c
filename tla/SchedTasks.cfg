SPECIFICATION Spec
CONSTANTS
  MAX_TASKS = 4
  Signals = {14, 17, 20}
  Workloads <- TaskLoads
INVARIANTS CountIsLive NoStaleDeadline CpuRunsRunning ThreadsHaveProcess
PROPERTY ExitEndsWait
CHECK_DEADLOCK FALSE
