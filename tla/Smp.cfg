SPECIFICATION SmpSpec
CONSTANTS
  Aps = {0, 2}
  Bsp = 1
  NoCpu = 99
  SMP_WORK_MAX = 2
  Want = 3
  ApicIds = {0, 1, 2}
  X2APIC = 256
  Tables <- MCTables
  ACPI_IDS = 3
  Behind = {1, 2}
  SMP_MAX_CPUS = 4
  SMP_AP_TIMEOUT_MS = 1
INVARIANTS NoLostWakeup StressAccounts EveryOtherStarted
PROPERTIES QueueRefined StressEnds 
CHECK_DEADLOCK FALSE
