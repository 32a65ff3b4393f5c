SPECIFICATION MCSpec
CONSTANTS
  c0 = c0
  c1 = c1
  la = la
  lb = lb
  Cpus = {c0, c1}
  NoCpu = NoCpu
  Bsp = c0
  Locks = {la, lb}
  NoLock = NoLock
  Rank <- RankAB
  SMP_MAX_CPUS = 2
  MAX_HELD_LOCKS = 2
  MaxViolations = 2
  MaxCalls = 2
INVARIANTS MutualExclusion NoWaitCycle InterruptsRestored OwnReleaseAccepted
PROPERTIES MutexRefined EveryLockFreed
CHECK_DEADLOCK FALSE
