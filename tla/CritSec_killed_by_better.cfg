SPECIFICATION FairSpec
CONSTANTS
  hi = hi
  mid = mid
  lo = lo
  NoThread = NoThread
  Threads = {hi, lo}
  Crits = {1}
  BasePriority <- TwoOnly
  MaxNest = 1
  Budget <- HiMore
  TimeSlice = FALSE
  Abandoners <- OnlyLo
  CanKill <- HiKillsLo
INVARIANTS
  TypeOK
  QueuedProxyLives
  OwnerResolves
PROPERTIES
  TerminationCompletes
