SPECIFICATION FairSpec
CONSTANTS
  hi = hi
  mid = mid
  lo = lo
  NoThread = NoThread
  Threads = {hi, mid, lo}
  Crits = {1}
  BasePriority <- Distinct
  MaxNest = 2
  Budget <- Each2
  TimeSlice = FALSE
  Abandoners <- Nobody
  CanKill <- Nobody
INVARIANTS
  DebugChecks
  PriorityInherited
PROPERTIES
  NoOvertaking
  ImplementsLock
  EveryWaiterEnters
