SPECIFICATION Spec
CONSTANTS
  hi = hi
  mid = mid
  lo = lo
  NoThread = NoThread
  Threads = {hi, mid, lo}
  Crits = {1}
  BasePriority <- Distinct
  MaxNest = 1
  Budget <- Each2
  TimeSlice = FALSE
  Abandoners <- OnlyHi
  CanKill <- Nobody
INVARIANTS
  OwnerResolves
CHECK_DEADLOCK FALSE
