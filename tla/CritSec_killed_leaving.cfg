SPECIFICATION Spec
CONSTANTS
  hi = hi
  mid = mid
  lo = lo
  NoThread = NoThread
  Threads = {hi, mid, lo}
  Crits = {1}
  BasePriority <- Distinct
  MaxNest = 1
  Budget <- Each2
  TimeSlice = FALSE
  Abandoners <- Nobody
  CanKill <- HiKillsLo
INVARIANTS
  LeaveByOwner
CHECK_DEADLOCK FALSE
