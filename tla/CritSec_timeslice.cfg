SPECIFICATION Spec
CONSTANTS
  hi = hi
  mid = mid
  lo = lo
  NoThread = NoThread
  Threads = {hi, mid, lo}
  Crits = {1, 2}
  BasePriority <- Equals
  MaxNest = 1
  Budget <- LowMore
  TimeSlice = TRUE
  Abandoners <- Nobody
  CanKill <- Nobody
INVARIANTS
  RunQueueOK
  WaiterIsSeen
  EnteredIsOwner
  ListedWithOwner
