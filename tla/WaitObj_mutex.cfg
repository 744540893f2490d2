SPECIFICATION Spec
CONSTANTS
  hi = hi
  mid = mid
  lo = lo
  boss = boss
  ev = ev
  man = man
  irq = irq
  sem = sem
  mtx = mtx
  NoThread = NoThread
  NoObject = NoObject
  Threads = {hi, mid, lo}
  Objects = {irq, mtx}
  Kind <- Kinds
  MaxCount = 2
  BasePriority <- Distinct
  Ops <- MutexOps
  Budget <- MidCalls1
  Interrupts = 1
  MaxTime = 3
INVARIANTS
  ListsConsistent
  NoEarlyTimeout
  EveryoneReachable
  MutexPriorityInherited
PROPERTIES
  KeepsPromise
