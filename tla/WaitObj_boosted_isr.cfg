SPECIFICATION Spec
CONSTANTS
  hi = hi
  mid = mid
  lo = lo
  boss = boss
  ev = ev
  man = man
  irq = irq
  sem = sem
  mtx = mtx
  NoThread = NoThread
  NoObject = NoObject
  Threads = {hi, mid, lo}
  Objects = {irq}
  Kind <- Kinds
  MaxCount = 2
  BasePriority <- Distinct
  Ops <- BoostOps
  Budget <- MidCalls1
  Interrupts = 1
  MaxTime = 4
INVARIANTS
  InterruptFindsBlocked
