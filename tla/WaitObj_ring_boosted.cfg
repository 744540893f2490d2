SPECIFICATION Spec
CONSTANTS
  hi = hi
  mid = mid
  lo = lo
  boss = boss
  ev = ev
  man = man
  irq = irq
  sem = sem
  mtx = mtx
  NoThread = NoThread
  NoObject = NoObject
  Threads = {hi, mid, lo, boss}
  Objects = {ev}
  Kind <- Kinds
  MaxCount = 2
  BasePriority <- FourPrios
  Ops <- RingOps
  Budget <- FourCalls
  Interrupts = 0
  MaxTime = 4
INVARIANTS
  TailNoBetter
