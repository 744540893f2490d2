SPECIFICATION FairSpec
CONSTANTS
  hi = hi
  mid = mid
  lo = lo
  boss = boss
  ev = ev
  man = man
  irq = irq
  sem = sem
  mtx = mtx
  NoThread = NoThread
  NoObject = NoObject
  Threads = {hi, mid, lo}
  Objects = {ev, man, sem}
  Kind <- Kinds
  MaxCount = 2
  BasePriority <- Distinct
  Ops <- SignalOps
  Budget <- MidCalls1
  Interrupts = 0
  MaxTime = 3
INVARIANTS
  TypeOK
  NoSignalMissed
PROPERTIES
  KeepsPromise
  TimedCallsReturn
