# Windows CE 5: a TLA+ verification of the kernel's synchronization core and its debug transport

The repository holds the private sources of Windows CE 5: the kernel (NK), the
core libraries, storage, device and communication stacks, servers, shells and
test kits, about 1.2 million lines. Everything above the kernel relies on one
small and very concurrent piece of it, `NK/KERNEL/schedule.c`: the run queue,
critical sections with hand-off and priority inheritance, waits, and the
termination of threads. This project models that piece first, as precisely as
TLC can check it: critical sections and termination, then waits, the sleep
queue and suspension. The third part is a client of those, the KITL transport:
a sliding window protocol with retransmission.

## Inventory

Paths are below `src/PRIVATE/WINCEOS/COREOS` unless they start with `COMM` or
`SERVERS` (below `src/PRIVATE/WINCEOS` and `src/PRIVATE`).

| component | state | operations | interacts with | what is hard | what makes it correct |
|---|---|---|---|---|---|
| Run queue and dispatcher (`NK/KERNEL/schedule.c`) | `RunList`, `KCResched`, run state and current priority of every THREAD | MakeRun, RunqDequeue, BoostCPrio, ThreadYield, KCNextThread | every KCall that blocks, wakes or boosts a thread | threads change priority while queued; the dispatch lowers a priority and may have to run again | queue sorted, each runnable thread in it once, best thread runs |
| Critical sections (`CORE/DLL/cscode.c`, `schedule.c`) | CRITICAL_SECTION in user memory (OwnerThread, LockCount, needtrap), CRIT in the kernel (waiter queue, place on the owner's list) | Enter/Leave in user mode, TakeCritSec/LeaveCritSec as sequences of KCalls | run queue, thread exit, `loader.c` and all of user code | preemption between any two KCalls; steal-back; unlocked fast path | mutual exclusion, no lost wake-up, no overtaking, priority inheritance |
| Thread exit and termination (`schedule.c`, `objdisp.c`) | DYING, DEAD, BURIED; the owned list | TerminateThread, exit loop, RemoveThread | critical sections, mutexes, waits | the target can be anywhere in a wait or a leave | what it owns is left, it goes away, nobody waits for it |
| Waits on objects (`schedule.c`) | events, mutexes, semaphores and their waiter queues; proxies of a wait | WaitForMultiple, SetEvent, ReleaseMutex, ReleaseSemaphore | sleep queue, interrupts | one KCall per object; wake-up between two of them | one winner per signal, no signal lost |
| Sleep queue (`schedule.c`) | `SleepList` with its tails, wake-up times | SleepOneMore, timer wake-ups | waits, suspension | insertion in steps with a resumable position; timeout against signal | every sleeper wakes once, not before its time |
| Suspend and resume (`schedule.c`) | bSuspendCnt, bPendSusp | SuspendThread, ResumeThread | run queue, waits | suspending a thread in the middle of a wait | counts balance, no lost wake-up |
| Interrupts (`intrapi.c`) | PendEvents, interrupt events | hook, done | waits | asynchronous to KCalls | no interrupt lost |
| Server calls (`objdisp.c`) | callstacks | ObjectCall, ServerCallReturn | termination | return into a dead or dying thread | the thread ends in its own process |
| Loader, paging (`loader.c`, `pgpool.c`) | module lists, reference counts, page pool | LoadLibrary, page-in | critical sections, memory | locks released during page-in | counts match users |
| Memory (`virtmem.c`, `physmem.c`, `heap.c`) | section tables, free lists | VirtualAlloc, page allocation | all | thresholds and out-of-memory owner | no page twice |
| Watchdogs, event log, misc (`watchdog.c`, `logger.c`, `kmisc.c`, ...) | lists under one lock | - | - | - | - |
| KITL (`NK/KITL/edbgprot.c`) | per client: send and receive windows with one-byte sequence numbers | Send, Recv, ACK/NACK, retransmission | timers, critical sections | lossy link, wrapping numbers | delivered once, in order |
| File locks (`STORAGE/LOCKMGR`) | per file: ranges, waiters | install, remove, test | events | wait outside the critical section | no overlapping exclusive ranges, no lost unlock |
| Disk cache (`STORAGE/DISKCACHE`) | sector lookup, dirty bits and count | read, write, flush, resize, lazy writer | disk driver | write-back, failure of a commit | the newest data is read and finally written |
| Storage manager, FAT (`STORAGE`, `FSD`) | volumes, buffers | mount, dismount, I/O | device manager | removal during I/O | - |
| Device manager (`DEVICE`) | devices, open handles | activate, deactivate, I/O | drivers | reference counts | - |
| PPP, DHCP, IR, Bluetooth, TAPI, Winsock (`COMM`) | protocol machines | packets, timers | NDIS | timer against packet | - |
| Servers (`SERVERS`) | per server | - | sockets, files | - | - |

`PROJECT.json` lists every component with its status, and the hazards of this
code at the lines where they bite, with the properties that would catch them.

## What is modelled

**`KSched.tla`** is the run queue as pure operators on one record: the running
thread, the reschedule flag, the queue, run states and current priorities. The
code keeps the queue as a list of rings with a hash table of entry points; the
model keeps the order the two implement, a sequence of threads, best priority
first and first come first served among equals. `MakeRun`, `RunqDequeue`,
`ThreadYield`, `BoostCPrio` and `MakeRunIfNeeded` carry the names of the
functions they model; `PutBackCurrent` and `Dispatch` are the two halves of
`KCNextThread`. `RunListConsistent` and `BestThreadRuns` say what it promises.

**`CritSec.tla`** composes those operators into critical sections and
termination. There is one processor. A KCall is not preempted, so each is one
action; so is each access to the CRITICAL_SECTION in user mode. Between any two
of them the running thread can lose the processor: `pc[t]` says where it stands.
A KCall that asked for a reschedule is followed by `KCNextThread` before any
thread runs, as in `Int22KCallHandler`.

| state | code |
|---|---|
| `sched` | RunList, KCResched, GET_RUNSTATE, GET_CPRIO |
| `cs[c]` | OwnerThread (`owner`, and `low` for its bit 0), LockCount, needtrap; CRIT: bListed, bListedPrio, pProxList, and `linkedTo` for the owned list it is on |
| `th[t]` | GET_BPRIO, bWaitState, the proxy's priority, `fresh` (proxy's wCount equals the thread's), hLastCrit, NOPRIOCALC, DYING, DEAD, BURIED |
| `pc`, `arg`, `tgt` | program counter, the call's critical section, the thread being woken or terminated |
| `depth`, `budget` | the client's own count of entries; the bound on its operations |

| actions | code |
|---|---|
| `EnterAgain` ... `EnterSlow` | EnterCriticalSection: owner test, exchange, LockCount store, trap |
| `AllocProxy` ... `CritFinalBoost` | SC_TakeCritSec, one action per KCall of its loop, CSWaitPart1 and CSWaitPart2 by outcome |
| `LeaveNested` ... `LeaveFree` | LeaveCriticalSection: count, the \|1 mark, needtrap test, exchange |
| `PreLeaveCrit` ... `PostUnlinkCritMut` | SC_LeaveCritSec |
| `ExitThread` ... `RemoveThread` | SC_NKTerminateThread's exit loop and the thread's end |
| `SetThreadToDie`, `SetThreadBasePrio`, `KillRun` | KillOneThread |
| `Block`, `Wake`, `QuantumTick`, `KCNextThread` | waiting outside critical sections, the timer, the dispatcher |

The client takes critical sections in increasing order (so deadlocks of its own
making are not the kernel's), leaves what it entered, blocks, exits, or
terminates another thread where `CanKill` allows it. A null THREAD that the
code would write through leads to `fault`, where the system stops.

**`RecursiveLock.tla`** is what the client may rely on: a lock one thread holds
at a time, any number of times, given up on termination. The client's counts in
`CritSec` implement it (`ImplementsLock`).

**`MCCritSec.tla`** gives the constants their small values.

Left out of `CritSec`: suspension and the sleep queue (they are in `WaitObj`);
the out-of-memory owner
(`currmaxprio`); the length of a quantum (it may expire at any reschedule when
`TimeSlice`); logging; the bookkeeping fields lpCritProxy and lpce, which only
keep memory alive; critical sections of the kernel itself (IsKernelVa, LLcs);
FreeCrit; TryEnterCriticalSection, whose success is EnterFast or EnterAgain and
whose failure changes nothing; RemoveThread's wake-up of the cleanup thread; the
DEBUGCHK(0) branch of SetThreadToDie. SET_DEAD in ServerCallReturn and in
SC_NKTerminateThread is one action. A client that blocks does so on an event
nobody else uses, and its wake-up is one step, so terminating it sends it to its
exit directly.

**`SleepQ.tla`** adds the sleep queue, NEEDSLEEP and suspension to the scheduler
record of `KSched`, again as operators with the names of the functions:
`SleepqDequeue`, `SleepOneMore` (one KCall of it, with the place it noted and
whether that place went stale), the hanging of a ring of equal wake-up times on
the thread the timer woke, `ThreadSuspend`, `ThreadResume`, and the boost of a
sleeper, which takes it off the queue and sends it to find its new place.

**`WaitObj.tla`** composes `KSched` and `SleepQ` into waiting: SC_WaitForMultiple,
SC_EventModify, SC_ReleaseMutex, SC_ReleaseSemaphore, Sleep, SetThreadPriority,
SuspendThread and ResumeThread, and interrupts. As in `CritSec`, a KCall is one
action and any two of them can be separated by other threads.

| state | code |
|---|---|
| `sched` | RunList, SleepList and its rings, dwWakeupTime, NEEDSLEEP, bSuspendCnt, bWaitState, wCount (`live`), lpce |
| `obj[o]` | EVENT (state, bMaxPrio, pProxList or pIntrProxy), SEMAPHORE (count, pending, queue), MUTEX (owner, LockCount, bListed, bListedPrio, queue) |
| `stub[t]` | the stub EVENT of the thread that sets a manual event, with the waiters it detached |
| `th[t]` | bBPrio, the proxies' priority, lpPendProxy and lpProxy, dwPendReturn, dwPendTime, dwPendWakeup, NOPRIOCALC, bPendSusp |
| `pc`, `arg` | program counter, the call with its arguments and locals |
| `now`, `intrs`, `budget` | CurMSec; bounds |

| actions | code |
|---|---|
| `BeginCall`, `ReturnToUser`, `Retire` | a call enters the kernel with its proxies allocated; it returns; a client that is through suspends itself |
| `WaitConfig` ... `WaitReturns` | WaitConfig, WaitOneMore by outcome, the link and boost of a mutex owner, DequeueFlatProxy, DoReprioMutex |
| `EventModAuto`, `EventModIntr`, `ResetEvent`, `EventModMan`, `SetNoPrioCalc`, `BoostSelf`, `WakeOneThreadFlat`, `ClearNoPrioCalc`, `AdjustPrioDown` | SC_EventModify |
| `ReleaseMutex` ... `PostUnlinkCritMut` | SC_ReleaseMutex |
| `SemAdd`, `SemPop` | SC_ReleaseSemaphore |
| `PutThreadToSleep`, `SleepWoken`, `Yield`, `SetThreadBasePrio`, `Suspend`, `SuspendSelf`, `Resume`, `Scavenge` | the calls of these names; ScavengeStacks |
| `Interrupt`, `Tick`, `KCNextThread`, `Idle` | NextThread for an interrupt and for the timer, the dispatcher |

Left out of `WaitObj`: time slices; handles, their closing and the errors of
invalid ones; waits on threads and processes; the death of a waiter or an
owner; failing allocations; waits of 2^31 ms or more; the out-of-memory event. A
tick that comes inside a KCall takes effect at its end. One thread waits on an
interrupt event at a time, as its clients see to: for a second WaitOneMore has
DEBUGCHK(0), and WAIT_FAILED in a build without it, but by then SC_WaitForMultiple
has already written the second thread into the one proxy that the event has
(4603 to 4624), so that the failing return alone would be no model of it. A late
suspension on a return through IntrStk is skipped. What a THREAD keeps of a
wait that is over, and nothing reads again, is reset at the return.

**`KernelWaits.tla`** is what a client may rely on, without proxies, priorities
and time: a wait is decided once, by an object or the time-out; a signal ends a
wait of somebody who has joined, or stays. `WaitObj` implements it
(`KeepsPromise`): an open wait maps to live proxies, what is owed by a manual
event to the stubs, a semaphore's permits to its count, and the units that are
on their way to waiters to pending. These two are apart because a releaser can
be preempted between them: who asks for the semaphore then finds its count at 0
and joins the queue although units are pending. In `signals` hi does so, when it
wakes between mid's SemAdd and SemPop.

**`Kitl.tla`** is one KITL service in the direction from one end to the other:
KITLSend, the timer thread and ProcessRecvFrame's treatment of ACKs and NACKs
at the sender, KITLRecv and ProcessRecvFrame's treatment of data at the
receiver. The device is one or the other; the peer's code is not in the tree
and is taken to run the same protocol. What is done under one holding of
ClientCS is one action; around it threads interleave, and so does the timer
thread between taking an entry off its list, sending and putting it back.

| state | code |
|---|---|
| `tx` | the sender's TxSeqNum, AckExpected, KITL_CFGFL_STOP_AND_WAIT, and the frames in pTxBufferPool with TxFrameLen |
| `rx` | the receiver's RxSeqNum, RxWinEnd, NextRxIndex, KITL_NACK_SENT, and pRxBufferPool with RxFrameLen |
| `timers`, `timerPc` | TimerList (the number of entries for each slot); the entry TimerThread has in hand |
| `evTxFull`, `evRecv` | the manual-reset and the auto-reset event |
| `sendPc`, `readPc` | where each thread stands in KITLSend and KITLRecv |
| `toRx`, `toTx` | the link, external: a frame can be lost when sent, a bounded number are doubled or overtaken; `LinkCap` bounds the frames under way, and `RetransmitFrame` waits for room, so that the bound does not act as a link that loses one frame for ever |
| `sent`, `last` | the messages accepted and the one handed out last, for `KitlChannel` |

| actions | code |
|---|---|
| `SendBlocks`, `SendFrame`, `SendFails`, `SendWaits`, `SendTimesOut` | KITLSend: the window loop, the frame and its timer, the failure of KitlSendFrame, the waits with their time-outs |
| `TimerExpires`, `RetransmitFrame`, `TimerReinserts` | TimerThread, RetransmitFrame |
| `ReceiveAck`, `ReceiveNack` | ProcessRecvFrame at the sender |
| `ReceiveOutside`, `ReceiveDuplicate`, `ReceiveData` | ProcessRecvFrame at the receiver |
| `RecvBlocks`, `RecvWaits`, `RecvTimesOut`, `RecvMessage` | KITLRecv |

**`KitlChannel.tla`** is its promise: messages come out once each and in order,
at most a window of them under way. `Kitl` implements it (`ImplementsChannel`).

Left out of `Kitl`: the polling mode of KITLPollResponse, used before the
scheduler runs and in the debugger; the exchange of configurations and
ResetClientState, after which stale frames may meet fresh numbers;
registration and deregistration; messages of length 0, which leave a slot that
looks empty; NOACKS; a failing allocation in TimerStart; the times of timers,
of which any may expire at any moment. In the mode that is modelled a failed send
takes its number back under the same holding of ClientCS.

**`MCWaitObj.tla`** and **`MCKitl.tla`** give these modules their small values.

## Runs

The runs of critical sections use `MCCritSec`. Three threads are the smallest number with an owner,
a waiter and a thread that can preempt or steal between them; two critical
sections are the smallest number at which owned lists have an order and
inheritance can be lost. `Budget` bounds client operations per thread: one or
two let a thread enter and block, or enter twice; the races between calls need no
more, since one call already passes through all of the protocol. Steps of a
leave are not counted, so the bound never stops a thread inside a critical
section.

The runs of waits use `MCWaitObj`: three threads of three priorities (in one run
four), each with the calls that meet those of the others. Clients stop making calls when their
`Budget` is spent (one call for the middle thread, two for the others), and do
not make one whose time-out would pass `MaxTime`; with nothing left to do they
suspend themselves (`Retire`), and another thread may resume them. A clock of three or four milliseconds
lets two time-outs share a tick, expire one after the other, and lie in the past.

The runs of KITL use `MCKitl` with the real 256 sequence numbers. The window is
two, the smallest at which frames can be out of order, and the first number is
254, as after 254 messages: two numbers later they wrap. Three messages and
what waiting senders add fill the window and go past the wrap. Two frames are
under way in each direction.

| run | instance | shows |
|---|---|---|
| `contention` | 3 priorities, 1 critical section, nesting 2, fair | the kernel's DEBUGCHKs hold (`DebugChecks`); blocked waiters lend their priority (`PriorityInherited`); nobody becomes the owner at a priority worse than a waiter asked with (`NoOvertaking`); the client sees a lock (`ImplementsLock`); every slow-path call gets the critical section (`EveryWaiterEnters`) |
| `timeslice` | two equal threads, one better, 2 critical sections, quanta expire | the run queue's promises (`RunQueueOK`); needtrap is set while anyone waits (`WaiterIsSeen`); entries agree with OwnerThread and LockCount (`EnteredIsOwner`); owned lists name the owner (`ListedWithOwner`) |
| `killed_by_better` | 2 threads, the better terminates the worse, fair; the worse may exit owning | types (`TypeOK`), no freed proxy is queued (`QueuedProxyLives`), every waiter finds its owner (`OwnerResolves`), termination completes (`TerminationCompletes`) |
| `signals` | an auto-reset and a manual-reset event and a semaphore; set, pulse, reset and release against waits on several objects with time-outs, fair | types (`TypeOK`), no thread sleeps beside a signal it could have (`NoSignalMissed`), waits keep their promise (`KeepsPromise`), timed calls return (`TimedCallsReturn`) |
| `mutex` | a mutex and an interrupt event; boosts, suspensions and time-outs that share a tick | run queue and sleep queue stay in order (`ListsConsistent`), nothing ends early (`NoEarlyTimeout`), every blocked thread has somebody to wake it (`EveryoneReachable`), owners inherit (`MutexPriorityInherited`), `KeepsPromise` |
| `kitl_window` | two senders, one fault of the link or of KitlSendFrame besides losses, both modes | messages arrive once and in order (`ImplementsChannel`), every unacknowledged frame has a timer (`FramesHaveTimers`) and never more than two (`TimersBounded`), no sender waits for nothing (`SenderIsWoken`), numbers stay in a UCHAR (`TypeOK`) |
| `kitl_progress` | one sender, any number of losses, both modes, fair | all messages arrive (`EveryMessageArrives`), every KITLSend returns (`EverySendReturns`) |
| `inversion` | 3 priorities, 2 critical sections | finds `PriorityInherited` violated |
| `owner_exits` | the best thread exits owning | finds `OwnerResolves` violated |
| `killed_leaving` | the best thread terminates the worst | finds `LeaveByOwner` violated |
| `boosted_isr` | a timed wait on an interrupt event shares its wake-up time with a better sleeper and is boosted | finds `InterruptFindsBlocked` violated |
| `ring_boosted` | four threads: a sleeper, a waiter of the same wake-up time, its signaller, and one that boosts the waiter in between | finds `TailNoBetter` violated |

Deadlock is checked in every passing run. In `CritSec`, with an event always able to wake a
blocked client, the only state without a step is the one in which every thread
is gone, and that state stutters (`AllGone`). In `WaitObj` a system in which all
clients have retired idles (`Idle`), and a thread that waits for ever keeps
nobody else from it. In `Kitl` a reader times out and calls again. Violation
runs that switch the check off do so because in them a fault may stop the system.

**Fairness** (`FairSpec`). The dispatcher runs when a reschedule is pending
(the code calls it on the way out of the KCall). A thread's step is enabled only
while it is the running thread, so weak fairness on it says that a running
thread executes. An event a client waits for is eventually set. Nothing makes a
worse thread run while a better one can: without time slicing the scheduler
gives no such guarantee, and budgets are what lets the better ones come to
rest. `EveryWaiterEnters` therefore holds because the number of client
operations is finite, as for any priority scheduler.

In `WaitObj` the clock also ticks, and clients make their calls or retire:
`TimedCallsReturn` needs that no better thread keeps the processor for ever.

In `Kitl` threads that can run do, frames that arrived are processed, the reader
reads on, and every entry of the timer list expires at some time: the list is
sorted by time and the interval stops growing at KITL_RETRANSMIT_INTERVAL_MAX. Of
the link strong fairness asks that a frame sent again and again, and an ACK
repeated again and again, arrives at last; each of them may be lost any number
of times before. Time-outs of KITLSend are not fair: a default service waits
again after each, so it is the protocol that has to bring it out of the call.

### Findings

Each is a disagreement of the code with an assertion or a comment of its own.

1. *Lost boost* (`inversion`). The boost of the owner (PostBoostCrit2) and the
   entry on its owned list (CSWaitPart2) are separate KCalls. If the owner
   leaves another critical section, or is dispatched, in between, its priority
   is recomputed without the boost, and nothing boosts it again.
2. *Owner gone* (`owner_exits`). An owner that exits in the same window has an
   empty owned list; the waiter then dereferences a null THREAD, past
   `DEBUGCHK(pth)`.
3. *Endless exit loop* (`killed_leaving`). A thread terminated between the |1
   store and the needtrap test cannot leave the critical section its owned list
   names.
4. *Boosted interrupt thread* (`boosted_isr`). A thread that waits for an
   interrupt event with a time-out has no clean-up record, and a boost below the
   top of its ring in the sleep queue makes it run without taking bWaitState
   back from WAITSTATE_BLOCKED. An interrupt before it sleeps again finds it
   runnable, past a DEBUGCHK, and puts it on the run queue a second time. The
   passing runs wait for the interrupt event without end or without waiting.
5. *Ring out of order* (`ring_boosted`). A boost does not move a sleeper that is
   marked NEEDSRUN, although its priority changes. If the ring's time comes
   before the signaller wakes it, it is left hanging on a head that is worse, and
   RunqDequeue's DEBUGCHK says it cannot be. So a ring is in the order of
   priorities only but for such threads, and, when a thread looks for its place
   between two boosts, not even then. `ListsConsistent` therefore says nothing of the order in a ring. The run queue does not depend
   on it: what hangs is inserted there by priority.

`OwnerResolves` and `TerminationCompletes` hold in the instances that exclude the
first three windows (`killed_by_better` has no third thread that waits).

## Proofs

Eight modules of proofs are checked by TLAPS. What each run below shows on a small
instance they show for every value of the constants, under the hypotheses stated.

### The scheduler and critical sections

`KSched_proofs.tla`, `CritSecMutex_proofs.tla`, `CritSecWait_proofs.tla` and
`CritSecAlive_proofs.tla` hold for any set of
threads and any finite set of critical sections, any priorities and bounds. All
but the last hold for any `Abandoners` and `CanKill`. Each module extends the one
before it and adds an invariant to those it proved.

`KSched_proofs` proves that every run queue operator keeps the scheduler record
in its type, with the facts about sequences and minima that needs: the minimum of
a finite non-empty set of priorities is a member of it; a queue ordered by
priority stays ordered when a thread is inserted in front of or behind its
equals, or taken out (`Stands`). It then proves that every operator keeps
`SchedOK`, which is `RunListConsistent` and `BestThreadRuns` in a form without
positions. Most ask something in return: the thread that MakeRun is given must
not be in the queue, the one that is boosted must be or must not run.

`CritSecMutex_proofs` begins with **`TypeCorrect`**: `Spec => []TypeOK`. `TypeOK`
alone is not inductive: a step of a call reads `cs` at
`arg[t]` and wakes `tgt[t]`, and both may be null when no call is in progress.
The invariant adds that they are not where they are read (`ArgOK`, `TgtOK`). The
proof has one lemma per group of actions (`EnterType`, `TakeType`, `LeaveType`,
`LeaveCritType`, `ExitType`, `KillType`, `SchedulerType`), and lemmas for
updates of one field of one record, which the provers need spelled out.

It then proves **`EntriesOwned`**: `Spec => []EnteredIsOwner`, mutual
exclusion in every interleaving of entering, hand-off, steal-back, exit and
termination, and **`ListsOwned`**: `[]ListedWithOwner`. `EnteredIsOwner` is far
from inductive: whether a hand-off or a steal is safe depends on where the other
threads stand in their calls. The invariant `MutexInv` is a conjunction
`PairInv(t, c)` over one thread and one critical section, so that a step has to
be looked at only for the thread that takes it and for the critical section its
call is about (`StepMutex`, `Frame`). Its parts:

- `EntryOK`: what the client entered it owns, with the same count;
- `OutsideOK`: a thread in a call about `c`, or exiting, has not entered `c`; a
  dead thread is in its exit loop, and is buried only at its end;
- `CallerOK`: where the code relies on being the owner it is;
- `OwnOK`: who owns without having entered is in the call that acquires or leaves;
- `MarkOK`: the \|1 mark is the owner's, while it leaves; on the fast path, once
  needtrap was seen clear, it stays clear while the mark is there;
- `ListOK`: what is listed belongs to the thread whose list it is on, which is
  not buried and cannot be stolen from;
- `WaitOK`: a thread that can be stolen from is not running and still in its
  call, and so is whoever is queued.

`CSWaitPart1` may take the word because `OwnOK` and `OutsideOK` leave no client
inside (`TakesOver`); it may steal because `WaitOK` says that the owner has not
returned to its client; `LeaveCrit` may hand off for the same reason; the fast
exchange may free the word because of `MarkOK` and `ListOK`.

From the same invariant follows **`LockImplemented`**: `Spec => ImplementsLock`, by
simulation: every step is a step of `RecursiveLock` or leaves the
client's counts alone, and a first entry finds nobody inside because its thread
is the owner.

`CritSecWait_proofs` proves **`RunQueueStaysOK`**: `Spec => []RunQueueOK`, and
**`ProxiesLive`**: a queued proxy is that of a thread still in its call, in every
state in which nobody faulted. The scheduler alone does not keep the run queue in
order. LeaveCrit makes the head of the waiters runnable without a look at its
run state, trusting bWaitState; KillOneThread does the same for a thread it takes
off its wait. So `WaitInv` ties the words of a waiter together:

- `SchedOK(sched)`, the run queue;
- `ProxyOK`: a fresh proxy belongs to a taker between AllocProxy and the end of
  its wait; bWaitState is PROCESSING until it blocks and SIGNALLED once its proxy
  is used up; a thread is blocked only in its own code, in this wait, or for good;
- `WaitersOK`: the waiters stand by the priority they asked with, once each, and
  while there are any, needtrap is set and there is an owner;
- `PlaceOK`: a fresh proxy past CSWaitPart1 is queued and a dequeued one is not;
  an owner that leaves in the kernel has one entry left and has hidden the
  critical section from the owned lists.

`CritSecAlive_proofs` is about the clients the API asks for: those that leave what
they entered before they exit and that nobody terminates (`NobodyAbandons`:
`Abandoners` and `CanKill` are empty; both are sets the constants may give any
value, and the runs `contention` and `timeslice` give them this one). The
hypothesis is needed: `owner_exits` and `killed_leaving` find an assertion
violated as soon as an owner exits or a thread is terminated at the wrong moment.
Under it `AliveInv` says that whoever exits owns nothing, and that needtrap is
set only for somebody who waits. **`WaitersAreSeen`** (`[]WaiterIsSeen`),
**`OwnersResolve`** (`[]OwnerResolves`, and no fault) and **`DebugChecksHold`**
(`[]DebugChecks`) follow.

Its last section proves **`NobodyOvertakes`**: `Spec => NoOvertaking`. A hand-off
goes to the head of the queue, but the head may be robbed before it runs, and
CSWaitPart1 compares the thief with the owner only. The steal is right because the
owner that can be robbed is no worse than anybody who waits behind it (`AheadOK`),
and stays so as long as its priority is not taken back from it. `RankInv` says why
it is not:

- `RankOK`: a waiter runs at no worse a priority than it asked with, and its base
  priority or its owned lists justify that, so that the dispatcher's
  recalculation does not undo it;
- `LendOK`: the priority on the owned list is that of a waiter, and of the best
  one, unless a waiter on its way to PostBoostCrit1 brings a better;
- `AheadOK`: as above; and who asks for a critical section is not its owner.

This holds although `PriorityInherited` does not (run `inversion`): a boost is lost
when the owner leaves another critical section or is dispatched, and an owner that
can be robbed has done neither since it was handed this one.

The attempt to prove `NoOvertaking` as it was first stated, by the priorities with
which the thief and the waiters allocated their proxies, failed for a reason. With five threads
and two critical sections TLC finds a thief that allocated its proxy at a
bad priority and was then boosted, by a waiter for another critical section that it owns: it
passes a waiter that asked at a better priority than the thief did, but not a
better one than the thief has. The code's measure is the priority at the time of
the steal (`GET_CPRIO`), and the property now says so; where ownership passes without
CSWaitPart1, both measures agree and both are stated.

The assumptions are the named ones of the modules: the null thread is no
thread, critical sections are finitely many natural numbers, priorities are in
range, and nobody terminates itself through `CanKill`. `ListsOwned` also assumes
that there is a thread.

### Waits and the sleep queue

`SleepQ_proofs.tla`, `WaitObj_proofs.tla` and `WaitSignal_proofs.tla` hold for any finite set of threads, any
objects of the five kinds, any priorities, any calls each thread may make, any
bounds of clock, budget and interrupts.

`SleepQ_proofs` is to `SleepQ` what `KSched_proofs` is to `KSched`. A thread that
sleeps lies in a bed: it is in a ring of the sleep queue, or it hangs on a thread
that NextThread took off the queue with its ring. `SleepOK` says that both queues
are in order, that nobody is in two beds or in a bed and on the run queue, and
that what a thread noted as its place in a search (`crab`) is still there or marked stale.
Each operator keeps `SleepOK`: SleepOneMore, SleepqDequeue, the boost of a sleeper,
NextThread, the dispatcher, ThreadSuspend, ThreadResume, MakeRun, a signal. A ring is
a queue ordered by a priority that is the same for all (`RingStands`), so that the lemmas on the run queue
serve for rings. What an operator does to threads it is not called for is one
predicate, `Passes`: nothing, or the thread's time has come (`Expires`), or it is taken off its
bed to find a new one (`Slips`). So the proof about a step looks only
at the thread that takes it, at the one it is about, and at those three cases.

`WaitObj_proofs` proves **`ListsStayConsistent`**, **`NobodyIsStranded`** and
**`TimeoutsComeInTime`**, that is `[]ListsConsistent`, `[]EveryoneReachable` and
`[]NoEarlyTimeout`. None is inductive: whether a dequeue, a wake-up or a
time-out is right depends on where a thread stands in its wait, whether its
proxies are live, what bWaitState says and in which bed it lies. The invariant
`Inv` relates these for one thread at a time (`ThreadOK`):

- `CallOK`: the call goes with the place in it, and its arguments with the call;
- `StandsOK`: only who is blocked in a wait or a Sleep is in a bed; who is marked
  NEEDSRUN has not got to return to sleep; who is blocked and not suspended has live
  proxies or a bed;
- `OpenOK`: while proxies are live bWaitState is not SIGNALLED, and BLOCKED exactly
  of a thread that blocked and that nobody took off its bed since;
- `OverOK`: a wait that is over and has not noticed has its result, and if the thread has to return to
  sleep bWaitState stops it from doing so;
- `ProxiesOK`: what is queued and still to be queued, the time-out, and whether there is a
  clean-up record (lpce);
- `TimesOK`: who lies in a bed was put there with the time its wait ends; who is
  about to return WAIT_TIMEOUT or from a Sleep has slept until then.

Besides, somebody is about to run each thread that is marked (`Wakers`), a
mutex with waiters has an owner (`Owners`), and a thread about to boost the owner is still
queued if its wait is open (`Boosters`): without it PostBoostMut would read a null owner. There is one
lemma per action (`WaitBlocksInv`, `SuspendInv`, `TickInv`, ...).

`WaitSignal_proofs` proves **`NoSignalIsMissed`**: `[]NoSignalMissed`, a thread
whose wait is open has no proxy on an object that is there for it. `MissInv` adds
to `Inv` what it needs: this for every object the thread has a proxy on
(`Hooked`), that who waits for an interrupt event waits for nothing else (`Alone`;
otherwise the event could find the thread with another proxy in front and be kept beside it),
that only a thread in a wait has proxies, and that a KCall that sets an event is
about one of its kind. The interesting steps are those that make an object available: setting
an event, adding units to a semaphore and giving up a mutex do so only when the
queue is empty (a proxy of a wait that is over is dropped and the KCall repeated),
and a wait joins a queue in the KCall that found the object taken.

It also proves **`TypesCorrect`**: `[]TypeOK`, with the limit of a semaphore's count
and pending. That pending stays in its bounds is no fact about one thread: several
releasers can be preempted between SemAdd and SemPop, each with units in hand,
and the last of them must not bring pending below 0 or the count above lMaxCount.
`CountInv` says that pending is the number of units that all releasers of the
semaphore have in hand together (`InFlight`, a set of pairs of a releaser and one of its
units, so that the sum is a cardinality), and that count and pending keep to
lMaxCount; that a mutex with an owner is held at least once; and `LimitInv` that the bounds are kept.

The hypothesis `UntimedInterrupts`: an interrupt event is waited for without end or
polled, never with a time-out. It is needed, for `ListsConsistent` as well: the
run `boosted_isr` shows an interrupt that puts a thread on the run queue twice
(finding 4). `TimeOutAssumption` says that WAIT_TIMEOUT is no object: SC_WaitForMultiple
takes at most MAXIMUM_WAIT_OBJECTS objects and answers with WAIT_OBJECT_0 and
the index of one of them, which the API keeps apart from WAIT_TIMEOUT.

### The KITL transport

`Kitl_proofs.tla` holds for any number of senders and
readers, any window and count of sequence numbers, any number of messages
exchanged before, any length of the link, and any losses; two hypotheses are
stated in the theorems.

Sequence numbers wrap, so that a number alone says nothing. The module speaks of
message m + 1 instead, whose number is `NumberOf(m)` and whose slot is
`SlotOf(m)`, and begins with what SEQ_ADD, SEQ_DELTA, SEQ_BETWEEN and the slot
macro compute in those terms (`NumberAdd`, `DeltaAhead`, `DeltaBehind`,
`NumberAt`, `SlotOfNumber`, `SlotInjective`), resting on facts about remainders.
That the receive window closes over the frames before the first gap
(`CloseWindowIs`) needs the least missing one, which well-foundedness of the
natural numbers gives (`LeastNat`).

The first part is about the sending end. `SenderInv` is inductive by itself
(`SenderStep`, one lemma per action), and from it follow **`TypeCorrect`**,
**`TimersStayBounded`**, **`FramesKeepTimers`** and **`SendersAreWoken`**, that
is `[]TypeOK`, `[]TimersBounded`, `[]FramesHaveTimers` and `[]SenderIsWoken`. Its
parts:

- `TxNumbers`: TxSeqNum and AckExpected count what was sent and acknowledged;
- `TxBuffers`: an unacknowledged frame is in its slot, and whatever else is in a
  slot has a number of that slot, so that RetransmitFrame does not mistake it;
- `LinkAccepted`: only accepted frames are under way;
- `TimersFew`: the timers of a slot, with the one TimerThread has in hand, are two
  at most, and one at most when its frame is acknowledged. `TimersBounded` alone
  is not inductive: KITLSend adds a timer when the slot is used again, and the
  bound of one is what leaves room for it;
- `TimersEnough`: an unacknowledged frame has a timer, or TimerThread holds an entry
  that it will put back;
- `SenderIsWoken` itself.

The second adds the receiving end and proves **`WindowInvariant`** and
**`ChannelImplemented`**: `Spec => ImplementsChannel`. `WindowInv` says how the
counts of both ends lie (`RxNumbers`: acknowledged, read, received, sent, in this
order and within a window), what the receive buffers hold (`RxBuffers`), and how
old a frame or an ACK under way may be (`FrameAges`, `AckAges`). The argument is
about age. A frame is sent only while it is not acknowledged, so all that was
received or is under way is less than a window after it. Frames keep this
distance while they keep their order; one that overtakes may leave behind one
that is a window older. So no frame is older than a window and a `Lag` of one
window for each fault so far, and if the numbers exceed this by another window, a
frame that InRxWindow accepts is the frame of that slot and not one of an earlier
lap (`FrameInRxWindow`). For ACKs the same says that an ACK that falls into
the window acknowledges only what was read (`AckInWindow`).

The hypotheses, and why they are needed:

- `SlotsWrapWithNumbers`: the window divides the sequence numbers. With a window
  of 3 and 8 numbers TLC finds `TimersBounded` violated: after the wrap two
  messages of one window share a slot. DoRegisterClient accepts such windows
  (ethdbg.c:316).
- `NumbersOutlastFaults`: `(Faults + 2) * WindowSize <= SeqNums`. With a window of
  2, 4 numbers and one fault TLC finds `ImplementsChannel` violated: a frame that
  was overtaken is taken for one of the next lap. At the bound (6 numbers and one
  fault, 4 and none) both invariants hold in TLC. A UCHAR with a window of 8
  allows 30 faults. `Faults` bounds the overtakings of a whole run, while only
  those during the life of one frame count: the theorem asks more than the
  protocol needs. Losses are not counted, and neither hypothesis bounds them or
  the number of wraps.

### Only model-checked

- `PriorityInherited`: the run `inversion` refutes it with two critical sections,
  so that there is no theorem to prove. With one, the run `contention` shows it.
- `OwnerResolves` and `WaiterIsSeen` when threads exit owning or are terminated:
  false in general (`owner_exits`); the first holds in the instance of
  `killed_by_better`. Which terminations are harmless depends on priorities and on
  who is preempted where, and no assumption on the constants says it better than
  the instances do.
- Of `WaitObj`: that it keeps the promise of `KernelWaits`; and `MutexPriorityInherited`,
  which is false in general. SC_EventModify of a manual-reset event stores the best
  priority that has waited in the setter's own (BoostSelf), over a better one that the setter has inherited
  through a mutex: no thread that owns a mutex sets such an event in the
  run `mutex`, and no theorem holds of all calls.
- All liveness properties, among them that every message arrives and that every
  waiter enters: liveness under fairness is out of the prover's reach, and so are
  statements that need ENABLED.

## Plan

1. The configuration exchange and ResetClientState in `Kitl`.
2. The death of waiters and owners in `WaitObj`, with waits on threads, which
   joins it to `CritSec`.
3. `LockMgr`: byte-range locks with blocking waiters.
4. `PppFsm`: two ends of the option negotiation with restart timers.
5. `DiskCache`: write-back cache with lazy writer, refining a disk.

Theorems still to prove: that `WaitObj` implements `KernelWaits`, by simulation on top of `Inv`.

## Not modelled

The tree is an operating system; most of it is outside the reach of one
project. `PROJECT.json` gives the reason for every component:

- data and formats, where a state machine would say nothing: resources,
  compression, printing, the formats of the debugger, drawing, shells;
- long sequential code over tables, where tests reach what a model would:
  VirtualAlloc and the page tables, the loader's relocation, file systems on disk;
- separate stacks, each a project of its own: Bluetooth, NDIS, TAPI, Winsock,
  infrared, the servers;
- components a later model could take, named in the plan: file locks, PPP, the
  disk cache; and beyond it the device manager's reference counts, DHCP leases,
  watchdogs, the recovery of MSMQ's queues.
