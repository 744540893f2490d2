------------------------------ MODULE WaitObj ------------------------------
(***************************************************************************)
(* Waiting for kernel objects (NK/KERNEL/schedule.c): events, interrupt    *)
(* events, semaphores and mutexes, WaitForMultipleObjects with time-outs,  *)
(* the calls that signal, Sleep, SetThreadPriority, Suspend and Resume.    *)
(*                                                                         *)
(* A wait is a series of KCalls: WaitOneMore queues a proxy on one object  *)
(* after the other, then looks for a place in the sleep queue, then blocks.*)
(* A call that signals is another series.  Each KCall is one action; a     *)
(* thread can be preempted between two.  NextThread, run when an interrupt *)
(* or the timer ends, is Interrupt and Tick.                               *)
(*                                                                         *)
(* A proxy is the pair of a thread and an object.  The queue of an         *)
(* interrupt event, of one waiter, is that waiter's proxy itself.          *)
(*                                                                         *)
(* Left out: time slices, handles and their closing, waits on threads and  *)
(* processes, the death of threads, the heap's exhaustion, waits of more   *)
(* than 2^31 ms.                                                           *)
(***************************************************************************)
EXTENDS SleepQ

CONSTANTS Objects, NoObject,
          Kind,         \* "auto", "manual", "intr", "sem" or "mutex"
          MaxCount,     \* lMaxCount of the semaphores
          BasePriority, \* initial priority of each thread
          Ops,          \* the calls each thread may make
          Budget,       \* bound on the number of calls of each thread
          Interrupts,   \* bound on the number of interrupts
          MaxTime       \* bound on the clock, in milliseconds

INFINITE == -1

ASSUME NoObjectAssumption == NoObject \notin Objects
ASSUME KindAssumption == Kind \in [Objects -> {"auto", "manual", "intr", "sem", "mutex"}]
ASSUME ThreadsAssumption == IsFiniteSet(Threads)
ASSUME BasePriorityAssumption == BasePriority \in [Threads -> Priority]
ASSUME BudgetAssumption == Budget \in [Threads -> Nat] /\ {Interrupts, MaxTime, MaxCount} \subseteq Nat

\* The calls of the API: a wait is for one object or more, each once; interrupt
\* events are waited for alone, and each call is about an object it is meant for.
OfKind(kinds) == {o \in Objects : Kind[o] \in kinds}

Several == {q \in Seq(OfKind({"auto", "manual", "sem", "mutex"})) : q # << >> /\ NoDuplicates(q)}

CallType ==
  [call : {"wait"}, objs : Several, time : {INFINITE} \union Nat]
  \union [call : {"wait"}, objs : {<<o>> : o \in OfKind({"intr"})}, time : {INFINITE} \union Nat]
  \union [call : {"set", "pulse", "reset"}, obj : OfKind({"auto", "manual", "intr"})]
  \union [call : {"releaseMutex"}, obj : OfKind({"mutex"})]
  \union [call : {"releaseSemaphore"}, obj : OfKind({"sem"}), n : Int]
  \union [call : {"sleep"}, time : {INFINITE} \union Nat]
  \union [call : {"basePrio"}, thread : Threads, prio : Priority]
  \union [call : {"suspend", "resume", "scavenge"}, thread : Threads]

ASSUME OpsAssumption == \A t \in Threads : Ops[t] \subseteq CallType

VARIABLES
  sched,  \* the run queue and the sleep queue, see KSched and SleepQ
  obj,    \* EVENT, SEMAPHORE and MUTEX
  stub,   \* the waiters a thread has detached from a manual-reset event
  th,     \* the THREAD fields of waits, priorities and suspension
  pc,     \* where each thread is; "user" is the client's own code
  arg,    \* the call each thread is in and its local variables
  now,    \* CurMSec
  budget, \* calls left to each thread
  intrs   \* interrupts left

vars == <<sched, obj, stub, th, pc, arg, now, budget, intrs>>

TimeOut == "timeout"

WaitPCs   == {"w_config", "w_one", "w_link", "w_boost", "w_woken", "w_dequeue", "w_reprio"}
SignalPCs == {"s_auto", "s_intr", "s_run", "s_reset", "m_mod", "m_prio", "m_boost",
              "m_wake", "m_run", "m_clear", "m_adjust"}
MutexPCs  == {"r_test", "r_unlink", "r_leave", "r_run", "r_post"}
SemPCs    == {"p_add", "p_pop", "p_run"}
OtherPCs  == {"user", "k_return", "z_put", "z_woken", "yield", "basePrio", "suspend",
              "suspendSelf", "resume", "c_suspend", "c_resume"}
PCs == WaitPCs \union SignalPCs \union MutexPCs \union SemPCs \union OtherPCs

SchedTypeOK ==
  /\ sched.running \in Threads \union {NoThread} /\ sched.resched \in BOOLEAN
  /\ sched.runq \in Seq(Threads) /\ sched.sleepq \in Seq(Seq(Threads))
  /\ sched.rs \in [Threads -> RunState] /\ sched.cprio \in [Threads -> Priority]
  /\ sched.hang \in [Threads -> Seq(Threads)] /\ sched.wakeup \in [Threads -> Nat]
  /\ sched.needsleep \subseteq Threads
  /\ sched.crab \in [Threads -> [at : Threads \union {NoThread}, down : BOOLEAN, stale : BOOLEAN]]
  /\ sched.susp \in [Threads -> Nat] /\ sched.live \in [Threads -> BOOLEAN]
  /\ sched.wait \in [Threads -> WaitState] /\ sched.lpce \in [Threads -> BOOLEAN]

ObjectType == [state : BOOLEAN, maxPrio : Priority, count : 0 .. MaxCount,
               pending : 0 .. MaxCount, owner : Threads \union {NoThread}, lockCount : Nat,
               bListed : BOOLEAN, bListedPrio : Priority, q : Seq(Threads)]

NoCall  == [call |-> "none"]
Outcome == Objects \union {TimeOut}

ASSUME TimeOutAssumption == TimeOut \notin Objects

\* queued: the objects t has a proxy on, latest first (lpProxy or lpce->base);
\* pend: those still to be queued (lpPendProxy).
ThreadType == [bprio : Priority, proxPrio : Priority, pend : Seq(Objects),
               queued : Seq(Objects), ret : Outcome, pendReturn : Outcome,
               pendTime : {INFINITE} \union Nat, pendWakeup : Int,
               noPrioCalc : BOOLEAN, pendSusp : Nat]

TypeOK ==
  /\ SchedTypeOK
  /\ obj \in [Objects -> ObjectType]
  /\ stub \in [Threads -> Seq(Threads)]
  /\ th \in [Threads -> ThreadType]
  /\ pc \in [Threads -> PCs]
  /\ \A t \in Threads : arg[t].call \in Ops[t] \union {NoCall}
  /\ now \in 0 .. MaxTime /\ budget \in [Threads -> Nat] /\ intrs \in Nat

NoArg  == [call |-> NoCall, tgt |-> NoThread, remain |-> 0, oldPrio |-> 0, crit |-> NoObject]

\* Every thread is runnable in user mode, in the order of the priorities.
InPriorityOrder(q) ==
  SortedBy(q, BasePriority) /\ NoDuplicates(q) /\ ToSet(q) = Threads

Init ==
  /\ \E q \in [1 .. Cardinality(Threads) -> Threads] :
     InPriorityOrder(q) /\
     sched = [running |-> NoThread, resched |-> TRUE, runq |-> q,
              rs |-> [t \in Threads |-> "RUNNABLE"], cprio |-> BasePriority,
              sleepq |-> << >>, hang |-> [t \in Threads |-> << >>],
              wakeup |-> [t \in Threads |-> 0], needsleep |-> {},
              crab |-> [t \in Threads |-> NoPlace], susp |-> [t \in Threads |-> 0],
              live |-> [t \in Threads |-> FALSE], wait |-> [t \in Threads |-> "SIGNALLED"],
              lpce |-> [t \in Threads |-> FALSE]]
  /\ obj = [o \in Objects |->
              [state |-> FALSE, maxPrio |-> MAX_PRIORITY_LEVELS - 1, count |-> 0, pending |-> 0,
               owner |-> NoThread, lockCount |-> 0, bListed |-> FALSE, bListedPrio |-> 0,
               q |-> << >>]]
  /\ stub = [t \in Threads |-> << >>]
  /\ th = [t \in Threads |->
             [bprio |-> BasePriority[t], proxPrio |-> 0, pend |-> << >>, queued |-> << >>,
              ret |-> TimeOut, pendReturn |-> TimeOut, pendTime |-> 0, pendWakeup |-> 0,
              noPrioCalc |-> FALSE, pendSusp |-> 0]]
  /\ pc = [t \in Threads |-> "user"]
  /\ arg = [t \in Threads |-> NoArg]
  /\ now = 0 /\ budget = Budget /\ intrs = Interrupts

-----------------------------------------------------------------------------
(* Helpers. *)

\* t runs, and no KCNextThread is due before it goes on.
At(t, p) == sched.running = t /\ ~sched.resched /\ pc[t] = p
Goto(t, p) == pc' = [pc EXCEPT ![t] = p]

Op(t)  == arg[t].call
Obj(t) == Op(t).obj

HasProxy(t) == sched.live[t] /\ th[t].queued # << >>          \* lpProxy
IntrWaiter(o) == {t \in Threads : HasProxy(t) /\ th[t].queued = <<o>>}

\* u is setting the manual-reset event o: stub[u] holds waiters of o.
Detaching(u, o) == pc[u] \in {"m_prio", "m_boost", "m_wake", "m_run"} /\ Obj(u) = o

ProxPrio == [t \in Threads |-> th[t].proxPrio]
HeadPrio(q) == IF q = << >> THEN MAX_PRIORITY_LEVELS - 1 ELSE th[Head(q)].proxPrio

\* The priority t has by itself and by the mutexes on its owned list.
ListedPrios(t) == {obj[o].bListedPrio : o \in {m \in Objects : obj[m].bListed /\ obj[m].owner = t}}
OwnedPrio(t)   == Min({th[t].bprio} \union ListedPrios(t))

\* LinkCritMut and ReprioCritMut: the mutex lends its owner the first waiter's
\* priority.
Linked(m) == [m EXCEPT !.bListed = TRUE, !.bListedPrio = HeadPrio(m.q)]
ReprioCritMut(m) == IF m.bListed THEN Linked(m) ELSE m

\* A signal ends w's wait: if w has blocked it is to be made to run, otherwise
\* w finds the signal in its next WaitOneMore.
Deliver(s, w) ==
  IF s.wait[w] = "BLOCKED" THEN [EndWait(s, w) EXCEPT !.rs[w] = "NEEDSRUN"]
  ELSE [EndWait(s, w) EXCEPT !.wait[w] = "SIGNALLED"]

Signalled(w, o) == IF sched.wait[w] = "BLOCKED" THEN [th EXCEPT ![w].ret = o]
                   ELSE [th EXCEPT ![w].pendReturn = o]

ToWake(w) == IF sched.wait[w] = "BLOCKED" THEN w ELSE NoThread

\* t's KCall ends w's wait with o; if w has blocked, t goes on to wake it.
Wake(t, w, o, wakes, done) ==
  /\ sched' = Deliver(sched, w)
  /\ th' = Signalled(w, o)
  /\ arg' = [arg EXCEPT ![t].tgt = ToWake(w)]
  /\ Goto(t, IF ToWake(w) = NoThread THEN done ELSE wakes)

-----------------------------------------------------------------------------
(* Client calls. *)

\* SC_GetTickCount () + dwTimeout, with the millisecond that is added.
PendTime(time) == IF time \in {0, INFINITE} THEN time ELSE time + 1

Entry(op) ==
  CASE op.call = "wait"    -> "w_config"
    [] op.call \in {"set", "pulse"} /\ Kind[op.obj] = "auto"   -> "s_auto"
    [] op.call \in {"set", "pulse"} /\ Kind[op.obj] = "intr"   -> "s_intr"
    [] op.call \in {"set", "pulse"} /\ Kind[op.obj] = "manual" -> "m_mod"
    [] op.call = "reset"   -> "s_reset"
    [] op.call = "releaseMutex" -> "r_test"
    [] op.call = "releaseSemaphore" -> "p_add"
    [] op.call = "sleep" -> IF op.time = INFINITE THEN "suspendSelf"
                            ELSE IF op.time = 0 THEN "yield" ELSE "z_put"
    [] op.call = "scavenge" -> "c_suspend"
    [] OTHER -> op.call

\* What a call does before its first KCall: a wait makes its proxies, with the
\* priority the thread has now, and waits and sleeps fix the time they end.
\* pendWakeup and crab also stand for the sleeper_t of ThreadSleep.
Prepared(t, op) ==
  CASE op.call = "wait" ->
         [th[t] EXCEPT !.proxPrio = sched.cprio[t], !.pend = op.objs,
                       !.pendTime = PendTime(op.time), !.pendWakeup = now + PendTime(op.time)]
    [] op.call = "sleep" -> [th[t] EXCEPT !.pendWakeup = now + PendTime(op.time)]
    [] OTHER -> th[t]

\* The clock's bound: a call that would end after it is not made.
Fits(op) == op.call \in {"wait", "sleep"} => now + PendTime(op.time) <= MaxTime

BeginCall(t, op) ==
  /\ At(t, "user") /\ budget[t] > 0 /\ op \in Ops[t] /\ Fits(op)
  /\ budget' = [budget EXCEPT ![t] = @ - 1]
  /\ th' = [th EXCEPT ![t] = Prepared(t, op)]
  /\ arg' = [arg EXCEPT ![t].call = op, ![t].oldPrio = th[t].bprio]
  /\ sched' = [sched EXCEPT !.crab[t] = NoPlace]
  /\ Goto(t, Entry(op))
  /\ UNCHANGED <<obj, stub, now, intrs>>

\* A client with nothing left to do sleeps for ever.
Retire(t) ==
  /\ At(t, "user")
  /\ budget[t] = 0 \/ \A op \in Ops[t] : ~Fits(op)
  /\ sched' = SuspendNow(sched, t)
  /\ UNCHANGED <<obj, stub, th, pc, arg, now, budget, intrs>>

\* ServerCallReturn: a late suspension takes effect on the way back to user
\* mode, unless the call stack is the thread's own of an interrupt wait.  What
\* the call left in the THREAD is not read again before it is written: it is
\* forgotten here.
ReturnToUser(t) ==
  /\ At(t, "k_return")
  /\ LET intr    == Op(t).call = "wait" /\ Kind[Head(Op(t).objs)] = "intr"
         suspend == th[t].pendSusp > 0 /\ ~intr
         clean   == [sched EXCEPT !.wakeup[t] = 0, !.crab[t] = NoPlace, !.wait[t] = "SIGNALLED"]
     IN  /\ sched' = IF suspend THEN [BlockCurrent(clean) EXCEPT !.susp[t] = th[t].pendSusp]
                     ELSE clean
         /\ th' = [th EXCEPT ![t] = [th[t] EXCEPT !.proxPrio = 0, !.ret = TimeOut,
                                                  !.pendReturn = TimeOut, !.pendTime = 0,
                                                  !.pendWakeup = 0,
                                                  !.pendSusp = IF suspend THEN 0 ELSE th[t].pendSusp]]
  /\ arg' = [arg EXCEPT ![t] = NoArg]
  /\ Goto(t, "user")
  /\ UNCHANGED <<obj, stub, now, budget, intrs>>

-----------------------------------------------------------------------------
(* SC_WaitForMultiple. *)

WaitConfig(t) ==
  /\ At(t, "w_config")
  /\ sched' = [sched EXCEPT !.wait[t] = "PROCESSING", !.live[t] = TRUE, !.crab[t] = NoPlace,
                            !.lpce[t] = Kind[Head(th[t].pend)] # "intr"]
  /\ Goto(t, "w_one")
  /\ UNCHANGED <<obj, stub, th, arg, now, budget, intrs>>

\* WaitOneMore begins by clearing NEEDSLEEP.
Awake(t) == [sched EXCEPT !.needsleep = @ \ {t}]

\* Its exits: the wait is over with result r.
Finish(t, r, next) ==
  /\ sched' = [EndWait(Awake(t), t) EXCEPT !.wait[t] = "SIGNALLED"]
  /\ th' = [th EXCEPT ![t].ret = r]
  /\ Goto(t, next)

\* ... the wait was signalled since the last KCall;
WaitSignalled(t) ==
  /\ At(t, "w_one") /\ sched.wait[t] = "SIGNALLED"
  /\ sched' = Awake(t)
  /\ th' = [th EXCEPT ![t].ret = th[t].pendReturn]
  /\ Goto(t, "w_dequeue")
  /\ UNCHANGED <<obj, stub, arg, now, budget, intrs>>

\* ... or there is one more object to look at.
NextObject(t, o) ==
  /\ At(t, "w_one") /\ sched.wait[t] # "SIGNALLED"
  /\ th[t].pend # << >> /\ Head(th[t].pend) = o

Available(o, t) == CASE Kind[o] = "sem"   -> obj[o].count > 0
                     [] Kind[o] = "mutex" -> obj[o].owner \in {NoThread, t}
                     [] OTHER             -> obj[o].state

Taken(o, t) ==
  CASE Kind[o] = "sem"    -> [obj[o] EXCEPT !.count = @ - 1]
    [] Kind[o] = "mutex" /\ obj[o].owner = t -> [obj[o] EXCEPT !.lockCount = @ + 1]
    [] Kind[o] = "mutex" /\ obj[o].owner # t -> [obj[o] EXCEPT !.owner = t, !.lockCount = 1]
    [] Kind[o] = "manual" -> obj[o]
    [] OTHER              -> [obj[o] EXCEPT !.state = FALSE]

WaitTakes(t, o) ==
  /\ NextObject(t, o) /\ Available(o, t)
  /\ LET newOwner == Kind[o] = "mutex" /\ obj[o].owner = NoThread
     IN  /\ Finish(t, o, IF newOwner THEN "w_link" ELSE "w_dequeue")
         /\ arg' = [arg EXCEPT ![t].crit = IF newOwner THEN o ELSE NoObject]
  /\ obj' = [obj EXCEPT ![o] = Taken(o, t)]
  /\ UNCHANGED <<stub, now, budget, intrs>>

NoEnqueue(t) == ~sched.lpce[t] /\ th[t].pendTime = 0

WaitPolls(t, o) ==
  /\ NextObject(t, o) /\ ~Available(o, t) /\ NoEnqueue(t)
  /\ Finish(t, TimeOut, "w_dequeue")
  /\ UNCHANGED <<obj, stub, arg, now, budget, intrs>>

\* PrioEnqueue and FlatEnqueue.
Enqueued(o, t) ==
  CASE Kind[o] \in {"auto", "sem", "mutex"} -> [obj[o] EXCEPT !.q = InsertBehind(@, ProxPrio, t)]
    [] Kind[o] = "manual" -> [obj[o] EXCEPT !.q = Append(@, t), !.maxPrio = Min({@, th[t].proxPrio})]
    [] OTHER -> obj[o]

\* An interrupt event has one proxy for all its waits, and its clients see to it
\* that one thread at a time waits: the wait of a second would take the proxy
\* from the first before its DEBUGCHK (0).
WaitEnqueues(t, o) ==
  /\ NextObject(t, o) /\ ~Available(o, t) /\ ~NoEnqueue(t)
  /\ Kind[o] = "intr" => IntrWaiter(o) = {}
  /\ obj' = [obj EXCEPT ![o] = Enqueued(o, t)]
  /\ th' = [th EXCEPT ![t].pend = Tail(@), ![t].queued = <<o>> \o @]
  /\ sched' = Awake(t)
  /\ IF Kind[o] = "mutex" /\ (obj[o].q = << >> \/ th[t].proxPrio < HeadPrio(obj[o].q))
     THEN Goto(t, "w_boost") /\ arg' = [arg EXCEPT ![t].crit = o]
     ELSE UNCHANGED <<pc, arg>>
  /\ UNCHANGED <<stub, now, budget, intrs>>

\* ... or all are queued: the thread blocks, or the time is over, or it looks
\* for its place in the sleep queue.
AllQueued(t) == At(t, "w_one") /\ sched.wait[t] # "SIGNALLED" /\ th[t].pend = << >>

WaitBlocks(t) ==
  /\ AllQueued(t) /\ th[t].pendTime = INFINITE
  /\ sched' = [BlockCurrent(Awake(t)) EXCEPT !.wait[t] = "BLOCKED"]
  /\ Goto(t, "w_woken")
  /\ UNCHANGED <<obj, stub, th, arg, now, budget, intrs>>

WaitTimesOut(t) ==
  /\ AllQueued(t) /\ th[t].pendTime # INFINITE
  /\ th[t].pendTime = 0 \/ now >= th[t].pendWakeup
  /\ Finish(t, TimeOut, "w_dequeue")
  /\ UNCHANGED <<obj, stub, arg, now, budget, intrs>>

WaitSleeps(t) ==
  /\ AllQueued(t) /\ th[t].pendTime \notin {0, INFINITE} /\ now < th[t].pendWakeup
  /\ LET slept == SleepOneMore(Awake(t), t, th[t].pendWakeup) IN
     IF slept.running = t
     THEN sched' = slept /\ UNCHANGED <<th, pc>>
     ELSE /\ sched' = [slept EXCEPT !.wait[t] = "BLOCKED"]
          /\ th' = [th EXCEPT ![t].ret = TimeOut]
          /\ Goto(t, "w_woken")
  /\ UNCHANGED <<obj, stub, arg, now, budget, intrs>>

\* The blocking WaitOneMore returns: its result is in ret, unless NEEDSLEEP says
\* to go on waiting.
WaitWoken(t) ==
  /\ At(t, "w_woken")
  /\ Goto(t, IF t \in sched.needsleep THEN "w_one" ELSE "w_dequeue")
  /\ UNCHANGED <<sched, obj, stub, th, arg, now, budget, intrs>>

\* The thread took a free mutex: put it on the owned list.
LaterLinkCritMut(t) ==
  /\ At(t, "w_link")
  /\ LET m == arg[t].crit IN
     obj' = IF obj[m].bListed THEN obj ELSE [obj EXCEPT ![m] = Linked(@)]
  /\ Goto(t, "w_dequeue")
  /\ UNCHANGED <<sched, stub, th, arg, now, budget, intrs>>

\* Variant: the owner's list is not told of the new first waiter.
PostBoostMutOwnerOnly(t) ==
  /\ At(t, "w_boost")
  /\ LET u == obj[arg[t].crit].owner IN
     sched' = IF sched.wait[t] = "PROCESSING" /\ sched.cprio[t] < sched.cprio[u]
              THEN BoostSleeper(sched, u, sched.cprio[t]) ELSE sched
  /\ Goto(t, "w_one")
  /\ UNCHANGED <<obj, stub, th, arg, now, budget, intrs>>

\* The thread is the first to wait for a mutex: lend its owner the priority.
PostBoostMut(t) ==
  /\ At(t, "w_boost")
  /\ LET m == arg[t].crit
         u == obj[m].owner
         link == ~th[u].noPrioCalc /\ ~obj[m].bListed
     IN  IF sched.wait[t] = "PROCESSING"
         THEN /\ sched' = IF sched.cprio[t] < sched.cprio[u]
                          THEN BoostSleeper(sched, u, sched.cprio[t]) ELSE sched
              /\ obj' = [obj EXCEPT ![m] = IF link THEN Linked(@) ELSE ReprioCritMut(@)]
         ELSE UNCHANGED <<sched, obj>>
  /\ Goto(t, "w_one")
  /\ UNCHANGED <<stub, th, arg, now, budget, intrs>>

\* The wait is over: take the proxies off the objects, one KCall each.
\* DequeuePrioProxy reports that a mutex lost its only waiter of the best
\* priority.
DequeueProxy(t) ==
  /\ At(t, "w_dequeue") /\ sched.lpce[t] /\ th[t].queued # << >>
  /\ LET o     == Head(th[t].queued)
         q     == obj[o].q
         alone == \A i \in DOMAIN q : q[i] # t => th[q[i]].proxPrio > th[t].proxPrio
     IN  /\ obj' = [obj EXCEPT ![o].q = Without(@, t)]
         /\ stub' = [u \in Threads |-> IF Detaching(u, o) THEN Without(stub[u], t) ELSE stub[u]]
         /\ th' = [th EXCEPT ![t].queued = Tail(@)]
         /\ IF Kind[o] = "mutex" /\ t \in ToSet(q) /\ alone
            THEN Goto(t, "w_reprio") /\ arg' = [arg EXCEPT ![t].crit = o]
            ELSE UNCHANGED <<pc, arg>>
  /\ UNCHANGED <<sched, now, budget, intrs>>

DoReprioMutex(t) ==
  /\ At(t, "w_reprio")
  /\ LET m == arg[t].crit IN
     obj' = IF obj[m].owner = NoThread THEN obj ELSE [obj EXCEPT ![m] = ReprioCritMut(@)]
  /\ Goto(t, "w_dequeue")
  /\ UNCHANGED <<sched, stub, th, arg, now, budget, intrs>>

\* The interrupt event's proxy needs no clean-up; lpce is cleared, the call
\* returns.
WaitReturns(t) ==
  /\ At(t, "w_dequeue") /\ (~sched.lpce[t] \/ th[t].queued = << >>)
  /\ sched' = [sched EXCEPT !.lpce[t] = FALSE]
  /\ th' = [th EXCEPT ![t].pend = << >>, ![t].queued = << >>]
  /\ Goto(t, "k_return")
  /\ UNCHANGED <<obj, stub, arg, now, budget, intrs>>

-----------------------------------------------------------------------------
(* SC_EventModify. *)

\* Variant: the signal is spent on a proxy of a wait that is over.
EventModAutoOnce(t) ==
  /\ At(t, "s_auto")
  /\ LET o == Obj(t)
         w == Head(obj[o].q)
     IN  IF obj[o].q = << >>
         THEN /\ obj' = [obj EXCEPT ![o].state = (Op(t).call = "set")]
              /\ Goto(t, "k_return")
              /\ UNCHANGED <<sched, th, arg>>
         ELSE /\ obj' = [obj EXCEPT ![o].q = Tail(@), ![o].state = FALSE]
              /\ IF sched.live[w] THEN Wake(t, w, o, "s_run", "k_return")
                 ELSE Goto(t, "k_return") /\ UNCHANGED <<sched, th, arg>>
  /\ UNCHANGED <<stub, now, budget, intrs>>

\* Variant: at a proxy of a wait that is over the event keeps the signal.
EventModAutoKeeps(t) ==
  /\ At(t, "s_auto")
  /\ LET o == Obj(t)
         w == Head(obj[o].q)
     IN  IF obj[o].q = << >> \/ ~sched.live[w]
         THEN /\ obj' = [obj EXCEPT ![o].state = (Op(t).call = "set")]
              /\ Goto(t, "k_return")
              /\ UNCHANGED <<sched, th, arg>>
         ELSE /\ obj' = [obj EXCEPT ![o].q = Tail(@), ![o].state = FALSE]
              /\ Wake(t, w, o, "s_run", "k_return")
  /\ UNCHANGED <<stub, now, budget, intrs>>

\* EventModAuto: the first waiter takes the signal; a proxy of a wait that is
\* over is dropped, and the KCall repeated.
EventModAuto(t) ==
  /\ At(t, "s_auto")
  /\ LET o == Obj(t)
         w == Head(obj[o].q)
     IN  IF obj[o].q = << >>
         THEN /\ obj' = [obj EXCEPT ![o].state = (Op(t).call = "set")]
              /\ Goto(t, "k_return")
              /\ UNCHANGED <<sched, th, arg>>
         ELSE IF ~sched.live[w]
         THEN obj' = [obj EXCEPT ![o].q = Tail(@)] /\ UNCHANGED <<sched, th, pc, arg>>
         ELSE /\ obj' = [obj EXCEPT ![o].q = Tail(@), ![o].state = FALSE]
              /\ Wake(t, w, o, "s_run", "k_return")
  /\ UNCHANGED <<stub, now, budget, intrs>>

\* EventModIntr and WakeOneThreadInterruptDelayed.
EventModIntr(t) ==
  /\ At(t, "s_intr")
  /\ LET o == Obj(t) IN
     IF IntrWaiter(o) = {}
     THEN /\ obj' = [obj EXCEPT ![o].state = (Op(t).call = "set")]
          /\ Goto(t, "k_return")
          /\ UNCHANGED <<sched, th, arg>>
     ELSE /\ obj' = [obj EXCEPT ![o].state = FALSE]
          /\ \E w \in IntrWaiter(o) : Wake(t, w, o, "s_run", "k_return")
  /\ UNCHANGED <<stub, now, budget, intrs>>

\* MakeRunIfNeeded, in each of the calls that signal.
AfterRun == [s_run |-> "k_return", m_run |-> "m_wake", r_run |-> "r_post", p_run |-> "p_pop"]

MakeRunNeeded(t) ==
  /\ pc[t] \in DOMAIN AfterRun /\ At(t, pc[t])
  /\ sched' = WakeIfNeeded(sched, arg[t].tgt)
  /\ arg' = [arg EXCEPT ![t].tgt = NoThread]
  /\ Goto(t, AfterRun[pc[t]])
  /\ UNCHANGED <<obj, stub, th, now, budget, intrs>>

ResetEvent(t) ==
  /\ At(t, "s_reset")
  /\ obj' = [obj EXCEPT ![Obj(t)].state = FALSE]
  /\ Goto(t, "k_return")
  /\ UNCHANGED <<sched, stub, th, arg, now, budget, intrs>>

\* EventModMan: all waiters move to a stub, where a reset does not reach them.
\* remain is dwNewPrio, the best priority that has waited.
EventModMan(t) ==
  /\ At(t, "m_mod")
  /\ obj' = [obj EXCEPT ![Obj(t)].state = (Op(t).call = "set"), ![Obj(t)].q = << >>,
                        ![Obj(t)].maxPrio = MAX_PRIORITY_LEVELS - 1]
  /\ stub' = [stub EXCEPT ![t] = obj[Obj(t)].q]
  /\ arg' = [arg EXCEPT ![t].remain = obj[Obj(t)].maxPrio]
  /\ Goto(t, "m_prio")
  /\ UNCHANGED <<sched, th, now, budget, intrs>>

\* If somebody is left on the stub the setter keeps its priority from being
\* recalculated,
SetNoPrioCalc(t) ==
  /\ At(t, "m_prio")
  /\ IF stub[t] = << >> THEN Goto(t, "k_return") /\ UNCHANGED th
     ELSE Goto(t, "m_boost") /\ th' = [th EXCEPT ![t].noPrioCalc = TRUE]
  /\ UNCHANGED <<sched, obj, stub, arg, now, budget, intrs>>

\* ... and, a step later, runs with their best priority while it wakes them.
BoostSelf(t) ==
  /\ At(t, "m_boost")
  /\ sched' = IF arg[t].remain < arg[t].oldPrio
              THEN [sched EXCEPT !.cprio[t] = arg[t].remain] ELSE sched
  /\ Goto(t, "m_wake")
  /\ UNCHANGED <<obj, stub, th, arg, now, budget, intrs>>

WakeOneThreadFlat(t) ==
  /\ At(t, "m_wake")
  /\ LET w == Head(stub[t]) IN
     IF stub[t] = << >>
     THEN Goto(t, "m_clear") /\ UNCHANGED <<sched, stub, th, arg>>
     ELSE /\ stub' = [stub EXCEPT ![t] = Tail(@)]
          /\ IF sched.live[w] THEN Wake(t, w, Obj(t), "m_run", "m_wake")
             ELSE UNCHANGED <<sched, th, pc, arg>>
  /\ UNCHANGED <<obj, now, budget, intrs>>

ClearNoPrioCalc(t) ==
  /\ At(t, "m_clear")
  /\ th' = [th EXCEPT ![t].noPrioCalc = FALSE]
  /\ Goto(t, IF arg[t].remain < arg[t].oldPrio THEN "m_adjust" ELSE "k_return")
  /\ UNCHANGED <<sched, obj, stub, arg, now, budget, intrs>>

AdjustPrioDown(t) ==
  /\ At(t, "m_adjust")
  /\ sched' = SetRunningPrio(sched, OwnedPrio(t))
  /\ Goto(t, "k_return")
  /\ UNCHANGED <<obj, stub, th, arg, now, budget, intrs>>

-----------------------------------------------------------------------------
(* SC_ReleaseMutex and SC_ReleaseSemaphore. *)

ReleaseMutex(t) ==
  /\ At(t, "r_test")
  /\ LET m == Obj(t) IN
     IF obj[m].owner = t /\ obj[m].lockCount = 1
     THEN Goto(t, "r_unlink") /\ UNCHANGED obj
     ELSE /\ obj' = IF obj[m].owner = t THEN [obj EXCEPT ![m].lockCount = @ - 1] ELSE obj
          /\ Goto(t, "k_return")
  /\ UNCHANGED <<sched, stub, th, arg, now, budget, intrs>>

PreUnlinkCritMut(t) ==
  /\ At(t, "r_unlink")
  /\ obj' = [obj EXCEPT ![Obj(t)].bListed = FALSE]
  /\ th' = [th EXCEPT ![t].noPrioCalc = TRUE]
  /\ Goto(t, "r_leave")
  /\ UNCHANGED <<sched, stub, arg, now, budget, intrs>>

\* Variant: a waiter whose wait is over gets the mutex all the same.
LeaveMutexToAnybody(t) ==
  /\ At(t, "r_leave")
  /\ LET m == Obj(t)
         w == Head(obj[m].q)
     IN  IF obj[m].q = << >>
         THEN /\ obj' = [obj EXCEPT ![m].owner = NoThread]
              /\ Goto(t, "r_post")
              /\ UNCHANGED <<sched, th, arg>>
         ELSE /\ obj' = [obj EXCEPT ![m] = Linked([obj[m] EXCEPT !.q = Tail(obj[m].q),
                                                                 !.owner = w, !.lockCount = 1])]
              /\ Wake(t, w, m, "r_run", "r_post")
  /\ UNCHANGED <<stub, now, budget, intrs>>

\* LeaveMutex: the first waiter becomes the owner.
LeaveMutex(t) ==
  /\ At(t, "r_leave")
  /\ LET m == Obj(t)
         w == Head(obj[m].q)
     IN  IF obj[m].q = << >>
         THEN /\ obj' = [obj EXCEPT ![m].owner = NoThread]
              /\ Goto(t, "r_post")
              /\ UNCHANGED <<sched, th, arg>>
         ELSE IF ~sched.live[w]
         THEN obj' = [obj EXCEPT ![m].q = Tail(@)] /\ UNCHANGED <<sched, th, pc, arg>>
         ELSE /\ obj' = [obj EXCEPT ![m] = Linked([obj[m] EXCEPT !.q = Tail(obj[m].q),
                                                                 !.owner = w, !.lockCount = 1])]
              /\ Wake(t, w, m, "r_run", "r_post")
  /\ UNCHANGED <<stub, now, budget, intrs>>

PostUnlinkCritMut(t) ==
  /\ At(t, "r_post")
  /\ th' = [th EXCEPT ![t].noPrioCalc = FALSE]
  /\ sched' = IF OwnedPrio(t) # sched.cprio[t] THEN SetRunningPrio(sched, OwnedPrio(t)) ELSE sched
  /\ Goto(t, "k_return")
  /\ UNCHANGED <<obj, stub, arg, now, budget, intrs>>

\* Variant: units on their way to waiters are not counted.
SemAddPastMax(t) ==
  /\ At(t, "p_add")
  /\ LET p == Obj(t)
         n == Op(t).n
     IN  IF n <= 0 \/ obj[p].count + n > MaxCount
         THEN Goto(t, "k_return") /\ UNCHANGED <<obj, arg>>
         ELSE /\ obj' = [obj EXCEPT ![p].pending = @ + n]
              /\ arg' = [arg EXCEPT ![t].remain = n]
              /\ Goto(t, "p_pop")
  /\ UNCHANGED <<sched, stub, th, now, budget, intrs>>

SemAdd(t) ==
  /\ At(t, "p_add")
  /\ LET p == Obj(t)
         n == Op(t).n
     IN  IF n <= 0 \/ obj[p].count + obj[p].pending + n > MaxCount
         THEN Goto(t, "k_return") /\ UNCHANGED <<obj, arg>>
         ELSE /\ obj' = [obj EXCEPT ![p].pending = @ + n]
              /\ arg' = [arg EXCEPT ![t].remain = n]
              /\ Goto(t, "p_pop")
  /\ UNCHANGED <<sched, stub, th, now, budget, intrs>>

\* SemPop: one pending unit goes to the first waiter; what nobody waits for
\* goes to the count.
SemPop(t) ==
  /\ At(t, "p_pop")
  /\ LET p == Obj(t)
         w == Head(obj[p].q)
     IN  IF arg[t].remain = 0 \/ obj[p].q = << >>
         THEN /\ obj' = [obj EXCEPT ![p].count = @ + arg[t].remain,
                                    ![p].pending = @ - arg[t].remain]
              /\ Goto(t, "k_return")
              /\ UNCHANGED <<sched, th, arg>>
         ELSE IF ~sched.live[w]
         THEN obj' = [obj EXCEPT ![p].q = Tail(@)] /\ UNCHANGED <<sched, th, pc, arg>>
         ELSE /\ obj' = [obj EXCEPT ![p].q = Tail(@), ![p].pending = @ - 1]
              /\ sched' = Deliver(sched, w) /\ th' = Signalled(w, p)
              /\ arg' = [arg EXCEPT ![t].tgt = ToWake(w), ![t].remain = @ - 1]
              /\ Goto(t, IF ToWake(w) = NoThread THEN "p_pop" ELSE "p_run")
  /\ UNCHANGED <<stub, now, budget, intrs>>

-----------------------------------------------------------------------------
(* SC_Sleep, SC_ThreadSetPriority, SC_ThreadSuspend, SC_ThreadResume. *)

Yield(t) ==
  /\ At(t, "yield")
  /\ sched' = ThreadYield(sched)
  /\ Goto(t, "k_return")
  /\ UNCHANGED <<obj, stub, th, arg, now, budget, intrs>>

PutThreadToSleep(t) ==
  /\ At(t, "z_put")
  /\ LET awake == Awake(t)
         slept == IF now < th[t].pendWakeup THEN SleepOneMore(awake, t, th[t].pendWakeup) ELSE awake
     IN  /\ sched' = slept
         /\ Goto(t, IF now >= th[t].pendWakeup THEN "k_return"
                    ELSE IF slept.running = t THEN "z_put" ELSE "z_woken")
  /\ UNCHANGED <<obj, stub, th, arg, now, budget, intrs>>

SleepWoken(t) ==
  /\ At(t, "z_woken")
  /\ Goto(t, IF t \in sched.needsleep THEN "z_put" ELSE "k_return")
  /\ UNCHANGED <<sched, obj, stub, th, arg, now, budget, intrs>>

SetThreadBasePrio(t) ==
  /\ At(t, "basePrio")
  /\ LET u == Op(t).thread
         p == Op(t).prio
         own == Min({p} \union ListedPrios(t))
     IN  /\ th' = [th EXCEPT ![u].bprio = p]
         /\ sched' = IF th[u].bprio = p THEN sched
                     ELSE IF u = t
                     THEN IF own # sched.cprio[t] THEN SetRunningPrio(sched, own) ELSE sched
                     ELSE IF p < sched.cprio[u] THEN BoostSleeper(sched, u, p)
                     ELSE sched
  /\ Goto(t, "k_return")
  /\ UNCHANGED <<obj, stub, arg, now, budget, intrs>>

InKernel(u) == pc[u] # "user"

\* Sleep(INFINITE): a thread suspends itself.
SuspendSelf(t) ==
  /\ At(t, "suspendSelf")
  /\ sched' = SuspendNow(sched, t)
  /\ Goto(t, "k_return")
  /\ UNCHANGED <<obj, stub, th, arg, now, budget, intrs>>

\* ThreadSuspend: late if it is of another thread, and that is in the kernel.
Suspend(t) ==
  /\ At(t, "suspend")
  /\ LET u == Op(t).thread IN
     IF u # t /\ InKernel(u) THEN th' = [th EXCEPT ![u].pendSusp = @ + 1] /\ UNCHANGED sched
     ELSE sched' = SuspendNow(sched, u) /\ UNCHANGED th
  /\ Goto(t, "k_return")
  /\ UNCHANGED <<obj, stub, arg, now, budget, intrs>>

ThreadResume(u) ==
  /\ sched' = IF sched.susp[u] > 0 THEN ResumeNow(sched, u, HasProxy(u)) ELSE sched
  /\ th' = IF sched.susp[u] = 0 /\ th[u].pendSusp > 0 THEN [th EXCEPT ![u].pendSusp = @ - 1] ELSE th

Resume(t) ==
  /\ pc[t] \in {"resume", "c_resume"} /\ At(t, pc[t])
  /\ ThreadResume(Op(t).thread)
  /\ Goto(t, "k_return")
  /\ UNCHANGED <<obj, stub, arg, now, budget, intrs>>

\* ScavengeStacks: suspend a thread that is blocked or in user mode on the
\* spot, take its spare stack pages, and resume it.
Scavenge(t) ==
  /\ At(t, "c_suspend")
  /\ LET u == Op(t).thread
         refused == InKernel(u) /\ sched.rs[u] # "BLOCKED"
     IN  /\ sched' = IF refused THEN sched ELSE SuspendNow(sched, u)
         /\ Goto(t, IF refused THEN "k_return" ELSE "c_resume")
  /\ UNCHANGED <<obj, stub, th, arg, now, budget, intrs>>

-----------------------------------------------------------------------------
(* NextThread and KCNextThread. *)

\* An interrupt's event: signalled, or its waiter runs.
Interrupt(o) ==
  /\ Kind[o] = "intr" /\ intrs > 0
  /\ intrs' = intrs - 1
  /\ IF IntrWaiter(o) = {}
     THEN obj' = [obj EXCEPT ![o].state = TRUE] /\ UNCHANGED <<sched, th>>
     ELSE \E w \in IntrWaiter(o) :
            /\ sched' = IF sched.wait[w] = "BLOCKED"
                        THEN LET ended == EndWait(sched, w) IN
                             MakeRunnable(IF Sleeping(sched, w) THEN SleepqDequeue(ended, w)
                                          ELSE ended, w)
                        ELSE Deliver(sched, w)
            /\ th' = Signalled(w, o)
            /\ UNCHANGED obj
  /\ UNCHANGED <<stub, pc, arg, now, budget>>

\* The clock, and the threads whose time it is.
Tick ==
  /\ now < MaxTime
  /\ now' = now + 1
  /\ sched' = IF RingDue(sched, now + 1) THEN SetReschedule(TimerWakes(sched)) ELSE sched
  /\ UNCHANGED <<obj, stub, th, pc, arg, budget, intrs>>

KCNextThread ==
  /\ sched.resched
  /\ LET back == PutBackCurrent([sched EXCEPT !.resched = FALSE], FALSE)
         prioCalc == [t \in Threads |-> IF th[t].noPrioCalc THEN 0 ELSE OwnedPrio(t)]
     IN  sched' = IF Dispatches(back) THEN DispatchTail(back, prioCalc) ELSE back
  /\ UNCHANGED <<obj, stub, th, pc, arg, now, budget, intrs>>

\* OEMIdle: nothing runs and nothing is due any more.
Idle ==
  /\ sched.running = NoThread /\ ~sched.resched /\ sched.sleepq = << >> /\ now = MaxTime
  /\ UNCHANGED vars

-----------------------------------------------------------------------------
Wait(t) == \/ WaitConfig(t) \/ WaitSignalled(t) \/ WaitBlocks(t) \/ WaitTimesOut(t)
           \/ WaitSleeps(t) \/ WaitWoken(t)
           \/ LaterLinkCritMut(t) \/ PostBoostMut(t) \/ DequeueProxy(t) \/ DoReprioMutex(t)
           \/ WaitReturns(t)
           \/ \E o \in Objects : WaitTakes(t, o) \/ WaitPolls(t, o) \/ WaitEnqueues(t, o)

Signal(t) == \/ EventModAuto(t) \/ EventModIntr(t) \/ ResetEvent(t) \/ EventModMan(t)
             \/ SetNoPrioCalc(t) \/ BoostSelf(t) \/ WakeOneThreadFlat(t) \/ ClearNoPrioCalc(t) \/ AdjustPrioDown(t)
             \/ ReleaseMutex(t) \/ PreUnlinkCritMut(t) \/ LeaveMutex(t) \/ PostUnlinkCritMut(t)
             \/ SemAdd(t) \/ SemPop(t) \/ MakeRunNeeded(t)

Control(t) == \/ Yield(t) \/ PutThreadToSleep(t) \/ SleepWoken(t) \/ SetThreadBasePrio(t)
              \/ SuspendSelf(t) \/ Suspend(t) \/ Resume(t) \/ Scavenge(t)

KernelStep(t) == Wait(t) \/ Signal(t) \/ Control(t) \/ ReturnToUser(t)

ClientStep(t) == Retire(t) \/ \E op \in Ops[t] : BeginCall(t, op)

Next == \/ \E t \in Threads : KernelStep(t) \/ ClientStep(t)
        \/ \E o \in Objects : Interrupt(o)
        \/ Tick \/ KCNextThread \/ Idle

Spec == Init /\ [][Next]_vars

\* A running thread executes, the dispatcher runs when asked, the clock ticks.
\* Clients make their calls or retire: none keeps the processor in a loop.
FairSpec ==
  /\ Spec
  /\ WF_vars(Tick) /\ WF_vars(KCNextThread)
  /\ \A t \in Threads : WF_vars(KernelStep(t)) /\ WF_vars(ClientStep(t))

-----------------------------------------------------------------------------
(* Safety. *)

\* The run queue and the sleep queue are what schedule.c says of them in its
\* DEBUGCHKs, whatever boosts, suspensions and time-outs move threads.
ListsConsistent == RunListConsistent(sched) /\ SleepListConsistent(sched)

\* A timed wait or a sleep is not cut short: no WAIT_TIMEOUT is returned and no
\* Sleep ends before its time, although boosts and suspensions take threads off
\* the sleep queue and they have to find their way back.
NoEarlyTimeout ==
  \A t \in Threads : pc[t] = "k_return" =>
    /\ Op(t).call = "wait" /\ th[t].ret = TimeOut =>
         th[t].pendTime # INFINITE /\ (th[t].pendTime = 0 \/ now >= th[t].pendWakeup)
    /\ Op(t).call = "sleep" /\ Op(t).time > 0 => now >= th[t].pendWakeup

\* No thread stays blocked on an object it could have: a signal is never left
\* on an object while a waiter of it sleeps.
NoSignalMissed ==
  \A o \in Objects, t \in Threads :
    HasProxy(t) /\ o \in ToSet(th[t].queued) /\ (Kind[o] = "intr" \/ t \in ToSet(obj[o].q)) =>
      ~Available(o, t)

\* A blocked thread has somebody to make it run: a live proxy, its place in the
\* sleep queue, a suspension, or a thread that is about to wake it; who has to
\* go back to sleep gets to do so.
EveryoneReachable ==
  \A t \in Threads :
    /\ sched.rs[t] = "BLOCKED" /\ sched.susp[t] = 0 => HasProxy(t) \/ Sleeping(sched, t)
    /\ sched.rs[t] = "NEEDSRUN" => \E u \in Threads : arg[u].tgt = t
    /\ t \in sched.needsleep => sched.rs[t] \in {"RUNNABLE", "RUNNING"} \/ sched.susp[t] > 0

\* A mutex owner runs at least at the priority of the threads blocked on it,
\* but in the middle of releasing a mutex.
MutexPriorityInherited ==
  \A t \in Threads, m \in Objects :
    Kind[m] = "mutex" /\ sched.wait[t] = "BLOCKED" /\ HasProxy(t) /\ m \in ToSet(th[t].queued) =>
      LET u == obj[m].owner IN
      sched.cprio[u] <= th[t].proxPrio \/ pc[u] \in MutexPCs

\* "DEBUGCHK(GET_RUNSTATE(pth) != RUNSTATE_RUNNABLE)", and the same of RUNNING
\* and NEEDSRUN: what an interrupt asserts of a waiter whose bWaitState says it
\* has blocked, before it puts it on the run queue.  It fails for a waiter with
\* a time-out that is boosted below others in the sleep queue: the boost makes
\* it run but leaves bWaitState, for it has no lpce.
InterruptFindsBlocked ==
  \A o \in Objects : \A w \in IntrWaiter(o) :
    Kind[o] = "intr" /\ sched.wait[w] = "BLOCKED" =>
      sched.rs[w] \notin {"RUNNABLE", "RUNNING", "NEEDSRUN"}

\* "if (cprio > GET_CPRIO (pDown))" ... "DEBUGCHK (0);": what RunqDequeue asserts
\* of a thread that leaves the run queue and the first of those that hang on it,
\* stated of the thread that KCNextThread is about to run.  It fails when the
\* first has been boosted while it was marked NEEDSRUN: BoostCPrio then leaves it
\* where it is, below a head that is worse now.
TailNoBetter ==
  LET t == Head(sched.runq) IN
  sched.resched /\ Dispatches(sched) /\ sched.hang[t] # << >> =>
    sched.cprio[t] <= sched.cprio[Head(sched.hang[t])]

-----------------------------------------------------------------------------
(* The promise to clients. *)

\* How a wait in progress looks to the client: open while its proxies are live,
\* then over, with the result the next KCall or the return will report.
Decision(t) ==
  IF pc[t] \in {"w_one", "w_boost", "w_woken"} /\ sched.wait[t] = "SIGNALLED"
  THEN th[t].pendReturn ELSE th[t].ret

WaitSeen(t) ==
  IF pc[t] \notin WaitPCs \ {"w_config"} THEN [is |-> "none"]
  ELSE IF sched.live[t]
  THEN [is |-> "open", on |-> ToSet(Op(t).objs), joined |-> ToSet(th[t].queued)]
  ELSE [is |-> "over", result |-> Decision(t)]

Promise == INSTANCE KernelWaits WITH
  avail  <- [o \in Objects |-> IF Kind[o] = "sem" THEN obj[o].count
                               ELSE IF obj[o].state THEN 1 ELSE 0],
  coming <- [o \in Objects |-> obj[o].pending],
  owed   <- [o \in Objects |-> {t \in Threads : sched.live[t] /\
                                 \E u \in Threads : Detaching(u, o) /\ t \in ToSet(stub[u])}],
  holder <- [o \in Objects |-> obj[o].owner],
  holds  <- [o \in Objects |-> IF obj[o].owner = NoThread THEN 0 ELSE obj[o].lockCount],
  wait   <- [t \in Threads |-> WaitSeen(t)],
  calls  <- [t \in Threads |-> IF pc[t] \in {"s_auto", "s_intr", "m_mod", "s_reset"}
                               THEN [name |-> Op(t).call, obj |-> Obj(t)] ELSE [name |-> "none"]]

\* The KCalls of waits and signals together implement KernelWaits: a wait is
\* decided once though its time-out, its objects and boosts race, and no signal
\* is duplicated, given to a wait that is over, or lost while a thread waits.
KeepsPromise == Promise!Spec

-----------------------------------------------------------------------------
(* Liveness. *)

\* Every wait and sleep with a time-out returns to its client.
TimedCallsReturn ==
  \A t \in Threads :
    (pc[t] = "z_woken" \/ (pc[t] = "w_woken" /\ th[t].pendTime # INFINITE)) ~> pc[t] = "user"
=============================================================================
