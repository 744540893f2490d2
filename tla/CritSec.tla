------------------------------- MODULE CritSec -------------------------------
(***************************************************************************)
(* Critical sections: the user-mode fast path (CORE/DLL/cscode.c) and the  *)
(* kernel's slow path (NK/KERNEL/schedule.c) with hand-off, steal-back,    *)
(* priority inheritance, thread termination and the termination of other   *)
(* threads.                                                                *)
(*                                                                         *)
(* One processor.  A KCall runs without preemption, so each KCall is one   *)
(* action; between KCalls, and between the user-mode accesses to the       *)
(* CRITICAL_SECTION, a thread can be preempted at any point.  A KCall that *)
(* set KCResched is followed by KCNextThread before any thread runs        *)
(* (Int22KCallHandler), so threads step only while resched is FALSE.       *)
(*                                                                         *)
(* pc[t] is where t is inside EnterCriticalSection, LeaveCriticalSection,  *)
(* thread exit or TerminateThread; "user" is the client's own code.        *)
(***************************************************************************)
EXTENDS KSched

CONSTANTS Crits,       \* the critical sections, as numbers: the client's lock order
          BasePriority,\* initial priority of each thread
          MaxNest,     \* bound on recursive entries by one thread
          Budget,      \* bound on the client operations of each thread
          TimeSlice,   \* TRUE: dwQuantum # 0; FALSE: threads run to completion
          Abandoners,  \* threads that may exit while owning a critical section
          CanKill      \* the pairs <<t, u>> such that t may terminate u

ASSUME CritAssumption     == Crits \subseteq Nat /\ IsFiniteSet(Crits)
ASSUME PriorityAssumption == BasePriority \in [Threads -> Priority]
ASSUME BoundAssumption    == MaxNest \in Nat \ {0} /\ Budget \in [Threads -> Nat] /\ TimeSlice \in BOOLEAN
ASSUME KillAssumption     == /\ Abandoners \subseteq Threads
                             /\ CanKill \subseteq {p \in Threads \X Threads : p[1] # p[2]}

VARIABLES
  sched,   \* RunList, KCResched and the threads' run states and priorities
  cs,      \* CRITICAL_SECTION and its CRIT, per critical section
  th,      \* the THREAD fields the protocol uses
  pc,      \* program counter of each thread
  arg,     \* lpcs of the call the thread is in
  tgt,     \* the thread a wake-up or a termination in progress is about
  depth,   \* the client's own count of entries minus leaves
  budget   \* client operations left

vars == <<sched, cs, th, pc, arg, tgt, depth, budget>>

\* Where a thread can be.  In user mode, TerminateThread redirects it at once.
UserMode  == {"user", "e_count", "l_test", "l_free"}
TakeSteps == {"t_alloc", "t_config", "t_part1", "t_link", "t_boost1", "t_boost2",
              "t_part2", "t_after", "t_reprio", "t_final"}
LeaveSteps == {"l_pre", "l_leave", "l_run", "l_post"}
ExitSteps == {"x_start", "x_next", "x_leave", "x_buried", "gone"}
KillSteps == {"k_boost", "k_boostrun", "k_run"}
PCs == UserMode \union TakeSteps \union LeaveSteps \union ExitSteps \union KillSteps
       \union {"fault"}

WaitState == {"SIGNALLED", "PROCESSING", "BLOCKED"}

\* owner and low are the OwnerThread word: handle and the |1 bit set on leaving.
CritType == [owner : Threads \union {NoThread}, low : BOOLEAN, lockCount : Int,
             needtrap : BOOLEAN, bListed : 0 .. 2, bListedPrio : Priority,
             linkedTo : Threads \union {NoThread}, proxList : Seq(Threads)]

\* fresh: the thread's proxy carries its current wCount.  Each thread has at most
\* one critical section proxy, so a waiter queue is a sequence of threads.
ThreadType == [bprio : Priority, wait : WaitState, proxPrio : Priority,
               fresh : BOOLEAN, hLastCrit : Crits \union {-1}, noPrioCalc : BOOLEAN,
               dying : BOOLEAN, dead : BOOLEAN, buried : BOOLEAN]

NoCrit == -1

TypeOK ==
  /\ sched \in SchedType
  /\ cs \in [Crits -> CritType]
  /\ th \in [Threads -> ThreadType]
  /\ pc \in [Threads -> PCs]
  /\ arg \in [Threads -> Crits \union {NoCrit}]
  /\ tgt \in [Threads -> Threads \union {NoThread}]
  /\ depth \in [Threads -> [Crits -> Nat]]
  /\ budget \in [Threads -> Nat]

\* Every thread starts blocked on an event of its own, owning nothing.
Init ==
  /\ sched = [running |-> NoThread, resched |-> FALSE, runq |-> << >>,
              rs |-> [t \in Threads |-> "BLOCKED"], cprio |-> BasePriority]
  /\ cs = [c \in Crits |->
             [owner |-> NoThread, low |-> FALSE, lockCount |-> 0, needtrap |-> FALSE,
              bListed |-> 0, bListedPrio |-> 0, linkedTo |-> NoThread, proxList |-> << >>]]
  /\ th = [t \in Threads |->
             [bprio |-> BasePriority[t], wait |-> "SIGNALLED", proxPrio |-> 0,
              fresh |-> FALSE, hLastCrit |-> NoCrit, noPrioCalc |-> FALSE,
              dying |-> FALSE, dead |-> FALSE, buried |-> FALSE]]
  /\ pc = [t \in Threads |-> "user"]
  /\ arg = [t \in Threads |-> NoCrit]
  /\ tgt = [t \in Threads |-> NoThread]
  /\ depth = [t \in Threads |-> [c \in Crits |-> 0]]
  /\ budget = Budget

-----------------------------------------------------------------------------
(* Helpers on critical sections and proxies. *)

Owns(t, c)    == cs[c].owner = t /\ ~cs[c].low     \* OwnerThread == hTh
Leaving(t, c) == cs[c].owner = t /\ cs[c].low      \* OwnerThread == hTh | 1

\* HandleToThread of the owner's handle: null when free, or once it is removed.
OwnerPth(c) == IF cs[c].owner \in Threads /\ pc[cs[c].owner] # "gone"
               THEN cs[c].owner ELSE NoThread

ProxPrio == [t \in Threads |-> th[t].proxPrio]

\* Variant: one past the last priority when nobody waits.
HeadPrioPastEnd(crit) == IF crit.proxList = << >> THEN MAX_PRIORITY_LEVELS
                         ELSE th[Head(crit.proxList)].proxPrio

\* The priority of the first waiter, as the owned lists record it.
HeadPrio(crit) == IF crit.proxList = << >> THEN MAX_PRIORITY_LEVELS - 1
                  ELSE th[Head(crit.proxList)].proxPrio

\* DoLinkCritMut and UnlinkCritMut: put crit on t's owned list, take it off.
DoLinkCritMut(crit, t) ==
  [crit EXCEPT !.bListed = 1, !.bListedPrio = HeadPrio(crit), !.linkedTo = t]

UnlinkCritMut(crit) ==
  IF crit.bListed = 1
  THEN [crit EXCEPT !.bListed = 0, !.bListedPrio = 0, !.linkedTo = NoThread] ELSE crit

\* LinkCritMut for a critical section: not for an owner about to be removed.
LinkCritMut(crit, t) ==
  IF crit.needtrap /\ ~th[t].buried THEN DoLinkCritMut(crit, t) ELSE crit

ReprioCritMut(crit, t) == IF crit.bListed = 1 THEN DoLinkCritMut(crit, t) ELSE crit

\* t's owned list, and the priority it lends t.
OwnedList(t) == {c \in Crits : cs[c].bListed = 1 /\ cs[c].linkedTo = t}

PrioFrom(t, owned) == Min({th[t].bprio} \union {cs[c].bListedPrio : c \in owned})

\* The thread is past exitcs1 or woken: its proxy is stale and its wait over.
Signalled(rec) == [rec EXCEPT !.wait = "SIGNALLED", !.fresh = FALSE]

\* Variant: hLastCrit is not reset.
StaysStealable(rec) == rec

\* A thread that runs, or owns a critical section a blocked thread waits for,
\* cannot have it stolen.
NotStealable(rec) == [rec EXCEPT !.hLastCrit = NoCrit]

\* The condition under which a wait gives up because the thread was terminated.
MustAbort(t) == th[t].dying /\ ~th[t].dead

NoFault == \A t \in Threads : pc[t] # "fault"

\* t is the thread that executes now.
Runs(t) == sched.running = t /\ ~sched.resched /\ NoFault

At(t, p) == Runs(t) /\ pc[t] = p

Goto(t, p) == pc' = [pc EXCEPT ![t] = p]

Holds(t) == {c \in Crits : depth[t][c] > 0}
HoldsNothing == [c \in Crits |-> 0]

\* What a call kept in its frame is gone when it returns.
DropFrame(t) == arg' = [arg EXCEPT ![t] = NoCrit] /\ tgt' = [tgt EXCEPT ![t] = NoThread]

\* ServerCallReturn: a dying thread that returns to its own code exits instead,
\* an exiting one goes on exiting.  entered is the critical section the call
\* acquired, if any.
ReturnToUser(t, entered) ==
  /\ DropFrame(t)
  /\ IF th[t].dying \/ th[t].dead
     THEN /\ Goto(t, IF th[t].dead THEN "x_next" ELSE "x_start")
          /\ depth' = [depth EXCEPT ![t] = HoldsNothing]
     ELSE /\ Goto(t, "user")
          /\ depth' = [depth EXCEPT ![t] = [c \in Crits |-> IF c \in entered THEN 1 ELSE @[c]]]

-----------------------------------------------------------------------------
(* The client.  It takes critical sections in increasing order, leaves what *)
(* it entered, blocks on events of its own, and exits.                      *)

Spend(t) == budget[t] > 0 /\ budget' = [budget EXCEPT ![t] = @ - 1]

MayEnter(t, c) == depth[t][c] = 0 /\ \A d \in Holds(t) : d < c

\* The thread waits for an event; interrupt or timer processing wakes it.
Block(t) ==
  /\ At(t, "user") /\ Spend(t)
  /\ sched' = BlockCurrent(sched)
  /\ UNCHANGED <<cs, th, pc, arg, tgt, depth>>

Wake(t) ==
  /\ NoFault /\ pc[t] = "user" /\ sched.rs[t] = "BLOCKED"
  /\ sched' = MakeRun(sched, t)
  /\ UNCHANGED <<cs, th, pc, arg, tgt, depth, budget>>

\* The timer interrupt at the end of a quantum asks for a reschedule.
QuantumTick ==
  /\ NoFault /\ TimeSlice /\ sched.running # NoThread /\ ~sched.resched
  /\ sched' = SetReschedule(sched)
  /\ UNCHANGED <<cs, th, pc, arg, tgt, depth, budget>>

\* KCNextThread.
KCNextThread ==
  /\ NoFault /\ sched.resched
  /\ \E bQuantExpired \in {FALSE, TimeSlice} :
       LET back == PutBackCurrent([sched EXCEPT !.resched = FALSE], bQuantExpired)
           next == Head(back.runq)
           prioCalc == [t \in Threads |-> IF th[t].noPrioCalc THEN sched.cprio[t]
                                          ELSE PrioFrom(t, OwnedList(t))]
       IN  IF Dispatches(back)
           THEN /\ sched' = Dispatch(back, prioCalc)
                /\ th' = [th EXCEPT ![next] = NotStealable(@)]
           ELSE sched' = back /\ th' = th
  /\ UNCHANGED <<cs, pc, arg, tgt, depth, budget>>

-----------------------------------------------------------------------------
(* EnterCriticalSection, user mode. *)

\* The owner enters again: LockCount++.
EnterAgain(t, c) ==
  /\ At(t, "user") /\ Owns(t, c) /\ depth[t][c] < MaxNest /\ Spend(t)
  /\ cs' = [cs EXCEPT ![c].lockCount = @ + 1]
  /\ depth' = [depth EXCEPT ![t][c] = @ + 1]
  /\ UNCHANGED <<sched, th, pc, arg, tgt>>

\* InterlockedTestExchange(&OwnerThread, 0, hTh) finds it free ...
EnterFast(t, c) ==
  /\ At(t, "user") /\ MayEnter(t, c) /\ Spend(t)
  /\ cs[c].owner = NoThread
  /\ cs' = [cs EXCEPT ![c].owner = t, ![c].low = FALSE]
  /\ Goto(t, "e_count") /\ arg' = [arg EXCEPT ![t] = c]
  /\ UNCHANGED <<sched, th, tgt, depth>>

\* ... and LockCount = 1 follows as a separate store.
EnterSetCount(t) ==
  /\ At(t, "e_count")
  /\ cs' = [cs EXCEPT ![arg[t]].lockCount = 1]
  /\ Goto(t, "user") /\ depth' = [depth EXCEPT ![t][arg[t]] = 1] /\ DropFrame(t)
  /\ UNCHANGED <<sched, th, budget>>

\* The exchange fails: TakeCritSec traps into UB_TakeCritSec.
EnterSlow(t, c) ==
  /\ At(t, "user") /\ MayEnter(t, c) /\ Spend(t)
  /\ cs[c].owner # NoThread /\ ~Owns(t, c)
  /\ Goto(t, "t_alloc") /\ arg' = [arg EXCEPT ![t] = c]
  /\ UNCHANGED <<sched, cs, th, tgt, depth>>

-----------------------------------------------------------------------------
(* SC_TakeCritSec, one turn of its retry loop from t_alloc to t_after. *)

\* The proxy takes the thread's priority and wCount as they are now.
AllocProxy(t) ==
  /\ At(t, "t_alloc")
  /\ th' = [th EXCEPT ![t].proxPrio = sched.cprio[t], ![t].fresh = TRUE]
  /\ Goto(t, "t_config")
  /\ UNCHANGED <<sched, cs, arg, tgt, depth, budget>>

\* AllocMem fails: yield, then try again.
AllocFails(t) ==
  /\ At(t, "t_alloc") /\ Spend(t)
  /\ sched' = ThreadYield(sched)
  /\ UNCHANGED <<cs, th, pc, arg, tgt, depth>>

WaitConfig(t) ==
  /\ At(t, "t_config")
  /\ th' = [th EXCEPT ![t].wait = "PROCESSING"]
  /\ Goto(t, "t_part1")
  /\ UNCHANGED <<sched, cs, arg, tgt, depth, budget>>

\* CSWaitPart1 returns CSWAIT_ABORT: the thread was terminated; TakeCritSec
\* returns without the critical section.
CSWaitPart1Abort(t) ==
  /\ At(t, "t_part1") /\ MustAbort(t)
  /\ th' = [th EXCEPT ![t] = Signalled(@)]
  /\ ReturnToUser(t, {})
  /\ UNCHANGED <<sched, cs, budget>>

\* Variant: a marked OwnerThread is taken without looking at needtrap.
CanTakeFromWaiters(c) ==
  \/ cs[c].owner = NoThread
  \/ cs[c].low
  \/ OwnerPth(c) = NoThread

\* The critical section is free, its owner is between the |1 store and the
\* release without waiters, or its owner no longer exists.
CanTake(c) ==
  \/ cs[c].owner = NoThread
  \/ ~cs[c].needtrap /\ cs[c].low
  \/ OwnerPth(c) = NoThread
  \/ /\ ~cs[c].needtrap /\ cs[c].bListed # 1
     /\ OwnerPth(c) # NoThread /\ th[OwnerPth(c)].buried

CSWaitPart1Take(t) ==
  LET c == arg[t] IN
  /\ At(t, "t_part1") /\ ~MustAbort(t) /\ CanTake(c)
  /\ cs' = [cs EXCEPT ![c].owner = t, ![c].low = FALSE, ![c].lockCount = 1]
  /\ th' = [th EXCEPT ![t] = Signalled(@)]
  /\ Goto(t, "t_after")
  /\ UNCHANGED <<sched, arg, tgt, depth, budget>>

\* The owner was handed the critical section but has not run since, and t is
\* better: t steals it back.  Earlier waiters now wait for t.
CanSteal(t, c) ==
  /\ ~CanTake(c)
  /\ th[OwnerPth(c)].hLastCrit = c
  /\ sched.cprio[OwnerPth(c)] > sched.cprio[t]

CSWaitPart1Steal(t) ==
  LET c == arg[t]
      waiters == cs[c].proxList # << >>
  IN
  /\ At(t, "t_part1") /\ ~MustAbort(t) /\ CanSteal(t, c)
  /\ cs' = [cs EXCEPT ![c].owner = t, ![c].low = FALSE,
                      ![c].needtrap = @ \/ waiters]
  /\ th' = [th EXCEPT ![t] = Signalled(@)]
  /\ Goto(t, IF waiters THEN "t_link" ELSE "t_after")
  /\ UNCHANGED <<sched, arg, tgt, depth, budget>>

\* Otherwise t queues its proxy by priority; the first waiter also boosts the owner.
CSWaitPart1Pend(t) ==
  LET c == arg[t]
      first == cs[c].proxList = << >> \/ th[t].proxPrio < HeadPrio(cs[c])
  IN
  /\ At(t, "t_part1") /\ ~MustAbort(t) /\ ~CanTake(c) /\ ~CanSteal(t, c)
  /\ cs' = [cs EXCEPT ![c].proxList = InsertBehind(@, ProxPrio, t), ![c].needtrap = TRUE]
  /\ Goto(t, IF first THEN "t_boost1" ELSE "t_part2")
  /\ UNCHANGED <<sched, th, arg, tgt, depth, budget>>

\* LaterLinkCritMut, by a thread that stole from under waiters.
LaterLinkCritMut(t) ==
  LET c == arg[t] IN
  /\ At(t, "t_link")
  /\ cs' = [cs EXCEPT ![c] = IF @.bListed = 0 /\ Owns(t, c) THEN LinkCritMut(@, t) ELSE @]
  /\ Goto(t, "t_after")
  /\ UNCHANGED <<sched, th, arg, tgt, depth, budget>>

\* A KCall that dereferences the null PTHREAD of a removed owner faults, and the
\* fault stops the kernel.
Fault(t) ==
  /\ Goto(t, "fault")
  /\ UNCHANGED <<sched, cs, th, arg, tgt, depth, budget>>

\* PostBoostCrit1: the owner's list gets the new first waiter's priority.
PostBoostCrit1(t) ==
  LET c == arg[t] IN
  /\ At(t, "t_boost1")
  /\ IF th[t].wait = "PROCESSING" /\ cs[c].bListed = 1 /\ OwnerPth(c) = NoThread
     THEN Fault(t)
     ELSE /\ cs' = IF th[t].wait = "PROCESSING"
                   THEN [cs EXCEPT ![c] = ReprioCritMut(@, OwnerPth(c))] ELSE cs
          /\ Goto(t, "t_boost2")
          /\ UNCHANGED <<sched, th, arg, tgt, depth, budget>>

\* Variant: no boost.
PostBoostCrit2Skipped(t) ==
  /\ At(t, "t_boost2")
  /\ Goto(t, "t_part2")
  /\ UNCHANGED <<sched, cs, th, arg, tgt, depth, budget>>

\* PostBoostCrit2: the owner runs at the first waiter's priority.
PostBoostCrit2(t) ==
  LET c == arg[t]
      o == OwnerPth(c)
      prio == HeadPrio(cs[c])
      looks == th[t].wait = "PROCESSING" /\ cs[c].proxList # << >>
  IN
  /\ At(t, "t_boost2")
  /\ IF looks /\ o = NoThread THEN Fault(t)
     ELSE /\ sched' = IF looks /\ prio < sched.cprio[o] THEN BoostCPrio(sched, o, prio) ELSE sched
          /\ Goto(t, "t_part2")
          /\ UNCHANGED <<cs, th, arg, tgt, depth, budget>>

\* CSWaitPart2, already handed the critical section: do not block.
CSWaitPart2Signalled(t) ==
  /\ At(t, "t_part2") /\ th[t].wait = "SIGNALLED"
  /\ Goto(t, "t_after")
  /\ UNCHANGED <<sched, cs, th, arg, tgt, depth, budget>>

\* CSWaitPart2, terminated meanwhile: do not block either.
CSWaitPart2Abort(t) ==
  /\ At(t, "t_part2") /\ th[t].wait # "SIGNALLED" /\ MustAbort(t)
  /\ th' = [th EXCEPT ![t] = Signalled(@)]
  /\ Goto(t, "t_after")
  /\ UNCHANGED <<sched, cs, arg, tgt, depth, budget>>

\* CSWaitPart2 blocks, after putting the critical section on its owner's list
\* unless it is there or being left; from then on nobody steals it.
CSWaitPart2Block(t) ==
  LET c == arg[t]
      o == OwnerPth(c)
  IN
  /\ At(t, "t_part2") /\ th[t].wait # "SIGNALLED" /\ ~MustAbort(t)
  /\ IF cs[c].bListed = 0 /\ o = NoThread THEN Fault(t)
     ELSE /\ IF cs[c].bListed = 0
             THEN /\ cs' = [cs EXCEPT ![c] = LinkCritMut(@, o)]
                  /\ th' = [th EXCEPT ![o] = NotStealable(@), ![t].wait = "BLOCKED"]
             ELSE /\ cs' = cs
                  /\ th' = [th EXCEPT ![t].wait = "BLOCKED"]
          /\ sched' = BlockCurrent(sched)
          /\ Goto(t, "t_after")
          /\ UNCHANGED <<arg, tgt, depth, budget>>

\* Variant: a queued proxy is freed without being taken out.
DequeuePrioProxySkipped(t) ==
  /\ At(t, "t_after") /\ t \in ToSet(cs[arg[t]].proxList)
  /\ Goto(t, IF Owns(t, arg[t]) THEN "t_final" ELSE "t_alloc")
  /\ UNCHANGED <<sched, cs, th, arg, tgt, depth, budget>>

\* After the wait: a proxy still queued is taken out (DequeuePrioProxy, TRUE
\* when it was the first and alone at its priority); then the loop tests
\* OwnerThread and retries or goes on to CritFinalBoost.
DequeuePrioProxy(t) ==
  LET c == arg[t]
      q == cs[c].proxList
      alone == /\ Head(q) = t
               /\ \A u \in ToSet(q) \ {t} : th[u].proxPrio # th[t].proxPrio
  IN
  /\ At(t, "t_after") /\ t \in ToSet(q)
  /\ cs' = [cs EXCEPT ![c].proxList = Without(@, t)]
  /\ Goto(t, IF alone THEN "t_reprio" ELSE "t_after")
  /\ UNCHANGED <<sched, th, arg, tgt, depth, budget>>

DoReprioCrit(t) ==
  LET c == arg[t] IN
  /\ At(t, "t_reprio")
  /\ cs' = IF OwnerPth(c) = NoThread THEN cs
           ELSE [cs EXCEPT ![c] = ReprioCritMut(@, OwnerPth(c))]
  /\ Goto(t, "t_after")
  /\ UNCHANGED <<sched, th, arg, tgt, depth, budget>>

TakeRetry(t) ==
  /\ At(t, "t_after") /\ t \notin ToSet(cs[arg[t]].proxList)
  /\ th' = [th EXCEPT ![t].proxPrio = 0]
  /\ Goto(t, IF Owns(t, arg[t]) THEN "t_final" ELSE "t_alloc")
  /\ UNCHANGED <<sched, cs, arg, tgt, depth, budget>>

CritFinalBoost(t) ==
  LET c == arg[t]
      linked == IF cs[c].bListed = 0 /\ cs[c].proxList # << >>
                THEN LinkCritMut(cs[c], t) ELSE cs[c]
      prio == HeadPrio(cs[c])
  IN
  /\ At(t, "t_final")
  /\ cs' = [cs EXCEPT ![c] = linked]
  /\ sched' = IF cs[c].proxList # << >> /\ prio < sched.cprio[t]
              THEN [sched EXCEPT !.cprio[t] = prio] ELSE sched
  /\ ReturnToUser(t, {c})
  /\ UNCHANGED <<th, budget>>

-----------------------------------------------------------------------------
(* LeaveCriticalSection, user mode. *)

\* LockCount # 1: one entry less.
LeaveNested(t, c) ==
  /\ At(t, "user") /\ depth[t][c] > 0 /\ Owns(t, c) /\ cs[c].lockCount # 1
  /\ cs' = [cs EXCEPT ![c].lockCount = @ - 1]
  /\ depth' = [depth EXCEPT ![t][c] = @ - 1]
  /\ UNCHANGED <<sched, th, pc, arg, tgt, budget>>

\* The outermost leave marks the word with |1 ...
LeaveMark(t, c) ==
  /\ At(t, "user") /\ depth[t][c] > 0 /\ Owns(t, c) /\ cs[c].lockCount = 1
  /\ cs' = [cs EXCEPT ![c].low = TRUE]
  /\ depth' = [depth EXCEPT ![t][c] = @ - 1]
  /\ Goto(t, "l_test") /\ arg' = [arg EXCEPT ![t] = c]
  /\ UNCHANGED <<sched, th, tgt, budget>>

\* Variant: needtrap is not read.
LeaveTestSkipped(t) ==
  /\ At(t, "l_test")
  /\ Goto(t, "l_free")
  /\ UNCHANGED <<sched, cs, th, arg, tgt, depth, budget>>

\* ... then reads needtrap ...
LeaveTest(t) ==
  /\ At(t, "l_test")
  /\ Goto(t, IF cs[arg[t]].needtrap THEN "l_pre" ELSE "l_free")
  /\ UNCHANGED <<sched, cs, th, arg, tgt, depth, budget>>

\* Variant: a plain store of 0.
StoreFree(crit, t) == [crit EXCEPT !.owner = NoThread, !.low = FALSE]

\* InterlockedTestExchange(&OwnerThread, hTh | 1, 0).
ExchangeFree(crit, t) ==
  IF crit.owner = t /\ crit.low THEN [crit EXCEPT !.owner = NoThread, !.low = FALSE] ELSE crit

\* ... and without waiters exchanges hTh | 1 for 0, which fails if another
\* thread took the critical section since.
LeaveFree(t) ==
  LET c == arg[t] IN
  /\ At(t, "l_free")
  /\ cs' = [cs EXCEPT ![c] = ExchangeFree(@, t)]
  /\ Goto(t, IF th[t].dead THEN "x_next" ELSE "user") /\ DropFrame(t)
  /\ UNCHANGED <<sched, th, depth, budget>>

-----------------------------------------------------------------------------
(* SC_LeaveCritSec. *)

PreLeaveCrit(t) ==
  LET c == arg[t] IN
  /\ At(t, "l_pre")
  /\ IF Leaving(t, c)
     THEN /\ cs' = [cs EXCEPT ![c] = [UnlinkCritMut(@) EXCEPT !.low = FALSE, !.bListed = 2]]
          /\ th' = [th EXCEPT ![t].noPrioCalc = TRUE]
          /\ Goto(t, "l_leave") /\ UNCHANGED <<arg, tgt, depth>>
     ELSE ReturnToUser(t, {}) /\ UNCHANGED <<cs, th>>
  /\ UNCHANGED <<sched, budget>>

\* LeaveCrit without waiters frees the critical section.
LeaveCritFree(t) ==
  LET c == arg[t] IN
  /\ At(t, "l_leave") /\ cs[c].proxList = << >>
  /\ cs' = [cs EXCEPT ![c].owner = NoThread, ![c].needtrap = FALSE, ![c].bListed = 0]
  /\ Goto(t, "l_post")
  /\ UNCHANGED <<sched, th, arg, tgt, depth, budget>>

\* LeaveCrit drops a proxy whose thread no longer waits and is called again.
LeaveCritStale(t) ==
  LET c == arg[t] IN
  /\ At(t, "l_leave") /\ cs[c].proxList # << >>
  /\ ~th[Head(cs[c].proxList)].fresh
  /\ cs' = [cs EXCEPT ![c].proxList = Tail(@)]
  /\ UNCHANGED <<sched, th, pc, arg, tgt, depth, budget>>

\* Variant: needtrap is cleared although more threads wait.
HandOverClearsTrap(crit) ==
  [crit EXCEPT !.owner = Head(crit.proxList), !.lockCount = 1, !.bListed = 0,
               !.proxList = Tail(@), !.needtrap = FALSE]

\* The first waiter is the owner; needtrap stays set while others wait.
HandOver(crit) ==
  [crit EXCEPT !.owner = Head(crit.proxList), !.lockCount = 1, !.bListed = 0,
               !.proxList = Tail(@), !.needtrap = @ /\ Tail(crit.proxList) # << >>]

\* LeaveCrit hands the critical section to the first waiter, which becomes the
\* owner at once but runs only when a later KCall makes it runnable.
LeaveCritHandOff(t) ==
  LET c == arg[t]
      u == Head(cs[c].proxList)
      blocked == th[u].wait = "BLOCKED"
  IN
  /\ At(t, "l_leave") /\ cs[c].proxList # << >> /\ th[u].fresh
  /\ cs' = [cs EXCEPT ![c] = HandOver(@)]
  /\ th' = [th EXCEPT ![u].fresh = FALSE, ![u].hLastCrit = c,
                      ![u].wait = IF blocked THEN @ ELSE "SIGNALLED"]
  /\ sched' = IF blocked THEN [sched EXCEPT !.rs[u] = "NEEDSRUN"] ELSE sched
  /\ tgt' = [tgt EXCEPT ![t] = u]
  /\ Goto(t, IF blocked THEN "l_run" ELSE "l_post")
  /\ UNCHANGED <<arg, depth, budget>>

\* Variant: only a better thread is made runnable.
LeaveCritRunIfBetter(t) ==
  /\ At(t, "l_run")
  /\ sched' = IF sched.cprio[tgt[t]] < sched.cprio[t] THEN MakeRunIfNeeded(sched, tgt[t]) ELSE sched
  /\ Goto(t, "l_post")
  /\ UNCHANGED <<cs, th, arg, tgt, depth, budget>>

\* MakeRunIfNeeded on the handle LeaveCrit returned.
LeaveCritRun(t) ==
  /\ At(t, "l_run")
  /\ sched' = IF pc[tgt[t]] = "gone" THEN sched ELSE MakeRunIfNeeded(sched, tgt[t])
  /\ Goto(t, "l_post")
  /\ UNCHANGED <<cs, th, arg, tgt, depth, budget>>

\* Back to the priority t has without the critical section it left.
PostUnlinkCritMut(t) ==
  LET prio == PrioFrom(t, OwnedList(t)) IN
  /\ At(t, "l_post")
  /\ th' = [th EXCEPT ![t].noPrioCalc = FALSE]
  /\ sched' = IF prio # sched.cprio[t] THEN SetRunningPrio(sched, prio) ELSE sched
  /\ ReturnToUser(t, {})
  /\ UNCHANGED <<cs, budget>>

-----------------------------------------------------------------------------
(* Thread exit: SC_NKTerminateThread and RemoveThread. *)

ExitThread(t) ==
  /\ At(t, "user") /\ (Holds(t) = {} \/ t \in Abandoners)
  /\ Goto(t, "x_start") /\ depth' = [depth EXCEPT ![t] = HoldsNothing]
  /\ UNCHANGED <<sched, cs, th, arg, tgt, budget>>

NKTerminateThread(t) ==
  /\ At(t, "x_start")
  /\ th' = [th EXCEPT ![t].dead = TRUE]
  /\ Goto(t, "x_next")
  /\ UNCHANGED <<sched, cs, arg, tgt, depth, budget>>

\* DoLeaveSomething: the head of the owned list is next to be left; with nothing
\* listed the thread is buried, and no critical section can be listed any more.
DoLeaveSomething(t) ==
  /\ At(t, "x_next")
  /\ \/ \E c \in OwnedList(t) :
          /\ \A d \in OwnedList(t) : cs[c].bListedPrio <= cs[d].bListedPrio
          /\ arg' = [arg EXCEPT ![t] = c]
          /\ Goto(t, "x_leave") /\ th' = th
     \/ /\ OwnedList(t) = {} /\ arg' = arg
        /\ th' = [th EXCEPT ![t].buried = TRUE]
        /\ Goto(t, "x_buried")
  /\ UNCHANGED <<sched, cs, tgt, depth, budget>>

\* LockCount = 1; LeaveCriticalSection.  A thread that is not the owner returns
\* from it at once.
LeaveListed(t) ==
  LET c == arg[t] IN
  /\ At(t, "x_leave")
  /\ cs' = [cs EXCEPT ![c].lockCount = 1, ![c].low = @ \/ Owns(t, c)]
  /\ Goto(t, IF Owns(t, c) THEN "l_test" ELSE "x_next")
  /\ UNCHANGED <<sched, th, arg, tgt, depth, budget>>

\* The thread leaves the processor for good and its handle stops resolving.
RemoveThread(t) ==
  /\ At(t, "x_buried")
  /\ sched' = BlockCurrent(sched)
  /\ Goto(t, "gone")
  /\ UNCHANGED <<cs, th, arg, tgt, depth, budget>>

-----------------------------------------------------------------------------
(* KillOneThread. *)

InUser(u)  == pc[u] \in UserMode /\ sched.rs[u] \in {"RUNNABLE", "BLOCKED"}
Waiting(u) == pc[u] \notin UserMode /\ sched.rs[u] = "BLOCKED"

\* Variant: a thread blocked in user mode is redirected but not woken.
TakenFromQueues(u) == Waiting(u) \/ (InUser(u) /\ sched.rs[u] = "RUNNABLE")

\* The thread leaves the queue or the wait it is in and is to be made runnable.
TakenOff(u) == Waiting(u) \/ InUser(u)

\* SetThreadToDie: a thread in user mode is sent to ExitThread, a thread blocked
\* there or on a critical section is taken off its wait, any other thread goes on
\* and exits when it returns to user mode.
SetThreadToDie(t, u) ==
  /\ At(t, "user") /\ <<t, u>> \in CanKill /\ Spend(t)
  /\ pc[u] # "gone" /\ ~th[u].dying /\ ~th[u].dead
  /\ th' = [th EXCEPT ![u] = [(IF Waiting(u) THEN Signalled(@) ELSE @) EXCEPT !.dying = TRUE]]
  /\ sched' = IF TakenOff(u) THEN [RunqDequeue(sched, u) EXCEPT !.rs[u] = "NEEDSRUN"] ELSE sched
  /\ pc' = [pc EXCEPT ![t] = IF TakenOff(u) THEN "k_boostrun" ELSE "k_boost",
                      ![u] = IF InUser(u) THEN "x_start" ELSE @]
  /\ depth' = IF InUser(u) THEN [depth EXCEPT ![u] = HoldsNothing] ELSE depth
  /\ tgt' = [tgt EXCEPT ![t] = u]
  /\ UNCHANGED <<cs, arg>>

\* SetThreadBasePrio: the dying thread exits at its killer's priority.
SetThreadBasePrio(t) ==
  LET u == tgt[t]
      prio == sched.cprio[t]
      sets == pc[u] # "gone" /\ th[u].bprio # prio
      return == ReturnToUser(t, {})
  IN
  /\ pc[t] \in KillSteps \ {"k_run"} /\ Runs(t)
  /\ th' = IF sets THEN [th EXCEPT ![u].bprio = prio] ELSE th
  /\ sched' = IF sets /\ prio < sched.cprio[u] THEN BoostCPrio(sched, u, prio) ELSE sched
  /\ IF pc[t] = "k_boostrun" THEN Goto(t, "k_run") /\ UNCHANGED <<arg, tgt, depth>>
     ELSE return
  /\ UNCHANGED <<cs, budget>>

KillRun(t) ==
  /\ At(t, "k_run")
  /\ sched' = IF pc[tgt[t]] = "gone" THEN sched ELSE MakeRunIfNeeded(sched, tgt[t])
  /\ ReturnToUser(t, {})
  /\ UNCHANGED <<cs, th, budget>>

-----------------------------------------------------------------------------
Enter(t) ==
  \/ \E c \in Crits : EnterAgain(t, c) \/ EnterFast(t, c) \/ EnterSlow(t, c)
  \/ EnterSetCount(t)

TakeCritSec(t) ==
  \/ AllocProxy(t) \/ AllocFails(t) \/ WaitConfig(t)
  \/ CSWaitPart1Abort(t) \/ CSWaitPart1Take(t) \/ CSWaitPart1Steal(t) \/ CSWaitPart1Pend(t)
  \/ LaterLinkCritMut(t) \/ PostBoostCrit1(t) \/ PostBoostCrit2(t)
  \/ CSWaitPart2Signalled(t) \/ CSWaitPart2Abort(t) \/ CSWaitPart2Block(t)
  \/ DequeuePrioProxy(t) \/ DoReprioCrit(t) \/ TakeRetry(t) \/ CritFinalBoost(t)

Leave(t) ==
  \/ \E c \in Crits : LeaveNested(t, c) \/ LeaveMark(t, c)
  \/ LeaveTest(t) \/ LeaveFree(t)

LeaveCritSec(t) ==
  \/ PreLeaveCrit(t) \/ LeaveCritFree(t) \/ LeaveCritStale(t) \/ LeaveCritHandOff(t)
  \/ LeaveCritRun(t) \/ PostUnlinkCritMut(t)

Exit(t) ==
  \/ ExitThread(t) \/ NKTerminateThread(t) \/ DoLeaveSomething(t) \/ LeaveListed(t)
  \/ RemoveThread(t)

Kill(t) == (\E u \in Threads : SetThreadToDie(t, u)) \/ SetThreadBasePrio(t) \/ KillRun(t)

ThreadStep(t) ==
  Enter(t) \/ TakeCritSec(t) \/ Leave(t) \/ LeaveCritSec(t) \/ Exit(t) \/ Kill(t)

\* Every thread has exited: the only state in which the system may rest.
AllGone == (\A t \in Threads : pc[t] = "gone") /\ UNCHANGED vars

Next ==
  \/ \E t \in Threads : ThreadStep(t) \/ Block(t) \/ Wake(t)
  \/ QuantumTick \/ KCNextThread \/ AllGone

Spec == Init /\ [][Next]_vars

\* The scheduler runs when it is asked to, the running thread executes (without
\* time slicing nothing but a better thread takes the processor from it), a
\* client that may leave or exit eventually does one of them, and an event a
\* thread blocks on is eventually set.
Fairness ==
  /\ WF_vars(KCNextThread)
  /\ \A t \in Threads : WF_vars(ThreadStep(t)) /\ WF_vars(Wake(t))

FairSpec == Spec /\ Fairness

-----------------------------------------------------------------------------
(* Safety. *)

\* A thread whose EnterCriticalSection calls returned more often than it called
\* LeaveCriticalSection is the owner in the CRITICAL_SECTION itself, with the
\* same count: neither a hand-off, a steal-back, an exit nor the race between
\* the |1 store and a taker may take it away.  Mutual exclusion follows.
EnteredIsOwner ==
  \A t \in Threads, c \in Crits :
    depth[t][c] > 0 => Owns(t, c) /\ cs[c].lockCount = depth[t][c]

\* t waits for c: its proxy is queued and has not been cancelled.
WaitsFor(t, c) == t \in ToSet(cs[c].proxList) /\ th[t].fresh

\* Whoever waits is seen by the owner's LeaveCriticalSection: the critical
\* section has a live owner and needtrap is set, so the fast path cannot free it
\* under the waiter.
WaiterIsSeen ==
  \A t \in Threads, c \in Crits :
    WaitsFor(t, c) => cs[c].needtrap /\ OwnerPth(c) # NoThread

\* SC_TakeCritSec frees its proxy on every way out: a queued proxy is that of a
\* thread still inside the call for this critical section.
QueuedProxyLives ==
  \A c \in Crits : \A t \in ToSet(cs[c].proxList) :
    pc[t] \in {"t_boost1", "t_boost2", "t_part2", "t_after"} /\ arg[t] = c

\* The DEBUGCHKs of CSWaitPart1 and LeaveCrit, at the KCall that evaluates them:
\* a taker finds no waiters, a stolen critical section was entered once, needtrap
\* is set whenever somebody is queued, and LeaveCrit is called by the owner, hands
\* over a critical section that is on no list and to a thread that was not handed
\* another one before it ran.
TakeChecks(t, c) ==
  /\ th[t].wait = "PROCESSING" /\ th[t].fresh
  /\ CanTake(c) => cs[c].proxList = << >> /\ cs[c].bListed # 1
  /\ CanSteal(t, c) => /\ cs[c].lockCount = 1 /\ cs[c].bListed # 1
                       /\ cs[c].proxList = << >> => ~cs[c].needtrap
  /\ cs[c].proxList # << >> => cs[c].needtrap

LeaveChecks(t, c) ==
  /\ Owns(t, c) /\ cs[c].lockCount = 1 /\ cs[c].bListed # 1
  /\ cs[c].proxList # << >> /\ th[Head(cs[c].proxList)].fresh =>
       th[Head(cs[c].proxList)].hLastCrit = NoCrit

DebugChecks ==
  \A t \in Threads :
    /\ pc[t] = "t_part1" => TakeChecks(t, arg[t]) \/ MustAbort(t)
    /\ pc[t] = "l_leave" => LeaveChecks(t, arg[t])

\* The scheduler's data stays consistent through boosts of queued threads, and
\* the best runnable thread runs.
RunQueueOK == RunListConsistent(sched) /\ BestThreadRuns(sched)

\* A critical section on an owned list is on its owner's, and the owner lives:
\* thread exit finds it there, and a boost of the listed waiter reaches the owner.
ListedWithOwner ==
  \A c \in Crits : cs[c].bListed = 1 => cs[c].linkedTo = OwnerPth(c) /\ cs[c].needtrap

\* Priority inheritance: once a waiter is blocked the owner is at least as good
\* as the waiter was when it asked.
PriorityInherited ==
  \A t \in Threads, c \in Crits :
    WaitsFor(t, c) /\ th[t].wait = "BLOCKED" =>
      sched.cprio[OwnerPth(c)] <= th[t].proxPrio

\* DEBUGCHK(pth) of PostBoostCrit1, PostBoostCrit2 and CSWaitPart2: a queued
\* waiter that is about to block finds the owner's THREAD.
OwnerResolves ==
  \A t \in Threads :
    pc[t] \in {"t_boost1", "t_boost2", "t_part2"} /\ th[t].wait = "PROCESSING" /\ ~MustAbort(t)
      => OwnerPth(arg[t]) # NoThread

\* "Check for leave without enter", DEBUGCHK(OwnerThread == hTh) of
\* LeaveCriticalSection, when an exiting thread leaves what its owned list names.
LeaveByOwner == \A t \in Threads : pc[t] = "x_leave" => Owns(t, arg[t])

-----------------------------------------------------------------------------
(* Action and temporal properties. *)

\* A critical section never passes to a thread while a better one waits for it,
\* whether it is handed off, stolen back, taken or entered by the fast path.  The
\* new owner runs at a priority at least as good as every waiter asked with; unless
\* it goes through CSWaitPart1, where a boost after AllocProxy counts, it also asked
\* with one.
NoOvertaking ==
  [][\A c \in Crits, t \in Threads :
       cs[c].owner # t /\ cs'[c].owner = t =>
         \A u \in Threads : WaitsFor(u, c)' =>
           /\ sched.cprio[t] <= th[u].proxPrio
           /\ pc[t] # "t_part1" => th[t].proxPrio <= th[u].proxPrio]_vars

\* The client sees a recursive lock: the counts of entries behave as those of the
\* abstract specification.
Lock == INSTANCE RecursiveLock WITH Locks <- Crits, entered <- depth

ImplementsLock == Lock!Spec

\* Every call of EnterCriticalSection that went into the kernel returns with the
\* critical section: no lost wake-up, no starvation by steal-back.
EveryWaiterEnters ==
  \A t \in Threads, c \in Crits :
    (pc[t] = "t_alloc" /\ arg[t] = c) ~> depth[t][c] > 0

\* A thread that was told to die leaves what it owns and is gone.
TerminationCompletes == \A t \in Threads : th[t].dying ~> pc[t] = "gone"
=============================================================================
