------------------------- MODULE CritSecWait_proofs -------------------------
(***************************************************************************)
(* The scheduler's data and the waiter queues of CritSec for every set of  *)
(* threads and critical sections.                                          *)
(*                                                                         *)
(* The run queue is consistent because every KCall composes operators that *)
(* keep it so, but each asks something of the state it is used in: a       *)
(* thread made runnable is not in the queue already.  A hand-off relies    *)
(* for that on the word bWaitState of the waiter, so the invariant ties    *)
(* the waiter's words, its place in the call and its run state together.   *)
(***************************************************************************)
EXTENDS CritSecMutex_proofs

\* What a thread's wait words say about where it is: a fresh proxy belongs to a
\* taker between the allocation and the end of its wait, whose state is
\* PROCESSING until it blocks and SIGNALLED once its proxy is used up; and a
\* thread is blocked only in its own code, in that wait, or for good.
ProxyOK(t) ==
  /\ th[t].fresh =>
       /\ pc[t] \in {"t_config", "t_part1", "t_boost1", "t_boost2", "t_part2", "t_after", "fault"}
       /\ th[t].hLastCrit = NoCrit
  /\ pc[t] \in {"t_config", "t_part1"} => th[t].fresh
  /\ pc[t] = "t_part1" => th[t].wait = "PROCESSING"
  /\ pc[t] \in {"t_boost1", "t_boost2", "t_part2"} =>
       th[t].wait = IF th[t].fresh THEN "PROCESSING" ELSE "SIGNALLED"
  /\ th[t].fresh /\ pc[t] = "t_after" => sched.rs[t] = "BLOCKED" /\ th[t].wait = "BLOCKED"
  /\ sched.rs[t] = "BLOCKED" => pc[t] \in {"user", "t_after", "gone"}

\* The waiters are queued by priority, once each, and whoever leaves sees them.
WaitersOK(c) ==
  /\ Stands(cs[c].proxList, ProxPrio, ToSet(cs[c].proxList))
  /\ cs[c].proxList # << >> => cs[c].needtrap /\ cs[c].owner # NoThread

\* A proxy stays queued while it is fresh and is out once it was dequeued; an
\* owner that leaves has one entry left, and hides c from the owned lists.
PlaceOK(t, c) ==
  /\ th[t].fresh /\ InCall(t, c, {"t_boost1", "t_boost2", "t_part2", "t_after"})
       => t \in ToSet(cs[c].proxList)
  /\ pc[t] = "t_reprio" => t \notin ToSet(cs[c].proxList)
  /\ InCall(t, c, {"l_test", "l_pre", "l_leave"}) /\ cs[c].owner = t => cs[c].lockCount = 1
  /\ InCall(t, c, {"l_leave"}) => cs[c].bListed = 2

WaitInv == /\ SchedOK(sched)
           /\ \A t \in Threads : ProxyOK(t)
           /\ \A c \in Crits : WaitersOK(c)
           /\ \A t \in Threads, c \in Crits : PlaceOK(t, c)

-----------------------------------------------------------------------------
(* What a step leaves alone. *)

\* The threads outside X stay where they are in their calls and waits.
ThreadsStay(X) ==
  \A t \in Threads \ X :
    /\ pc'[t] = pc[t] /\ arg'[t] = arg[t]
    /\ th'[t].fresh = th[t].fresh /\ th'[t].wait = th[t].wait
    /\ th'[t].proxPrio = th[t].proxPrio /\ th'[t].hLastCrit \in {th[t].hLastCrit, NoCrit}
    /\ sched'.rs[t] = "BLOCKED" <=> sched.rs[t] = "BLOCKED"

\* The queues stay, whoever leaves sees them, and the owners outside X have what
\* they had.
QueuesStay(X) ==
  \A c \in Crits :
    /\ cs'[c].proxList = cs[c].proxList
    /\ cs[c].proxList # << >> => cs'[c].needtrap /\ cs'[c].owner # NoThread
    /\ \A t \in Threads \ X :
         /\ cs'[c].owner = t => cs[c].owner = t /\ cs'[c].lockCount = cs[c].lockCount
         /\ InCall(t, c, {"l_leave"}) => cs'[c].bListed = cs[c].bListed

\* So the invariant is left to show for the threads of X.
LEMMA StayWait ==
  ASSUME TypeInv, WaitInv, NEW X \in SUBSET Threads, ThreadsStay(X), QueuesStay(X), SchedOK(sched'),
         \A t \in X, c \in Crits : t \in ToSet(cs[c].proxList) => th'[t].proxPrio = th[t].proxPrio,
         \A t \in X : ProxyOK(t)' /\ \A c \in Crits : PlaceOK(t, c)'
  PROVE  WaitInv'
<1>1. ASSUME NEW t \in Threads \ X
      PROVE  ProxyOK(t)'
  BY DEF WaitInv, ProxyOK, ThreadsStay
<1>2. ASSUME NEW t \in Threads \ X, NEW c \in Crits
      PROVE  PlaceOK(t, c)'
  BY DEF WaitInv, PlaceOK, ThreadsStay, QueuesStay, InCall
<1>3. ASSUME NEW c \in Crits
      PROVE  WaitersOK(c)'
  <2>1. Stands(cs[c].proxList, ProxPrio, ToSet(cs[c].proxList)) /\ cs[c].proxList \in Seq(Threads)
    BY DEF WaitInv, WaitersOK, TypeInv, TypeOK, CritType
  <2>2. ASSUME NEW u \in ToSet(cs[c].proxList)
        PROVE  ProxPrio'[u] = ProxPrio[u]
    <3>1. u \in Threads
      BY <2>1, Members
    <3> QED BY <3>1 DEF ProxPrio, ThreadsStay
  <2>3. Stands(cs[c].proxList, ProxPrio', ToSet(cs[c].proxList))
    BY <2>1, <2>2, StandsByPrio
  <2> QED BY <2>3 DEF WaitersOK, QueuesStay
<1> QED BY <1>1, <1>2, <1>3 DEF WaitInv

\* A thread outside the wait with its proxy used up.
Outside(t) ==
  /\ ~th[t].fresh /\ sched.rs[t] # "BLOCKED"
  /\ pc[t] \in PCs \ ({"t_config", "t_part1", "t_boost1", "t_boost2", "t_part2", "t_reprio"}
                      \union {"l_test", "l_pre", "l_leave"})

\* Of such a thread the invariant asks nothing.
LEMMA OutsideWait ==
  ASSUME NEW t, Outside(t)
  PROVE  ProxyOK(t) /\ \A c \in Crits : PlaceOK(t, c)
BY DEF Outside, ProxyOK, PlaceOK, InCall

\* What a step of the running thread finds.
LEMMA WaitActor ==
  ASSUME WaitInv, NEW s \in Threads, Runs(s)
  PROVE  /\ SchedOK(sched) /\ sched.running = s /\ sched.rs[s] = "RUNNING" /\ ~sched.resched
         /\ ProxyOK(s) /\ \A c \in Crits : PlaceOK(s, c) /\ WaitersOK(c)
         /\ th[s].fresh => pc[s] \in {"t_config", "t_part1", "t_boost1", "t_boost2", "t_part2"}
BY DEF WaitInv, Runs, SchedOK, RunningMarked, ProxyOK, NoFault

\* A step of s in which nothing but its place and the words of critical sections
\* changes, to a place outside the wait.
LEMMA UserStepWait ==
  ASSUME TypeInv, WaitInv, NEW s \in Threads, Runs(s), ~th[s].fresh,
         sched' = sched, th' = th, QueuesStay({s}),
         \A t \in Threads \ {s} : pc'[t] = pc[t] /\ arg'[t] = arg[t],
         pc'[s] \in PCs \ {"t_config", "t_part1", "t_boost1", "t_boost2", "t_part2", "t_reprio"},
         \A c \in Crits : /\ InCall(s, c, {"l_test", "l_pre", "l_leave"})' /\ cs'[c].owner = s
                               => cs'[c].lockCount = 1
                          /\ InCall(s, c, {"l_leave"})' => cs'[c].bListed = 2
  PROVE  WaitInv'
<1>1. SchedOK(sched') /\ sched'.rs[s] # "BLOCKED" /\ ~th'[s].fresh
  BY WaitActor
<1>2. ThreadsStay({s})
  BY DEF ThreadsStay
<1>3. ProxyOK(s)' /\ \A c \in Crits : PlaceOK(s, c)'
  BY <1>1 DEF ProxyOK, PlaceOK, InCall
<1> QED BY <1>1, <1>2, <1>3, StayWait

\* Entering in user mode touches no queue.
LEMMA EnterWait ==
  ASSUME TypeInv, MutexInv, WaitInv, NEW s \in Threads, Enter(s)
  PROVE  WaitInv'
<1>1. ASSUME NEW d \in Crits, EnterAgain(s, d)
      PROVE  WaitInv'
  <2>1. /\ Runs(s) /\ pc[s] = "user" /\ cs[d].owner = s /\ sched' = sched /\ th' = th /\ pc' = pc /\ arg' = arg
        /\ cs'[d].proxList = cs[d].proxList /\ cs'[d].needtrap = cs[d].needtrap
        /\ cs'[d].owner = s /\ cs'[d].bListed = cs[d].bListed
        /\ \A c \in Crits \ {d} : cs'[c] = cs[c]
    BY <1>1 DEF EnterAgain, At, Owns, TypeInv, TypeOK, CritType
  <2>2. QueuesStay({s})
    BY <2>1 DEF QueuesStay, WaitInv, WaitersOK
  <2> QED BY <2>1, <2>2, WaitActor, UserStepWait DEF InCall, PCs, UserMode
<1>2. ASSUME NEW d \in Crits, EnterFast(s, d)
      PROVE  WaitInv'
  <2>1. /\ Runs(s) /\ pc[s] = "user" /\ sched' = sched /\ th' = th /\ pc'[s] = "e_count"
        /\ \A t \in Threads \ {s} : pc'[t] = pc[t] /\ arg'[t] = arg[t]
        /\ cs'[d].proxList = cs[d].proxList /\ cs'[d].needtrap = cs[d].needtrap
        /\ cs'[d].owner = s /\ cs'[d].bListed = cs[d].bListed
        /\ \A c \in Crits \ {d} : cs'[c] = cs[c]
    BY <1>2 DEF EnterFast, At, Goto, TypeInv, TypeOK, CritType
  <2>2. QueuesStay({s})
    BY <2>1, NoThreadAssumption DEF QueuesStay, WaitInv, WaitersOK
  <2> QED BY <2>1, <2>2, WaitActor, UserStepWait DEF InCall, PCs, UserMode
<1>3. ASSUME NEW d \in Crits, EnterSlow(s, d)
      PROVE  WaitInv'
  <2>1. /\ Runs(s) /\ pc[s] = "user" /\ sched' = sched /\ th' = th /\ pc'[s] = "t_alloc" /\ cs' = cs
        /\ \A t \in Threads \ {s} : pc'[t] = pc[t] /\ arg'[t] = arg[t]
    BY <1>3 DEF EnterSlow, At, Goto, TypeInv, TypeOK
  <2>2. QueuesStay({s})
    BY <2>1 DEF QueuesStay, WaitInv, WaitersOK
  <2> QED BY <2>1, <2>2, WaitActor, UserStepWait DEF InCall, PCs, TakeSteps
<1>4. CASE EnterSetCount(s)
  <2>1. PICK d \in Crits : arg[s] = d
    BY <1>4 DEF EnterSetCount, At, TypeInv, ArgOK, ArgSteps
  <2>2. /\ Runs(s) /\ pc[s] = "e_count" /\ sched' = sched /\ th' = th /\ pc'[s] = "user"
        /\ \A t \in Threads \ {s} : pc'[t] = pc[t] /\ arg'[t] = arg[t]
        /\ cs'[d].proxList = cs[d].proxList /\ cs'[d].needtrap = cs[d].needtrap
        /\ cs'[d].owner = cs[d].owner /\ cs'[d].bListed = cs[d].bListed
        /\ \A c \in Crits \ {d} : cs'[c] = cs[c]
    BY <1>4, <2>1 DEF EnterSetCount, At, Goto, DropFrame, TypeInv, TypeOK, CritType
  <2>3. cs[d].owner = s
    BY <2>1, <2>2 DEF MutexInv, PairInv, CallerOK, InCall, Owns
  <2>4. QueuesStay({s})
    BY <2>2, <2>3 DEF QueuesStay, WaitInv, WaitersOK
  <2> QED BY <2>2, <2>4, WaitActor, UserStepWait DEF InCall, PCs, UserMode
<1> QED BY <1>1, <1>2, <1>3, <1>4 DEF Enter

\* Leaving in user mode: the exchange frees only what nobody waits for.
LEMMA LeaveWait ==
  ASSUME TypeInv, MutexInv, WaitInv, NEW s \in Threads, Leave(s)
  PROVE  WaitInv'
<1>1. ASSUME NEW d \in Crits, LeaveNested(s, d)
      PROVE  WaitInv'
  <2>1. /\ Runs(s) /\ pc[s] = "user" /\ cs[d].owner = s /\ sched' = sched /\ th' = th /\ pc' = pc /\ arg' = arg
        /\ cs'[d].proxList = cs[d].proxList /\ cs'[d].needtrap = cs[d].needtrap
        /\ cs'[d].owner = s /\ cs'[d].bListed = cs[d].bListed
        /\ \A c \in Crits \ {d} : cs'[c] = cs[c]
    BY <1>1 DEF LeaveNested, At, Owns, TypeInv, TypeOK, CritType
  <2>2. QueuesStay({s})
    BY <2>1 DEF QueuesStay, WaitInv, WaitersOK
  <2> QED BY <2>1, <2>2, WaitActor, UserStepWait DEF InCall, PCs, UserMode
<1>2. ASSUME NEW d \in Crits, LeaveMark(s, d)
      PROVE  WaitInv'
  <2>1. /\ Runs(s) /\ pc[s] = "user" /\ sched' = sched /\ th' = th /\ pc'[s] = "l_test" /\ arg'[s] = d
        /\ \A t \in Threads \ {s} : pc'[t] = pc[t] /\ arg'[t] = arg[t]
        /\ cs'[d].proxList = cs[d].proxList /\ cs'[d].needtrap = cs[d].needtrap
        /\ cs'[d].owner = cs[d].owner /\ cs'[d].bListed = cs[d].bListed
        /\ cs'[d].lockCount = cs[d].lockCount /\ cs[d].lockCount = 1
        /\ \A c \in Crits \ {d} : cs'[c] = cs[c]
    BY <1>2 DEF LeaveMark, At, Goto, TypeInv, TypeOK, CritType
  <2>2. QueuesStay({s})
    BY <2>1 DEF QueuesStay, WaitInv, WaitersOK
  <2> QED BY <2>1, <2>2, WaitActor, UserStepWait DEF InCall, PCs, UserMode
<1>3. CASE LeaveTest(s)
  <2>1. /\ Runs(s) /\ pc[s] = "l_test" /\ sched' = sched /\ th' = th /\ cs' = cs /\ arg' = arg
        /\ pc'[s] \in {"l_pre", "l_free"}
        /\ \A t \in Threads \ {s} : pc'[t] = pc[t]
    BY <1>3 DEF LeaveTest, At, Goto, TypeInv, TypeOK
  <2>2. QueuesStay({s})
    BY <2>1 DEF QueuesStay, WaitInv, WaitersOK
  <2>3. \A c \in Crits : InCall(s, c, {"l_pre"})' /\ cs[c].owner = s => cs[c].lockCount = 1
    BY <2>1, WaitActor DEF PlaceOK, InCall
  <2> QED BY <2>1, <2>2, <2>3, WaitActor, UserStepWait DEF InCall, PCs, UserMode, LeaveSteps
<1>4. CASE LeaveFree(s)
  <2>1. PICK d \in Crits : arg[s] = d
    BY <1>4 DEF LeaveFree, At, TypeInv, ArgOK, ArgSteps
  <2>2. /\ Runs(s) /\ pc[s] = "l_free" /\ sched' = sched /\ th' = th /\ pc'[s] \in {"user", "x_next"}
        /\ \A t \in Threads \ {s} : pc'[t] = pc[t] /\ arg'[t] = arg[t]
        /\ cs'[d] = ExchangeFree(cs[d], s) /\ \A c \in Crits \ {d} : cs'[c] = cs[c]
    BY <1>4, <2>1 DEF LeaveFree, At, Goto, DropFrame, TypeInv, TypeOK
  <2>3. /\ cs'[d].proxList = cs[d].proxList /\ cs'[d].needtrap = cs[d].needtrap
        /\ cs'[d].lockCount = cs[d].lockCount /\ cs'[d].bListed = cs[d].bListed
        /\ IF Leaving(s, d) THEN cs'[d].owner = NoThread ELSE cs'[d].owner = cs[d].owner
    BY <2>2 DEF ExchangeFree, Leaving, TypeInv, TypeOK, CritType
  <2>4. Leaving(s, d) => cs[d].proxList = << >>
    BY <2>1, <2>2, WaitActor DEF MutexInv, PairInv, MarkOK, InCall, WaitersOK
  <2>5. QueuesStay({s})
    BY <2>2, <2>3, <2>4, NoThreadAssumption DEF QueuesStay, WaitInv, WaitersOK
  <2> QED BY <2>2, <2>5, WaitActor, UserStepWait DEF InCall, PCs, UserMode, ExitSteps
<1> QED BY <1>1, <1>2, <1>3, <1>4 DEF Leave

-----------------------------------------------------------------------------
(* Exit and the client. *)

\* Exit changes no queue; the exit loop calls LeaveCriticalSection for one entry.
LEMMA ExitWait ==
  ASSUME TypeInv, MutexInv, WaitInv, NEW s \in Threads, Exit(s)
  PROVE  WaitInv'
<1>1. CASE ExitThread(s)
  <2>1. /\ Runs(s) /\ pc[s] = "user" /\ sched' = sched /\ th' = th /\ cs' = cs /\ arg' = arg
        /\ pc'[s] = "x_start" /\ \A t \in Threads \ {s} : pc'[t] = pc[t]
    BY <1>1 DEF ExitThread, At, Goto, TypeInv, TypeOK
  <2>2. QueuesStay({s})
    BY <2>1 DEF QueuesStay, WaitInv, WaitersOK
  <2> QED BY <2>1, <2>2, WaitActor, UserStepWait DEF InCall, PCs, ExitSteps
<1>2. CASE NKTerminateThread(s) \/ DoLeaveSomething(s)
  <2>1. /\ Runs(s) /\ pc[s] \in {"x_start", "x_next"} /\ sched' = sched /\ cs' = cs
        /\ pc'[s] \in {"x_next", "x_leave", "x_buried"}
        /\ \A t \in Threads \ {s} : pc'[t] = pc[t] /\ arg'[t] = arg[t] /\ th'[t] = th[t]
        /\ th'[s].fresh = th[s].fresh /\ th'[s].proxPrio = th[s].proxPrio
    BY <1>2 DEF NKTerminateThread, DoLeaveSomething, At, Goto, TypeInv, TypeOK, ThreadType
  <2>2. QueuesStay({s}) /\ ThreadsStay({s})
    BY <2>1 DEF QueuesStay, ThreadsStay, WaitInv, WaitersOK
  <2>3. Outside(s)'
    BY <2>1, WaitActor DEF Outside, PCs, ExitSteps
  <2>4. ProxyOK(s)' /\ \A c \in Crits : PlaceOK(s, c)'
    BY ONLY <2>3 DEF Outside, ProxyOK, PlaceOK, InCall
  <2> QED BY <2>1, <2>2, <2>4, WaitActor, StayWait
<1>3. CASE LeaveListed(s)
  <2>1. PICK d \in Crits : arg[s] = d
    BY <1>3 DEF LeaveListed, At, TypeInv, ArgOK, ArgSteps
  <2>2. /\ Runs(s) /\ pc[s] = "x_leave" /\ sched' = sched /\ th' = th /\ arg' = arg
        /\ pc'[s] = IF Owns(s, d) THEN "l_test" ELSE "x_next"
        /\ \A t \in Threads \ {s} : pc'[t] = pc[t]
        /\ cs'[d].proxList = cs[d].proxList /\ cs'[d].needtrap = cs[d].needtrap
        /\ cs'[d].owner = cs[d].owner /\ cs'[d].lockCount = 1 /\ cs'[d].bListed = cs[d].bListed
        /\ \A c \in Crits \ {d} : cs'[c] = cs[c]
    BY <1>3, <2>1 DEF LeaveListed, At, Goto, TypeInv, TypeOK, CritType
  <2>3. cs[d].owner = s
    BY <2>1, <2>2, NoThreadAssumption DEF MutexInv, PairInv, ListOK, InCall
  <2>4. QueuesStay({s})
    BY <2>2, <2>3 DEF QueuesStay, WaitInv, WaitersOK
  <2> QED BY <2>1, <2>2, <2>4, WaitActor, UserStepWait DEF InCall, PCs, UserMode, ExitSteps
<1>4. CASE RemoveThread(s)
  <2>1. /\ Runs(s) /\ pc[s] = "x_buried" /\ sched' = BlockCurrent(sched) /\ th' = th /\ cs' = cs
        /\ arg' = arg /\ pc'[s] = "gone" /\ \A t \in Threads \ {s} : pc'[t] = pc[t]
    BY <1>4 DEF RemoveThread, At, Goto, TypeInv, TypeOK
  <2>2. SchedOK(sched') /\ sched'.rs = [sched.rs EXCEPT ![s] = "BLOCKED"] /\ ~th[s].fresh
    BY <2>1, WaitActor, BlockCurrentOK
  <2>3. QueuesStay({s}) /\ ThreadsStay({s})
    BY <2>1, <2>2 DEF QueuesStay, ThreadsStay, WaitInv, WaitersOK, TypeInv, TypeOK, SchedType
  <2>4. ProxyOK(s)' /\ \A c \in Crits : PlaceOK(s, c)'
    BY <2>1, <2>2 DEF ProxyOK, PlaceOK, InCall
  <2> QED BY <2>1, <2>2, <2>3, <2>4, StayWait
<1> QED BY <1>1, <1>2, <1>3, <1>4 DEF Exit

\* The client blocks and is woken.
LEMMA ClientWait ==
  ASSUME TypeInv, MutexInv, WaitInv, NEW s \in Threads, Block(s) \/ Wake(s)
  PROVE  WaitInv'
<1>1. cs' = cs /\ th' = th /\ pc' = pc /\ arg' = arg /\ pc[s] = "user" /\ ProxyOK(s)
  BY DEF Block, Wake, At, WaitInv
<1>2. SchedOK(sched') /\ \A t \in Threads \ {s} : sched'.rs[t] = sched.rs[t]
  <2>1. CASE Block(s)
    <3>1. Runs(s) /\ sched' = BlockCurrent(sched)
      BY <2>1 DEF Block, At
    <3>2. SchedOK(sched') /\ sched'.rs = [sched.rs EXCEPT ![s] = "BLOCKED"]
      BY <3>1, WaitActor, BlockCurrentOK
    <3>3. sched.rs \in [Threads -> RunState]
      BY DEF TypeInv, TypeOK, SchedType
    <3> QED BY ONLY <3>2, <3>3
  <2>2. CASE Wake(s)
    <3>1. sched.rs[s] = "BLOCKED" /\ sched' = MakeRun(sched, s)
      BY <2>2 DEF Wake
    <3>2. /\ sched \in SchedType /\ QueueHolds(sched) /\ NoneBetter(sched) /\ RunningMarked(sched)
      BY DEF WaitInv, SchedOK
    <3>3. /\ sched.running # s
          /\ \A u \in Threads \ {s} : sched.rs[u] = "RUNNING" <=> sched.running = u
      BY <3>1, <3>2 DEF RunningMarked
    <3>4. SchedOK(MakeRun(sched, s))
      BY <3>1, <3>2, <3>3, MakeRunOK
    <3>5. MakeRun(sched, s).rs = [sched.rs EXCEPT ![s] = "RUNNABLE"]
      BY <3>2, MakeRunFields
    <3> QED BY <3>1, <3>2, <3>4, <3>5 DEF SchedType
  <2> QED BY <2>1, <2>2
<1>3. QueuesStay({s}) /\ ThreadsStay({s})
  BY <1>1, <1>2 DEF QueuesStay, ThreadsStay, WaitInv, WaitersOK
<1>4. ProxyOK(s)' /\ \A c \in Crits : PlaceOK(s, c)'
  BY <1>1 DEF ProxyOK, PlaceOK, InCall
<1> QED BY <1>1, <1>2, <1>3, <1>4, StayWait

-----------------------------------------------------------------------------
(* TakeCritSec. *)

\* A step of s that touches no critical section.
LEMMA OwnStepWait ==
  ASSUME TypeInv, WaitInv, NEW s \in Threads, cs' = cs, SchedOK(sched'),
         \A t \in Threads \ {s} :
           /\ pc'[t] = pc[t] /\ arg'[t] = arg[t] /\ th'[t] = th[t]
           /\ sched'.rs[t] = "BLOCKED" <=> sched.rs[t] = "BLOCKED",
         \A c \in Crits : s \in ToSet(cs[c].proxList) => th'[s].proxPrio = th[s].proxPrio,
         ProxyOK(s)', \A c \in Crits : PlaceOK(s, c)'
  PROVE  WaitInv'
<1>1. QueuesStay({s})
  BY DEF QueuesStay, WaitInv, WaitersOK
<1>2. ThreadsStay({s})
  BY DEF ThreadsStay
<1> QED BY <1>1, <1>2, StayWait

\* What a taker finds: it is in no queue but that of its call, and there only
\* from the moment it is queued.
LEMMA WaitTaker ==
  ASSUME TypeInv, MutexInv, WaitInv, NEW s \in Threads, Runs(s), pc[s] \in TakeSteps
  PROVE  /\ arg[s] \in Crits /\ th[s].hLastCrit = NoCrit
         /\ \A c \in Crits : s \in ToSet(cs[c].proxList) => arg[s] = c /\ pc[s] \in QueuedSteps
BY Taker DEF MutexInv, PairInv, WaitOK, InCall

\* The steps of SC_TakeCritSec that only move the thread on.
LEMMA TakeMovesWait ==
  ASSUME TypeInv, MutexInv, WaitInv, NEW s \in Threads,
         \/ AllocProxy(s) \/ AllocFails(s) \/ WaitConfig(s)
         \/ CSWaitPart2Signalled(s) \/ CSWaitPart2Abort(s) \/ TakeRetry(s)
  PROVE  WaitInv'
<1>1. /\ Runs(s) /\ pc[s] \in TakeSteps /\ cs' = cs /\ arg' = arg
      /\ \A t \in Threads \ {s} : pc'[t] = pc[t] /\ th'[t] = th[t]
  BY DEF AllocProxy, AllocFails, WaitConfig, CSWaitPart2Signalled, CSWaitPart2Abort,
         TakeRetry, At, Goto, TakeSteps, TypeInv, TypeOK
<1>2. /\ sched.running = s /\ sched.rs[s] = "RUNNING" /\ ProxyOK(s) /\ \A c \in Crits : PlaceOK(s, c)
      /\ th[s].fresh => pc[s] \in {"t_config", "t_part1", "t_boost1", "t_boost2", "t_part2"}
      /\ SchedOK(sched)
  BY <1>1, WaitActor
<1>3. /\ arg[s] \in Crits /\ th[s].hLastCrit = NoCrit
      /\ \A c \in Crits : s \in ToSet(cs[c].proxList) => arg[s] = c /\ pc[s] \in QueuedSteps
  BY <1>1, WaitTaker
<1>4. SchedOK(sched') /\ sched'.rs[s] # "BLOCKED"
      /\ \A t \in Threads \ {s} : sched'.rs[t] = sched.rs[t]
  <2>1. CASE AllocFails(s)
    <3>1. sched' = ThreadYield(sched) /\ s \in Threads
      BY <2>1 DEF AllocFails
    <3>2. SchedOK(sched') /\ sched'.rs = [sched.rs EXCEPT ![s] = "RUNNABLE"]
      BY <3>1, <1>2, ThreadYieldOK
    <3>3. sched.rs \in [Threads -> RunState]
      BY DEF TypeInv, TypeOK, SchedType
    <3> QED BY ONLY <3>2, <3>3, s \in Threads
  <2>2. CASE ~AllocFails(s)
    <3>1. sched' = sched
      BY <2>2 DEF AllocProxy, WaitConfig, CSWaitPart2Signalled, CSWaitPart2Abort, TakeRetry
    <3> QED BY <3>1, <1>2
  <2> QED BY <2>1, <2>2
<1>5. /\ ProxyOK(s)' /\ \A c \in Crits : PlaceOK(s, c)'
      /\ \A c \in Crits : s \in ToSet(cs[c].proxList) => th'[s].proxPrio = th[s].proxPrio
  <2>1. CASE AllocProxy(s)
    <3>1. pc[s] = "t_alloc" /\ pc'[s] = "t_config" /\ th'[s].fresh /\ th'[s].hLastCrit = th[s].hLastCrit
      BY <2>1 DEF AllocProxy, At, Goto, TypeInv, TypeOK, ThreadType
    <3> QED BY <3>1, <1>3, <1>4 DEF ProxyOK, PlaceOK, InCall, QueuedSteps
  <2>2. CASE AllocFails(s)
    <3>1. pc[s] = "t_alloc" /\ pc' = pc /\ th' = th
      BY <2>2 DEF AllocFails, At
    <3> QED BY <3>1, <1>2, <1>4 DEF ProxyOK, PlaceOK, InCall
  <2>3. CASE WaitConfig(s)
    <3>1. /\ pc[s] = "t_config" /\ pc'[s] = "t_part1" /\ th'[s].fresh = th[s].fresh /\ th'[s].wait = "PROCESSING"
          /\ th'[s].hLastCrit = th[s].hLastCrit
      BY <2>3 DEF WaitConfig, At, Goto, TypeInv, TypeOK, ThreadType
    <3> QED BY <3>1, <1>2, <1>3, <1>4 DEF ProxyOK, PlaceOK, InCall, QueuedSteps
  <2>4. CASE CSWaitPart2Signalled(s)
    <3>1. pc[s] = "t_part2" /\ pc'[s] = "t_after" /\ th' = th /\ th[s].wait = "SIGNALLED"
      BY <2>4 DEF CSWaitPart2Signalled, At, Goto, TypeInv, TypeOK
    <3> QED BY <3>1, <1>2, <1>4 DEF ProxyOK, PlaceOK, InCall
  <2>5. CASE CSWaitPart2Abort(s)
    <3>1. pc[s] = "t_part2" /\ pc'[s] = "t_after" /\ ~th'[s].fresh /\ th'[s].proxPrio = th[s].proxPrio
      BY <2>5 DEF CSWaitPart2Abort, Signalled, At, Goto, TypeInv, TypeOK, ThreadType
    <3> QED BY <3>1, <1>4 DEF ProxyOK, PlaceOK, InCall
  <2>6. CASE TakeRetry(s)
    <3>1. pc[s] = "t_after" /\ pc'[s] \in {"t_final", "t_alloc"} /\ th'[s].fresh = th[s].fresh
      BY <2>6 DEF TakeRetry, At, Goto, TypeInv, TypeOK, ThreadType
    <3>2. s \notin ToSet(cs[arg[s]].proxList)
      BY <2>6 DEF TakeRetry
    <3> QED BY <3>1, <3>2, <1>2, <1>3, <1>4 DEF ProxyOK, PlaceOK, InCall
  <2> QED BY <2>1, <2>2, <2>3, <2>4, <2>5, <2>6
<1> QED BY <1>1, <1>4, <1>5, OwnStepWait

\* A call that returns to the client is over.
LEMMA ReturnWait ==
  ASSUME TypeInv, NEW s \in Threads, NEW entered, ReturnToUser(s, entered),
         ~th'[s].fresh, sched'.rs[s] # "BLOCKED"
  PROVE  /\ ProxyOK(s)' /\ \A c \in Crits : PlaceOK(s, c)'
         /\ \A t \in Threads \ {s} : pc'[t] = pc[t] /\ arg'[t] = arg[t]
<1>1. /\ pc'[s] \in {"user", "x_next", "x_start"}
      /\ \A t \in Threads \ {s} : pc'[t] = pc[t] /\ arg'[t] = arg[t]
  BY ReturnEffect
<1> QED BY <1>1 DEF ProxyOK, PlaceOK, InCall

\* CSWaitPart1 for a waiter that is signalled already: its proxy is given up.
LEMMA AbortWait ==
  ASSUME TypeInv, MutexInv, WaitInv, NEW s \in Threads, CSWaitPart1Abort(s)
  PROVE  WaitInv'
<1>1. /\ Runs(s) /\ pc[s] = "t_part1" /\ cs' = cs /\ sched' = sched /\ ReturnToUser(s, {})
      /\ ~th'[s].fresh /\ th'[s].proxPrio = th[s].proxPrio /\ \A t \in Threads \ {s} : th'[t] = th[t]
  BY DEF CSWaitPart1Abort, At, Signalled, TypeInv, TypeOK, ThreadType
<1>2. SchedOK(sched) /\ sched.rs[s] # "BLOCKED"
  BY <1>1, WaitActor
<1>3. /\ ProxyOK(s)' /\ \A c \in Crits : PlaceOK(s, c)'
      /\ \A t \in Threads \ {s} : pc'[t] = pc[t] /\ arg'[t] = arg[t]
  BY <1>1, <1>2, ReturnWait
<1> QED BY <1>1, <1>2, <1>3, OwnStepWait

\* PostBoostCrit2 raises the owner, whatever state the owner is in.
LEMMA Boost2Wait ==
  ASSUME TypeInv, MutexInv, WaitInv, NEW s \in Threads, PostBoostCrit2(s)
  PROVE  WaitInv'
<1> DEFINE o == OwnerPth(arg[s])
           prio == HeadPrio(cs[arg[s]])
<1>1. /\ Runs(s) /\ pc[s] = "t_boost2" /\ pc[s] \in TakeSteps /\ cs' = cs /\ th' = th /\ arg' = arg
      /\ \A t \in Threads \ {s} : pc'[t] = pc[t]
      /\ pc'[s] \in {"t_part2", "fault"}
      /\ sched' = sched \/ (o # NoThread /\ prio < sched.cprio[o] /\ sched' = BoostCPrio(sched, o, prio))
  BY DEF PostBoostCrit2, Fault, At, Goto, TakeSteps, TypeInv, TypeOK
<1>2. SchedOK(sched) /\ ProxyOK(s) /\ (\A c \in Crits : PlaceOK(s, c)) /\ sched.rs[s] # "BLOCKED"
  BY <1>1, WaitActor
<1>3. arg[s] \in Crits /\ th[s].hLastCrit = NoCrit
  BY <1>1, WaitTaker
<1>4. SchedOK(sched') /\ sched'.rs = sched.rs
  <2>1. o \in Threads \union {NoThread} /\ prio \in Priority
    BY <1>3, OwnerPthType, HeadPrioType, TypeInvSplit DEF TypeInv, TypeOK
  <2> HIDE DEF o, prio
  <2> QED BY <1>1, <1>2, <2>1, BoostCPrioOK
<1>5. ProxyOK(s)' /\ \A c \in Crits : PlaceOK(s, c)'
  BY <1>1, <1>2, <1>3, <1>4 DEF ProxyOK, PlaceOK, InCall
<1> QED BY <1>1, <1>4, <1>5, OwnStepWait

\* Listing a critical section changes nothing the waiters rely on.
LEMMA ListEdit ==
  ASSUME NEW crit \in CritType, NEW o, NEW new,
         \/ new = crit
         \/ new = ReprioCritMut(crit, o)
         \/ crit.bListed = 0 /\ new = LinkCritMut(crit, o)
  PROVE  /\ new.owner = crit.owner /\ new.lockCount = crit.lockCount
         /\ new.needtrap = crit.needtrap /\ new.proxList = crit.proxList
         /\ crit.bListed = 2 => new.bListed = 2
<1>1. new = crit \/ (crit.bListed # 2 /\ new = DoLinkCritMut(crit, o))
  BY DEF ReprioCritMut, LinkCritMut
<1> QED BY <1>1, DoLinkEffect

\* A step of s in which at most the owned-list words of d change, and no queue.
LEMMA ListStepWait ==
  ASSUME TypeInv, WaitInv, NEW s \in Threads, NEW d \in Crits, NEW new, NEW o,
         \/ new = cs[d]
         \/ new = ReprioCritMut(cs[d], o)
         \/ cs[d].bListed = 0 /\ new = LinkCritMut(cs[d], o),
         cs' = [cs EXCEPT ![d] = new], SchedOK(sched'), ThreadsStay({s}),
         th'[s].proxPrio = th[s].proxPrio,
         ProxyOK(s)',
         (\A c \in Crits : cs'[c].proxList = cs[c].proxList) => \A c \in Crits : PlaceOK(s, c)'
  PROVE  WaitInv'
<1>1. cs[d] \in CritType /\ cs'[d] = new /\ \A c \in Crits \ {d} : cs'[c] = cs[c]
  BY DEF TypeInv, TypeOK
<1>2. /\ new.owner = cs[d].owner /\ new.lockCount = cs[d].lockCount
      /\ new.needtrap = cs[d].needtrap /\ new.proxList = cs[d].proxList
      /\ cs[d].bListed = 2 => new.bListed = 2
  BY <1>1, ListEdit
<1>3. \A t \in Threads : InCall(t, d, {"l_leave"}) => cs[d].bListed = 2
  BY DEF WaitInv, PlaceOK
<1>4. QueuesStay({s})
  BY <1>1, <1>2, <1>3 DEF QueuesStay, WaitInv, WaitersOK
<1>5. \A c \in Crits : cs'[c].proxList = cs[c].proxList
  BY <1>1, <1>2
<1> QED BY <1>4, <1>5, StayWait

\* The steps of SC_TakeCritSec that put the critical section on an owned list.
LEMMA TakeListsWait ==
  ASSUME TypeInv, MutexInv, WaitInv, NEW s \in Threads,
         LaterLinkCritMut(s) \/ PostBoostCrit1(s) \/ DoReprioCrit(s)
  PROVE  WaitInv'
<1>1. /\ Runs(s) /\ pc[s] \in TakeSteps /\ arg' = arg /\ sched' = sched /\ th' = th
      /\ \A t \in Threads \ {s} : pc'[t] = pc[t]
      /\ \/ pc[s] \in {"t_link", "t_reprio"} /\ pc'[s] = "t_after"
         \/ pc[s] = "t_boost1" /\ pc'[s] \in {"t_boost2", "fault"}
  BY DEF LaterLinkCritMut, PostBoostCrit1, DoReprioCrit, At, Fault, Goto, TakeSteps, TypeInv, TypeOK
<1>2. /\ SchedOK(sched) /\ ProxyOK(s) /\ (\A c \in Crits : PlaceOK(s, c)) /\ sched.rs[s] # "BLOCKED"
      /\ th[s].fresh => pc[s] \in {"t_config", "t_part1", "t_boost1", "t_boost2", "t_part2"}
  BY <1>1, WaitActor
<1>3. th[s].hLastCrit = NoCrit /\ arg[s] \in Crits
  BY <1>1, WaitTaker
<1>4. PICK d \in Crits : arg[s] = d
  BY <1>3
<1>5. PICK new, o : /\ \/ new = cs[d]
                       \/ new = ReprioCritMut(cs[d], o)
                       \/ cs[d].bListed = 0 /\ new = LinkCritMut(cs[d], o)
                    /\ cs' = [cs EXCEPT ![d] = new]
  <2>1. CASE LaterLinkCritMut(s)
    <3>1. cs' = [cs EXCEPT ![d] = IF cs[d].bListed = 0 /\ Owns(s, d) THEN LinkCritMut(cs[d], s) ELSE cs[d]]
      BY <2>1, <1>4 DEF LaterLinkCritMut, TypeInv, TypeOK
    <3> QED BY <3>1
  <2>2. CASE PostBoostCrit1(s) \/ DoReprioCrit(s)
    <3>1. cs' = cs \/ cs' = [cs EXCEPT ![d] = ReprioCritMut(cs[d], OwnerPth(d))]
      BY <2>2, <1>4 DEF PostBoostCrit1, DoReprioCrit, Fault, TypeInv, TypeOK
    <3>2. cs = [cs EXCEPT ![d] = cs[d]]
      BY DEF TypeInv, TypeOK
    <3> QED BY <3>1, <3>2
  <2> QED BY <1>1, <2>1, <2>2
<1>6. ThreadsStay({s})
  BY <1>1 DEF ThreadsStay
<1>7. ProxyOK(s)'
  BY <1>1, <1>2 DEF ProxyOK
<1>8. (\A c \in Crits : cs'[c].proxList = cs[c].proxList) => \A c \in Crits : PlaceOK(s, c)'
  BY <1>1, <1>2 DEF PlaceOK, InCall
<1> QED BY <1>1, <1>2, <1>5, <1>6, <1>7, <1>8, ListStepWait

\* The last look of a taker that became the owner.
LEMMA FinalBoostWait ==
  ASSUME TypeInv, MutexInv, WaitInv, NEW s \in Threads, CritFinalBoost(s)
  PROVE  WaitInv'
<1>1. Runs(s) /\ pc[s] = "t_final" /\ pc[s] \in TakeSteps /\ th' = th
  BY DEF CritFinalBoost, At, TakeSteps
<1>2. SchedOK(sched) /\ ~th[s].fresh /\ sched.rs[s] = "RUNNING"
  BY <1>1, WaitActor
<1>3. PICK d \in Crits : arg[s] = d
  BY <1>1, WaitTaker
<1>4. PICK new : /\ new = cs[d] \/ (cs[d].bListed = 0 /\ new = LinkCritMut(cs[d], s))
                 /\ cs' = [cs EXCEPT ![d] = new]
  <2>1. cs' = [cs EXCEPT ![d] = IF cs[d].bListed = 0 /\ cs[d].proxList # << >>
                                THEN LinkCritMut(cs[d], s) ELSE cs[d]]
    BY <1>3 DEF CritFinalBoost
  <2> QED BY <2>1
<1>5. SchedOK(sched') /\ sched'.rs = sched.rs
  <2> DEFINE prio == HeadPrio(cs[d])
  <2>1. \/ sched' = sched
        \/ prio < sched.cprio[s] /\ sched' = [sched EXCEPT !.cprio[s] = prio]
    BY <1>3 DEF CritFinalBoost
  <2>2. prio \in Priority
    BY HeadPrioType, TypeInvSplit DEF TypeInv, TypeOK
  <2> HIDE DEF prio
  <2>3. CASE sched' = sched
    BY <1>2, <2>3
  <2>4. CASE prio < sched.cprio[s] /\ sched' = [sched EXCEPT !.cprio[s] = prio]
    <3>1. SchedOK([sched EXCEPT !.cprio[s] = prio]) /\ [sched EXCEPT !.cprio[s] = prio].rs = sched.rs
      BY <1>2, <2>2, <2>4, RunningBoostOK
    <3> QED BY <2>4, <3>1
  <2> QED BY <2>1, <2>3, <2>4
<1>6. /\ ProxyOK(s)' /\ \A c \in Crits : PlaceOK(s, c)'
      /\ \A t \in Threads \ {s} : pc'[t] = pc[t] /\ arg'[t] = arg[t]
  <2>1. ReturnToUser(s, {d})
    BY <1>3 DEF CritFinalBoost
  <2> QED BY <1>1, <1>2, <1>5, <2>1, ReturnWait
<1>7. ThreadsStay({s})
  BY <1>1, <1>5, <1>6 DEF ThreadsStay
<1> QED BY <1>1, <1>4, <1>5, <1>6, <1>7, ListStepWait

\* CSWaitPart2 blocks a thread whose proxy is queued.
LEMMA BlockedWait ==
  ASSUME TypeInv, MutexInv, WaitInv, NEW s \in Threads, CSWaitPart2Block(s)
  PROVE  WaitInv'
<1>1. /\ Runs(s) /\ pc[s] = "t_part2" /\ pc[s] \in TakeSteps /\ arg' = arg
      /\ \A t \in Threads \ {s} : pc'[t] = pc[t]
      /\ th[s].wait # "SIGNALLED"
  BY DEF CSWaitPart2Block, Fault, At, Goto, TakeSteps, TypeInv, TypeOK
<1>2. /\ SchedOK(sched) /\ ProxyOK(s) /\ (\A c \in Crits : PlaceOK(s, c)) /\ sched.running = s
      /\ sched.rs[s] # "BLOCKED"
  BY <1>1, WaitActor
<1>3. PICK d \in Crits : arg[s] = d
  BY <1>1, WaitTaker
<1>4. th[s].fresh /\ s \in ToSet(cs[d].proxList) /\ th[s].hLastCrit = NoCrit
  BY <1>1, <1>2, <1>3, WaitTaker DEF ProxyOK, PlaceOK, InCall
<1> DEFINE o == OwnerPth(d)
<1>5. CASE cs[d].bListed = 0 /\ o = NoThread
  <2>1. sched' = sched /\ cs' = cs /\ th' = th /\ pc'[s] = "fault"
    BY <1>1, <1>3, <1>5 DEF CSWaitPart2Block, Fault, Goto, TypeInv, TypeOK
  <2>2. ProxyOK(s)' /\ \A c \in Crits : PlaceOK(s, c)'
    BY <1>1, <1>2, <1>4, <2>1 DEF ProxyOK, PlaceOK, InCall
  <2> QED BY <1>1, <1>2, <2>1, <2>2, OwnStepWait
<1>6. CASE ~(cs[d].bListed = 0 /\ o = NoThread)
  <2>1. /\ pc'[s] = "t_after" /\ sched' = BlockCurrent(sched)
        /\ \/ cs' = cs /\ th' = [th EXCEPT ![s].wait = "BLOCKED"]
           \/ /\ cs[d].bListed = 0 /\ cs' = [cs EXCEPT ![d] = LinkCritMut(cs[d], o)]
              /\ th' = [th EXCEPT ![o] = NotStealable(th[o]), ![s].wait = "BLOCKED"]
    BY <1>1, <1>3, <1>6 DEF CSWaitPart2Block, Goto, TypeInv, TypeOK
  <2>2. PICK new, q : /\ new = cs[d] \/ (cs[d].bListed = 0 /\ new = LinkCritMut(cs[d], q))
                      /\ cs' = [cs EXCEPT ![d] = new]
    <3>1. cs = [cs EXCEPT ![d] = cs[d]]
      BY DEF TypeInv, TypeOK
    <3> QED BY <2>1, <3>1
  <2>3. SchedOK(sched') /\ sched'.rs = [sched.rs EXCEPT ![s] = "BLOCKED"]
    BY <1>2, <2>1, BlockCurrentOK
  <2>4. sched'.rs[s] = "BLOCKED" /\ \A t \in Threads \ {s} : sched'.rs[t] = sched.rs[t]
    <3>1. sched.rs \in [Threads -> RunState]
      BY DEF TypeInv, TypeOK, SchedType
    <3> QED BY ONLY <2>3, <3>1, s \in Threads
  <2>5. /\ th'[s].fresh /\ th'[s].wait = "BLOCKED" /\ th'[s].proxPrio = th[s].proxPrio
        /\ th'[s].hLastCrit = NoCrit
        /\ \A t \in Threads \ {s} :
             /\ th'[t].fresh = th[t].fresh /\ th'[t].wait = th[t].wait
             /\ th'[t].proxPrio = th[t].proxPrio /\ th'[t].hLastCrit \in {th[t].hLastCrit, NoCrit}
    <3>1. th \in [Threads -> ThreadType]
      BY DEF TypeInv, TypeOK
    <3> HIDE DEF o
    <3>2. CASE th' = [th EXCEPT ![s].wait = "BLOCKED"]
      BY ONLY <1>4, <3>1, <3>2, s \in Threads DEF ThreadType
    <3>3. CASE th' = [th EXCEPT ![o] = NotStealable(th[o]), ![s].wait = "BLOCKED"]
      BY ONLY <1>4, <3>1, <3>3, s \in Threads DEF NotStealable, ThreadType
    <3> QED BY <2>1, <3>2, <3>3
  <2>6. ThreadsStay({s})
    BY <1>1, <2>4, <2>5 DEF ThreadsStay
  <2>7. ProxyOK(s)'
    BY <2>1, <2>4, <2>5 DEF ProxyOK
  <2>8. (\A c \in Crits : cs'[c].proxList = cs[c].proxList) => \A c \in Crits : PlaceOK(s, c)'
    BY <1>1, <1>3, <1>4, <2>1 DEF PlaceOK, InCall
  <2> QED BY <2>2, <2>3, <2>5, <2>6, <2>7, <2>8, ListStepWait
<1> QED BY <1>5, <1>6

\* A taker becomes the owner, of a critical section others may be queued for.
LEMMA TakenWait ==
  ASSUME TypeInv, MutexInv, WaitInv, NEW s \in Threads,
         CSWaitPart1Take(s) \/ CSWaitPart1Steal(s)
  PROVE  WaitInv'
<1>0. /\ Runs(s) /\ pc[s] = "t_part1" /\ pc[s] \in TakeSteps /\ arg' = arg /\ sched' = sched
      /\ th' = [th EXCEPT ![s] = Signalled(th[s])]
      /\ Goto(s, "t_link") \/ Goto(s, "t_after")
  BY DEF CSWaitPart1Take, CSWaitPart1Steal, At, TakeSteps
<1>1. /\ Runs(s) /\ pc[s] = "t_part1" /\ pc[s] \in TakeSteps /\ arg' = arg /\ sched' = sched
      /\ \A t \in Threads \ {s} : pc'[t] = pc[t] /\ th'[t] = th[t]
      /\ pc'[s] \in {"t_link", "t_after"}
      /\ ~th'[s].fresh /\ th'[s].proxPrio = th[s].proxPrio
  BY <1>0 DEF Signalled, Goto, TypeInv, TypeOK, ThreadType
<1>2. PICK d \in Crits : arg[s] = d
  BY <1>1, WaitTaker
<1>3. SchedOK(sched) /\ sched.rs[s] # "BLOCKED"
  BY <1>1, WaitActor
<1>4. /\ cs'[d].proxList = cs[d].proxList /\ cs'[d].owner = s /\ cs'[d].bListed = cs[d].bListed
      /\ cs[d].needtrap => cs'[d].needtrap
      /\ \A c \in Crits \ {d} : cs'[c] = cs[c]
  <2>1. cs[d] \in CritType /\ cs \in [Crits -> CritType]
    BY DEF TypeInv, TypeOK
  <2>2. CASE CSWaitPart1Take(s)
    <3>1. cs' = [cs EXCEPT ![d].owner = s, ![d].low = FALSE, ![d].lockCount = 1]
      BY <1>2, <2>2 DEF CSWaitPart1Take
    <3> QED BY ONLY <2>1, <3>1, d \in Crits DEF CritType
  <2>3. CASE CSWaitPart1Steal(s)
    <3>1. PICK w \in BOOLEAN : cs' = [cs EXCEPT ![d].owner = s, ![d].low = FALSE,
                                              ![d].needtrap = @ \/ w]
      BY <1>2, <2>3 DEF CSWaitPart1Steal
    <3> QED BY ONLY <2>1, <3>1, d \in Crits DEF CritType
  <2> QED BY <2>2, <2>3
<1>5. QueuesStay({s}) /\ ThreadsStay({s})
  BY <1>1, <1>4, NoThreadAssumption DEF QueuesStay, ThreadsStay, WaitInv, WaitersOK
<1>6. ProxyOK(s)' /\ \A c \in Crits : PlaceOK(s, c)'
  BY <1>1, <1>3 DEF ProxyOK, PlaceOK, InCall
<1> QED BY <1>1, <1>3, <1>5, <1>6, StayWait

-----------------------------------------------------------------------------
(* Steps that change the queue of d. *)

\* Every thread outside X is queued for d when it was.
QueueChanges(X, d) ==
  /\ \A c \in Crits \ {d} : cs'[c] = cs[c]
  /\ \A t \in Threads \ X :
       /\ t \in ToSet(cs'[d].proxList) <=> t \in ToSet(cs[d].proxList)
       /\ cs'[d].owner = t => cs[d].owner = t /\ cs'[d].lockCount = cs[d].lockCount
       /\ InCall(t, d, {"l_leave"}) => cs'[d].bListed = cs[d].bListed

\* When the queue of d changes, the invariant is left to show for d and the threads of X.
LEMMA ChangeWait ==
  ASSUME TypeInv, WaitInv, NEW X \in SUBSET Threads, NEW d \in Crits,
         ThreadsStay(X), QueueChanges(X, d), SchedOK(sched'), WaitersOK(d)',
         \A t \in X : th'[t].proxPrio = th[t].proxPrio,
         \A t \in X : ProxyOK(t)' /\ \A c \in Crits : PlaceOK(t, c)'
  PROVE  WaitInv'
<1>1. ASSUME NEW t \in Threads \ X
      PROVE  ProxyOK(t)'
  BY DEF WaitInv, ProxyOK, ThreadsStay
<1>2. ASSUME NEW t \in Threads \ X, NEW c \in Crits
      PROVE  PlaceOK(t, c)'
  <2>1. CASE c = d
    BY <2>1 DEF WaitInv, PlaceOK, ThreadsStay, QueueChanges, InCall
  <2>2. CASE c # d
    BY <2>2 DEF WaitInv, PlaceOK, ThreadsStay, QueueChanges, InCall
  <2> QED BY <2>1, <2>2
<1>3. ASSUME NEW c \in Crits \ {d}
      PROVE  WaitersOK(c)'
  <2>1. Stands(cs[c].proxList, ProxPrio, ToSet(cs[c].proxList)) /\ cs[c].proxList \in Seq(Threads)
    BY DEF WaitInv, WaitersOK, TypeInv, TypeOK, CritType
  <2>2. ASSUME NEW u \in ToSet(cs[c].proxList)
        PROVE  ProxPrio'[u] = ProxPrio[u]
    <3>1. u \in Threads
      BY <2>1, Members
    <3> QED BY <3>1 DEF ProxPrio, ThreadsStay
  <2>3. Stands(cs[c].proxList, ProxPrio', ToSet(cs[c].proxList))
    BY <2>1, <2>2, StandsByPrio
  <2> QED BY <2>3 DEF WaitersOK, QueueChanges, WaitInv
<1> QED BY <1>1, <1>2, <1>3 DEF WaitInv

\* The queue of d in terms of the lemmas on queues, before a step that leaves the
\* priorities of the proxies alone.
LEMMA WaiterQueue ==
  ASSUME TypeInv, WaitInv, NEW d \in Crits
  PROVE  /\ cs[d].proxList \in Seq(Threads) /\ ProxPrio \in Priorities
         /\ Stands(cs[d].proxList, ProxPrio, ToSet(cs[d].proxList))
         /\ ToSet(cs[d].proxList) \subseteq Threads
<1>1. cs[d].proxList \in Seq(Threads)
  BY DEF TypeInv, TypeOK, CritType
<1>2. ProxPrio \in Priorities
  BY DEF TypeInv, TypeOK, ThreadType, ProxPrio, Priorities
<1>3. Stands(cs[d].proxList, ProxPrio, ToSet(cs[d].proxList))
  BY DEF WaitInv, WaitersOK
<1>4. ToSet(cs[d].proxList) \subseteq Threads
  BY <1>1, Members
<1> QED BY <1>1, <1>2, <1>3, <1>4

\* CSWaitPart1 queues the thread behind its equals.
LEMMA PendWait ==
  ASSUME TypeInv, MutexInv, WaitInv, NEW s \in Threads, CSWaitPart1Pend(s)
  PROVE  WaitInv'
<1>1. /\ Runs(s) /\ pc[s] = "t_part1" /\ pc[s] \in TakeSteps /\ arg' = arg /\ sched' = sched /\ th' = th
      /\ \A t \in Threads \ {s} : pc'[t] = pc[t]
      /\ pc'[s] \in {"t_boost1", "t_part2"}
  BY DEF CSWaitPart1Pend, At, Goto, TakeSteps, TypeInv, TypeOK
<1>2. PICK d \in Crits : arg[s] = d
  BY <1>1, WaitTaker
<1>3. SchedOK(sched) /\ sched.rs[s] # "BLOCKED" /\ ProxyOK(s) /\ (\A c \in Crits : PlaceOK(s, c))
  BY <1>1, WaitActor
<1>4. s \notin ToSet(cs[d].proxList) /\ th[s].hLastCrit = NoCrit
  BY <1>1, WaitTaker DEF QueuedSteps
<1>5. /\ cs'[d].proxList = InsertBehind(cs[d].proxList, ProxPrio, s) /\ cs'[d].needtrap
      /\ cs'[d].owner = cs[d].owner /\ cs'[d].bListed = cs[d].bListed
      /\ cs'[d].lockCount = cs[d].lockCount
      /\ \A c \in Crits \ {d} : cs'[c] = cs[c]
  BY <1>2 DEF CSWaitPart1Pend, TypeInv, TypeOK, CritType
<1>6. cs[d].owner # NoThread
  BY <1>2 DEF CSWaitPart1Pend, CanTake
<1>7. Stands(cs'[d].proxList, ProxPrio, ToSet(cs[d].proxList) \union {s})
  BY <1>4, <1>5, WaiterQueue, InsertionStands
<1>8. ToSet(cs'[d].proxList) = ToSet(cs[d].proxList) \union {s}
  BY <1>7 DEF Stands
<1>9. WaitersOK(d)'
  BY <1>1, <1>5, <1>6, <1>7, <1>8 DEF WaitersOK, ProxPrio
<1>10. QueueChanges({s}, d) /\ ThreadsStay({s})
  BY <1>1, <1>5, <1>8 DEF QueueChanges, ThreadsStay
<1>11. ProxyOK(s)' /\ \A c \in Crits : PlaceOK(s, c)'
  BY <1>1, <1>2, <1>3, <1>8 DEF ProxyOK, PlaceOK, InCall
<1> QED BY <1>1, <1>3, <1>9, <1>10, <1>11, ChangeWait

\* A proxy is taken out after the wait.
LEMMA DequeueWait ==
  ASSUME TypeInv, MutexInv, WaitInv, NEW s \in Threads, DequeuePrioProxy(s)
  PROVE  WaitInv'
<1>1. /\ Runs(s) /\ pc[s] = "t_after" /\ pc[s] \in TakeSteps /\ arg' = arg /\ sched' = sched /\ th' = th
      /\ \A t \in Threads \ {s} : pc'[t] = pc[t]
      /\ pc'[s] \in {"t_reprio", "t_after"}
  BY DEF DequeuePrioProxy, At, Goto, TakeSteps, TypeInv, TypeOK
<1>2. PICK d \in Crits : arg[s] = d
  BY <1>1, WaitTaker
<1>3. SchedOK(sched) /\ sched.rs[s] # "BLOCKED" /\ ~th[s].fresh
  BY <1>1, WaitActor
<1>4. \A c \in Crits : s \in ToSet(cs[c].proxList) => c = d
  BY <1>1, <1>2, WaitTaker
<1>5. /\ cs'[d].proxList = Without(cs[d].proxList, s) /\ cs'[d].needtrap = cs[d].needtrap
      /\ cs'[d].owner = cs[d].owner /\ cs'[d].bListed = cs[d].bListed
      /\ cs'[d].lockCount = cs[d].lockCount
      /\ \A c \in Crits \ {d} : cs'[c] = cs[c]
      /\ s \in ToSet(cs[d].proxList)
  BY <1>2 DEF DequeuePrioProxy, TypeInv, TypeOK, CritType
<1>6. cs[d].needtrap /\ cs[d].owner # NoThread
  <2>1. cs[d].proxList # << >>
    BY <1>5, WaiterQueue, Members
  <2> QED BY <2>1 DEF WaitInv, WaitersOK
<1>7. Stands(cs'[d].proxList, ProxPrio, ToSet(cs[d].proxList) \ {s})
  BY <1>5, WaiterQueue, WithoutStands
<1>8. ToSet(cs'[d].proxList) = ToSet(cs[d].proxList) \ {s}
  BY <1>7 DEF Stands
<1>9. WaitersOK(d)'
  BY <1>1, <1>5, <1>6, <1>7, <1>8 DEF WaitersOK, ProxPrio
<1>10. QueueChanges({s}, d) /\ ThreadsStay({s})
  BY <1>1, <1>5, <1>8 DEF QueueChanges, ThreadsStay
<1>11. ProxyOK(s)' /\ \A c \in Crits : PlaceOK(s, c)'
  BY <1>1, <1>3, <1>4, <1>5, <1>8 DEF ProxyOK, PlaceOK, InCall
<1> QED BY <1>1, <1>3, <1>9, <1>10, <1>11, ChangeWait

\* Every step of SC_TakeCritSec.
LEMMA TakeWait ==
  ASSUME TypeInv, MutexInv, WaitInv, NEW s \in Threads, TakeCritSec(s)
  PROVE  WaitInv'
BY TakeMovesWait, AbortWait, Boost2Wait, TakeListsWait, FinalBoostWait, BlockedWait, TakenWait,
   PendWait, DequeueWait DEF TakeCritSec

-----------------------------------------------------------------------------
(* LeaveCritSec. *)

\* The thread that leaves in the kernel is the owner, so nobody else is there.
LEMMA WaitLeaver ==
  ASSUME TypeInv, MutexInv, WaitInv, NEW s \in Threads, Runs(s), pc[s] \in {"l_pre", "l_leave"}
  PROVE  /\ arg[s] \in Crits
         /\ pc[s] = "l_leave" => cs[arg[s]].owner = s
         /\ cs[arg[s]].owner = s => \A t \in Threads \ {s} : ~InCall(t, arg[s], {"l_leave"})
<1>1. arg[s] \in Crits
  BY DEF TypeInv, ArgOK, ArgSteps, LeaveSteps
<1>2. \A t \in Threads : InCall(t, arg[s], {"l_leave"}) => cs[arg[s]].owner = t
  BY <1>1 DEF MutexInv, PairInv, CallerOK, Owns, InCall
<1> QED BY <1>1, <1>2 DEF InCall

\* PreLeaveCrit unlinks the critical section when its caller is the last owner.
LEMMA PreLeaveWait ==
  ASSUME TypeInv, MutexInv, WaitInv, NEW s \in Threads, PreLeaveCrit(s)
  PROVE  WaitInv'
<1>1. Runs(s) /\ pc[s] = "l_pre" /\ sched' = sched
  BY DEF PreLeaveCrit, At
<1>2. PICK d \in Crits : arg[s] = d
  BY <1>1, WaitLeaver
<1>3. /\ SchedOK(sched) /\ sched.rs[s] # "BLOCKED" /\ ~th[s].fresh
      /\ cs[d].owner = s => cs[d].lockCount = 1
  BY <1>1, <1>2, WaitActor DEF PlaceOK, InCall
<1>4. CASE Leaving(s, d)
  <2>1. /\ cs' = [cs EXCEPT ![d] = [UnlinkCritMut(cs[d]) EXCEPT !.low = FALSE, !.bListed = 2]]
        /\ th' = [th EXCEPT ![s].noPrioCalc = TRUE] /\ Goto(s, "l_leave") /\ arg' = arg
    BY <1>2, <1>4 DEF PreLeaveCrit
  <2>2. /\ cs'[d].proxList = cs[d].proxList /\ cs'[d].needtrap = cs[d].needtrap
        /\ cs'[d].owner = cs[d].owner /\ cs'[d].lockCount = cs[d].lockCount
        /\ cs'[d].bListed = 2 /\ \A c \in Crits \ {d} : cs'[c] = cs[c]
    BY <2>1 DEF UnlinkCritMut, TypeInv, TypeOK, CritType
  <2>3. /\ \A t \in Threads \ {s} : pc'[t] = pc[t] /\ th'[t] = th[t]
        /\ pc'[s] = "l_leave" /\ ~th'[s].fresh /\ th'[s].proxPrio = th[s].proxPrio
    BY <1>3, <2>1 DEF Goto, TypeInv, TypeOK, ThreadType
  <2>4. cs[d].owner = s
    BY <1>4 DEF Leaving
  <2>5. QueuesStay({s})
    BY <1>1, <1>2, <2>2, <2>4, WaitLeaver DEF QueuesStay, WaitInv, WaitersOK, InCall
  <2>6. ThreadsStay({s})
    BY <1>1, <2>1, <2>3 DEF ThreadsStay
  <2>7. ProxyOK(s)' /\ \A c \in Crits : PlaceOK(s, c)'
    BY <1>1, <1>2, <1>3, <2>1, <2>2, <2>3 DEF ProxyOK, PlaceOK, InCall
  <2> QED BY <1>1, <1>3, <2>3, <2>5, <2>6, <2>7, StayWait
<1>5. CASE ~Leaving(s, d)
  <2>1. ReturnToUser(s, {}) /\ cs' = cs /\ th' = th
    BY <1>2, <1>5 DEF PreLeaveCrit
  <2>2. /\ ProxyOK(s)' /\ \A c \in Crits : PlaceOK(s, c)'
        /\ \A t \in Threads \ {s} : pc'[t] = pc[t] /\ arg'[t] = arg[t]
    BY <1>1, <1>3, <2>1, ReturnWait
  <2> QED BY <1>1, <1>3, <2>1, <2>2, OwnStepWait
<1> QED BY <1>4, <1>5

\* LeaveCrit finds nobody queued and frees the word.
LEMMA FreeWait ==
  ASSUME TypeInv, MutexInv, WaitInv, NEW s \in Threads, LeaveCritFree(s)
  PROVE  WaitInv'
<1>1. /\ Runs(s) /\ pc[s] = "l_leave" /\ sched' = sched /\ th' = th /\ arg' = arg
      /\ pc'[s] = "l_post" /\ \A t \in Threads \ {s} : pc'[t] = pc[t]
  BY DEF LeaveCritFree, At, Goto, TypeInv, TypeOK
<1>2. PICK d \in Crits : arg[s] = d
  BY <1>1, WaitLeaver
<1>3. SchedOK(sched) /\ sched.rs[s] # "BLOCKED" /\ ~th[s].fresh
  BY <1>1, WaitActor
<1>4. /\ cs[d].proxList = << >> /\ cs'[d].proxList = << >> /\ cs'[d].owner = NoThread
      /\ \A c \in Crits \ {d} : cs'[c] = cs[c]
  BY <1>2 DEF LeaveCritFree, TypeInv, TypeOK, CritType
<1>5. QueuesStay({s})
  BY <1>1, <1>2, <1>4, WaitLeaver, NoThreadAssumption DEF QueuesStay, WaitInv, WaitersOK, InCall
<1>6. ThreadsStay({s})
  BY <1>1 DEF ThreadsStay
<1>7. ProxyOK(s)' /\ \A c \in Crits : PlaceOK(s, c)'
  BY <1>1, <1>3 DEF ProxyOK, PlaceOK, InCall
<1> QED BY <1>1, <1>3, <1>5, <1>6, <1>7, StayWait

\* The first waiter goes.
LEMMA FirstWaiter ==
  ASSUME TypeInv, MutexInv, WaitInv, NEW d \in Crits, cs[d].proxList # << >>,
         NEW u, u = Head(cs[d].proxList)
  PROVE  /\ u \in Threads /\ u \in ToSet(cs[d].proxList) /\ InCall(u, d, QueuedSteps)
         /\ cs[d].needtrap /\ cs[d].owner # NoThread
         /\ Stands(Tail(cs[d].proxList), ProxPrio, ToSet(cs[d].proxList) \ {u})
         /\ ToSet(Tail(cs[d].proxList)) = ToSet(cs[d].proxList) \ {u}
<1>1. /\ u \in ToSet(cs[d].proxList) /\ u \in Threads
      /\ Stands(Tail(cs[d].proxList), ProxPrio, ToSet(cs[d].proxList) \ {u})
  BY WaiterQueue, HeadStands
<1>2. InCall(u, d, QueuedSteps)
  BY <1>1 DEF MutexInv, PairInv, WaitOK
<1>3. cs[d].needtrap /\ cs[d].owner # NoThread
  BY DEF WaitInv, WaitersOK
<1> QED BY <1>1, <1>2, <1>3 DEF Stands

\* LeaveCrit drops a proxy whose wait is over.
LEMMA StaleWait ==
  ASSUME TypeInv, MutexInv, WaitInv, NEW s \in Threads, LeaveCritStale(s)
  PROVE  WaitInv'
<1>1. /\ Runs(s) /\ pc[s] = "l_leave" /\ sched' = sched /\ th' = th /\ arg' = arg /\ pc' = pc
  BY DEF LeaveCritStale, At
<1>2. PICK d \in Crits : arg[s] = d
  BY <1>1, WaitLeaver
<1> DEFINE u == Head(cs[d].proxList)
<1>3. SchedOK(sched) /\ \A t \in Threads : ProxyOK(t) /\ \A c \in Crits : PlaceOK(t, c)
  BY DEF WaitInv
<1>4. /\ cs[d].proxList # << >> /\ ~th[u].fresh /\ cs'[d].proxList = Tail(cs[d].proxList)
      /\ cs'[d].owner = cs[d].owner /\ cs'[d].needtrap = cs[d].needtrap
      /\ cs'[d].lockCount = cs[d].lockCount /\ cs'[d].bListed = cs[d].bListed
      /\ \A c \in Crits \ {d} : cs'[c] = cs[c]
  BY <1>2 DEF LeaveCritStale, TypeInv, TypeOK, CritType
<1> HIDE DEF u
<1>5. /\ u \in Threads /\ u \in ToSet(cs[d].proxList) /\ cs[d].needtrap /\ cs[d].owner # NoThread
      /\ Stands(cs'[d].proxList, ProxPrio, ToSet(cs[d].proxList) \ {u})
      /\ ToSet(cs'[d].proxList) = ToSet(cs[d].proxList) \ {u}
  BY <1>4, FirstWaiter DEF u
<1>6. WaitersOK(d)'
  BY <1>1, <1>4, <1>5 DEF WaitersOK, ProxPrio
<1>7. QueueChanges({s, u}, d) /\ ThreadsStay({s, u})
  BY <1>1, <1>4, <1>5 DEF QueueChanges, ThreadsStay
<1>8. \A t \in {s, u} : ProxyOK(t)'
  BY <1>1, <1>3, <1>5 DEF ProxyOK
<1>9. \A t \in {s, u}, c \in Crits : PlaceOK(t, c)'
  <2>1. ~th[s].fresh
    BY <1>1, WaitActor
  <2>2. ASSUME NEW t \in {s, u}, NEW c \in Crits
        PROVE  PlaceOK(t, c)'
    <3>1. PlaceOK(t, c) /\ ~th[t].fresh
      BY <1>3, <1>4, <1>5, <2>1
    <3>2. CASE c = d
      BY <1>1, <1>4, <1>5, <3>1, <3>2 DEF PlaceOK, InCall
    <3>3. CASE c # d
      BY <1>1, <1>4, <3>1, <3>3 DEF PlaceOK, InCall
    <3> QED BY <3>2, <3>3
  <2> QED BY <2>2
<1> QED BY <1>1, <1>3, <1>5, <1>6, <1>7, <1>8, <1>9, ChangeWait

\* The hand-off: the new owner's wait is over, and a thread whose wait word says
\* blocked is blocked.
LEMMA HandOffWait ==
  ASSUME TypeInv, MutexInv, WaitInv, NEW s \in Threads, LeaveCritHandOff(s)
  PROVE  WaitInv'
<1>1. Runs(s) /\ pc[s] = "l_leave" /\ arg' = arg
  BY DEF LeaveCritHandOff, At
<1>2. PICK d \in Crits : arg[s] = d
  BY <1>1, WaitLeaver
<1>3. PICK u : u = Head(cs[d].proxList)
  OBVIOUS
<1> DEFINE blocked == th[u].wait = "BLOCKED"
<1>4. /\ cs[d].proxList # << >> /\ th[u].fresh /\ cs' = [cs EXCEPT ![d] = HandOver(cs[d])]
      /\ th' = [th EXCEPT ![u].fresh = FALSE, ![u].hLastCrit = d,
                          ![u].wait = IF blocked THEN @ ELSE "SIGNALLED"]
      /\ sched' = IF blocked THEN [sched EXCEPT !.rs[u] = "NEEDSRUN"] ELSE sched
      /\ Goto(s, "l_run") \/ Goto(s, "l_post")
  BY <1>2, <1>3 DEF LeaveCritHandOff
<1>5. /\ u \in Threads /\ u \in ToSet(cs[d].proxList) /\ InCall(u, d, QueuedSteps)
      /\ cs[d].needtrap
      /\ Stands(Tail(cs[d].proxList), ProxPrio, ToSet(cs[d].proxList) \ {u})
      /\ ToSet(Tail(cs[d].proxList)) = ToSet(cs[d].proxList) \ {u}
  BY <1>3, <1>4, FirstWaiter
<1>6. /\ SchedOK(sched) /\ ProxyOK(u) /\ ~th[s].fresh /\ sched.rs[s] = "RUNNING" /\ pc[u] # "fault"
  BY <1>1, <1>5, WaitActor DEF WaitInv, Runs, NoFault
<1>7. u # s /\ cs[d].owner = s /\ \A t \in Threads \ {s} : ~InCall(t, d, {"l_leave"})
  BY <1>1, <1>2, <1>4, <1>6, WaitLeaver
<1>8. /\ pc[u] \in {"t_boost1", "t_boost2", "t_part2", "t_after"}
      /\ blocked => pc[u] = "t_after" /\ sched.rs[u] = "BLOCKED"
      /\ ~blocked => pc[u] # "t_after" /\ sched.rs[u] # "BLOCKED"
  BY <1>4, <1>5, <1>6 DEF ProxyOK, InCall, QueuedSteps
<1>9. /\ SchedOK(sched') /\ sched'.rs[u] # "BLOCKED"
      /\ \A t \in Threads \ {u} : sched'.rs[t] = sched.rs[t]
  <2>1. sched.rs \in [Threads -> RunState]
    BY DEF TypeInv, TypeOK, SchedType
  <2>2. CASE blocked
    <3>1. sched' = [sched EXCEPT !.rs[u] = "NEEDSRUN"]
      BY <1>4, <2>2
    <3>2. SchedOK(sched') /\ sched'.rs = [sched.rs EXCEPT ![u] = "NEEDSRUN"]
      BY <1>5, <1>6, <1>8, <2>2, <3>1, WaitOverOK
    <3> QED BY ONLY <1>5, <2>1, <3>2
  <2>3. CASE ~blocked
    BY <1>4, <1>6, <1>8, <2>3
  <2> QED BY <2>2, <2>3
<1>10. /\ pc'[s] \in {"l_run", "l_post"} /\ \A t \in Threads \ {s} : pc'[t] = pc[t]
  BY <1>4 DEF Goto, TypeInv, TypeOK
<1>11. /\ ~th'[u].fresh /\ th'[u].proxPrio = th[u].proxPrio
       /\ ~blocked => th'[u].wait = "SIGNALLED"
       /\ \A t \in Threads \ {u} : th'[t] = th[t]
  <2>1. th \in [Threads -> ThreadType]
    BY DEF TypeInv, TypeOK
  <2>2. PICK w : /\ th' = [th EXCEPT ![u].fresh = FALSE, ![u].hLastCrit = d, ![u].wait = w]
                 /\ ~blocked => w = "SIGNALLED"
    BY <1>4
  <2> HIDE DEF blocked
  <2> QED BY ONLY <1>5, <2>1, <2>2 DEF ThreadType
<1>12. /\ cs'[d].proxList = Tail(cs[d].proxList) /\ cs'[d].owner = u
       /\ cs'[d].proxList # << >> => cs'[d].needtrap
       /\ \A c \in Crits \ {d} : cs'[c] = cs[c]
  BY <1>3, <1>4, <1>5 DEF HandOver, TypeInv, TypeOK, CritType
<1> HIDE DEF blocked
<1>13. WaitersOK(d)'
  <2>1. ASSUME NEW v \in ToSet(cs[d].proxList) \ {u}
        PROVE  ProxPrio'[v] = ProxPrio[v]
    BY <1>11, WaiterQueue DEF ProxPrio
  <2>2. Tail(cs[d].proxList) \in Seq(Threads)
    BY <1>4, WaiterQueue, HeadTailProperties
  <2>3. Stands(Tail(cs[d].proxList), ProxPrio', ToSet(cs[d].proxList) \ {u})
    BY <1>5, <2>1, <2>2, StandsByPrio
  <2> QED BY <1>5, <1>12, <2>3, NoThreadAssumption DEF WaitersOK
<1>14. QueueChanges({s, u}, d)
  BY <1>5, <1>7, <1>12 DEF QueueChanges
<1>15. ThreadsStay({s, u})
  BY <1>1, <1>9, <1>10, <1>11 DEF ThreadsStay
<1>16. ProxyOK(s)' /\ \A c \in Crits : PlaceOK(s, c)'
  BY <1>6, <1>7, <1>9, <1>10, <1>11 DEF ProxyOK, PlaceOK, InCall
<1>17. ProxyOK(u)' /\ \A c \in Crits : PlaceOK(u, c)'
  <2>1. pc'[u] = pc[u]
    BY <1>5, <1>7, <1>10
  <2>2. pc[u] # "t_after" => th'[u].wait = "SIGNALLED"
    BY <1>8, <1>11
  <2> QED BY <1>8, <1>9, <1>11, <2>1, <2>2 DEF ProxyOK, PlaceOK, InCall
<1> QED BY <1>5, <1>7, <1>9, <1>11, <1>13, <1>14, <1>15, <1>16, <1>17, ChangeWait

\* The KCalls after a hand-off.
LEMMA PostLeaveWait ==
  ASSUME TypeInv, MutexInv, WaitInv, NEW s \in Threads, LeaveCritRun(s) \/ PostUnlinkCritMut(s)
  PROVE  WaitInv'
<1>1. Runs(s) /\ pc[s] \in {"l_run", "l_post"} /\ cs' = cs
  BY DEF LeaveCritRun, PostUnlinkCritMut, At
<1>2. SchedOK(sched) /\ sched.running = s /\ sched.rs[s] = "RUNNING" /\ ~sched.resched /\ ~th[s].fresh
  BY <1>1, WaitActor
<1>3. CASE LeaveCritRun(s)
  <2>1. /\ th' = th /\ arg' = arg /\ pc'[s] = "l_post" /\ \A t \in Threads \ {s} : pc'[t] = pc[t]
        /\ sched' = sched \/ sched' = MakeRunIfNeeded(sched, tgt[s])
    BY <1>3 DEF LeaveCritRun, Goto, TypeInv, TypeOK
  <2>2. tgt[s] \in Threads
    BY <1>3 DEF LeaveCritRun, At, TypeInv, TgtOK, TgtSteps
  <2>3. /\ SchedOK(sched')
        /\ sched'.rs = sched.rs \/ (sched.rs[tgt[s]] = "NEEDSRUN"
                                    /\ sched'.rs = [sched.rs EXCEPT ![tgt[s]] = "RUNNABLE"])
    BY <1>2, <2>1, <2>2, MakeRunIfNeededOK
  <2>4. sched.rs \in [Threads -> RunState]
    BY DEF TypeInv, TypeOK, SchedType
  <2>5. \A t \in Threads : sched'.rs[t] = "BLOCKED" <=> sched.rs[t] = "BLOCKED"
    BY ONLY <2>2, <2>3, <2>4
  <2>6. ProxyOK(s)' /\ \A c \in Crits : PlaceOK(s, c)'
    BY <1>2, <2>1, <2>5 DEF ProxyOK, PlaceOK, InCall
  <2> QED BY <1>1, <2>1, <2>3, <2>5, <2>6, OwnStepWait
<1>4. CASE PostUnlinkCritMut(s)
  <2> DEFINE prio == PrioFrom(s, OwnedList(s))
  <2>1. /\ th' = [th EXCEPT ![s].noPrioCalc = FALSE] /\ ReturnToUser(s, {})
        /\ sched' = sched \/ sched' = SetRunningPrio(sched, prio)
    BY <1>4 DEF PostUnlinkCritMut
  <2>2. /\ ~th'[s].fresh /\ th'[s].proxPrio = th[s].proxPrio /\ \A t \in Threads \ {s} : th'[t] = th[t]
    BY <1>2, <2>1 DEF TypeInv, TypeOK, ThreadType
  <2>3. prio \in Priority
    BY PrioFromType, TypeInvSplit
  <2> HIDE DEF prio
  <2>4. /\ sched \in SchedType /\ QueueHolds(sched) /\ RunningMarked(sched)
        /\ \A u \in Runnable(sched) : sched.cprio[sched.running] <= sched.cprio[u]
    BY <1>2, NoThreadAssumption DEF SchedOK, NoneBetter
  <2>5. SchedOK(SetRunningPrio(sched, prio)) /\ SetRunningPrio(sched, prio).rs = sched.rs
    BY <1>2, <2>3, <2>4, SetRunningPrioOK
  <2>6. SchedOK(sched') /\ sched'.rs = sched.rs
    BY <1>2, <2>1, <2>5
  <2>7. /\ ProxyOK(s)' /\ \A c \in Crits : PlaceOK(s, c)'
        /\ \A t \in Threads \ {s} : pc'[t] = pc[t] /\ arg'[t] = arg[t]
    BY <1>2, <2>1, <2>2, <2>6, ReturnWait
  <2> QED BY <1>1, <2>2, <2>6, <2>7, OwnStepWait
<1> QED BY <1>3, <1>4

\* Every step of SC_LeaveCritSec.
LEMMA LeaveCritWait ==
  ASSUME TypeInv, MutexInv, WaitInv, NEW s \in Threads, LeaveCritSec(s)
  PROVE  WaitInv'
BY PreLeaveWait, FreeWait, StaleWait, HandOffWait, PostLeaveWait DEF LeaveCritSec

-----------------------------------------------------------------------------
(* Termination of another thread, and the scheduler. *)

\* SetThreadToDie: whoever is taken off its wait is no longer in one.
LEMMA DieWait ==
  ASSUME TypeInv, MutexInv, WaitInv, NEW s \in Threads, NEW u \in Threads, SetThreadToDie(s, u)
  PROVE  WaitInv'
<1>1. /\ Runs(s) /\ pc[s] = "user" /\ u # s /\ pc[u] # "gone" /\ cs' = cs /\ arg' = arg
  BY KillAssumption DEF SetThreadToDie, At
<1>2. /\ SchedOK(sched) /\ ProxyOK(u) /\ ~th[s].fresh /\ sched.rs[s] = "RUNNING"
      /\ \A c \in Crits : PlaceOK(u, c)
  BY <1>1, WaitActor DEF WaitInv
<1>3. /\ pc'[s] \in {"k_boost", "k_boostrun"} /\ pc'[u] = IF InUser(u) THEN "x_start" ELSE pc[u]
      /\ \A t \in Threads \ {s, u} : pc'[t] = pc[t]
  BY <1>1 DEF SetThreadToDie, TypeInv, TypeOK
<1>4. /\ \A t \in Threads \ {u} : th'[t] = th[t]
      /\ th'[u].proxPrio = th[u].proxPrio /\ th'[u].hLastCrit = th[u].hLastCrit
      /\ IF Waiting(u) THEN ~th'[u].fresh
         ELSE th'[u].fresh = th[u].fresh /\ th'[u].wait = th[u].wait
  <2>1. th \in [Threads -> ThreadType]
    BY DEF TypeInv, TypeOK
  <2>2. CASE Waiting(u)
    <3>1. th' = [th EXCEPT ![u] = [Signalled(th[u]) EXCEPT !.dying = TRUE]]
      BY <2>2 DEF SetThreadToDie
    <3> QED BY <2>1, <2>2, <3>1 DEF Signalled, ThreadType
  <2>3. CASE ~Waiting(u)
    <3>1. th' = [th EXCEPT ![u] = [th[u] EXCEPT !.dying = TRUE]]
      BY <2>3 DEF SetThreadToDie
    <3> QED BY <2>1, <2>3, <3>1 DEF ThreadType
  <2> QED BY <2>2, <2>3
<1>5. /\ SchedOK(sched') /\ \A t \in Threads \ {u} : sched'.rs[t] = sched.rs[t]
      /\ IF TakenOff(u) THEN sched'.rs[u] = "NEEDSRUN" ELSE sched'.rs[u] = sched.rs[u]
  <2>1. sched.rs \in [Threads -> RunState]
    BY DEF TypeInv, TypeOK, SchedType
  <2>2. CASE TakenOff(u)
    <3>1. sched' = [RunqDequeue(sched, u) EXCEPT !.rs[u] = "NEEDSRUN"]
      BY <2>2 DEF SetThreadToDie
    <3>2. sched.rs[u] \in {"RUNNABLE", "BLOCKED"}
      BY <2>2 DEF TakenOff, Waiting, InUser
    <3>3. SchedOK(sched') /\ sched'.rs = [sched.rs EXCEPT ![u] = "NEEDSRUN"]
      BY <1>2, <3>1, <3>2, TakenOffOK
    <3> QED BY <2>1, <2>2, <3>3
  <2>3. CASE ~TakenOff(u)
    <3>1. sched' = sched
      BY <2>3 DEF SetThreadToDie
    <3> QED BY <1>2, <2>3, <3>1
  <2> QED BY <2>2, <2>3
<1>6. QueuesStay({s, u})
  BY <1>1 DEF QueuesStay, WaitInv, WaitersOK
<1>7. ThreadsStay({s, u})
  BY <1>1, <1>3, <1>4, <1>5 DEF ThreadsStay
<1>8. ProxyOK(s)' /\ \A c \in Crits : PlaceOK(s, c)'
  BY <1>1, <1>2, <1>3, <1>4, <1>5 DEF ProxyOK, PlaceOK, InCall
<1>9. ProxyOK(u)' /\ \A c \in Crits : PlaceOK(u, c)'
  <2>1. CASE InUser(u)
    <3>1. pc'[u] = "x_start" /\ ~th'[u].fresh /\ sched'.rs[u] # "BLOCKED"
      <4>1. ~th[u].fresh
        BY <1>2, <2>1 DEF InUser, UserMode, ProxyOK
      <4> QED BY <1>3, <1>4, <1>5, <2>1, <4>1 DEF TakenOff
    <3> QED BY <3>1 DEF ProxyOK, PlaceOK, InCall
  <2>2. CASE Waiting(u)
    <3>1. pc[u] = "t_after"
      BY <1>1, <1>2, <2>2 DEF Waiting, UserMode, ProxyOK
    <3>2. pc'[u] = "t_after" /\ ~th'[u].fresh /\ sched'.rs[u] # "BLOCKED"
      BY <1>3, <1>4, <1>5, <2>2, <3>1 DEF TakenOff, InUser, UserMode
    <3> QED BY <3>2 DEF ProxyOK, PlaceOK, InCall
  <2>3. CASE ~InUser(u) /\ ~Waiting(u)
    <3>1. /\ pc'[u] = pc[u] /\ th'[u].fresh = th[u].fresh /\ th'[u].wait = th[u].wait
          /\ th'[u].hLastCrit = th[u].hLastCrit
          /\ sched'.rs[u] = sched.rs[u]
      BY <1>3, <1>4, <1>5, <2>3 DEF TakenOff
    <3> QED BY <1>1, <1>2, <3>1 DEF ProxyOK, PlaceOK, InCall
  <2> QED BY <2>1, <2>2, <2>3
<1> QED BY <1>4, <1>5, <1>6, <1>7, <1>8, <1>9, StayWait

\* The KCalls after it raise the dying thread and make it run.
LEMMA PostKillWait ==
  ASSUME TypeInv, MutexInv, WaitInv, NEW s \in Threads, SetThreadBasePrio(s) \/ KillRun(s)
  PROVE  WaitInv'
<1>1. /\ Runs(s) /\ pc[s] \in KillSteps /\ cs' = cs
      /\ (Goto(s, "k_run") /\ arg' = arg) \/ ReturnToUser(s, {})
  BY DEF SetThreadBasePrio, KillRun, At, KillSteps
<1>2. SchedOK(sched) /\ sched.rs[s] = "RUNNING" /\ ~th[s].fresh
  BY <1>1, WaitActor DEF KillSteps
<1>3. tgt[s] \in Threads
  BY <1>1 DEF TypeInv, TgtOK, TgtSteps
<1> DEFINE u == tgt[s]
<1>4. SchedOK(sched') /\ \A t \in Threads : sched'.rs[t] = "BLOCKED" <=> sched.rs[t] = "BLOCKED"
  <2>1. CASE SetThreadBasePrio(s)
    <3>1. \/ sched' = sched
          \/ /\ sched.cprio[s] < sched.cprio[u]
             /\ sched' = BoostCPrio(sched, u, sched.cprio[s])
      BY <2>1 DEF SetThreadBasePrio
    <3>2. sched.cprio[s] \in Priority
      BY DEF TypeInv, TypeOK, SchedType
    <3> QED BY <1>2, <1>3, <3>1, <3>2, BoostCPrioOK
  <2>2. CASE KillRun(s)
    <3>1. sched' = sched \/ sched' = MakeRunIfNeeded(sched, u)
      BY <2>2 DEF KillRun
    <3>2. /\ SchedOK(sched')
          /\ sched'.rs = sched.rs \/ (sched.rs[u] = "NEEDSRUN"
                                      /\ sched'.rs = [sched.rs EXCEPT ![u] = "RUNNABLE"])
      BY <1>2, <1>3, <3>1, MakeRunIfNeededOK
    <3>3. sched.rs \in [Threads -> RunState]
      BY DEF TypeInv, TypeOK, SchedType
    <3> QED BY ONLY <1>3, <3>2, <3>3
  <2> QED BY <2>1, <2>2
<1>5. \A t \in Threads :
        /\ th'[t].fresh = th[t].fresh /\ th'[t].wait = th[t].wait
        /\ th'[t].proxPrio = th[t].proxPrio /\ th'[t].hLastCrit = th[t].hLastCrit
  <2>1. th' = th \/ th' = [th EXCEPT ![u].bprio = sched.cprio[s]]
    BY DEF SetThreadBasePrio, KillRun
  <2> QED BY <1>3, <2>1 DEF TypeInv, TypeOK, ThreadType
<1>6. /\ \A t \in Threads \ {s} : pc'[t] = pc[t] /\ arg'[t] = arg[t]
      /\ ProxyOK(s)' /\ \A c \in Crits : PlaceOK(s, c)'
  <2>1. CASE ReturnToUser(s, {})
    BY <1>2, <1>4, <1>5, <2>1, ReturnWait
  <2>2. CASE Goto(s, "k_run") /\ arg' = arg
    <3>1. pc'[s] = "k_run" /\ \A t \in Threads \ {s} : pc'[t] = pc[t]
      BY <2>2 DEF Goto, TypeInv, TypeOK
    <3> QED BY <1>2, <1>4, <1>5, <2>2, <3>1 DEF ProxyOK, PlaceOK, InCall
  <2> QED BY <1>1, <2>1, <2>2
<1>7. QueuesStay({s}) /\ ThreadsStay({s})
  BY <1>1, <1>4, <1>5, <1>6 DEF QueuesStay, ThreadsStay, WaitInv, WaitersOK
<1> QED BY <1>4, <1>5, <1>6, <1>7, StayWait

\* Steps of nobody: the timer interrupt, KCNextThread.
LEMMA NobodyWait ==
  ASSUME TypeInv, WaitInv, cs' = cs, pc' = pc, arg' = arg, SchedOK(sched'),
         \A t \in Threads :
           /\ th'[t].fresh = th[t].fresh /\ th'[t].wait = th[t].wait
           /\ th'[t].proxPrio = th[t].proxPrio /\ th'[t].hLastCrit \in {th[t].hLastCrit, NoCrit}
           /\ sched'.rs[t] = "BLOCKED" <=> sched.rs[t] = "BLOCKED"
  PROVE  WaitInv'
<1>1. QueuesStay({}) /\ ThreadsStay({})
  BY DEF QueuesStay, ThreadsStay, WaitInv, WaitersOK
<1> QED BY <1>1, StayWait

\* The dispatcher, which blocks nobody and ends no wait.
LEMMA NextThreadWait ==
  ASSUME TypeInv, MutexInv, WaitInv, KCNextThread
  PROVE  WaitInv'
<1> DEFINE clear == [sched EXCEPT !.resched = FALSE]
           prioCalc == [t \in Threads |-> IF th[t].noPrioCalc THEN sched.cprio[t]
                                          ELSE PrioFrom(t, OwnedList(t))]
<1>1. PICK back :
        /\ \E b \in BOOLEAN : back = PutBackCurrent(clear, b)
        /\ IF Dispatches(back)
           THEN /\ sched' = Dispatch(back, prioCalc)
                /\ th' = [th EXCEPT ![Head(back.runq)] = NotStealable(@)]
           ELSE sched' = back /\ th' = th
  BY BoundAssumption DEF KCNextThread
<1>2. cs' = cs /\ pc' = pc /\ arg' = arg
  BY DEF KCNextThread
<1>3. /\ sched \in SchedType /\ QueueHolds(sched) /\ RunningMarked(sched)
      /\ sched.rs \in [Threads -> RunState]
  BY DEF WaitInv, SchedOK, SchedType
<1>4. /\ clear \in SchedType /\ ~clear.resched /\ QueueHolds(clear) /\ RunningMarked(clear)
      /\ clear.rs = sched.rs
  BY <1>3 DEF SchedType, QueueHolds, RunningMarked, Runnable
<1>5. prioCalc \in Priorities
  BY PrioFromType, PrioritiesType, TypeInvSplit DEF Priorities
<1> HIDE DEF clear, prioCalc
<1>6. /\ back \in SchedType /\ QueueHolds(back) /\ RunningMarked(back)
      /\ back.running # NoThread \/ back.runq = << >> => NoneBetter(back)
      /\ \/ back.rs = sched.rs
         \/ /\ clear.running \in Threads
            /\ back.rs = [sched.rs EXCEPT ![clear.running] = "RUNNABLE"]
  BY <1>1, <1>4, PutBackCurrentOK
<1>7. clear.running \in Threads => sched.rs[clear.running] = "RUNNING"
  BY <1>4 DEF RunningMarked
<1>8. \A t \in Threads : back.rs[t] = "BLOCKED" <=> sched.rs[t] = "BLOCKED"
  BY ONLY <1>3, <1>6, <1>7
<1>9. CASE Dispatches(back)
  <2>1. /\ SchedOK(sched') /\ Head(back.runq) \in Threads /\ back.rs[Head(back.runq)] = "RUNNABLE"
        /\ sched'.rs = [back.rs EXCEPT ![Head(back.runq)] = "RUNNING"]
    BY <1>1, <1>5, <1>6, <1>9, DispatchOK
  <2>2. back.rs \in [Threads -> RunState]
    BY <1>6 DEF SchedType
  <2>3. \A t \in Threads : sched'.rs[t] = "BLOCKED" <=> back.rs[t] = "BLOCKED"
    BY ONLY <2>1, <2>2
  <2>4. th' = [th EXCEPT ![Head(back.runq)] = NotStealable(@)]
    BY <1>1, <1>9
  <2>5. \A t \in Threads :
          /\ th'[t].fresh = th[t].fresh /\ th'[t].wait = th[t].wait
          /\ th'[t].proxPrio = th[t].proxPrio /\ th'[t].hLastCrit \in {th[t].hLastCrit, NoCrit}
    BY <2>1, <2>4 DEF NotStealable, TypeInv, TypeOK, ThreadType
  <2> QED BY <1>2, <1>8, <2>1, <2>3, <2>5, NobodyWait
<1>10. CASE ~Dispatches(back)
  <2>1. sched' = back /\ th' = th
    BY <1>1, <1>10
  <2>2. SchedOK(back)
    BY <1>6, <1>10 DEF Dispatches, SchedOK
  <2> QED BY <1>2, <1>8, <2>1, <2>2, NobodyWait
<1> QED BY <1>9, <1>10

\* The end of a quantum only asks for a reschedule.
LEMMA TickWait ==
  ASSUME TypeInv, MutexInv, WaitInv, QuantumTick \/ AllGone \/ UNCHANGED vars
  PROVE  WaitInv'
<1>1. cs' = cs /\ pc' = pc /\ arg' = arg /\ th' = th /\ sched' \in {sched, SetReschedule(sched)}
  BY DEF QuantumTick, AllGone, vars
<1>2. SchedOK(sched') /\ sched'.rs = sched.rs
  BY <1>1, SetRescheduleOK DEF WaitInv
<1> QED BY <1>1, <1>2, NobodyWait

-----------------------------------------------------------------------------
(* The invariant, and what it says of the scheduler. *)

\* Initially the queues are empty and one thread runs.
LEMMA WaitInit ==
  ASSUME Init
  PROVE  WaitInv
<1>1. /\ sched.runq = << >> /\ sched.running = NoThread /\ ~sched.resched
      /\ \A t \in Threads : /\ sched.rs[t] = "BLOCKED" /\ pc[t] = "user" /\ ~th[t].fresh
      /\ \A c \in Crits : cs[c].proxList = << >>
      /\ sched \in SchedType
  BY TypeInit DEF Init, TypeInv, TypeOK
<1>2. ToSet(<< >>) = {} /\ Runnable(sched) = {}
  <2>1. ToSet(<< >>) = {}
    BY DEF ToSet
  <2> QED BY <1>1, <2>1 DEF Runnable
<1>3. ASSUME NEW prio
      PROVE  Stands(<< >>, prio, {})
  BY <1>2 DEF Stands, SortedBy, NoDuplicates
<1>4. SchedOK(sched)
  BY <1>1, <1>2, <1>3, NoThreadAssumption DEF SchedOK, QueueHolds, RunningMarked, NoneBetter
<1>5. \A t \in Threads : ProxyOK(t)
  BY <1>1 DEF ProxyOK
<1>6. \A t \in Threads, c \in Crits : PlaceOK(t, c)
  BY <1>1 DEF PlaceOK, InCall
<1>7. \A c \in Crits : WaitersOK(c)
  BY <1>1, <1>2, <1>3 DEF WaitersOK
<1> QED BY <1>4, <1>5, <1>6, <1>7 DEF WaitInv

\* Every step keeps it, given the types and who owns what.
LEMMA WaitStep ==
  ASSUME TypeInv, MutexInv, WaitInv, [Next]_vars
  PROVE  WaitInv'
<1>1. ASSUME NEW s \in Threads, ThreadStep(s)
      PROVE  WaitInv'
  BY <1>1, EnterWait, TakeWait, LeaveWait, LeaveCritWait, ExitWait, DieWait, PostKillWait
     DEF ThreadStep, Kill
<1> QED BY <1>1, ClientWait, NextThreadWait, TickWait DEF Next

\* The three invariants together are inductive.
LEMMA WaitAlways == Spec => [](TypeInv /\ MutexInv /\ WaitInv)
<1>1. Init => TypeInv /\ MutexInv /\ WaitInv
  BY TypeInit, MutexInit, WaitInit
<1>2. TypeInv /\ MutexInv /\ WaitInv /\ [Next]_vars => (TypeInv /\ MutexInv /\ WaitInv)'
  BY TypeStep, MutexStep, WaitStep
<1> QED BY <1>1, <1>2, PTL DEF Spec

\* RunList stays sorted and holds exactly the runnable threads, and unless a
\* reschedule is pending the best of them runs: every KCall of the critical
\* sections, of thread exit and of TerminateThread keeps what KCNextThread and
\* MakeRun promise, whatever the threads, their priorities and the kills.
THEOREM RunQueueStaysOK == Spec => []RunQueueOK
<1>1. WaitInv => RunQueueOK
  <2> SUFFICES ASSUME WaitInv
               PROVE  RunQueueOK
    OBVIOUS
  <2>1. sched \in SchedType /\ SchedOK(sched)
    BY DEF WaitInv, SchedOK
  <2> QED BY <2>1, SchedPromise DEF RunQueueOK
<1> QED BY <1>1, WaitAlways, PTL

\* A queued proxy is that of a thread still in the call, at a step where it is
\* queued: no way out of SC_TakeCritSec frees a proxy that is linked.  A thread
\* that faulted stays where it is with everything else.
THEOREM ProxiesLive == Spec => [](NoFault => QueuedProxyLives)
<1>1. TypeInv /\ MutexInv /\ WaitInv => (NoFault => QueuedProxyLives)
  <2> SUFFICES ASSUME TypeInv, MutexInv, WaitInv, NoFault, NEW c \in Crits,
                      NEW t \in ToSet(cs[c].proxList)
               PROVE  pc[t] \in {"t_boost1", "t_boost2", "t_part2", "t_after"} /\ arg[t] = c
    BY DEF QueuedProxyLives
  <2>1. t \in Threads
    BY WaiterQueue
  <2>2. InCall(t, c, QueuedSteps) /\ PlaceOK(t, c) /\ pc[t] # "fault"
    BY <2>1 DEF MutexInv, PairInv, WaitOK, WaitInv, NoFault
  <2> QED BY <2>2 DEF InCall, PlaceOK, QueuedSteps
<1> QED BY <1>1, WaitAlways, PTL
=============================================================================
