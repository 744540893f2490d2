------------------------ MODULE CritSecAlive_proofs ------------------------
(***************************************************************************)
(* A client of CritSec that leaves what it entered before it exits, for    *)
(* every set of threads and critical sections.                             *)
(*                                                                         *)
(* The checks of the debug build fail when an owner exits or is terminated *)
(* (the runs of CritSec that expect a violation).  They hold for every     *)
(* client that does neither, which AliveInv shows; and no such client is   *)
(* ever overtaken by a worse thread, which RankInv shows.                  *)
(***************************************************************************)
EXTENDS CritSecWait_proofs

NobodyAbandons == Abandoners = {} /\ CanKill = {}

\* Where a thread is that has not begun to exit.
Calls == UserMode \union TakeSteps \union LeaveSteps

\* Nobody dies but of its own accord, owning nothing.
AliveOK(t) ==
  /\ ~th[t].dying
  /\ pc[t] \in Calls \union ExitSteps /\ pc[t] # "x_leave"
  /\ th[t].dead => pc[t] \in {"x_next", "x_buried", "gone"}
  /\ pc[t] \in ExitSteps => \A c \in Crits : cs[c].owner # t

\* needtrap is set for somebody, and whoever is queued waits.
TrapOK(c) ==
  /\ cs[c].needtrap => cs[c].proxList # << >>
  /\ \A t \in ToSet(cs[c].proxList) : th[t].fresh

AliveInv == (\A t \in Threads : AliveOK(t)) /\ (\A c \in Crits : TrapOK(c))

\* A step of s inside its calls.
LEMMA GoesOn ==
  ASSUME AliveInv, NEW s \in Threads, pc[s] \in Calls, pc'[s] \in Calls,
         \A t \in Threads : th'[t].dying = th[t].dying /\ th'[t].dead = th[t].dead,
         \A t \in Threads \ {s} :
           /\ pc'[t] = pc[t]
           /\ \A c \in Crits : cs'[c].owner = t => cs[c].owner = t \/ pc[t] \notin ExitSteps,
         \A c \in Crits : TrapOK(c)'
  PROVE  AliveInv'
<1>1. ~th[s].dead /\ pc'[s] \notin ExitSteps
  BY DEF AliveInv, AliveOK, Calls, UserMode, TakeSteps, LeaveSteps, ExitSteps
<1>2. AliveOK(s)'
  BY <1>1 DEF AliveInv, AliveOK, Calls, UserMode, TakeSteps, LeaveSteps, ExitSteps
<1>3. \A t \in Threads \ {s} : AliveOK(t)'
  BY DEF AliveInv, AliveOK
<1> QED BY <1>2, <1>3 DEF AliveInv

\* The words the waiters read stay.
WordsStay ==
  /\ \A c \in Crits : /\ cs'[c].owner = cs[c].owner \/ cs'[c].owner = NoThread
                      /\ cs'[c].proxList = cs[c].proxList
                      /\ cs'[c].needtrap = cs[c].needtrap
  /\ \A t \in Threads : /\ th'[t].dying = th[t].dying /\ th'[t].dead = th[t].dead
                        /\ th[t].fresh => th'[t].fresh

\* Then needtrap still has its waiter, and the waiters wait.
LEMMA TrapStays ==
  ASSUME TypeInv, WaitInv, AliveInv, WordsStay
  PROVE  \A c \in Crits : TrapOK(c)'
<1>1. \A c \in Crits : ToSet(cs[c].proxList) \subseteq Threads
  BY WaiterQueue
<1> QED BY <1>1 DEF AliveInv, TrapOK, WordsStay

\* A step of s inside its calls that leaves those words.
LEMMA WordsGoOn ==
  ASSUME TypeInv, WaitInv, AliveInv, NEW s \in Threads, pc[s] \in Calls, pc'[s] \in Calls,
         \A t \in Threads \ {s} : pc'[t] = pc[t], WordsStay
  PROVE  AliveInv'
<1>1. \A c \in Crits : TrapOK(c)'
  BY TrapStays
<1>2. \A t \in Threads, c \in Crits : cs'[c].owner = t => cs[c].owner = t
  BY NoThreadAssumption DEF WordsStay
<1> QED BY <1>1, <1>2, GoesOn DEF WordsStay

\* A call of a thread that does not die returns to the client.
LEMMA AliveReturns ==
  ASSUME TypeInv, AliveInv, NEW s \in Threads, pc[s] \in Calls, NEW entered, ReturnToUser(s, entered)
  PROVE  pc'[s] \in Calls /\ \A t \in Threads \ {s} : pc'[t] = pc[t]
<1>1. ~th[s].dying /\ ~th[s].dead
  BY DEF AliveInv, AliveOK, Calls, UserMode, TakeSteps, LeaveSteps, ExitSteps
<1> QED BY <1>1 DEF ReturnToUser, Goto, Calls, UserMode, TypeInv, TypeOK

\* Enter and leave in user mode.
LEMMA UserAlive ==
  ASSUME TypeInv, MutexInv, WaitInv, AliveInv, NEW s \in Threads, Enter(s) \/ Leave(s)
  PROVE  AliveInv'
<1>1. ASSUME NEW d \in Crits, EnterFast(s, d)
      PROVE  AliveInv'
  <2>1. /\ pc[s] = "user" /\ pc'[s] = "e_count" /\ th' = th
        /\ \A t \in Threads \ {s} : pc'[t] = pc[t]
        /\ cs'[d].owner = s /\ cs'[d].proxList = cs[d].proxList /\ cs'[d].needtrap = cs[d].needtrap
        /\ \A c \in Crits \ {d} : cs'[c] = cs[c]
    BY <1>1 DEF EnterFast, At, Goto, TypeInv, TypeOK, CritType
  <2>2. \A c \in Crits : TrapOK(c)'
    BY <2>1 DEF AliveInv, TrapOK
  <2> QED BY <2>1, <2>2, GoesOn DEF Calls, UserMode
<1>2. ASSUME NEW d \in Crits,
             EnterAgain(s, d) \/ EnterSlow(s, d) \/ LeaveNested(s, d) \/ LeaveMark(s, d)
      PROVE  AliveInv'
  <2>1. /\ pc[s] = "user" /\ pc'[s] \in {"user", "t_alloc", "l_test"} /\ th' = th
        /\ \A t \in Threads \ {s} : pc'[t] = pc[t]
    BY <1>2 DEF EnterAgain, EnterSlow, LeaveNested, LeaveMark, At, Goto, TypeInv, TypeOK
  <2>2. \A c \in Crits : /\ cs'[c].owner = cs[c].owner /\ cs'[c].proxList = cs[c].proxList
                         /\ cs'[c].needtrap = cs[c].needtrap
    <3>1. \/ cs' = [cs EXCEPT ![d].lockCount = @ + 1]
          \/ cs' = [cs EXCEPT ![d].lockCount = @ - 1]
          \/ cs' = [cs EXCEPT ![d].low = TRUE]
          \/ cs' = cs
      BY <1>2 DEF EnterAgain, EnterSlow, LeaveNested, LeaveMark
    <3>2. cs \in [Crits -> CritType]
      BY DEF TypeInv, TypeOK
    <3>3. CASE cs' = [cs EXCEPT ![d].lockCount = @ + 1]
      BY ONLY <3>2, <3>3 DEF CritType
    <3>4. CASE cs' = [cs EXCEPT ![d].lockCount = @ - 1]
      BY ONLY <3>2, <3>4 DEF CritType
    <3>5. CASE cs' = [cs EXCEPT ![d].low = TRUE]
      BY ONLY <3>2, <3>5 DEF CritType
    <3> QED BY <3>1, <3>3, <3>4, <3>5
  <2> QED BY <2>1, <2>2, WordsGoOn DEF WordsStay, Calls, UserMode, TakeSteps
<1>3. CASE EnterSetCount(s) \/ LeaveTest(s)
  <2>1. /\ pc[s] \in {"e_count", "l_test"} /\ pc'[s] \in {"user", "l_pre", "l_free"} /\ th' = th
        /\ \A t \in Threads \ {s} : pc'[t] = pc[t]
    BY <1>3 DEF EnterSetCount, LeaveTest, At, Goto, TypeInv, TypeOK
  <2>2. \A c \in Crits : /\ cs'[c].owner = cs[c].owner /\ cs'[c].proxList = cs[c].proxList
                         /\ cs'[c].needtrap = cs[c].needtrap
    <3>1. PICK d : cs' = [cs EXCEPT ![d].lockCount = 1] \/ cs' = cs
      BY <1>3 DEF EnterSetCount, LeaveTest
    <3>2. cs \in [Crits -> CritType]
      BY DEF TypeInv, TypeOK
    <3>3. CASE cs' = [cs EXCEPT ![d].lockCount = 1]
      BY ONLY <3>2, <3>3 DEF CritType
    <3> QED BY <3>1, <3>3
  <2> QED BY <2>1, <2>2, WordsGoOn DEF WordsStay, Calls, UserMode, LeaveSteps
<1>4. CASE LeaveFree(s)
  <2>1. /\ pc[s] = "l_free" /\ th' = th /\ \A t \in Threads \ {s} : pc'[t] = pc[t]
        /\ pc'[s] = IF th[s].dead THEN "x_next" ELSE "user"
    BY <1>4 DEF LeaveFree, At, Goto, TypeInv, TypeOK
  <2>2. ~th[s].dead
    BY <2>1 DEF AliveInv, AliveOK
  <2>3. \A c \in Crits : /\ cs'[c].owner \in {cs[c].owner, NoThread}
                         /\ cs'[c].proxList = cs[c].proxList /\ cs'[c].needtrap = cs[c].needtrap
    BY <1>4 DEF LeaveFree, ExchangeFree, TypeInv, TypeOK, CritType
  <2> QED BY <2>1, <2>2, <2>3, WordsGoOn DEF WordsStay, Calls, UserMode
<1> QED BY <1>1, <1>2, <1>3, <1>4 DEF Enter, Leave

\* An owner's handle resolves.
LEMMA OwnerLives ==
  ASSUME TypeInv, AliveInv, NEW c \in Crits, cs[c].owner # NoThread
  PROVE  OwnerPth(c) = cs[c].owner /\ OwnerPth(c) \in Threads /\ OwnerPth(c) # NoThread
<1>1. cs[c].owner \in Threads
  BY DEF TypeInv, TypeOK, CritType
<1>2. pc[cs[c].owner] # "gone"
  BY <1>1 DEF AliveInv, AliveOK, ExitSteps
<1> QED BY <1>1, <1>2 DEF OwnerPth

\* Steps of TakeCritSec that only move, or list a critical section.
LEMMA TakeOnAlive ==
  ASSUME TypeInv, MutexInv, WaitInv, AliveInv, NEW s \in Threads,
         \/ AllocProxy(s) \/ AllocFails(s) \/ WaitConfig(s) \/ CSWaitPart2Signalled(s) \/ TakeRetry(s)
         \/ LaterLinkCritMut(s) \/ DoReprioCrit(s)
  PROVE  AliveInv'
<1>1. pc[s] \in TakeSteps /\ pc'[s] \in TakeSteps /\ \A t \in Threads \ {s} : pc'[t] = pc[t]
  BY DEF AllocProxy, AllocFails, WaitConfig, CSWaitPart2Signalled, TakeRetry, LaterLinkCritMut,
         DoReprioCrit, At, Goto, TakeSteps, TypeInv, TypeOK
<1>2. arg[s] \in Crits
  BY <1>1 DEF TypeInv, ArgOK, ArgSteps
<1>3. PICK d \in Crits : arg[s] = d
  BY <1>2
<1>4. \A t \in Threads : /\ th'[t].dying = th[t].dying /\ th'[t].dead = th[t].dead
                         /\ th[t].fresh => th'[t].fresh
  <2>1. th \in [Threads -> ThreadType]
    BY DEF TypeInv, TypeOK
  <2>2. CASE AllocProxy(s)
    <3>1. th' = [th EXCEPT ![s].proxPrio = sched.cprio[s], ![s].fresh = TRUE]
      BY <2>2 DEF AllocProxy
    <3> QED BY ONLY <2>1, <3>1, s \in Threads DEF ThreadType
  <2>3. CASE WaitConfig(s)
    <3>1. th' = [th EXCEPT ![s].wait = "PROCESSING"]
      BY <2>3 DEF WaitConfig
    <3> QED BY ONLY <2>1, <3>1, s \in Threads DEF ThreadType
  <2>4. CASE TakeRetry(s)
    <3>1. th' = [th EXCEPT ![s].proxPrio = 0]
      BY <2>4 DEF TakeRetry
    <3> QED BY ONLY <2>1, <3>1, s \in Threads DEF ThreadType
  <2>5. CASE th' = th
    BY <2>5
  <2> QED BY <2>2, <2>3, <2>4, <2>5
          DEF AllocFails, CSWaitPart2Signalled, LaterLinkCritMut, DoReprioCrit
<1>5. \/ cs' = cs
      \/ cs[d].bListed = 0 /\ cs' = [cs EXCEPT ![d] = LinkCritMut(cs[d], s)]
      \/ cs' = [cs EXCEPT ![d] = ReprioCritMut(cs[d], OwnerPth(d))]
  <2>1. CASE LaterLinkCritMut(s)
    <3>1. cs' = [cs EXCEPT ![d] = IF cs[d].bListed = 0 /\ Owns(s, d) THEN LinkCritMut(cs[d], s) ELSE cs[d]]
      BY <2>1, <1>3 DEF LaterLinkCritMut, TypeInv, TypeOK
    <3>2. cs = [cs EXCEPT ![d] = cs[d]]
      BY DEF TypeInv, TypeOK
    <3> QED BY <3>1, <3>2
  <2>2. CASE DoReprioCrit(s)
    BY <2>2, <1>3 DEF DoReprioCrit
  <2> QED BY <2>1, <2>2 DEF AllocProxy, AllocFails, WaitConfig, CSWaitPart2Signalled, TakeRetry
<1>6. \A c \in Crits : /\ cs'[c].owner = cs[c].owner /\ cs'[c].proxList = cs[c].proxList
                       /\ cs'[c].needtrap = cs[c].needtrap
  <2>1. cs \in [Crits -> CritType]
    BY DEF TypeInv, TypeOK
  <2>2. CASE cs' # cs
    <3>1. PICK new, o : /\ \/ new = ReprioCritMut(cs[d], o)
                           \/ cs[d].bListed = 0 /\ new = LinkCritMut(cs[d], o)
                        /\ cs' = [cs EXCEPT ![d] = new]
      BY <1>5, <2>2
    <3>2. new.owner = cs[d].owner /\ new.needtrap = cs[d].needtrap /\ new.proxList = cs[d].proxList
      BY <2>1, <3>1, ListEdit
    <3> QED BY <2>1, <3>1, <3>2
  <2> QED BY <2>2
<1> QED BY <1>1, <1>4, <1>6, WordsGoOn DEF WordsStay, Calls

\* Steps that would fault if the owner were gone: a waiter's owner never is.
LEMMA BoostAlive ==
  ASSUME TypeInv, MutexInv, WaitInv, AliveInv, NEW s \in Threads,
         PostBoostCrit1(s) \/ PostBoostCrit2(s) \/ CSWaitPart2Block(s)
  PROVE  AliveInv'
<1>1. Runs(s) /\ pc[s] \in {"t_boost1", "t_boost2", "t_part2"} /\ pc[s] \in TakeSteps
  BY DEF PostBoostCrit1, PostBoostCrit2, CSWaitPart2Block, At, TakeSteps
<1>2. PICK d \in Crits : arg[s] = d
  BY <1>1, WaitTaker
<1>3. ProxyOK(s) /\ PlaceOK(s, d) /\ WaitersOK(d)
  BY <1>1, WaitActor
<1>4. th[s].wait # "SIGNALLED" => OwnerPth(d) # NoThread
  <2>1. th[s].wait # "SIGNALLED" => s \in ToSet(cs[d].proxList)
    BY <1>1, <1>2, <1>3 DEF ProxyOK, PlaceOK, InCall
  <2>2. s \in ToSet(cs[d].proxList) => cs[d].proxList # << >>
    BY WaiterQueue, Members
  <2> QED BY <1>3, <2>1, <2>2, OwnerLives DEF WaitersOK
<1>5. /\ Goto(s, "t_boost2") \/ Goto(s, "t_part2") \/ Goto(s, "t_after")
      /\ \/ cs' = cs
         \/ cs' = [cs EXCEPT ![d] = ReprioCritMut(cs[d], OwnerPth(d))]
         \/ cs[d].bListed = 0 /\ cs' = [cs EXCEPT ![d] = LinkCritMut(cs[d], OwnerPth(d))]
      /\ \/ th' = th
         \/ th' = [th EXCEPT ![s].wait = "BLOCKED"]
         \/ th' = [th EXCEPT ![OwnerPth(d)] = NotStealable(th[OwnerPth(d)]), ![s].wait = "BLOCKED"]
  <2>1. CASE PostBoostCrit1(s)
    BY <1>2, <1>4, <2>1 DEF PostBoostCrit1
  <2>2. CASE PostBoostCrit2(s)
    BY <1>2, <1>4, <2>2 DEF PostBoostCrit2
  <2>3. CASE CSWaitPart2Block(s)
    BY <1>2, <1>4, <2>3 DEF CSWaitPart2Block
  <2> QED BY <2>1, <2>2, <2>3
<1>6. pc'[s] \in TakeSteps /\ \A t \in Threads \ {s} : pc'[t] = pc[t]
  BY <1>5 DEF Goto, TakeSteps, TypeInv, TypeOK
<1> DEFINE o == OwnerPth(d)
<1> HIDE DEF o
<1>7. \A t \in Threads : /\ th'[t].dying = th[t].dying /\ th'[t].dead = th[t].dead
                         /\ th'[t].fresh = th[t].fresh
  <2>1. th \in [Threads -> ThreadType]
    BY DEF TypeInv, TypeOK
  <2>2. CASE th' = [th EXCEPT ![s].wait = "BLOCKED"]
    BY ONLY <2>1, <2>2, s \in Threads DEF ThreadType
  <2>3. CASE th' = [th EXCEPT ![o] = NotStealable(th[o]), ![s].wait = "BLOCKED"]
    BY ONLY <2>1, <2>3, s \in Threads DEF NotStealable, ThreadType
  <2> QED BY <1>5, <2>2, <2>3 DEF o
<1>8. \A c \in Crits : /\ cs'[c].owner = cs[c].owner /\ cs'[c].proxList = cs[c].proxList
                       /\ cs'[c].needtrap = cs[c].needtrap
  <2>1. cs \in [Crits -> CritType]
    BY DEF TypeInv, TypeOK
  <2>2. CASE cs' # cs
    <3>1. PICK new : /\ \/ new = ReprioCritMut(cs[d], o)
                        \/ cs[d].bListed = 0 /\ new = LinkCritMut(cs[d], o)
                     /\ cs' = [cs EXCEPT ![d] = new]
      BY <1>5, <2>2 DEF o
    <3>2. new.owner = cs[d].owner /\ new.needtrap = cs[d].needtrap /\ new.proxList = cs[d].proxList
      BY <2>1, <3>1, ListEdit
    <3> QED BY <2>1, <3>1, <3>2
  <2> QED BY <2>2
<1> QED BY <1>1, <1>6, <1>7, <1>8, WordsGoOn DEF WordsStay, Calls

\* Becoming the owner, or queueing.
LEMMA TakerAlive ==
  ASSUME TypeInv, MutexInv, WaitInv, AliveInv, NEW s \in Threads,
         CSWaitPart1Take(s) \/ CSWaitPart1Steal(s) \/ CSWaitPart1Pend(s)
  PROVE  AliveInv'
<1>1. Runs(s) /\ pc[s] = "t_part1" /\ pc[s] \in TakeSteps
  BY DEF CSWaitPart1Take, CSWaitPart1Steal, CSWaitPart1Pend, At, TakeSteps
<1>2. PICK d \in Crits : arg[s] = d
  BY <1>1, WaitTaker
<1>3. (\A c \in Crits : s \notin ToSet(cs[c].proxList)) /\ th[s].fresh
  BY <1>1, WaitTaker, WaitActor DEF QueuedSteps, ProxyOK
<1>4. /\ pc'[s] \in TakeSteps /\ \A t \in Threads \ {s} : pc'[t] = pc[t] /\ th'[t] = th[t]
      /\ th'[s].dying = th[s].dying /\ th'[s].dead = th[s].dead
  <2>1. /\ Goto(s, "t_after") \/ Goto(s, "t_link") \/ Goto(s, "t_boost1") \/ Goto(s, "t_part2")
        /\ th' = th \/ th' = [th EXCEPT ![s] = Signalled(th[s])]
    BY DEF CSWaitPart1Take, CSWaitPart1Steal, CSWaitPart1Pend
  <2>2. pc'[s] \in TakeSteps /\ \A t \in Threads \ {s} : pc'[t] = pc[t]
    BY <2>1 DEF Goto, TakeSteps, TypeInv, TypeOK
  <2>3. /\ \A t \in Threads \ {s} : th'[t] = th[t]
        /\ th'[s].dying = th[s].dying /\ th'[s].dead = th[s].dead
    <3>1. th \in [Threads -> ThreadType]
      BY DEF TypeInv, TypeOK
    <3>2. CASE th' = [th EXCEPT ![s] = Signalled(th[s])]
      BY ONLY <3>1, <3>2, s \in Threads DEF Signalled, ThreadType
    <3> QED BY <2>1, <3>2
  <2> QED BY <2>2, <2>3
<1>5. CASE CSWaitPart1Take(s) \/ CSWaitPart1Steal(s)
  <2>1. /\ cs'[d].owner = s /\ cs'[d].proxList = cs[d].proxList
        /\ cs'[d].needtrap => cs[d].needtrap \/ cs[d].proxList # << >>
        /\ \A c \in Crits \ {d} : cs'[c] = cs[c]
    <3>1. cs \in [Crits -> CritType]
      BY DEF TypeInv, TypeOK
    <3>2. CASE CSWaitPart1Take(s)
      <4>1. cs' = [cs EXCEPT ![d].owner = s, ![d].low = FALSE, ![d].lockCount = 1]
        BY <1>2, <3>2 DEF CSWaitPart1Take
      <4> QED BY ONLY <3>1, <4>1, d \in Crits DEF CritType
    <3>3. CASE CSWaitPart1Steal(s)
      <4>1. cs' = [cs EXCEPT ![d].owner = s, ![d].low = FALSE,
                             ![d].needtrap = @ \/ cs[d].proxList # << >>]
        BY <1>2, <3>3 DEF CSWaitPart1Steal
      <4> QED BY ONLY <3>1, <4>1, d \in Crits DEF CritType
    <3> QED BY <1>5, <3>2, <3>3
  <2>2. ASSUME NEW c \in Crits
        PROVE  TrapOK(c)'
    <3>1. TrapOK(c) /\ ToSet(cs[c].proxList) \subseteq Threads \ {s}
      BY <1>3, WaiterQueue DEF AliveInv
    <3> QED BY <1>4, <2>1, <3>1 DEF TrapOK
  <2> QED BY <1>1, <1>4, <2>1, <2>2, GoesOn DEF Calls
<1>6. CASE CSWaitPart1Pend(s)
  <2>1. /\ cs'[d].owner = cs[d].owner /\ cs'[d].proxList = InsertBehind(cs[d].proxList, ProxPrio, s)
        /\ \A c \in Crits \ {d} : cs'[c] = cs[c]
    BY <1>2, <1>6 DEF CSWaitPart1Pend, TypeInv, TypeOK, CritType
  <2>2. th' = th
    BY <1>6 DEF CSWaitPart1Pend
  <2>3. /\ cs'[d].proxList \in Seq(Threads)
        /\ ToSet(cs'[d].proxList) = ToSet(cs[d].proxList) \union {s}
    BY <1>3, <2>1, WaiterQueue, InsertionStands DEF Stands
  <2>4. cs'[d].proxList # << >>
    BY <2>3, Members
  <2>5. ASSUME NEW c \in Crits
        PROVE  TrapOK(c)'
    <3>1. CASE c = d
      BY <1>3, <2>2, <2>3, <2>4, <3>1 DEF AliveInv, TrapOK
    <3>2. CASE c # d
      BY <2>1, <2>2, <3>2 DEF AliveInv, TrapOK
    <3> QED BY <3>1, <3>2
  <2> QED BY <1>1, <1>4, <2>1, <2>5, GoesOn DEF Calls
<1> QED BY <1>5, <1>6

\* Nobody gives up a wait, and a proxy still queued after it cannot be.
LEMMA TakeAlive ==
  ASSUME TypeInv, MutexInv, WaitInv, AliveInv, NEW s \in Threads, TakeCritSec(s)
  PROVE  AliveInv'
<1>1. ~(CSWaitPart1Abort(s) \/ CSWaitPart2Abort(s))
  BY DEF CSWaitPart1Abort, CSWaitPart2Abort, MustAbort, AliveInv, AliveOK
<1>2. ~DequeuePrioProxy(s)
  <2> SUFFICES ASSUME DequeuePrioProxy(s)
               PROVE  FALSE
    OBVIOUS
  <2>1. Runs(s) /\ pc[s] = "t_after" /\ pc[s] \in TakeSteps
    BY DEF DequeuePrioProxy, At, TakeSteps
  <2>2. arg[s] \in Crits /\ s \in ToSet(cs[arg[s]].proxList) /\ ~th[s].fresh
    BY <2>1, WaitTaker, WaitActor DEF DequeuePrioProxy
  <2> QED BY <2>2 DEF AliveInv, TrapOK
<1>3. CASE CritFinalBoost(s)
  <2>1. pc[s] = "t_final" /\ Runs(s) /\ pc[s] \in TakeSteps /\ th' = th
    BY <1>3 DEF CritFinalBoost, At, TakeSteps
  <2>2. PICK d \in Crits : arg[s] = d
    BY <2>1, WaitTaker
  <2>3. PICK new : /\ new = cs[d] \/ (cs[d].bListed = 0 /\ new = LinkCritMut(cs[d], s))
                   /\ cs' = [cs EXCEPT ![d] = new]
    <3>1. cs' = [cs EXCEPT ![d] = IF cs[d].bListed = 0 /\ cs[d].proxList # << >>
                                  THEN LinkCritMut(cs[d], s) ELSE cs[d]]
      BY <1>3, <2>2 DEF CritFinalBoost
    <3> QED BY <3>1
  <2>4. cs \in [Crits -> CritType]
    BY DEF TypeInv, TypeOK
  <2>5. new.owner = cs[d].owner /\ new.needtrap = cs[d].needtrap /\ new.proxList = cs[d].proxList
    BY <2>3, <2>4, ListEdit
  <2>6. WordsStay
    BY <2>1, <2>3, <2>4, <2>5 DEF WordsStay
  <2>7. ReturnToUser(s, {d})
    BY <1>3, <2>2 DEF CritFinalBoost
  <2>8. pc[s] \in Calls
    BY <2>1 DEF Calls
  <2> QED BY <2>6, <2>7, <2>8, AliveReturns, WordsGoOn
<1> QED BY <1>1, <1>2, <1>3, TakeOnAlive, BoostAlive, TakerAlive DEF TakeCritSec

\* Every step of SC_LeaveCritSec: who is handed the critical section was waiting.
LEMMA LeaveCritAlive ==
  ASSUME TypeInv, MutexInv, WaitInv, AliveInv, NEW s \in Threads, LeaveCritSec(s)
  PROVE  AliveInv'
<1>0. pc[s] \in LeaveSteps /\ pc[s] \in Calls /\ Runs(s)
  BY DEF LeaveCritSec, PreLeaveCrit, LeaveCritFree, LeaveCritStale, LeaveCritHandOff, LeaveCritRun,
         PostUnlinkCritMut, At, LeaveSteps, Calls
<1>1. cs \in [Crits -> CritType] /\ th \in [Threads -> ThreadType]
  BY DEF TypeInv, TypeOK
<1>2. CASE PreLeaveCrit(s) \/ LeaveCritRun(s) \/ PostUnlinkCritMut(s)
  <2>1. pc'[s] \in Calls /\ \A t \in Threads \ {s} : pc'[t] = pc[t]
    <3>1. Goto(s, "l_leave") \/ Goto(s, "l_post") \/ ReturnToUser(s, {})
      BY <1>2 DEF PreLeaveCrit, LeaveCritRun, PostUnlinkCritMut
    <3>2. CASE ReturnToUser(s, {})
      BY <1>0, <3>2, AliveReturns
    <3> QED BY <3>1, <3>2 DEF Goto, Calls, LeaveSteps, TypeInv, TypeOK
  <2>2. \A c \in Crits : /\ cs'[c].owner = cs[c].owner /\ cs'[c].proxList = cs[c].proxList
                         /\ cs'[c].needtrap = cs[c].needtrap
    <3>1. PICK d : \/ cs' = cs
                   \/ cs' = [cs EXCEPT ![d] = [UnlinkCritMut(cs[d]) EXCEPT !.low = FALSE, !.bListed = 2]]
      BY <1>2 DEF PreLeaveCrit, LeaveCritRun, PostUnlinkCritMut
    <3>2. CASE cs' = [cs EXCEPT ![d] = [UnlinkCritMut(cs[d]) EXCEPT !.low = FALSE, !.bListed = 2]]
      BY ONLY <1>1, <3>2 DEF UnlinkCritMut, CritType
    <3> QED BY <3>1, <3>2
  <2>3. \A t \in Threads : /\ th'[t].dying = th[t].dying /\ th'[t].dead = th[t].dead
                           /\ th'[t].fresh = th[t].fresh
    <3>1. PICK b : th' = th \/ th' = [th EXCEPT ![s].noPrioCalc = b]
      BY <1>2 DEF PreLeaveCrit, LeaveCritRun, PostUnlinkCritMut
    <3> QED BY ONLY <1>1, <3>1, s \in Threads DEF ThreadType
  <2> QED BY <1>0, <2>1, <2>2, <2>3, WordsGoOn DEF WordsStay
<1>3. CASE LeaveCritFree(s) \/ LeaveCritStale(s) \/ LeaveCritHandOff(s)
  <2>1. pc[s] = "l_leave"
    BY <1>3 DEF LeaveCritFree, LeaveCritStale, LeaveCritHandOff, At
  <2>2. PICK d \in Crits : arg[s] = d
    BY <1>0, <2>1, WaitLeaver
  <2>3. CASE LeaveCritFree(s)
    <3>1. /\ cs'[d].owner = NoThread /\ ~cs'[d].needtrap /\ cs'[d].proxList = cs[d].proxList
          /\ \A c \in Crits \ {d} : cs'[c] = cs[c]
      BY <1>1, <2>2, <2>3 DEF LeaveCritFree, CritType
    <3>2. th' = th /\ pc'[s] \in Calls /\ \A t \in Threads \ {s} : pc'[t] = pc[t]
      BY <2>3 DEF LeaveCritFree, Goto, Calls, LeaveSteps, TypeInv, TypeOK
    <3>3. \A c \in Crits : TrapOK(c)'
      BY <3>1, <3>2 DEF AliveInv, TrapOK
    <3> QED BY <1>0, <3>1, <3>2, <3>3, GoesOn, NoThreadAssumption
  <2>4. ~LeaveCritStale(s)
    <3> SUFFICES ASSUME LeaveCritStale(s)
                 PROVE  FALSE
      OBVIOUS
    <3>1. cs[d].proxList # << >> /\ ~th[Head(cs[d].proxList)].fresh
      BY <2>2 DEF LeaveCritStale
    <3>2. Head(cs[d].proxList) \in ToSet(cs[d].proxList)
      BY <3>1, FirstWaiter
    <3> QED BY <3>1, <3>2 DEF AliveInv, TrapOK
  <2>5. CASE LeaveCritHandOff(s)
    <3>1. PICK u : u = Head(cs[d].proxList)
      OBVIOUS
    <3>2. /\ cs[d].proxList # << >> /\ cs' = [cs EXCEPT ![d] = HandOver(cs[d])]
          /\ Goto(s, "l_run") \/ Goto(s, "l_post")
      BY <2>2, <2>5, <3>1 DEF LeaveCritHandOff
    <3>3. PICK w : th' = [th EXCEPT ![u].fresh = FALSE, ![u].hLastCrit = d, ![u].wait = w]
      BY <2>2, <2>5, <3>1 DEF LeaveCritHandOff
    <3>4. /\ u \in Threads /\ InCall(u, d, QueuedSteps)
          /\ ToSet(Tail(cs[d].proxList)) = ToSet(cs[d].proxList) \ {u}
      BY <3>1, <3>2, FirstWaiter
    <3>5. /\ cs'[d].owner = u /\ cs'[d].proxList = Tail(cs[d].proxList)
          /\ cs'[d].needtrap => Tail(cs[d].proxList) # << >>
          /\ \A c \in Crits \ {d} : cs'[c] = cs[c]
      BY <1>1, <3>1, <3>2 DEF HandOver, CritType
    <3>6. /\ \A t \in Threads \ {u} : th'[t].fresh = th[t].fresh
          /\ \A t \in Threads : th'[t].dying = th[t].dying /\ th'[t].dead = th[t].dead
      BY ONLY <1>1, <3>3, <3>4 DEF ThreadType
    <3>7. pc'[s] \in Calls /\ \A t \in Threads \ {s} : pc'[t] = pc[t]
      BY <3>2 DEF Goto, Calls, LeaveSteps, TypeInv, TypeOK
    <3>8. pc[u] \notin ExitSteps
      BY <3>4 DEF InCall, QueuedSteps, ExitSteps
    <3>9. ASSUME NEW c \in Crits
          PROVE  TrapOK(c)'
      <4>1. TrapOK(c) /\ ToSet(cs[c].proxList) \subseteq Threads
        BY WaiterQueue DEF AliveInv
      <4>2. c # d => u \notin ToSet(cs[c].proxList)
        BY <3>4 DEF MutexInv, PairInv, WaitOK, InCall
      <4>3. CASE c = d
        BY <3>4, <3>5, <3>6, <4>1, <4>3 DEF TrapOK
      <4>4. CASE c # d
        BY <3>5, <3>6, <4>1, <4>2, <4>4 DEF TrapOK
      <4> QED BY <4>3, <4>4
    <3> QED BY <1>0, <3>5, <3>6, <3>7, <3>8, <3>9, GoesOn
  <2> QED BY <1>3, <2>3, <2>4, <2>5
<1> QED BY <1>2, <1>3 DEF LeaveCritSec

\* A thread exits owning nothing, so nothing is listed for it to leave.
LEMMA ExitAlive ==
  ASSUME NobodyAbandons, TypeInv, MutexInv, WaitInv, AliveInv, NEW s \in Threads, Exit(s)
  PROVE  AliveInv'
<1>1. AliveOK(s) /\ th \in [Threads -> ThreadType]
  BY DEF AliveInv, TypeInv, TypeOK
<1>2. ~LeaveListed(s)
  BY <1>1 DEF LeaveListed, At, AliveOK
<1>3. cs' = cs /\ \A t \in Threads \ {s} : pc'[t] = pc[t]
  BY <1>2 DEF Exit, ExitThread, NKTerminateThread, DoLeaveSomething, RemoveThread, Goto, TypeInv, TypeOK
<1>4. /\ \A t \in Threads : /\ th'[t].fresh = th[t].fresh /\ th'[t].dying = th[t].dying
                            /\ t # s => th'[t].dead = th[t].dead
  <2>1. th' \in {th, [th EXCEPT ![s].dead = TRUE], [th EXCEPT ![s].buried = TRUE]}
    BY <1>2 DEF Exit, ExitThread, NKTerminateThread, DoLeaveSomething, RemoveThread
  <2> QED BY ONLY <1>1, <2>1, s \in Threads DEF ThreadType
<1>5. AliveOK(s)'
  <2>1. CASE ExitThread(s)
    <3>1. pc[s] = "user" /\ Holds(s) = {} /\ th' = th /\ pc'[s] = "x_start"
      BY <2>1 DEF ExitThread, At, Goto, NobodyAbandons, TypeInv, TypeOK
    <3>2. ASSUME NEW c \in Crits
          PROVE  cs[c].owner # s
      <4>1. depth[s][c] = 0 /\ PairInv(s, c)
        BY <3>1 DEF Holds, MutexInv, TypeInv, TypeOK
      <4>2. ~th[s].dead
        BY <1>1, <3>1 DEF AliveOK
      <4> QED BY <3>1, <4>1, <4>2
              DEF PairInv, OwnOK, MarkOK, Owns, Leaving, InCall, TakeSteps, ExitSteps
    <3> QED BY <1>1, <1>3, <3>1, <3>2 DEF AliveOK, ExitSteps
  <2>2. CASE NKTerminateThread(s)
    <3>1. pc[s] = "x_start" /\ pc'[s] = "x_next"
      BY <2>2 DEF NKTerminateThread, At, Goto, TypeInv, TypeOK
    <3> QED BY <1>1, <1>3, <1>4, <3>1 DEF AliveOK, ExitSteps
  <2>3. CASE DoLeaveSomething(s)
    <3>1. pc[s] = "x_next"
      BY <2>3 DEF DoLeaveSomething, At
    <3>2. OwnedList(s) = {}
      BY <1>1, <3>1 DEF OwnedList, AliveOK, ExitSteps, MutexInv, PairInv, ListOK
    <3>3. pc'[s] = "x_buried"
      BY <2>3, <3>2 DEF DoLeaveSomething, Goto, TypeInv, TypeOK
    <3> QED BY <1>1, <1>3, <1>4, <3>1, <3>3 DEF AliveOK, ExitSteps
  <2>4. CASE RemoveThread(s)
    <3>1. pc[s] = "x_buried" /\ pc'[s] = "gone"
      BY <2>4 DEF RemoveThread, At, Goto, TypeInv, TypeOK
    <3> QED BY <1>1, <1>3, <1>4, <3>1 DEF AliveOK, ExitSteps
  <2> QED BY <1>2, <2>1, <2>2, <2>3, <2>4 DEF Exit
<1>6. \A t \in Threads \ {s} : AliveOK(t)'
  BY <1>3, <1>4 DEF AliveInv, AliveOK
<1>7. \A c \in Crits : TrapOK(c)'
  <2>1. \A c \in Crits : ToSet(cs[c].proxList) \subseteq Threads
    BY WaiterQueue
  <2> QED BY <1>3, <1>4, <2>1 DEF AliveInv, TrapOK
<1> QED BY <1>5, <1>6, <1>7 DEF AliveInv

\* The scheduler and the client's own waits.
LEMMA SchedAlive ==
  ASSUME TypeInv, WaitInv, AliveInv,
         \/ \E t \in Threads : Block(t) \/ Wake(t)
         \/ QuantumTick \/ KCNextThread \/ AllGone \/ UNCHANGED vars
  PROVE  AliveInv'
<1>1. cs' = cs /\ pc' = pc
  BY DEF Block, Wake, QuantumTick, KCNextThread, AllGone, vars
<1>2. \A t \in Threads : /\ th'[t].dying = th[t].dying /\ th'[t].dead = th[t].dead
                         /\ th'[t].fresh = th[t].fresh
  <2>1. th \in [Threads -> ThreadType]
    BY DEF TypeInv, TypeOK
  <2>2. th' = th \/ \E n : th' = [th EXCEPT ![n] = NotStealable(@)]
    BY DEF Block, Wake, QuantumTick, KCNextThread, AllGone, vars
  <2>3. CASE th' # th
    <3>1. PICK n : th' = [th EXCEPT ![n] = NotStealable(@)]
      BY <2>2, <2>3
    <3> QED BY ONLY <2>1, <3>1 DEF NotStealable, ThreadType
  <2> QED BY <2>3
<1>3. WordsStay
  BY <1>1, <1>2 DEF WordsStay
<1>4. \A c \in Crits : TrapOK(c)'
  BY <1>3, TrapStays
<1>5. \A t \in Threads : AliveOK(t)'
  BY <1>1, <1>2 DEF AliveInv, AliveOK
<1> QED BY <1>4, <1>5 DEF AliveInv

\* Initially everybody is a client, and nobody is queued.
LEMMA AliveInit ==
  ASSUME Init
  PROVE  AliveInv
<1>1. \A t \in Threads : AliveOK(t)
  BY DEF Init, AliveOK, Calls, UserMode, ExitSteps
<1>2. ToSet(<< >>) = {}
  BY DEF ToSet
<1>3. \A c \in Crits : TrapOK(c)
  BY <1>2 DEF Init, TrapOK
<1> QED BY <1>1, <1>3 DEF AliveInv

\* Every step keeps it when nobody exits owning and nobody is terminated.
LEMMA AliveStep ==
  ASSUME NobodyAbandons, TypeInv, MutexInv, WaitInv, AliveInv, [Next]_vars
  PROVE  AliveInv'
<1>1. ASSUME NEW s \in Threads, ThreadStep(s)
      PROVE  AliveInv'
  <2>1. ~Kill(s)
    BY DEF Kill, SetThreadToDie, SetThreadBasePrio, KillRun, At, KillSteps, NobodyAbandons, AliveInv,
           AliveOK, Calls, UserMode, TakeSteps, LeaveSteps, ExitSteps
  <2> QED BY <1>1, <2>1, UserAlive, TakeAlive, LeaveCritAlive, ExitAlive DEF ThreadStep
<1> QED BY <1>1, SchedAlive DEF Next

\* So the four invariants hold together.
LEMMA AliveAlways ==
  ASSUME NobodyAbandons
  PROVE  Spec => [](TypeInv /\ MutexInv /\ WaitInv /\ AliveInv)
<1>1. Init => TypeInv /\ MutexInv /\ WaitInv /\ AliveInv
  BY TypeInit, MutexInit, WaitInit, AliveInit
<1>2. TypeInv /\ MutexInv /\ WaitInv /\ AliveInv /\ [Next]_vars
        => (TypeInv /\ MutexInv /\ WaitInv /\ AliveInv)'
  BY TypeStep, MutexStep, WaitStep, AliveStep
<1> QED BY <1>1, <1>2, PTL DEF Spec

\* Whoever waits is seen: while a fresh proxy is queued needtrap is set, so that
\* LeaveCriticalSection traps, and the owner's handle resolves.
THEOREM WaitersAreSeen ==
  ASSUME NobodyAbandons
  PROVE  Spec => []WaiterIsSeen
<1>1. TypeInv /\ MutexInv /\ WaitInv /\ AliveInv => WaiterIsSeen
  <2> SUFFICES ASSUME TypeInv, MutexInv, WaitInv, AliveInv, NEW t \in Threads, NEW c \in Crits,
                      WaitsFor(t, c)
               PROVE  cs[c].needtrap /\ OwnerPth(c) # NoThread
    BY DEF WaiterIsSeen
  <2>1. cs[c].proxList # << >>
    BY WaiterQueue, Members DEF WaitsFor
  <2>2. cs[c].needtrap /\ cs[c].owner # NoThread
    BY <2>1 DEF WaitInv, WaitersOK
  <2> QED BY <2>2, OwnerLives
<1> QED BY <1>1, AliveAlways, PTL

\* PostBoostCrit1, PostBoostCrit2 and CSWaitPart2 find the THREAD of the owner
\* they boost or list the critical section with: no KCall faults on a null one.
THEOREM OwnersResolve ==
  ASSUME NobodyAbandons
  PROVE  Spec => [](OwnerResolves /\ NoFault)
<1>1. TypeInv /\ MutexInv /\ WaitInv /\ AliveInv => OwnerResolves /\ NoFault
  <2> SUFFICES ASSUME TypeInv, MutexInv, WaitInv, AliveInv
               PROVE  OwnerResolves /\ NoFault
    OBVIOUS
  <2>1. NoFault
    BY DEF NoFault, AliveInv, AliveOK, Calls, UserMode, TakeSteps, LeaveSteps, ExitSteps
  <2>2. ASSUME NEW t \in Threads, pc[t] \in {"t_boost1", "t_boost2", "t_part2"},
               th[t].wait = "PROCESSING"
        PROVE  OwnerPth(arg[t]) # NoThread
    <3>1. PICK c \in Crits : arg[t] = c
      BY <2>2 DEF TypeInv, ArgOK, ArgSteps, TakeSteps
    <3>2. t \in ToSet(cs[c].proxList)
      BY <2>2, <3>1 DEF WaitInv, ProxyOK, PlaceOK, InCall
    <3>3. cs[c].proxList # << >>
      BY <3>2, WaiterQueue, Members
    <3>4. cs[c].owner # NoThread
      BY <3>3 DEF WaitInv, WaitersOK
    <3> QED BY <3>1, <3>4, OwnerLives
  <2> QED BY <2>1, <2>2 DEF OwnerResolves
<1> QED BY <1>1, AliveAlways, PTL

\* The DEBUGCHKs of CSWaitPart1 and of LeaveCrit.
THEOREM DebugChecksHold ==
  ASSUME NobodyAbandons
  PROVE  Spec => []DebugChecks
<1>1. TypeInv /\ MutexInv /\ WaitInv /\ AliveInv => DebugChecks
  <2> SUFFICES ASSUME TypeInv, MutexInv, WaitInv, AliveInv, NEW t \in Threads
               PROVE  /\ pc[t] = "t_part1" => TakeChecks(t, arg[t])
                      /\ pc[t] = "l_leave" => LeaveChecks(t, arg[t])
    BY DEF DebugChecks
  <2>1. ASSUME pc[t] = "t_part1"
        PROVE  TakeChecks(t, arg[t])
    <3>1. PICK c \in Crits : arg[t] = c
      BY <2>1 DEF TypeInv, ArgOK, ArgSteps, TakeSteps
    <3>2. th[t].wait = "PROCESSING" /\ th[t].fresh
      BY <2>1 DEF WaitInv, ProxyOK
    <3>3. /\ cs[c].proxList # << >> => cs[c].needtrap /\ cs[c].owner # NoThread
          /\ cs[c].needtrap => cs[c].proxList # << >>
          /\ cs[c].bListed = 1 => cs[c].needtrap /\ cs[c].owner \in Threads
      BY DEF WaitInv, WaitersOK, AliveInv, TrapOK, MutexInv, PairInv, ListOK
    <3>4. cs[c].owner = NoThread \/ (OwnerPth(c) = cs[c].owner /\ OwnerPth(c) \in Threads)
      BY OwnerLives
    <3>5. CanTake(c) => cs[c].proxList = << >> /\ cs[c].bListed # 1
      BY <3>3, <3>4, NoThreadAssumption DEF CanTake
    <3>6. ASSUME CanSteal(t, c)
          PROVE  cs[c].lockCount = 1 /\ cs[c].bListed # 1
      <4>1. PICK o \in Threads : cs[c].owner = o /\ th[o].hLastCrit = c
        BY <3>4, <3>6 DEF CanSteal, CanTake
      <4>2. PairInv(o, c) /\ pc[o] # "fault"
        BY DEF MutexInv, AliveInv, AliveOK, Calls, UserMode, TakeSteps, LeaveSteps, ExitSteps
      <4>3. InCall(o, c, TakeSteps)
        BY <4>1, <4>2 DEF PairInv, WaitOK, InCall, QueuedSteps, TakeSteps
      <4> QED BY <4>1, <4>2, <4>3 DEF PairInv, CallerOK, ListOK
    <3> QED BY <3>1, <3>2, <3>3, <3>5, <3>6 DEF TakeChecks
  <2>2. ASSUME pc[t] = "l_leave"
        PROVE  LeaveChecks(t, arg[t])
    <3>1. PICK c \in Crits : arg[t] = c
      BY <2>2 DEF TypeInv, ArgOK, ArgSteps, LeaveSteps
    <3>2. Owns(t, c) /\ cs[c].lockCount = 1 /\ cs[c].bListed = 2
      BY <2>2, <3>1 DEF MutexInv, PairInv, CallerOK, WaitInv, PlaceOK, Owns, InCall
    <3>3. cs[c].proxList # << >> /\ th[Head(cs[c].proxList)].fresh
            => th[Head(cs[c].proxList)].hLastCrit = NoCrit
      BY FirstWaiter DEF WaitInv, ProxyOK
    <3> QED BY <3>1, <3>2, <3>3 DEF LeaveChecks
  <2> QED BY <2>1, <2>2
<1> QED BY <1>1, AliveAlways, PTL

-----------------------------------------------------------------------------
(* Nobody is overtaken. *)

\* A boost changes the priority of one thread.
LEMMA BoostPrio ==
  ASSUME NEW s \in SchedType, NEW t \in Threads, NEW p \in Priority
  PROVE  BoostCPrio(s, t, p).cprio = [s.cprio EXCEPT ![t] = p]
<1> DEFINE boosted == [s EXCEPT !.cprio[t] = p]
<1>1. boosted \in SchedType /\ boosted.cprio = [s.cprio EXCEPT ![t] = p]
  BY DEF SchedType
<1>2. RunqDequeue(boosted, t) \in SchedType /\ RunqDequeue(boosted, t).cprio = boosted.cprio
  BY <1>1, RunqDequeueType DEF RunqDequeue, SchedType
<1>3. \A r \in SchedType : MakeRun(r, t).cprio = r.cprio
  BY MakeRunFields
<1> QED BY <1>1, <1>2, <1>3 DEF BoostCPrio

\* What the operators leave of the priorities.
LEMMA PrioKept ==
  ASSUME NEW s \in SchedType, NEW t \in Threads, NEW p \in Priority
  PROVE  /\ SetReschedule(s).cprio = s.cprio
         /\ MakeRun(s, t).cprio = s.cprio
         /\ MakeRunIfNeeded(s, t).cprio = s.cprio
         /\ BlockCurrent(s).cprio = s.cprio
         /\ s.running \in Threads => ThreadYield(s).cprio = s.cprio
         /\ BoostCPrio(s, t, p).cprio = [s.cprio EXCEPT ![t] = p]
         /\ s.running \in Threads => SetRunningPrio(s, p).cprio = [s.cprio EXCEPT ![s.running] = p]
<1>1. \A r \in SchedType, u \in Threads : MakeRun(r, u).cprio = r.cprio
  BY MakeRunFields
<1>2. SetReschedule(s).cprio = s.cprio /\ BlockCurrent(s).cprio = s.cprio
  BY DEF SetReschedule, BlockCurrent, SchedType
<1>3. MakeRunIfNeeded(s, t).cprio = s.cprio
  BY <1>1 DEF MakeRunIfNeeded
<1>4. ASSUME s.running \in Threads
      PROVE  ThreadYield(s).cprio = s.cprio
  <2> DEFINE idle == SetReschedule([s EXCEPT !.running = NoThread])
  <2>1. idle \in SchedType /\ idle.cprio = s.cprio
    BY DEF SetReschedule, SchedType
  <2> QED BY <1>1, <1>4, <2>1 DEF ThreadYield
<1>5. BoostCPrio(s, t, p).cprio = [s.cprio EXCEPT ![t] = p]
  BY BoostPrio
<1>6. ASSUME s.running \in Threads
      PROVE  SetRunningPrio(s, p).cprio = [s.cprio EXCEPT ![s.running] = p]
  BY <1>6 DEF SetRunningPrio, SetReschedule, SchedType
<1> QED BY <1>1, <1>2, <1>3, <1>4, <1>5, <1>6

\* KCNextThread puts the running thread back at its priority, and dispatches the
\* head of the queue at its own or at the recomputed one if that is worse.
LEMMA DispatchPrio ==
  ASSUME NEW s \in SchedType
  PROVE  /\ \A b : /\ PutBackCurrent(s, b).cprio = s.cprio
                   /\ PutBackCurrent(s, b).running \in {s.running, NoThread}
         /\ \A prioCalc \in Priorities :
              Dispatches(s) =>
                LET next == Head(s.runq) IN
                /\ Dispatch(s, prioCalc).running = next
                /\ Dispatch(s, prioCalc).cprio =
                     IF prioCalc[next] > s.cprio[next]
                     THEN [s.cprio EXCEPT ![next] = prioCalc[next]] ELSE s.cprio
<1>1. ASSUME NEW b
      PROVE  /\ PutBackCurrent(s, b).cprio = s.cprio
             /\ PutBackCurrent(s, b).running \in {s.running, NoThread}
  BY DEF PutBackCurrent, SchedType
<1>2. ASSUME NEW prioCalc \in Priorities, Dispatches(s)
      PROVE  LET next == Head(s.runq) IN
             /\ Dispatch(s, prioCalc).running = next
             /\ Dispatch(s, prioCalc).cprio =
                  IF prioCalc[next] > s.cprio[next]
                  THEN [s.cprio EXCEPT ![next] = prioCalc[next]] ELSE s.cprio
  <2> DEFINE next == Head(s.runq)
             run == [s EXCEPT !.running = next, !.rs[next] = "RUNNING", !.runq = Tail(@)]
  <2>1. s.runq \in Seq(Threads) /\ s.runq # << >>
    BY <1>2 DEF Dispatches, SchedType
  <2>2. next \in Threads /\ Tail(s.runq) \in Seq(Threads)
    BY <2>1, HeadTailProperties
  <2>3. run \in SchedType /\ run.running = next /\ run.cprio = s.cprio
    BY <2>2 DEF SchedType, RunState
  <2>4. prioCalc[next] \in Priority
    BY <2>2 DEF Priorities
  <2> HIDE DEF run, next
  <2>5. /\ SetRunningPrio(run, prioCalc[next]).running = next
        /\ SetRunningPrio(run, prioCalc[next]).cprio = [s.cprio EXCEPT ![next] = prioCalc[next]]
    BY <2>2, <2>3, <2>4, PrioKept, RunningKept
  <2>6. Dispatch(s, prioCalc) = IF prioCalc[next] > s.cprio[next]
                                THEN SetRunningPrio(run, prioCalc[next]) ELSE run
    BY DEF Dispatch, run, next
  <2> QED BY <2>3, <2>5, <2>6 DEF next
<1> QED BY <1>1, <1>2

\* Some priority recorded for t is p or better, so a dispatch leaves t at p or better.
Lent(t, p) == th[t].bprio <= p \/ \E c \in OwnedList(t) : cs[c].bListedPrio <= p

\* A waiter is never worse than it asked to be served as, and no dispatch makes it
\* so; what the running thread was boosted to by waiters is on its owned list.
RankOK(t) ==
  /\ th[t].fresh => /\ sched.cprio[t] <= th[t].proxPrio /\ Lent(t, th[t].proxPrio)
                    /\ sched.rs[t] # "NEEDSRUN"
  /\ sched.running = t /\ ~th[t].noPrioCalc => Lent(t, sched.cprio[t])
  /\ th[t].noPrioCalc => pc[t] \in {"l_leave", "l_run", "l_post"}

\* The owned list has the priority of the best waiter, or one that is on the way to
\* PostBoostCrit1 brings it.
LendOK(c) ==
  /\ cs[c].bListed = 1 => \E u \in ToSet(cs[c].proxList) : th[u].proxPrio <= cs[c].bListedPrio
  /\ cs[c].bListed = 1 => \A u \in ToSet(cs[c].proxList) :
       \/ cs[c].bListedPrio <= th[u].proxPrio
       \/ \E v \in ToSet(cs[c].proxList) : pc[v] = "t_boost1" /\ th[v].proxPrio <= th[u].proxPrio
  /\ cs[c].bListed = 2 =>
       cs[c].owner \in Threads /\ pc[cs[c].owner] = "l_leave" /\ arg[cs[c].owner] = c

\* An owner that can be robbed is no worse than anybody asked who waits behind it,
\* and who asks is not the owner.
AheadOK(t, c) ==
  /\ th[t].hLastCrit = c /\ cs[c].owner = t =>
       \A u \in ToSet(cs[c].proxList) : sched.cprio[t] <= th[u].proxPrio
  /\ arg[t] = c /\ (pc[t] = "t_alloc" \/ th[t].fresh) => cs[c].owner # t

RankInv == /\ \A t \in Threads : RankOK(t)
           /\ \A c \in Crits : LendOK(c)
           /\ \A t \in Threads, c \in Crits : AheadOK(t, c)

\* The types of what the invariant compares.
LEMMA RankTypes ==
  ASSUME TypeInv
  PROVE  /\ \A t \in Threads : /\ sched.cprio[t] \in Int /\ th[t].proxPrio \in Int
                               /\ th[t].bprio \in Int
                               /\ th[t].fresh \in BOOLEAN /\ th[t].noPrioCalc \in BOOLEAN
         /\ \A c \in Crits : /\ cs[c].bListedPrio \in Int /\ cs[c].bListed \in 0 .. 2
                             /\ ToSet(cs[c].proxList) \subseteq Threads
<1>1. ASSUME NEW c \in Crits
      PROVE  ToSet(cs[c].proxList) \subseteq Threads
  <2>1. cs[c].proxList \in Seq(Threads)
    BY DEF TypeInv, TypeOK, CritType
  <2> QED BY <2>1, Members
<1>2. \A t \in Threads : /\ sched.cprio[t] \in Priority /\ th[t].proxPrio \in Priority
                         /\ th[t].bprio \in Priority
                         /\ th[t].fresh \in BOOLEAN /\ th[t].noPrioCalc \in BOOLEAN
  BY DEF TypeInv, TypeOK, SchedType, ThreadType
<1>3. \A c \in Crits : cs[c].bListedPrio \in Priority /\ cs[c].bListed \in 0 .. 2
  BY DEF TypeInv, TypeOK, CritType
<1> QED BY <1>1, <1>2, <1>3 DEF Priority

\* The ranks of the threads outside X stay or get better.
RanksStay(X) ==
  \A t \in Threads \ X :
    /\ pc'[t] = pc[t] /\ arg'[t] = arg[t]
    /\ th'[t].bprio = th[t].bprio /\ th'[t].noPrioCalc = th[t].noPrioCalc
    /\ th'[t].fresh => th[t].fresh /\ th'[t].proxPrio = th[t].proxPrio
    /\ sched'.cprio[t] <= sched.cprio[t]
    /\ sched'.running = t => sched.running = t /\ sched'.cprio[t] = sched.cprio[t]
    /\ sched'.rs[t] = "NEEDSRUN" => sched.rs[t] = "NEEDSRUN"
    /\ \A c \in Crits : cs[c].bListed = 1 /\ cs[c].linkedTo = t =>
         cs'[c].bListed = 1 /\ cs'[c].linkedTo = t /\ cs'[c].bListedPrio <= cs[c].bListedPrio

\* What is listed of critical sections outside D stays.
ListsStay(D) ==
  \A c \in Crits \ D :
    /\ cs'[c].proxList = cs[c].proxList
    /\ \A u \in ToSet(cs[c].proxList) : /\ th'[u].proxPrio = th[u].proxPrio
                                        /\ pc[u] = "t_boost1" => pc'[u] = "t_boost1"
    /\ cs'[c].bListed = 1 => cs[c].bListed = 1 /\ cs'[c].bListedPrio = cs[c].bListedPrio
    /\ cs'[c].bListed = 2 =>
         cs'[c].owner \in Threads /\ pc'[cs'[c].owner] = "l_leave" /\ arg'[cs'[c].owner] = c

\* Nobody becomes the owner, or one that can be robbed.
OwnersStay(D) ==
  \A c \in Crits \ D, t \in Threads :
    /\ cs'[c].owner = t => cs[c].owner = t \/ ~(arg'[t] = c /\ (pc'[t] = "t_alloc" \/ th'[t].fresh))
    /\ cs'[c].owner = t /\ th'[t].hLastCrit = c =>
         cs[c].owner = t /\ th[t].hLastCrit = c /\ sched'.cprio[t] <= sched.cprio[t]

\* Lending goes on.
LEMMA LentStays ==
  ASSUME TypeInv, TypeInv', NEW t \in Threads, th'[t].bprio = th[t].bprio,
         \A c \in Crits : cs[c].bListed = 1 /\ cs[c].linkedTo = t =>
           cs'[c].bListed = 1 /\ cs'[c].linkedTo = t /\ cs'[c].bListedPrio <= cs[c].bListedPrio,
         NEW p \in Int, NEW r \in Int, p <= r, Lent(t, p)
  PROVE  th'[t].bprio <= r \/ \E c \in OwnedList(t)' : cs'[c].bListedPrio <= r
<1>1. th[t].bprio \in Int
  BY RankTypes
<1>2. CASE th[t].bprio <= p
  BY <1>1, <1>2
<1>3. CASE \E c \in OwnedList(t) : cs[c].bListedPrio <= p
  <2>1. PICK c \in Crits : cs[c].bListed = 1 /\ cs[c].linkedTo = t /\ cs[c].bListedPrio <= p
    BY <1>3 DEF OwnedList
  <2>2. cs[c].bListedPrio \in Int
    BY RankTypes
  <2>3. cs'[c].bListedPrio \in Int
    <3>1. cs' \in [Crits -> CritType]
      BY DEF TypeInv, TypeOK
    <3>2. cs'[c].bListedPrio \in Priority
      BY <3>1 DEF CritType
    <3> QED BY <3>2 DEF Priority
  <2>4. cs'[c].bListed = 1 /\ cs'[c].linkedTo = t /\ cs'[c].bListedPrio <= r
    BY <2>1, <2>2, <2>3
  <2> QED BY <2>4 DEF OwnedList
<1> QED BY <1>2, <1>3 DEF Lent

\* So the invariant is left to show for the threads of X and the critical sections
\* of D.
LEMMA StayRank ==
  ASSUME TypeInv, TypeInv', RankInv, NEW X \in SUBSET Threads, NEW D \in SUBSET Crits,
         RanksStay(X), ListsStay(D), OwnersStay(D),
         \A t \in X : RankOK(t)' /\ \A c \in Crits \ D : arg'[t] = c
                         /\ (pc'[t] = "t_alloc" \/ th'[t].fresh) => cs'[c].owner # t,
         \A c \in D : LendOK(c)' /\ \A t \in Threads : AheadOK(t, c)'
  PROVE  RankInv'
<1>1. ASSUME NEW t \in Threads \ X
      PROVE  RankOK(t)'
  <2>1. /\ sched.cprio[t] \in Int /\ sched'.cprio[t] \in Int /\ th[t].proxPrio \in Int
        /\ th[t].bprio \in Int
    <3>1. sched' \in SchedType
      BY DEF TypeInv, TypeOK
    <3> QED BY <3>1, RankTypes, SchedFields
  <2>2. RankOK(t)
    BY DEF RankInv
  <2>3. /\ th'[t].bprio = th[t].bprio
        /\ \A c \in Crits : cs[c].bListed = 1 /\ cs[c].linkedTo = t =>
             cs'[c].bListed = 1 /\ cs'[c].linkedTo = t /\ cs'[c].bListedPrio <= cs[c].bListedPrio
    BY DEF RanksStay
  <2>4. ASSUME th'[t].fresh
        PROVE  /\ sched'.cprio[t] <= th'[t].proxPrio /\ Lent(t, th[t].proxPrio)'
               /\ sched'.rs[t] # "NEEDSRUN"
    <3>1. /\ th'[t].proxPrio = th[t].proxPrio /\ sched.cprio[t] <= th[t].proxPrio
          /\ Lent(t, th[t].proxPrio) /\ sched.rs[t] # "NEEDSRUN" /\ sched'.cprio[t] <= sched.cprio[t]
      BY <2>2, <2>4 DEF RanksStay, RankOK
    <3>2. \/ th'[t].bprio <= th'[t].proxPrio
          \/ \E c \in OwnedList(t)' : cs'[c].bListedPrio <= th'[t].proxPrio
      BY <2>1, <2>3, <3>1, LentStays
    <3>3. Lent(t, th[t].proxPrio)'
      BY <3>2 DEF Lent
    <3>4. sched'.cprio[t] <= th'[t].proxPrio /\ sched'.rs[t] # "NEEDSRUN"
      BY <2>1, <3>1 DEF RanksStay
    <3> QED BY <3>3, <3>4
  <2>5. ASSUME sched'.running = t, ~th'[t].noPrioCalc
        PROVE  Lent(t, sched.cprio[t])'
    <3>1. sched'.cprio[t] = sched.cprio[t] /\ Lent(t, sched.cprio[t])
      BY <2>2, <2>5 DEF RanksStay, RankOK
    <3>2. \/ th'[t].bprio <= sched'.cprio[t]
          \/ \E c \in OwnedList(t)' : cs'[c].bListedPrio <= sched'.cprio[t]
      BY <2>1, <2>3, <3>1, LentStays
    <3> QED BY <3>2 DEF Lent
  <2>6. th'[t].noPrioCalc => pc'[t] \in {"l_leave", "l_run", "l_post"}
    BY <2>2 DEF RanksStay, RankOK
  <2> QED BY <2>4, <2>5, <2>6 DEF RankOK
<1>2. ASSUME NEW c \in Crits \ D
      PROVE  LendOK(c)'
  <2>1. LendOK(c)
    BY DEF RankInv
  <2>2. /\ cs'[c].proxList = cs[c].proxList
        /\ \A u \in ToSet(cs[c].proxList) : /\ th'[u].proxPrio = th[u].proxPrio
                                            /\ pc[u] = "t_boost1" => pc'[u] = "t_boost1"
        /\ cs'[c].bListed = 1 => cs[c].bListed = 1 /\ cs'[c].bListedPrio = cs[c].bListedPrio
        /\ cs'[c].bListed = 2 =>
         cs'[c].owner \in Threads /\ pc'[cs'[c].owner] = "l_leave" /\ arg'[cs'[c].owner] = c
    BY DEF ListsStay
  <2> QED BY ONLY <2>1, <2>2 DEF LendOK, InCall
<1>3. ASSUME NEW c \in Crits \ D, NEW t \in Threads
      PROVE  AheadOK(t, c)'
  <2>1. /\ sched.cprio[t] \in Int /\ sched'.cprio[t] \in Int
        /\ \A u \in ToSet(cs[c].proxList) : th[u].proxPrio \in Int
    <3>1. sched' \in SchedType
      BY DEF TypeInv, TypeOK
    <3> QED BY <3>1, RankTypes, SchedFields
  <2>2. AheadOK(t, c)
    BY DEF RankInv
  <2>3. ASSUME th'[t].hLastCrit = c, cs'[c].owner = t, NEW u \in ToSet(cs'[c].proxList)
        PROVE  sched'.cprio[t] <= th'[u].proxPrio
    <3>1. /\ th[t].hLastCrit = c /\ cs[c].owner = t /\ sched'.cprio[t] <= sched.cprio[t]
          /\ u \in ToSet(cs[c].proxList) /\ th'[u].proxPrio = th[u].proxPrio
      BY <2>3 DEF OwnersStay, ListsStay
    <3>2. sched.cprio[t] <= th[u].proxPrio
      BY <2>2, <3>1 DEF AheadOK
    <3> QED BY <2>1, <3>1, <3>2
  <2>4. ASSUME arg'[t] = c, pc'[t] = "t_alloc" \/ th'[t].fresh
        PROVE  cs'[c].owner # t
    <3>1. CASE t \in X
      BY <2>4, <3>1
    <3>2. CASE t \notin X
      BY <2>2, <2>4, <3>2 DEF AheadOK, RanksStay, OwnersStay
    <3> QED BY <3>1, <3>2
  <2> QED BY <2>3, <2>4 DEF AheadOK
<1> QED BY <1>1, <1>2, <1>3 DEF RankInv

\* A step of the running thread that leaves queues, lists and the others alone.
LEMMA OwnStepRank ==
  ASSUME TypeInv, TypeInv', MutexInv, RankInv, NEW s \in Threads, Runs(s),
         \A t \in Threads \ {s} : /\ pc'[t] = pc[t] /\ arg'[t] = arg[t] /\ th'[t] = th[t]
                                  /\ sched'.cprio[t] = sched.cprio[t]
                                  /\ sched'.rs[t] = "NEEDSRUN" => sched.rs[t] = "NEEDSRUN",
         sched'.running \in {s, NoThread},
         \A c \in Crits :
           /\ cs'[c].proxList = cs[c].proxList /\ cs'[c].bListed = cs[c].bListed
           /\ cs'[c].bListedPrio = cs[c].bListedPrio /\ cs'[c].linkedTo = cs[c].linkedTo
           /\ cs'[c].owner = cs[c].owner \/ (cs[c].bListed # 2 /\ cs'[c].owner \in {s, NoThread})
           /\ s \in ToSet(cs[c].proxList) => th'[s].proxPrio = th[s].proxPrio
           /\ arg'[s] = c /\ (pc'[s] = "t_alloc" \/ th'[s].fresh) => cs'[c].owner # s,
         th'[s].hLastCrit = th[s].hLastCrit, pc[s] \notin {"t_boost1", "l_leave"}, RankOK(s)'
  PROVE  RankInv'
<1>1. /\ th[s].hLastCrit = NoCrit /\ NoThread \notin Threads
      /\ \A c \in Crits : c # NoCrit
  BY Actor
<1>2. \A t \in Threads : sched.cprio[t] \in Int
  BY RankTypes
<1>3. \A c \in Crits : cs[c].bListedPrio \in Int /\ ToSet(cs[c].proxList) \subseteq Threads
  BY RankTypes
<1>4. RanksStay({s})
  BY <1>1, <1>2, <1>3 DEF RanksStay
<1>5. ListsStay({})
  <2> SUFFICES ASSUME NEW c \in Crits
               PROVE  /\ \A u \in ToSet(cs[c].proxList) : /\ th'[u].proxPrio = th[u].proxPrio
                                                          /\ pc[u] = "t_boost1" => pc'[u] = "t_boost1"
                      /\ cs'[c].bListed = 2 => /\ cs'[c].owner \in Threads
                                               /\ pc'[cs'[c].owner] = "l_leave"
                                               /\ arg'[cs'[c].owner] = c
    BY DEF ListsStay
  <2>1. cs[c].bListed = 2 => /\ cs[c].owner \in Threads \ {s} /\ pc[cs[c].owner] = "l_leave"
                             /\ arg[cs[c].owner] = c
    BY DEF RankInv, LendOK
  <2> QED BY <1>3, <2>1
<1>6. OwnersStay({})
  BY <1>1, <1>2 DEF OwnersStay
<1> QED BY <1>4, <1>5, <1>6, StayRank

\* In which nothing about its own rank changes either.
LEMMA QuietRank ==
  ASSUME TypeInv, TypeInv', MutexInv, RankInv, NEW s \in Threads, Runs(s),
         \A t \in Threads \ {s} : pc'[t] = pc[t] /\ arg'[t] = arg[t] /\ th'[t] = th[t],
         sched'.cprio = sched.cprio, sched'.running \in {s, NoThread},
         \A t \in Threads : sched'.rs[t] = "NEEDSRUN" => sched.rs[t] = "NEEDSRUN",
         \A c \in Crits :
           /\ cs'[c].proxList = cs[c].proxList /\ cs'[c].bListed = cs[c].bListed
           /\ cs'[c].bListedPrio = cs[c].bListedPrio /\ cs'[c].linkedTo = cs[c].linkedTo
           /\ cs'[c].owner = cs[c].owner \/ (cs[c].bListed # 2 /\ cs'[c].owner \in {s, NoThread})
           /\ s \in ToSet(cs[c].proxList) => th'[s].proxPrio = th[s].proxPrio
           /\ arg'[s] = c /\ (pc'[s] = "t_alloc" \/ th'[s].fresh) => cs'[c].owner # s,
         th'[s].hLastCrit = th[s].hLastCrit, th'[s].bprio = th[s].bprio,
         th'[s].noPrioCalc = th[s].noPrioCalc,
         th'[s].fresh => th[s].fresh /\ th'[s].proxPrio = th[s].proxPrio,
         pc[s] \notin {"t_boost1", "l_leave", "l_run", "l_post"}
  PROVE  RankInv'
<1>1. RankOK(s) /\ sched.running = s
  BY DEF RankInv, Runs
<1>2. \A p : Lent(s, p) => \/ th'[s].bprio <= p
                           \/ \E c \in OwnedList(s)' : cs'[c].bListedPrio <= p
  BY DEF Lent, OwnedList
<1>3. RankOK(s)'
  <2>1. th'[s].fresh => /\ sched'.cprio[s] <= th'[s].proxPrio
                        /\ \/ th'[s].bprio <= th'[s].proxPrio
                           \/ \E c \in OwnedList(s)' : cs'[c].bListedPrio <= th'[s].proxPrio
                        /\ sched'.rs[s] # "NEEDSRUN"
    BY <1>1, <1>2 DEF RankOK
  <2>2. ~th'[s].noPrioCalc
    BY <1>1 DEF RankOK
  <2>3. \/ th'[s].bprio <= sched'.cprio[s]
        \/ \E c \in OwnedList(s)' : cs'[c].bListedPrio <= sched'.cprio[s]
    BY <1>1, <1>2, <2>2 DEF RankOK
  <2> QED BY <2>1, <2>2, <2>3 DEF RankOK, Lent
<1> QED BY <1>3, OwnStepRank

\* The user-mode halves of entering and leaving, thread exit, and a client that
\* blocks.
LEMMA UserRank ==
  ASSUME NobodyAbandons, TypeInv, TypeInv', MutexInv, WaitInv, AliveInv, RankInv, NEW s \in Threads,
         Enter(s) \/ Leave(s) \/ Exit(s) \/ Block(s)
  PROVE  RankInv'
<1>1. Runs(s) /\ pc[s] \in UserMode \union ExitSteps
  BY DEF Enter, EnterAgain, EnterFast, EnterSlow, EnterSetCount, Leave, LeaveNested, LeaveMark,
         LeaveTest, LeaveFree, Exit, ExitThread, NKTerminateThread, DoLeaveSomething, LeaveListed,
         RemoveThread, Block, At, UserMode, ExitSteps
<1>2. ~LeaveListed(s) /\ ~th[s].fresh /\ sched.running = s /\ NoThread \notin Threads
  <2>1. ~LeaveListed(s)
    BY DEF LeaveListed, At, AliveInv, AliveOK
  <2>2. ~th[s].fresh
    BY <1>1, WaitActor DEF ProxyOK, UserMode, ExitSteps
  <2> QED BY <1>1, <2>1, <2>2, Actor DEF Runs
<1>3. \A t \in Threads \ {s} : pc'[t] = pc[t] /\ arg'[t] = arg[t] /\ th'[t] = th[t]
  <2>1. th \in [Threads -> ThreadType] /\ pc \in [Threads -> PCs] /\ DOMAIN arg = Threads
    BY DEF TypeInv, TypeOK
  <2>2. \A t \in Threads \ {s} : pc'[t] = pc[t] /\ arg'[t] = arg[t]
    BY <2>1, <1>2 DEF Enter, EnterAgain, EnterFast, EnterSlow, EnterSetCount, Leave, LeaveNested,
       LeaveMark, LeaveTest, LeaveFree, Exit, ExitThread, NKTerminateThread, DoLeaveSomething,
       RemoveThread, Block, Goto, DropFrame
  <2>3. th' \in {th, [th EXCEPT ![s].dead = TRUE], [th EXCEPT ![s].buried = TRUE]}
    BY <1>2 DEF Enter, EnterAgain, EnterFast, EnterSlow, EnterSetCount, Leave, LeaveNested,
       LeaveMark, LeaveTest, LeaveFree, Exit, ExitThread, NKTerminateThread, DoLeaveSomething,
       RemoveThread, Block
  <2> QED BY <2>1, <2>2, <2>3
<1>4. /\ th'[s].hLastCrit = th[s].hLastCrit /\ th'[s].bprio = th[s].bprio
      /\ th'[s].noPrioCalc = th[s].noPrioCalc /\ th'[s].proxPrio = th[s].proxPrio
      /\ th'[s].fresh = th[s].fresh
  <2>1. th \in [Threads -> ThreadType]
    BY DEF TypeInv, TypeOK
  <2>2. th' \in {th, [th EXCEPT ![s].dead = TRUE], [th EXCEPT ![s].buried = TRUE]}
    BY <1>2 DEF Enter, EnterAgain, EnterFast, EnterSlow, EnterSetCount, Leave, LeaveNested,
       LeaveMark, LeaveTest, LeaveFree, Exit, ExitThread, NKTerminateThread, DoLeaveSomething,
       RemoveThread, Block
  <2> QED BY ONLY <2>1, <2>2, s \in Threads DEF ThreadType
<1>5. /\ sched'.cprio = sched.cprio /\ sched'.running \in {s, NoThread}
      /\ \A t \in Threads : sched'.rs[t] = "NEEDSRUN" => sched.rs[t] = "NEEDSRUN"
  <2>1. sched' = sched \/ sched' = BlockCurrent(sched)
    BY <1>2 DEF Enter, EnterAgain, EnterFast, EnterSlow, EnterSetCount, Leave, LeaveNested,
       LeaveMark, LeaveTest, LeaveFree, Exit, ExitThread, NKTerminateThread, DoLeaveSomething,
       RemoveThread, Block
  <2>2. sched \in SchedType
    BY DEF TypeInv, TypeOK
  <2>3. CASE sched' = BlockCurrent(sched)
    <3>1. sched'.cprio = sched.cprio /\ sched'.running = NoThread
      <4>1. 0 \in Priority
        BY DEF Priority, MAX_PRIORITY_LEVELS
      <4> QED BY <2>2, <2>3, <4>1, PrioKept, RunningKept
    <3>2. sched'.rs = [sched.rs EXCEPT ![s] = "BLOCKED"]
      BY <1>2, <2>3, WaitActor, BlockCurrentOK, <1>1
    <3> QED BY <2>2, <3>1, <3>2 DEF SchedType
  <2> QED BY <1>2, <2>1, <2>3
<1>6. ASSUME NEW c \in Crits
      PROVE  /\ cs'[c].proxList = cs[c].proxList /\ cs'[c].bListed = cs[c].bListed
             /\ cs'[c].bListedPrio = cs[c].bListedPrio /\ cs'[c].linkedTo = cs[c].linkedTo
             /\ cs'[c].owner = cs[c].owner \/ (cs[c].bListed # 2 /\ cs'[c].owner \in {s, NoThread})
  <2>1. cs \in [Crits -> CritType]
    BY DEF TypeInv, TypeOK
  <2>2. cs[c].bListed = 2 => cs[c].owner \in Threads /\ pc[cs[c].owner] = "l_leave"
    BY DEF RankInv, LendOK
  <2>3. ASSUME NEW d \in Crits, EnterFast(s, d)
        PROVE  /\ cs'[c].proxList = cs[c].proxList /\ cs'[c].bListed = cs[c].bListed
               /\ cs'[c].bListedPrio = cs[c].bListedPrio /\ cs'[c].linkedTo = cs[c].linkedTo
               /\ cs'[c].owner = cs[c].owner \/ (cs[c].bListed # 2 /\ cs'[c].owner = s)
    <3>1. cs[d].owner = NoThread /\ cs' = [cs EXCEPT ![d].owner = s, ![d].low = FALSE]
      BY <2>3 DEF EnterFast
    <3>2. /\ cs'[c].proxList = cs[c].proxList /\ cs'[c].bListed = cs[c].bListed
          /\ cs'[c].bListedPrio = cs[c].bListedPrio /\ cs'[c].linkedTo = cs[c].linkedTo
          /\ c = d => cs'[c].owner = s
          /\ c # d => cs'[c].owner = cs[c].owner
      BY ONLY <2>1, <3>1, d \in Crits, c \in Crits DEF CritType
    <3> QED BY <1>2, <2>2, <3>1, <3>2
  <2>4. ASSUME LeaveFree(s)
        PROVE  /\ cs'[c].proxList = cs[c].proxList /\ cs'[c].bListed = cs[c].bListed
               /\ cs'[c].bListedPrio = cs[c].bListedPrio /\ cs'[c].linkedTo = cs[c].linkedTo
               /\ cs'[c].owner = cs[c].owner \/ (cs[c].bListed # 2 /\ cs'[c].owner = NoThread)
    <3>1. pc[s] = "l_free" /\ cs' = [cs EXCEPT ![arg[s]] = ExchangeFree(cs[arg[s]], s)]
      BY <2>4 DEF LeaveFree, At
    <3>2. \/ cs'[c] = cs[c]
          \/ cs[c].owner = s /\ cs'[c] = [cs[c] EXCEPT !.owner = NoThread, !.low = FALSE]
      BY <2>1, <3>1 DEF ExchangeFree
    <3>3. cs[c].owner = s => cs[c].bListed # 2
      BY <2>2, <3>1
    <3>4. ASSUME NEW new, new = [cs[c] EXCEPT !.owner = NoThread, !.low = FALSE]
          PROVE  /\ new.proxList = cs[c].proxList /\ new.bListed = cs[c].bListed
                 /\ new.bListedPrio = cs[c].bListedPrio /\ new.linkedTo = cs[c].linkedTo
                 /\ new.owner = NoThread
      BY ONLY <2>1, <3>4, c \in Crits DEF CritType
    <3> QED BY <3>2, <3>3, <3>4
  <2>5. ASSUME NEW d, NEW m, cs' = [cs EXCEPT ![d].lockCount = m] \/ cs' = [cs EXCEPT ![d].low = TRUE]
        PROVE  /\ cs'[c].proxList = cs[c].proxList /\ cs'[c].bListed = cs[c].bListed
               /\ cs'[c].bListedPrio = cs[c].bListedPrio /\ cs'[c].linkedTo = cs[c].linkedTo
               /\ cs'[c].owner = cs[c].owner
    <3>1. CASE cs' = [cs EXCEPT ![d].lockCount = m]
      BY ONLY <2>1, <3>1, c \in Crits DEF CritType
    <3>2. CASE cs' = [cs EXCEPT ![d].low = TRUE]
      BY ONLY <2>1, <3>2, c \in Crits DEF CritType
    <3> QED BY <2>5, <3>1, <3>2
  <2>6. \/ \E d \in Crits : EnterFast(s, d)
        \/ LeaveFree(s)
        \/ \E d, m : cs' = [cs EXCEPT ![d].lockCount = m] \/ cs' = [cs EXCEPT ![d].low = TRUE]
        \/ cs' = cs
    <3>1. CASE Enter(s)
      BY <3>1 DEF Enter, EnterAgain, EnterSlow, EnterSetCount
    <3>2. CASE Leave(s)
      BY <3>2 DEF Leave, LeaveNested, LeaveMark, LeaveTest
    <3>3. CASE Exit(s) \/ Block(s)
      BY <1>2, <3>3 DEF Exit, ExitThread, NKTerminateThread, DoLeaveSomething, RemoveThread, Block
    <3> QED BY <3>1, <3>2, <3>3
  <2> QED BY <2>3, <2>4, <2>5, <2>6
<1>8. ASSUME NEW c \in Crits, arg'[s] = c, pc'[s] = "t_alloc"
      PROVE  cs'[c].owner # s
  <2>1. PICK d \in Crits : EnterSlow(s, d)
    <3>1. pc \in [Threads -> PCs]
      BY DEF TypeInv, TypeOK
    <3> QED BY <1>1, <1>2, <1>8, <3>1 DEF Enter, EnterAgain, EnterFast, EnterSetCount, Leave,
           LeaveNested, LeaveMark, LeaveTest, LeaveFree, Exit, ExitThread, NKTerminateThread,
           DoLeaveSomething, RemoveThread, Block, Goto, At, UserMode, ExitSteps
  <2>2. /\ pc[s] = "user" /\ d = c /\ cs' = cs /\ ~Owns(s, d)
    BY <1>8, <2>1 DEF EnterSlow, At, TypeInv, TypeOK
  <2>3. ~th[s].dead /\ MarkOK(s, c)
    BY <2>2 DEF AliveInv, AliveOK, MutexInv, PairInv
  <2> QED BY <2>2, <2>3 DEF MarkOK, Owns, Leaving, InCall, ExitSteps
<1>7. pc[s] \notin {"t_boost1", "l_leave", "l_run", "l_post"}
  BY <1>1 DEF UserMode, ExitSteps
<1> QED BY <1>1, <1>2, <1>3, <1>4, <1>5, <1>6, <1>7, <1>8, QuietRank

\* The priority a dispatch computes is one of those recorded, and the best.
LEMMA LentPrio ==
  ASSUME TypeInv, NEW t \in Threads, NEW prio, prio = PrioFrom(t, OwnedList(t))
  PROVE  prio \in Priority /\ Lent(t, prio) /\ \A p \in Int : Lent(t, p) => prio <= p
<1> DEFINE S == {th[t].bprio} \union {cs[c].bListedPrio : c \in OwnedList(t)}
<1>1. th[t].bprio \in Priority /\ \A c \in OwnedList(t) : cs[c].bListedPrio \in Priority
  BY DEF TypeInv, TypeOK, ThreadType, CritType, OwnedList
<1>2. S \in SUBSET Priority /\ S # {}
  BY <1>1
<1>3. Min(S) \in S /\ \A y \in S : Min(S) <= y
  BY <1>2, MinPriority
<1>4. prio \in S /\ prio \in Priority /\ \A y \in S : prio <= y
  BY <1>2, <1>3 DEF PrioFrom
<1>5. Lent(t, prio)
  <2>1. CASE prio = th[t].bprio
    BY <1>4, <2>1 DEF Lent, Priority
  <2>2. CASE \E c \in OwnedList(t) : prio = cs[c].bListedPrio
    BY <1>4, <2>2 DEF Lent, Priority
  <2> QED BY <1>4, <2>1, <2>2
<1>6. ASSUME NEW p \in Int, Lent(t, p)
      PROVE  prio <= p
  <2>1. PICK y \in S : y <= p
    BY <1>6 DEF Lent
  <2>2. prio <= y /\ prio \in Int /\ y \in Int
    BY <1>2, <1>4 DEF Priority
  <2> QED BY <2>1, <2>2
<1> QED BY <1>4, <1>5, <1>6

\* A step that changes nothing but the scheduler's record.
LEMMA SchedRank ==
  ASSUME TypeInv, TypeInv', RankInv, cs' = cs, th' = th, pc' = pc, arg' = arg,
         sched'.cprio = sched.cprio, sched'.running \in {sched.running, NoThread},
         \A t \in Threads : sched'.rs[t] = "NEEDSRUN" => sched.rs[t] = "NEEDSRUN"
  PROVE  RankInv'
<1>1. \A t \in Threads : sched.cprio[t] \in Int
  BY RankTypes
<1>2. \A c \in Crits : cs[c].bListedPrio \in Int
  BY RankTypes
<1>3. RanksStay({})
  BY <1>1, <1>2, NoThreadAssumption DEF RanksStay
<1>4. ListsStay({})
  BY DEF ListsStay, RankInv, LendOK
<1>5. OwnersStay({})
  BY <1>1 DEF OwnersStay
<1> QED BY <1>3, <1>4, <1>5, StayRank

\* A wake-up, the end of a quantum and the end of the system.
LEMMA WakeRank ==
  ASSUME TypeInv, TypeInv', RankInv,
         (\E t \in Threads : Wake(t)) \/ QuantumTick \/ AllGone \/ UNCHANGED vars
  PROVE  RankInv'
<1>1. sched \in SchedType
  BY DEF TypeInv, TypeOK
<1>2. ASSUME NEW t \in Threads, Wake(t)
      PROVE  RankInv'
  <2>1. sched' = MakeRun(sched, t) /\ cs' = cs /\ th' = th /\ pc' = pc /\ arg' = arg
    BY <1>2 DEF Wake
  <2>2. sched'.cprio = sched.cprio /\ sched'.running = sched.running
        /\ sched'.rs = [sched.rs EXCEPT ![t] = "RUNNABLE"]
    BY <1>1, <2>1, MakeRunFields
  <2>3. \A u \in Threads : sched'.rs[u] = "NEEDSRUN" => sched.rs[u] = "NEEDSRUN"
    BY <1>1, <2>2 DEF SchedType
  <2> QED BY <2>1, <2>2, <2>3, SchedRank
<1>3. CASE QuantumTick \/ AllGone \/ UNCHANGED vars
  <2>1. (sched' = sched \/ sched' = SetReschedule(sched)) /\ cs' = cs /\ th' = th /\ pc' = pc /\ arg' = arg
    BY <1>3 DEF QuantumTick, AllGone, vars
  <2>2. sched'.cprio = sched.cprio /\ sched'.running = sched.running /\ sched'.rs = sched.rs
    BY <1>1, <2>1 DEF SetReschedule, SchedType
  <2> QED BY <2>1, <2>2, SchedRank
<1> QED BY <1>2, <1>3

\* KCNextThread dispatches a thread at its own priority or at a worse one it still
\* has from what it owns; in either case nobody can rob it any more.
LEMMA NextThreadRank ==
  ASSUME TypeInv, TypeInv', WaitInv, RankInv, KCNextThread
  PROVE  RankInv'
<1>1. PICK b \in {FALSE, TimeSlice} :
        LET back == PutBackCurrent([sched EXCEPT !.resched = FALSE], b)
            next == Head(back.runq)
            prioCalc == [t \in Threads |-> IF th[t].noPrioCalc THEN sched.cprio[t]
                                           ELSE PrioFrom(t, OwnedList(t))]
        IN  IF Dispatches(back)
            THEN /\ sched' = Dispatch(back, prioCalc)
                 /\ th' = [th EXCEPT ![next] = NotStealable(@)]
            ELSE sched' = back /\ th' = th
  BY DEF KCNextThread
<1>2. cs' = cs /\ pc' = pc /\ arg' = arg
  BY DEF KCNextThread
<1> DEFINE quiet == [sched EXCEPT !.resched = FALSE]
           back == PutBackCurrent(quiet, b)
           next == Head(back.runq)
           prioCalc == [t \in Threads |-> IF th[t].noPrioCalc THEN sched.cprio[t]
                                          ELSE PrioFrom(t, OwnedList(t))]
<1>3. /\ quiet \in SchedType /\ quiet.running = sched.running /\ quiet.cprio = sched.cprio
      /\ quiet.rs = sched.rs /\ ~quiet.resched /\ QueueHolds(quiet) /\ RunningMarked(quiet)
  <2>1. sched \in SchedType /\ QueueHolds(sched) /\ RunningMarked(sched)
    BY DEF WaitInv, SchedOK
  <2>2. /\ quiet \in SchedType /\ quiet.running = sched.running /\ quiet.cprio = sched.cprio
        /\ quiet.rs = sched.rs /\ ~quiet.resched /\ quiet.runq = sched.runq
    BY <2>1 DEF SchedType
  <2> QED BY <2>1, <2>2 DEF QueueHolds, RunningMarked, Runnable
<1>4. prioCalc \in Priorities
  <2>1. \A t \in Threads : PrioFrom(t, OwnedList(t)) \in Priority /\ sched.cprio[t] \in Priority
    BY LentPrio DEF TypeInv, TypeOK, SchedType
  <2> QED BY <2>1 DEF Priorities
<1>5. b \in BOOLEAN
  BY BoundAssumption
<1> HIDE DEF quiet
<1>6. /\ back \in SchedType /\ back.cprio = sched.cprio /\ back.running \in {sched.running, NoThread}
      /\ QueueHolds(back) /\ RunningMarked(back)
      /\ \A t \in Threads : back.rs[t] = "NEEDSRUN" => sched.rs[t] = "NEEDSRUN"
  <2>1. /\ back \in SchedType /\ QueueHolds(back) /\ RunningMarked(back)
        /\ \/ back.rs = sched.rs
           \/ quiet.running \in Threads /\ back.rs = [sched.rs EXCEPT ![quiet.running] = "RUNNABLE"]
    BY <1>3, <1>5, PutBackCurrentOK
  <2>2. back.cprio = sched.cprio /\ back.running \in {sched.running, NoThread}
    BY <1>3, DispatchPrio
  <2>3. sched.rs \in [Threads -> RunState]
    BY DEF TypeInv, TypeOK, SchedType
  <2> QED BY <2>1, <2>2, <2>3
<1>7. CASE ~Dispatches(back)
  <2>1. sched' = back /\ th' = th
    BY <1>1, <1>7 DEF quiet
  <2> QED BY <1>2, <1>6, <2>1, SchedRank
<1>8. CASE Dispatches(back)
  <2>1. sched' = Dispatch(back, prioCalc) /\ th' = [th EXCEPT ![next] = NotStealable(th[next])]
    BY <1>1, <1>8 DEF quiet
  <2> HIDE DEF back, prioCalc
  <2>2. PICK n \in Threads : n = next /\ sched'.rs = [back.rs EXCEPT ![n] = "RUNNING"]
    BY <1>4, <1>6, <1>8, <2>1, DispatchOK
  <2>3. /\ sched'.running = n
        /\ sched'.cprio = IF prioCalc[n] > sched.cprio[n]
                          THEN [sched.cprio EXCEPT ![n] = prioCalc[n]] ELSE sched.cprio
    BY <1>4, <1>6, <1>8, <2>1, <2>2, DispatchPrio
  <2> HIDE DEF next
  <2>4. /\ th'[n].hLastCrit = NoCrit
        /\ \A t \in Threads :
             /\ th'[t].bprio = th[t].bprio /\ th'[t].noPrioCalc = th[t].noPrioCalc
             /\ th'[t].fresh = th[t].fresh /\ th'[t].proxPrio = th[t].proxPrio
             /\ t # n => th'[t].hLastCrit = th[t].hLastCrit
    <3>1. th \in [Threads -> ThreadType]
      BY DEF TypeInv, TypeOK
    <3> QED BY ONLY <2>1, <2>2, <3>1 DEF NotStealable, ThreadType
  <2>5. /\ sched.cprio \in [Threads -> Int] /\ prioCalc[n] \in Int
        /\ \A t \in Threads \ {n} : sched'.cprio[t] = sched.cprio[t]
    <3>1. sched.cprio \in Priorities
      BY DEF TypeInv, TypeOK, SchedType, Priorities
    <3> QED BY <1>4, <2>2, <2>3, <3>1 DEF Priorities, Priority
  <2>6. \A t \in Threads : sched'.rs[t] = "NEEDSRUN" => sched.rs[t] = "NEEDSRUN" /\ t # n
    <3>1. back.rs \in [Threads -> RunState]
      BY <1>6, SchedFields
    <3> QED BY <1>6, <2>2, <3>1
  <2>7. sched'.cprio[n] = IF prioCalc[n] > sched.cprio[n] THEN prioCalc[n]
                             ELSE sched.cprio[n]
    BY <2>2, <2>3, <2>5
  <2>8. prioCalc[n] = IF th[n].noPrioCalc THEN sched.cprio[n]
                         ELSE PrioFrom(n, OwnedList(n))
    BY <2>2 DEF prioCalc
  <2>9. /\ Lent(n, PrioFrom(n, OwnedList(n)))
        /\ \A p \in Int : Lent(n, p) => PrioFrom(n, OwnedList(n)) <= p
    BY <2>2, LentPrio
  <2>10. RankOK(n)'
    <3>1. RankOK(n) /\ th[n].proxPrio \in Int /\ th[n].fresh \in BOOLEAN
          /\ th[n].noPrioCalc \in BOOLEAN
      BY <2>2, RankTypes DEF RankInv
    <3>2. \A p : Lent(n, p) => \/ th'[n].bprio <= p
                                  \/ \E c \in OwnedList(n)' : cs'[c].bListedPrio <= p
      BY <1>2, <2>2, <2>4 DEF Lent, OwnedList
    <3>3. th'[n].fresh => sched'.cprio[n] <= th'[n].proxPrio
      <4> SUFFICES ASSUME th[n].fresh
                   PROVE  sched'.cprio[n] <= th[n].proxPrio
        BY <2>2, <2>4
      <4>1. sched.cprio[n] <= th[n].proxPrio /\ Lent(n, th[n].proxPrio)
        BY <3>1 DEF RankOK
      <4>2. prioCalc[n] <= th[n].proxPrio
        BY <2>8, <2>9, <3>1, <4>1
      <4> QED BY <2>7, <4>1, <4>2
    <3>4. ~th'[n].noPrioCalc => Lent(n, sched'.cprio[n])
      <4> SUFFICES ASSUME ~th[n].noPrioCalc
                   PROVE  Lent(n, sched'.cprio[n])
        BY <2>2, <2>4
      <4>1. prioCalc[n] = PrioFrom(n, OwnedList(n))
        BY <2>8
      <4>2. CASE prioCalc[n] > sched.cprio[n]
        BY <2>7, <2>9, <4>1, <4>2
      <4>3. CASE ~(prioCalc[n] > sched.cprio[n])
        <5>1. sched'.cprio[n] = sched.cprio[n] /\ prioCalc[n] <= sched.cprio[n]
              /\ sched.cprio[n] \in Int
          BY <2>2, <2>5, <2>7, <4>3
        <5>2. \A c \in OwnedList(n) : cs[c].bListedPrio \in Int
          BY RankTypes DEF OwnedList
        <5>3. th[n].bprio \in Int
          BY <2>2, RankTypes
        <5> QED BY <2>5, <2>9, <4>1, <5>1, <5>2, <5>3 DEF Lent
      <4> QED BY <4>2, <4>3
    <3>5. th'[n].fresh => /\ sched'.rs[n] # "NEEDSRUN"
                             /\ \/ th'[n].bprio <= th'[n].proxPrio
                                \/ \E c \in OwnedList(n)' : cs'[c].bListedPrio <= th'[n].proxPrio
      BY <2>2, <2>4, <2>6, <3>1, <3>2 DEF RankOK
    <3>6. ~th'[n].noPrioCalc =>
             \/ th'[n].bprio <= sched'.cprio[n]
             \/ \E c \in OwnedList(n)' : cs'[c].bListedPrio <= sched'.cprio[n]
      BY <3>2, <3>4
    <3>7. th'[n].noPrioCalc => pc'[n] \in {"l_leave", "l_run", "l_post"}
      BY <1>2, <2>2, <2>4, <3>1 DEF RankOK
    <3> QED BY <3>3, <3>5, <3>6, <3>7 DEF RankOK, Lent
  <2>11. RanksStay({n})
    <3>1. \A c \in Crits : cs[c].bListedPrio \in Int
      BY RankTypes
    <3> QED BY <1>2, <2>2, <2>3, <2>4, <2>5, <2>6, <3>1 DEF RanksStay
  <2>12. ListsStay({})
    <3>1. \A c \in Crits : ToSet(cs[c].proxList) \subseteq Threads
      BY RankTypes
    <3> QED BY <1>2, <2>4, <3>1 DEF ListsStay, RankInv, LendOK
  <2>13. OwnersStay({})
    <3>1. \A c \in Crits : c # NoCrit
      BY CritAssumption DEF NoCrit
    <3> QED BY <1>2, <2>4, <2>5, <3>1 DEF OwnersStay
  <2>14. \A c \in Crits : arg'[n] = c /\ (pc'[n] = "t_alloc" \/ th'[n].fresh)
                            => cs'[c].owner # n
    BY <1>2, <2>2, <2>4 DEF RankInv, AheadOK
  <2> QED BY <2>2, <2>10, <2>11, <2>12, <2>13, <2>14, StayRank
<1> QED BY <1>7, <1>8

\* Allocating a proxy: what the running thread asks with is what it is.
LEMMA AllocRank ==
  ASSUME TypeInv, TypeInv', MutexInv, WaitInv, RankInv, NEW s \in Threads, AllocProxy(s)
  PROVE  RankInv'
<1>1. /\ Runs(s) /\ pc[s] = "t_alloc" /\ pc[s] \in TakeSteps /\ sched.running = s
      /\ sched.rs[s] = "RUNNING"
  <2>1. Runs(s) /\ pc[s] = "t_alloc"
    BY DEF AllocProxy, At
  <2> QED BY <2>1, WaitActor DEF TakeSteps
<1>2. /\ sched' = sched /\ cs' = cs /\ arg' = arg /\ pc' = [pc EXCEPT ![s] = "t_config"]
      /\ th' = [th EXCEPT ![s].proxPrio = sched.cprio[s], ![s].fresh = TRUE]
  BY DEF AllocProxy, Goto
<1>3. /\ \A t \in Threads \ {s} : th'[t] = th[t]
      /\ th'[s].proxPrio = sched.cprio[s] /\ th'[s].fresh /\ th'[s].bprio = th[s].bprio
      /\ th'[s].noPrioCalc = th[s].noPrioCalc /\ th'[s].hLastCrit = th[s].hLastCrit
  <2>1. th \in [Threads -> ThreadType]
    BY DEF TypeInv, TypeOK
  <2> QED BY ONLY <1>2, <2>1, s \in Threads DEF ThreadType
<1>4. pc'[s] = "t_config" /\ \A t \in Threads \ {s} : pc'[t] = pc[t]
  BY <1>2 DEF TypeInv, TypeOK
<1>5. RankOK(s)'
  <2>1. RankOK(s) /\ sched.cprio[s] \in Int /\ th[s].noPrioCalc \in BOOLEAN
    BY RankTypes DEF RankInv
  <2>2. ~th[s].noPrioCalc /\ Lent(s, sched.cprio[s])
    BY <1>1, <2>1 DEF RankOK
  <2>3. \/ th'[s].bprio <= sched'.cprio[s]
        \/ \E c \in OwnedList(s)' : cs'[c].bListedPrio <= sched'.cprio[s]
    BY <1>2, <1>3, <2>2 DEF Lent, OwnedList
  <2>4. sched'.cprio[s] <= th'[s].proxPrio /\ sched'.rs[s] # "NEEDSRUN" /\ ~th'[s].noPrioCalc
    BY <1>1, <1>2, <1>3, <2>1, <2>2
  <2>5. th'[s].proxPrio = sched'.cprio[s]
    BY <1>2, <1>3
  <2>6. Lent(s, sched.cprio[s])'
    BY <2>3 DEF Lent
  <2>7. Lent(s, th[s].proxPrio)'
    BY <2>3, <2>5 DEF Lent
  <2> HIDE DEF Lent
  <2> QED BY <2>4, <2>6, <2>7 DEF RankOK
<1>6. \A c \in Crits : s \notin ToSet(cs[c].proxList)
  BY <1>1, WaitTaker DEF QueuedSteps
<1>7. \A c \in Crits : arg[s] = c => cs[c].owner # s
  BY <1>1 DEF RankInv, AheadOK
<1> QED BY <1>1, <1>2, <1>3, <1>4, <1>5, <1>6, <1>7, OwnStepRank

\* The other steps of SC_TakeCritSec in which the thread only moves on.
LEMMA TakeMovesRank ==
  ASSUME TypeInv, TypeInv', MutexInv, WaitInv, RankInv, NEW s \in Threads,
         AllocFails(s) \/ WaitConfig(s) \/ CSWaitPart2Signalled(s) \/ TakeRetry(s)
  PROVE  RankInv'
<1>1. /\ Runs(s) /\ pc[s] \in {"t_alloc", "t_config", "t_part2", "t_after"} /\ pc[s] \in TakeSteps
      /\ sched.running = s /\ sched.rs[s] = "RUNNING" /\ SchedOK(sched)
  <2>1. Runs(s) /\ pc[s] \in {"t_alloc", "t_config", "t_part2", "t_after"}
    BY DEF AllocFails, WaitConfig, CSWaitPart2Signalled, TakeRetry, At
  <2> QED BY <2>1, WaitActor DEF TakeSteps
<1>2. PICK d \in Crits : arg[s] = d /\ \A c \in Crits : s \in ToSet(cs[c].proxList) => c = d
  BY <1>1, WaitTaker
<1>3. th \in [Threads -> ThreadType] /\ pc \in [Threads -> PCs] /\ sched \in SchedType
  BY DEF TypeInv, TypeOK
<1>4. cs' = cs /\ arg' = arg /\ \A t \in Threads \ {s} : pc'[t] = pc[t] /\ th'[t] = th[t]
  BY <1>3 DEF AllocFails, WaitConfig, CSWaitPart2Signalled, TakeRetry, Goto
<1>5. /\ sched'.cprio = sched.cprio /\ sched'.running \in {s, NoThread}
      /\ \A t \in Threads : sched'.rs[t] = "NEEDSRUN" => sched.rs[t] = "NEEDSRUN"
  <2>1. CASE AllocFails(s)
    <3>1. 0 \in Priority
      BY DEF Priority, MAX_PRIORITY_LEVELS
    <3>2. sched' = ThreadYield(sched)
      BY <2>1 DEF AllocFails
    <3>3. sched'.cprio = sched.cprio /\ sched'.running = NoThread
          /\ sched'.rs = [sched.rs EXCEPT ![s] = "RUNNABLE"]
      BY <1>1, <1>3, <3>1, <3>2, PrioKept, YieldIdles, ThreadYieldOK
    <3> QED BY <1>3, <3>3 DEF SchedType
  <2>2. CASE ~AllocFails(s)
    BY <1>1, <2>2 DEF WaitConfig, CSWaitPart2Signalled, TakeRetry
  <2> QED BY <2>1, <2>2
<1>6. /\ th'[s].hLastCrit = th[s].hLastCrit /\ th'[s].bprio = th[s].bprio
      /\ th'[s].noPrioCalc = th[s].noPrioCalc /\ th'[s].fresh = th[s].fresh
      /\ ~TakeRetry(s) => th'[s].proxPrio = th[s].proxPrio
  <2>1. CASE th' = [th EXCEPT ![s].wait = "PROCESSING"] \/ th' = th
    BY ONLY <1>3, <2>1, s \in Threads DEF ThreadType
  <2>2. CASE TakeRetry(s)
    <3>1. th' = [th EXCEPT ![s].proxPrio = 0]
      BY <2>2 DEF TakeRetry
    <3>2. /\ th'[s].hLastCrit = th[s].hLastCrit /\ th'[s].bprio = th[s].bprio
          /\ th'[s].noPrioCalc = th[s].noPrioCalc /\ th'[s].fresh = th[s].fresh
      BY ONLY <1>3, <3>1, s \in Threads DEF ThreadType
    <3> QED BY <2>2, <3>2
  <2> QED BY <2>1, <2>2 DEF AllocFails, WaitConfig, CSWaitPart2Signalled
<1>7. TakeRetry(s) => ~th[s].fresh /\ \A c \in Crits : s \notin ToSet(cs[c].proxList)
  <2> SUFFICES ASSUME TakeRetry(s)
               PROVE  ~th[s].fresh /\ \A c \in Crits : s \notin ToSet(cs[c].proxList)
    OBVIOUS
  <2>1. pc[s] = "t_after" /\ s \notin ToSet(cs[d].proxList)
    BY <1>2 DEF TakeRetry, At
  <2> QED BY <1>1, <1>2, <2>1, WaitActor
<1>8. ASSUME NEW c \in Crits, arg'[s] = c, pc'[s] = "t_alloc" \/ th'[s].fresh
      PROVE  cs'[c].owner # s
  <2>1. c = d
    BY <1>2, <1>4, <1>8
  <2>2. CASE th[s].fresh \/ pc[s] = "t_alloc"
    BY <1>2, <1>4, <2>1, <2>2 DEF RankInv, AheadOK
  <2>3. CASE ~th[s].fresh /\ pc[s] # "t_alloc"
    <3>1. TakeRetry(s)
      BY <1>3, <1>6, <1>8, <2>3 DEF AllocFails, WaitConfig, CSWaitPart2Signalled, Goto
    <3>2. ~Owns(s, d)
      BY <1>2, <1>3, <1>6, <1>8, <2>3, <3>1 DEF TakeRetry, Goto
    <3>3. cs[d].owner = s => ~cs[d].low
      BY <1>1, <1>2 DEF MutexInv, PairInv, CallerOK, InCall
    <3> QED BY <1>4, <2>1, <3>2, <3>3 DEF Owns
  <2> QED BY <2>2, <2>3
<1>9. pc[s] \notin {"t_boost1", "l_leave", "l_run", "l_post"}
  BY <1>1
<1> QED BY <1>1, <1>4, <1>5, <1>6, <1>7, <1>8, <1>9, QuietRank

\* Nobody takes a critical section whose owner is in LeaveCrit.
LEMMA LeaverKeeps ==
  ASSUME TypeInv, MutexInv, AliveInv, RankInv, NEW s \in Threads, NEW d \in Crits,
         CanTake(d) \/ CanSteal(s, d)
  PROVE  cs[d].bListed # 2
<1> SUFFICES ASSUME cs[d].bListed = 2
             PROVE  FALSE
  OBVIOUS
<1>1. PICK o \in Threads : cs[d].owner = o /\ InCall(o, d, {"l_leave"})
  BY DEF RankInv, LendOK, InCall
<1>2. OwnerPth(d) = o /\ o # NoThread
  BY <1>1, NoThreadAssumption DEF OwnerPth, InCall
<1>3. PairInv(o, d)
  BY DEF MutexInv
<1>4. ~cs[d].low /\ ~th[o].buried /\ th[o].hLastCrit # d
  BY <1>1, <1>3 DEF PairInv, CallerOK, OutsideOK, WaitOK, Owns, InCall, QueuedSteps
<1> QED BY <1>1, <1>2, <1>4 DEF CanTake, CanSteal

\* Becoming the owner on the way into a wait.
LEMMA TakenRank ==
  ASSUME TypeInv, TypeInv', MutexInv, WaitInv, AliveInv, RankInv, NEW s \in Threads,
         CSWaitPart1Take(s) \/ CSWaitPart1Steal(s)
  PROVE  RankInv'
<1>1. Runs(s) /\ pc[s] = "t_part1" /\ pc[s] \in TakeSteps /\ sched.running = s
  BY DEF CSWaitPart1Take, CSWaitPart1Steal, At, Runs, TakeSteps
<1>2. PICK d \in Crits : arg[s] = d
  BY <1>1, WaitTaker
<1>3. /\ th \in [Threads -> ThreadType] /\ pc \in [Threads -> PCs] /\ cs \in [Crits -> CritType]
  BY DEF TypeInv, TypeOK
<1>4. /\ sched' = sched /\ arg' = arg /\ th' = [th EXCEPT ![s] = Signalled(th[s])]
      /\ Goto(s, "t_after") \/ Goto(s, "t_link")
  BY DEF CSWaitPart1Take, CSWaitPart1Steal
<1>5. /\ \A t \in Threads \ {s} : th'[t] = th[t] /\ pc'[t] = pc[t]
      /\ th'[s].hLastCrit = th[s].hLastCrit /\ th'[s].bprio = th[s].bprio
      /\ th'[s].noPrioCalc = th[s].noPrioCalc /\ th'[s].proxPrio = th[s].proxPrio
      /\ ~th'[s].fresh /\ pc'[s] # "t_alloc"
  <2>1. /\ \A t \in Threads \ {s} : th'[t] = th[t]
        /\ th'[s].hLastCrit = th[s].hLastCrit /\ th'[s].bprio = th[s].bprio
        /\ th'[s].noPrioCalc = th[s].noPrioCalc /\ th'[s].proxPrio = th[s].proxPrio
        /\ ~th'[s].fresh
    BY ONLY <1>3, <1>4, s \in Threads DEF Signalled, ThreadType
  <2> QED BY <1>3, <1>4, <2>1 DEF Goto
<1>6. ASSUME NEW c \in Crits
      PROVE  /\ cs'[c].proxList = cs[c].proxList /\ cs'[c].bListed = cs[c].bListed
             /\ cs'[c].bListedPrio = cs[c].bListedPrio /\ cs'[c].linkedTo = cs[c].linkedTo
             /\ c # d => cs'[c].owner = cs[c].owner
             /\ c = d => cs'[c].owner = s
  <2>1. CASE CSWaitPart1Take(s)
    <3>1. cs' = [cs EXCEPT ![d].owner = s, ![d].low = FALSE, ![d].lockCount = 1]
      BY <1>2, <2>1 DEF CSWaitPart1Take
    <3> QED BY ONLY <1>3, <3>1, d \in Crits, c \in Crits DEF CritType
  <2>2. CASE CSWaitPart1Steal(s)
    <3>1. cs' = [cs EXCEPT ![d].owner = s, ![d].low = FALSE,
                           ![d].needtrap = @ \/ cs[d].proxList # << >>]
      BY <1>2, <2>2 DEF CSWaitPart1Steal
    <3> QED BY ONLY <1>3, <3>1, d \in Crits, c \in Crits DEF CritType
  <2> QED BY <2>1, <2>2
<1>7. cs[d].bListed # 2
  BY <1>2, LeaverKeeps DEF CSWaitPart1Take, CSWaitPart1Steal
<1> QED BY <1>1, <1>4, <1>5, <1>6, <1>7, QuietRank

\* Putting a critical section on its owner's list, or bringing its entry up to date.
Relisted(d, new) ==
  /\ cs[d].bListed # 2 /\ cs[d].owner \in Threads /\ cs[d].proxList # << >>
  /\ new = DoLinkCritMut(cs[d], cs[d].owner)

\* It then has the priority of the best waiter, and lends no less than before.
LEMMA RelistedLends ==
  ASSUME TypeInv, MutexInv, WaitInv, RankInv, NEW d \in Crits, NEW new, Relisted(d, new)
  PROVE  /\ new.owner = cs[d].owner /\ new.proxList = cs[d].proxList
         /\ new.bListed = 1 /\ new.linkedTo = cs[d].owner
         /\ \E u \in ToSet(cs[d].proxList) : th[u].proxPrio = new.bListedPrio
         /\ \A u \in ToSet(cs[d].proxList) : new.bListedPrio <= th[u].proxPrio
         /\ cs[d].bListed = 1 => cs[d].linkedTo = cs[d].owner /\ new.bListedPrio <= cs[d].bListedPrio
<1>1. cs[d] \in CritType
  BY DEF TypeInv, TypeOK
<1>2. /\ new.owner = cs[d].owner /\ new.proxList = cs[d].proxList
      /\ new.bListed = 1 /\ new.linkedTo = cs[d].owner
  BY <1>1, DoLinkEffect DEF Relisted
<1>3. PICK u \in Threads : u = Head(cs[d].proxList) /\ u \in ToSet(cs[d].proxList)
  BY FirstWaiter DEF Relisted
<1>4. new.bListedPrio = th[u].proxPrio
  BY <1>1, <1>3 DEF Relisted, DoLinkCritMut, HeadPrio, CritType
<1>5. \A v \in ToSet(cs[d].proxList) : th[u].proxPrio <= th[v].proxPrio
  <2>1. \A v \in ToSet(cs[d].proxList) : ProxPrio[u] <= ProxPrio[v]
    BY <1>3, WaiterQueue, HeadStands DEF Relisted
  <2> QED BY <1>3, <2>1, WaiterQueue DEF ProxPrio
<1>6. ASSUME cs[d].bListed = 1
      PROVE  cs[d].linkedTo = cs[d].owner /\ th[u].proxPrio <= cs[d].bListedPrio
  <2>1. cs[d].linkedTo = cs[d].owner
    BY <1>3, <1>6 DEF MutexInv, PairInv, ListOK
  <2>2. PICK v \in ToSet(cs[d].proxList) : th[v].proxPrio <= cs[d].bListedPrio
    BY <1>6 DEF RankInv, LendOK
  <2>3. th[u].proxPrio <= th[v].proxPrio /\ v \in Threads
    BY <1>5, WaiterQueue
  <2>4. th[u].proxPrio \in Int /\ th[v].proxPrio \in Int /\ cs[d].bListedPrio \in Int
    BY <2>3, RankTypes
  <2> QED BY <2>1, <2>2, <2>3, <2>4
<1> QED BY <1>2, <1>3, <1>4, <1>5, <1>6

\* A step of a taker that does no more.
LEMMA ListEditRank ==
  ASSUME TypeInv, TypeInv', MutexInv, WaitInv, RankInv, NEW s \in Threads, Runs(s),
         pc[s] \in TakeSteps, NEW d \in Crits, arg[s] = d,
         NEW new, cs' = [cs EXCEPT ![d] = new],
         \/ Relisted(d, new)
         \/ /\ new = cs[d]
            /\ cs[d].bListed = 1 /\ pc[s] = "t_boost1" => s \notin ToSet(cs[d].proxList),
         \A t \in Threads \ {s} : /\ pc'[t] = pc[t] /\ arg'[t] = arg[t]
                                  /\ sched'.cprio[t] = sched.cprio[t],
         arg'[s] \in {d, NoCrit}, pc'[s] # "t_alloc",
         \A t \in Threads : /\ th'[t].hLastCrit \in {th[t].hLastCrit, NoCrit}
                            /\ th'[t].bprio = th[t].bprio /\ th'[t].noPrioCalc = th[t].noPrioCalc
                            /\ th'[t].fresh = th[t].fresh /\ th'[t].proxPrio = th[t].proxPrio
                            /\ sched'.rs[t] = "NEEDSRUN" => sched.rs[t] = "NEEDSRUN",
         sched'.running \in {s, NoThread}, RankOK(s)'
  PROVE  RankInv'
<1>1. /\ th[s].hLastCrit = NoCrit /\ NoThread \notin Threads /\ \A c \in Crits : c # NoCrit
  BY Actor
<1>2. /\ \A t \in Threads : sched.cprio[t] \in Int
      /\ \A c \in Crits : cs[c].bListedPrio \in Int /\ ToSet(cs[c].proxList) \subseteq Threads
  BY RankTypes
<1>3. /\ cs'[d] = new /\ \A c \in Crits \ {d} : cs'[c] = cs[c]
  BY DEF TypeInv, TypeOK
<1>4. \A c \in Crits : cs[c].bListed = 2 =>
        cs[c].owner \in Threads \ {s} /\ pc[cs[c].owner] = "l_leave" /\ arg[cs[c].owner] = c
  BY DEF RankInv, LendOK, TakeSteps
<1>5. /\ new.owner = cs[d].owner /\ new.proxList = cs[d].proxList
      /\ \A t : cs[d].bListed = 1 /\ cs[d].linkedTo = t =>
           new.bListed = 1 /\ new.linkedTo = t /\ new.bListedPrio <= cs[d].bListedPrio
  BY <1>2, RelistedLends
<1>6. RanksStay({s})
  <2>1. ASSUME NEW t \in Threads \ {s}, NEW c \in Crits, cs[c].bListed = 1, cs[c].linkedTo = t
        PROVE  cs'[c].bListed = 1 /\ cs'[c].linkedTo = t /\ cs'[c].bListedPrio <= cs[c].bListedPrio
    BY <1>2, <1>3, <1>5, <2>1
  <2> QED BY <1>1, <1>2, <2>1 DEF RanksStay
<1>7. ListsStay({d})
  <2> SUFFICES ASSUME NEW c \in Crits \ {d}
               PROVE  /\ \A u \in ToSet(cs[c].proxList) : pc[u] = "t_boost1" => pc'[u] = "t_boost1"
                      /\ cs'[c].bListed = 2 => /\ cs'[c].owner \in Threads
                                               /\ pc'[cs'[c].owner] = "l_leave"
                                               /\ arg'[cs'[c].owner] = c
    BY <1>2, <1>3 DEF ListsStay
  <2>1. s \notin ToSet(cs[c].proxList)
    BY WaitTaker
  <2> QED BY <1>2, <1>3, <1>4, <2>1
<1>8. OwnersStay({d})
  BY <1>1, <1>2, <1>3 DEF OwnersStay
<1>9. LendOK(d)'
  <2>1. CASE Relisted(d, new)
    <3>1. /\ cs'[d].bListed = 1 /\ cs'[d].proxList = cs[d].proxList
          /\ \E u \in ToSet(cs[d].proxList) : th[u].proxPrio = cs'[d].bListedPrio
          /\ \A u \in ToSet(cs[d].proxList) : cs'[d].bListedPrio <= th[u].proxPrio
      BY <1>3, <2>1, RelistedLends
    <3>2. \A u \in ToSet(cs[d].proxList) : th'[u].proxPrio = th[u].proxPrio /\ th[u].proxPrio \in Int
      BY <1>2, RankTypes
    <3>3. \E u \in ToSet(cs[d].proxList) : th'[u].proxPrio <= cs'[d].bListedPrio
      BY <3>1, <3>2
    <3>4. \A u \in ToSet(cs[d].proxList) : cs'[d].bListedPrio <= th'[u].proxPrio
      BY <3>1, <3>2
    <3> QED BY <3>1, <3>3, <3>4 DEF LendOK
  <2>2. CASE ~Relisted(d, new)
    <3>1. cs'[d] = cs[d] /\ (cs[d].bListed = 1 /\ pc[s] = "t_boost1" => s \notin ToSet(cs[d].proxList))
      BY <1>3, <2>2
    <3>2. LendOK(d)
      BY DEF RankInv
    <3>3. \A u \in ToSet(cs[d].proxList) :
            /\ th'[u].proxPrio = th[u].proxPrio
            /\ cs[d].bListed = 1 /\ pc[u] = "t_boost1" => pc'[u] = "t_boost1"
      BY <1>2, <3>1
    <3>4. cs[d].bListed = 2 =>
            cs[d].owner \in Threads /\ pc'[cs[d].owner] = "l_leave" /\ arg'[cs[d].owner] = d
      BY <1>4
    <3> QED BY ONLY <3>1, <3>2, <3>3, <3>4 DEF LendOK
  <2> QED BY <2>1, <2>2
<1>10. ASSUME NEW t \in Threads
       PROVE  AheadOK(t, d)'
  <2>1. AheadOK(t, d)
    BY DEF RankInv
  <2>2. ASSUME th'[t].hLastCrit = d, cs'[d].owner = t, NEW u \in ToSet(cs'[d].proxList)
        PROVE  sched'.cprio[t] <= th'[u].proxPrio
    <3>1. th[t].hLastCrit = d /\ t # s /\ cs[d].owner = t /\ u \in ToSet(cs[d].proxList) /\ u \in Threads
      BY <1>1, <1>2, <1>3, <1>5, <2>2
    <3> QED BY <2>1, <3>1 DEF AheadOK
  <2>3. ASSUME arg'[t] = d, pc'[t] = "t_alloc" \/ th'[t].fresh
        PROVE  cs'[d].owner # t
    BY <1>3, <1>5, <2>1, <2>3 DEF AheadOK
  <2> QED BY <2>2, <2>3 DEF AheadOK
<1>11. ASSUME NEW c \in Crits \ {d}
       PROVE  arg'[s] # c
  BY <1>1
<1> QED BY <1>6, <1>7, <1>8, <1>9, <1>10, <1>11, StayRank

\* The running thread while its priority stays and what it owns lends no less.
LEMMA OwnRank ==
  ASSUME TypeInv, TypeInv', RankInv, NEW s \in Threads, Runs(s),
         th'[s].noPrioCalc = th[s].noPrioCalc,
         th'[s].noPrioCalc => pc'[s] \in {"l_leave", "l_run", "l_post"},
         th'[s].bprio = th[s].bprio,
         th'[s].fresh => th[s].fresh /\ th'[s].proxPrio = th[s].proxPrio,
         sched'.cprio[s] = sched.cprio[s],
         sched'.rs[s] = "NEEDSRUN" => sched.rs[s] = "NEEDSRUN",
         \A c \in Crits : cs[c].bListed = 1 /\ cs[c].linkedTo = s =>
           cs'[c].bListed = 1 /\ cs'[c].linkedTo = s /\ cs'[c].bListedPrio <= cs[c].bListedPrio
  PROVE  RankOK(s)'
<1>1. RankOK(s) /\ sched.running = s /\ sched.cprio[s] \in Int /\ th[s].proxPrio \in Int
  BY RankTypes DEF RankInv, Runs
<1>2. ASSUME ~th'[s].noPrioCalc
      PROVE  \/ th'[s].bprio <= sched'.cprio[s]
             \/ \E c \in OwnedList(s)' : cs'[c].bListedPrio <= sched'.cprio[s]
  <2>1. Lent(s, sched.cprio[s])
    BY <1>1, <1>2 DEF RankOK
  <2> QED BY <1>1, <2>1, LentStays
<1>3. ASSUME th'[s].fresh
      PROVE  /\ sched'.cprio[s] <= th'[s].proxPrio /\ sched'.rs[s] # "NEEDSRUN"
             /\ \/ th'[s].bprio <= th'[s].proxPrio
                \/ \E c \in OwnedList(s)' : cs'[c].bListedPrio <= th'[s].proxPrio
  <2>1. sched.cprio[s] <= th[s].proxPrio /\ Lent(s, th[s].proxPrio) /\ sched.rs[s] # "NEEDSRUN"
    BY <1>1, <1>3 DEF RankOK
  <2>2. \/ th'[s].bprio <= th[s].proxPrio
        \/ \E c \in OwnedList(s)' : cs'[c].bListedPrio <= th[s].proxPrio
    BY <1>1, <2>1, LentStays
  <2> QED BY <1>3, <2>1, <2>2
<1> QED BY <1>2, <1>3 DEF RankOK, Lent

\* A taker, which no call keeps from being ranked.
LEMMA OwnRankStays ==
  ASSUME TypeInv, TypeInv', RankInv, NEW s \in Threads, Runs(s), pc[s] \in TakeSteps,
         th'[s].bprio = th[s].bprio, th'[s].noPrioCalc = th[s].noPrioCalc,
         th'[s].fresh => th[s].fresh /\ th'[s].proxPrio = th[s].proxPrio,
         sched'.cprio[s] = sched.cprio[s],
         sched'.rs[s] = "NEEDSRUN" => sched.rs[s] = "NEEDSRUN",
         \A c \in Crits : cs[c].bListed = 1 /\ cs[c].linkedTo = s =>
           cs'[c].bListed = 1 /\ cs'[c].linkedTo = s /\ cs'[c].bListedPrio <= cs[c].bListedPrio
  PROVE  RankOK(s)'
<1>1. ~th'[s].noPrioCalc
  BY DEF RankInv, RankOK, TakeSteps
<1> QED BY <1>1, OwnRank

\* The steps of a taker that edit an owned list.
LEMMA ListStepRank ==
  ASSUME TypeInv, TypeInv', MutexInv, WaitInv, AliveInv, RankInv, NEW s \in Threads,
         LaterLinkCritMut(s) \/ PostBoostCrit1(s) \/ DoReprioCrit(s) \/ CSWaitPart2Block(s)
  PROVE  RankInv'
<1>1. /\ Runs(s) /\ pc[s] \in {"t_link", "t_boost1", "t_reprio", "t_part2"} /\ pc[s] \in TakeSteps
      /\ sched.running = s /\ sched.rs[s] = "RUNNING" /\ SchedOK(sched)
  <2>1. Runs(s) /\ pc[s] \in {"t_link", "t_boost1", "t_reprio", "t_part2"}
    BY DEF LaterLinkCritMut, PostBoostCrit1, DoReprioCrit, CSWaitPart2Block, At
  <2> QED BY <2>1, WaitActor DEF TakeSteps
<1>2. PICK d \in Crits : arg[s] = d
  BY <1>1, WaitTaker
<1>3. th \in [Threads -> ThreadType] /\ cs \in [Crits -> CritType] /\ sched \in SchedType
  BY DEF TypeInv, TypeOK
<1>4. PICK o : o = OwnerPth(d)
  OBVIOUS
<1>5. /\ cs[d].owner # NoThread => o = cs[d].owner /\ o \in Threads /\ o # NoThread
      /\ cs[d].proxList # << >> => cs[d].owner # NoThread
      /\ cs[d].needtrap => cs[d].proxList # << >>
      /\ cs[d].bListed = 1 => cs[d].needtrap /\ cs[d].owner # NoThread
  BY <1>1, <1>4, OwnerLives, NoThreadAssumption
     DEF WaitInv, WaitersOK, AliveInv, TrapOK, MutexInv, PairInv, ListOK
<1>6. ASSUME NEW new, new = ReprioCritMut(cs[d], o) \/ (cs[d].bListed = 0 /\ new = LinkCritMut(cs[d], o)),
             new # cs[d]
      PROVE  Relisted(d, new)
  <2>1. /\ cs[d].bListed # 2 /\ cs[d].needtrap /\ new = DoLinkCritMut(cs[d], o)
    BY <1>5, <1>6 DEF ReprioCritMut, LinkCritMut
  <2> QED BY <1>5, <2>1 DEF Relisted
<1>7. th[s].wait = "PROCESSING" \/ pc[s] # "t_boost1" \/ s \notin ToSet(cs[d].proxList)
  BY <1>1, WaitActor DEF ProxyOK, AliveInv, TrapOK
<1>8. th[s].wait = "PROCESSING" /\ pc[s] = "t_boost1" => o # NoThread
  <2> SUFFICES ASSUME th[s].wait = "PROCESSING", pc[s] = "t_boost1"
               PROVE  o # NoThread
    OBVIOUS
  <2>1. s \in ToSet(cs[d].proxList)
    BY <1>1, <1>2, WaitActor DEF ProxyOK, PlaceOK, InCall
  <2> QED BY <1>5, <2>1, WaiterQueue, Members
<1>9. PICK new : /\ cs' = [cs EXCEPT ![d] = new]
                 /\ \/ Relisted(d, new)
                    \/ /\ new = cs[d]
                       /\ cs[d].bListed = 1 /\ pc[s] = "t_boost1" => s \notin ToSet(cs[d].proxList)
  <2>1. cs = [cs EXCEPT ![d] = cs[d]]
    BY <1>3
  <2>2. CASE LaterLinkCritMut(s)
    <3>1. cs' = [cs EXCEPT ![d] = IF cs[d].bListed = 0 /\ Owns(s, d) THEN LinkCritMut(cs[d], s) ELSE cs[d]]
          /\ pc[s] = "t_link"
      BY <1>2, <1>3, <2>2 DEF LaterLinkCritMut, At
    <3>2. Owns(s, d) => s = o
      BY <1>5, Actor, <1>1 DEF Owns
    <3> QED BY <1>6, <3>1, <3>2
  <2>3. CASE PostBoostCrit1(s)
    <3>1. /\ pc[s] = "t_boost1"
          /\ cs' = IF th[s].wait = "PROCESSING" THEN [cs EXCEPT ![d] = ReprioCritMut(cs[d], o)] ELSE cs
      BY <1>2, <1>3, <1>4, <1>8, <2>3 DEF PostBoostCrit1, At
    <3>2. ReprioCritMut(cs[d], o) = cs[d] => cs[d].bListed # 1 \/ Relisted(d, cs[d])
      BY <1>5 DEF ReprioCritMut, Relisted
    <3> QED BY <1>6, <1>7, <2>1, <3>1, <3>2
  <2>4. CASE DoReprioCrit(s)
    <3>1. /\ pc[s] = "t_reprio"
          /\ cs' = IF o = NoThread THEN cs ELSE [cs EXCEPT ![d] = ReprioCritMut(cs[d], o)]
      BY <1>2, <1>3, <1>4, <2>4 DEF DoReprioCrit, At
    <3> QED BY <1>6, <2>1, <3>1
  <2>5. CASE CSWaitPart2Block(s)
    <3>1. /\ pc[s] = "t_part2"
          /\ cs' = cs \/ (cs[d].bListed = 0 /\ cs' = [cs EXCEPT ![d] = LinkCritMut(cs[d], o)])
      <4>1. pc[s] = "t_part2" /\ ~(cs[d].bListed = 0 /\ o = NoThread)
        <5>1. th[s].wait = "PROCESSING" /\ pc[s] = "t_part2"
          BY <2>5, WaitActor, <1>1 DEF CSWaitPart2Block, At, ProxyOK
        <5>2. s \in ToSet(cs[d].proxList)
          BY <1>1, <1>2, <5>1, WaitActor DEF ProxyOK, PlaceOK, InCall
        <5> QED BY <1>5, <5>1, <5>2, WaiterQueue, Members
      <4> QED BY <1>2, <1>3, <1>4, <2>5, <4>1 DEF CSWaitPart2Block
    <3> QED BY <1>6, <2>1, <3>1
  <2> QED BY <2>2, <2>3, <2>4, <2>5
<1>10. /\ arg' = arg /\ pc'[s] \in {"t_after", "t_boost2"} /\ \A t \in Threads \ {s} : pc'[t] = pc[t]
       /\ sched' = sched \/ sched' = BlockCurrent(sched)
       /\ \/ th' = th
          \/ th' = [th EXCEPT ![s].wait = "BLOCKED"]
          \/ th' = [th EXCEPT ![o] = NotStealable(th[o]), ![s].wait = "BLOCKED"]
  <2>1. pc \in [Threads -> PCs]
    BY DEF TypeInv, TypeOK
  <2>2. CASE LaterLinkCritMut(s) \/ DoReprioCrit(s)
    BY <2>1, <2>2 DEF LaterLinkCritMut, DoReprioCrit, Goto
  <2>3. CASE PostBoostCrit1(s)
    BY <1>2, <1>4, <1>8, <2>1, <2>3 DEF PostBoostCrit1, At, Goto
  <2>4. CASE CSWaitPart2Block(s)
    <3>1. ~(cs[d].bListed = 0 /\ o = NoThread)
      <4>1. th[s].wait = "PROCESSING" /\ pc[s] = "t_part2"
        BY <2>4, WaitActor, <1>1 DEF CSWaitPart2Block, At, ProxyOK
      <4>2. s \in ToSet(cs[d].proxList)
        BY <1>1, <1>2, <4>1, WaitActor DEF ProxyOK, PlaceOK, InCall
      <4> QED BY <1>5, <4>2, WaiterQueue, Members
    <3> QED BY <1>2, <1>4, <2>1, <2>4, <3>1 DEF CSWaitPart2Block, Goto
  <2> QED BY <2>2, <2>3, <2>4
<1>11. \A t \in Threads : /\ th'[t].hLastCrit \in {th[t].hLastCrit, NoCrit}
                          /\ th'[t].bprio = th[t].bprio /\ th'[t].noPrioCalc = th[t].noPrioCalc
                          /\ th'[t].fresh = th[t].fresh /\ th'[t].proxPrio = th[t].proxPrio
  <2>1. CASE th' = [th EXCEPT ![s].wait = "BLOCKED"]
    BY ONLY <1>3, <2>1, s \in Threads DEF ThreadType
  <2>2. CASE th' = [th EXCEPT ![o] = NotStealable(th[o]), ![s].wait = "BLOCKED"]
    BY ONLY <1>3, <2>2, s \in Threads DEF NotStealable, ThreadType
  <2> QED BY <1>10, <2>1, <2>2
<1>12. /\ sched'.cprio = sched.cprio /\ sched'.running \in {s, NoThread}
       /\ \A t \in Threads : sched'.rs[t] = "NEEDSRUN" => sched.rs[t] = "NEEDSRUN"
  <2>1. CASE sched' = BlockCurrent(sched)
    <3>1. 0 \in Priority
      BY DEF Priority, MAX_PRIORITY_LEVELS
    <3>2. sched'.cprio = sched.cprio /\ sched'.running = NoThread
      BY <1>3, <2>1, <3>1, PrioKept, RunningKept
    <3>3. sched'.rs = [sched.rs EXCEPT ![s] = "BLOCKED"]
      BY <1>1, <2>1, BlockCurrentOK
    <3> QED BY <1>3, <3>2, <3>3 DEF SchedType
  <2> QED BY <1>1, <1>10, <2>1
<1>13. RankOK(s)'
  <2>1. ASSUME NEW c \in Crits, cs[c].bListed = 1, cs[c].linkedTo = s
        PROVE  cs'[c].bListed = 1 /\ cs'[c].linkedTo = s /\ cs'[c].bListedPrio <= cs[c].bListedPrio
    <3>1. cs[c].bListedPrio \in Int
      BY RankTypes
    <3>2. CASE cs'[c] = cs[c]
      BY <2>1, <3>1, <3>2
    <3>3. CASE cs'[c] # cs[c]
      <4>1. c = d /\ cs'[d] = new /\ Relisted(d, new)
        BY <1>3, <1>9, <3>3
      <4> QED BY <2>1, <4>1, RelistedLends
    <3> QED BY <3>2, <3>3
  <2> QED BY <1>1, <1>11, <1>12, <2>1, OwnRankStays
<1> QED BY <1>1, <1>2, <1>9, <1>10, <1>11, <1>12, <1>13, ListEditRank

\* Nobody that waits to boost the owner is runnable and better than the running thread.
LEMMA NoneBoosts ==
  ASSUME TypeInv, MutexInv, WaitInv, AliveInv, RankInv, NEW s \in Threads, Runs(s),
         NEW d \in Crits, NEW v \in ToSet(cs[d].proxList), v # s, pc[v] = "t_boost1"
  PROVE  sched.cprio[s] <= th[v].proxPrio
<1>1. v \in Threads /\ th[v].fresh
  BY WaiterQueue DEF AliveInv, TrapOK
<1>2. /\ sched.cprio[v] <= th[v].proxPrio /\ sched.rs[v] # "NEEDSRUN" /\ sched.rs[v] # "BLOCKED"
  BY <1>1 DEF RankInv, RankOK, WaitInv, ProxyOK
<1>3. SchedOK(sched) /\ sched.running = s /\ ~sched.resched
  BY WaitActor
<1>4. sched.rs[v] \in RunState /\ sched.rs[v] # "RUNNING"
  BY <1>1, <1>3 DEF SchedOK, RunningMarked, SchedType
<1>5. v \in Runnable(sched)
  BY <1>1, <1>2, <1>4 DEF Runnable, RunState
<1>6. sched.cprio[s] <= sched.cprio[v]
  BY <1>3, <1>5 DEF SchedOK, NoneBetter
<1> QED BY <1>1, <1>2, <1>6, RankTypes

\* CritFinalBoost gives the new owner what its owned list records.
LEMMA FinalBoostRank ==
  ASSUME TypeInv, TypeInv', MutexInv, WaitInv, AliveInv, RankInv, NEW s \in Threads, CritFinalBoost(s)
  PROVE  RankInv'
<1>1. /\ Runs(s) /\ pc[s] = "t_final" /\ pc[s] \in TakeSteps /\ sched.running = s
  BY DEF CritFinalBoost, At, Runs, TakeSteps
<1>2. PICK d \in Crits : arg[s] = d
  BY <1>1, WaitTaker
<1>3. /\ cs[d].owner = s /\ ~th[s].fresh /\ ~th[s].buried /\ ~th[s].noPrioCalc /\ NoThread \notin Threads
  BY <1>1, <1>2, Actor, Taker, WaitActor
     DEF PairInv, CallerOK, InCall, Owns, RankInv, RankOK
<1>4. cs \in [Crits -> CritType] /\ sched \in SchedType
  BY DEF TypeInv, TypeOK
<1>5. PICK new : /\ new = IF cs[d].bListed = 0 /\ cs[d].proxList # << >>
                          THEN LinkCritMut(cs[d], s) ELSE cs[d]
                 /\ cs' = [cs EXCEPT ![d] = new]
  BY <1>2 DEF CritFinalBoost
<1>6. PICK prio : /\ prio = HeadPrio(cs[d])
                  /\ sched' = IF cs[d].proxList # << >> /\ prio < sched.cprio[s]
                              THEN [sched EXCEPT !.cprio[s] = prio] ELSE sched
  BY <1>2 DEF CritFinalBoost
<1>7. th' = th /\ ReturnToUser(s, {d})
  BY <1>2 DEF CritFinalBoost
<1>8. /\ arg'[s] = NoCrit /\ \A t \in Threads \ {s} : pc'[t] = pc[t] /\ arg'[t] = arg[t]
      /\ pc'[s] # "t_alloc"
  <2>1. /\ arg'[s] = NoCrit /\ \A t \in Threads \ {s} : pc'[t] = pc[t] /\ arg'[t] = arg[t]
        /\ pc'[s] \in {"x_next", "x_start", "user"}
    BY <1>7, ReturnEffect
  <2> QED BY <2>1
<1>9. /\ sched'.running = sched.running /\ sched'.rs = sched.rs
      /\ \A t \in Threads \ {s} : sched'.cprio[t] = sched.cprio[t]
      /\ sched'.cprio[s] = IF cs[d].proxList # << >> /\ prio < sched.cprio[s]
                           THEN prio ELSE sched.cprio[s]
  <2>1. CASE sched' = [sched EXCEPT !.cprio[s] = prio] /\ cs[d].proxList # << >> /\ prio < sched.cprio[s]
    BY ONLY <1>4, <2>1, s \in Threads DEF SchedType
  <2> QED BY <1>6, <2>1
<1>10. cs[d].bListed = 0 /\ cs[d].proxList # << >> => Relisted(d, new)
  <2> SUFFICES ASSUME cs[d].bListed = 0, cs[d].proxList # << >>
               PROVE  Relisted(d, new)
    OBVIOUS
  <2>1. cs[d].needtrap
    BY <1>1, WaitActor DEF WaitersOK
  <2> QED BY <1>3, <1>5, <2>1 DEF LinkCritMut, Relisted
<1>11. \A c \in Crits : cs[c].bListed = 1 /\ cs[c].linkedTo = s =>
         cs'[c].bListed = 1 /\ cs'[c].linkedTo = s /\ cs'[c].bListedPrio <= cs[c].bListedPrio
  <2>1. \A c \in Crits : cs[c].bListed = 1 => cs'[c] = cs[c]
    BY <1>4, <1>5
  <2> QED BY <2>1, RankTypes
<1>12. RankOK(s)'
  <2>1. CASE sched'.cprio[s] = sched.cprio[s]
    BY <1>1, <1>7, <1>9, <1>11, <2>1, OwnRankStays
  <2>2. CASE sched'.cprio[s] # sched.cprio[s]
    <3>1. cs[d].proxList # << >> /\ prio < sched.cprio[s] /\ sched'.cprio[s] = prio
      BY <1>9, <2>2
    <3>2. PICK h \in Threads : h = Head(cs[d].proxList) /\ h \in ToSet(cs[d].proxList)
      BY <3>1, FirstWaiter
    <3>3. prio = th[h].proxPrio /\ prio \in Int /\ sched.cprio[s] \in Int
      BY <1>6, <3>1, <3>2, RankTypes DEF HeadPrio
    <3>4. cs'[d].bListed = 1 /\ cs'[d].linkedTo = s /\ cs'[d].bListedPrio <= prio
      <4>1. cs'[d] = new
        BY <1>4, <1>5
      <4>2. CASE cs[d].bListed = 0
        BY <1>3, <1>10, <3>1, <3>2, <3>3, <4>1, <4>2, RelistedLends
      <4>3. LendOK(d) /\ cs[d].bListed \in 0 .. 2
        BY RankTypes DEF RankInv
      <4>4. cs[d].bListed # 2
        BY <1>1, <1>3, <4>3 DEF LendOK
      <4>5. CASE cs[d].bListed = 1
        <5>1. cs[d].linkedTo = s /\ cs'[d] = cs[d]
          BY <1>3, <1>5, <4>1, <4>5 DEF MutexInv, PairInv, ListOK
        <5>2. cs[d].bListedPrio <= th[h].proxPrio
          <6> SUFFICES ASSUME NEW v \in ToSet(cs[d].proxList), pc[v] = "t_boost1",
                              th[v].proxPrio <= th[h].proxPrio
                       PROVE  FALSE
            BY <3>2, <4>3, <4>5 DEF LendOK
          <6>1. v # s
            BY <1>1
          <6>2. sched.cprio[s] <= th[v].proxPrio /\ v \in Threads
            BY <1>1, <6>1, NoneBoosts, WaiterQueue
          <6>3. th[v].proxPrio \in Int
            BY <6>2, RankTypes
          <6> QED BY <3>1, <3>3, <6>2, <6>3
        <5> QED BY <3>3, <4>5, <5>1, <5>2
      <4> QED BY <4>2, <4>3, <4>4, <4>5
    <3>5. \E c \in OwnedList(s)' : cs'[c].bListedPrio <= sched'.cprio[s]
      BY <3>1, <3>4 DEF OwnedList
    <3>6. ~th'[s].fresh /\ ~th'[s].noPrioCalc
      BY <1>3, <1>7
    <3>7. Lent(s, sched.cprio[s])'
      BY <3>5 DEF Lent
    <3> HIDE DEF Lent
    <3> QED BY <3>6, <3>7 DEF RankOK
  <2> QED BY <2>1, <2>2
<1>13. Relisted(d, new) \/ new = cs[d]
  BY <1>5, <1>10
<1>14. \A t \in Threads : /\ th'[t].hLastCrit \in {th[t].hLastCrit, NoCrit}
                          /\ th'[t].bprio = th[t].bprio /\ th'[t].noPrioCalc = th[t].noPrioCalc
                          /\ th'[t].fresh = th[t].fresh /\ th'[t].proxPrio = th[t].proxPrio
                          /\ sched'.rs[t] = "NEEDSRUN" => sched.rs[t] = "NEEDSRUN"
  BY <1>7, <1>9
<1>15. \A t \in Threads \ {s} : /\ pc'[t] = pc[t] /\ arg'[t] = arg[t]
                                /\ sched'.cprio[t] = sched.cprio[t]
  BY <1>8, <1>9
<1>16. sched'.running \in {s, NoThread} /\ arg'[s] \in {d, NoCrit} /\ pc'[s] # "t_alloc"
  BY <1>1, <1>8, <1>9
<1>17. cs' = [cs EXCEPT ![d] = new]
  BY <1>5
<1>18. \/ Relisted(d, new)
       \/ /\ new = cs[d]
          /\ cs[d].bListed = 1 /\ pc[s] = "t_boost1" => s \notin ToSet(cs[d].proxList)
  BY <1>1, <1>13
<1> HIDE DEF Relisted, RankOK, TypeInv, MutexInv, WaitInv, RankInv
<1> QED BY <1>1, <1>2, <1>12, <1>14, <1>15, <1>16, <1>17, <1>18, ListEditRank

\* Queueing: the new first waiter boosts the owner next, any other finds the first
\* waiter's boost on the list or on its way; and an owner it could not rob is no
\* worse than it.
LEMMA PendRank ==
  ASSUME TypeInv, TypeInv', MutexInv, WaitInv, AliveInv, RankInv, NEW s \in Threads,
         CSWaitPart1Pend(s)
  PROVE  RankInv'
<1>1. /\ Runs(s) /\ pc[s] = "t_part1" /\ pc[s] \in TakeSteps /\ sched.running = s
  BY DEF CSWaitPart1Pend, At, Runs, TakeSteps
<1>2. PICK d \in Crits : arg[s] = d
  BY <1>1, WaitTaker
<1>3. /\ cs \in [Crits -> CritType] /\ pc \in [Threads -> PCs]
      /\ NoThread \notin Threads /\ \A c \in Crits : c # NoCrit
  BY <1>1, Actor DEF TypeInv, TypeOK
<1>4. /\ th[s].fresh /\ \A c \in Crits : s \notin ToSet(cs[c].proxList)
  BY <1>1, WaitTaker, WaitActor DEF ProxyOK, QueuedSteps
<1>5. /\ \A t \in Threads : sched.cprio[t] \in Int /\ th[t].proxPrio \in Int
      /\ \A c \in Crits : cs[c].bListedPrio \in Int /\ ToSet(cs[c].proxList) \subseteq Threads
  BY RankTypes
<1> DEFINE first == cs[d].proxList = << >> \/ th[s].proxPrio < HeadPrio(cs[d])
<1>6. /\ sched' = sched /\ th' = th /\ arg' = arg
      /\ pc' = [pc EXCEPT ![s] = IF first THEN "t_boost1" ELSE "t_part2"]
      /\ cs' = [cs EXCEPT ![d].proxList = InsertBehind(@, ProxPrio, s), ![d].needtrap = TRUE]
      /\ ~CanTake(d) /\ ~CanSteal(s, d)
  BY <1>2 DEF CSWaitPart1Pend, Goto
<1>7. /\ pc'[s] = (IF first THEN "t_boost1" ELSE "t_part2")
      /\ \A t \in Threads \ {s} : pc'[t] = pc[t]
  BY <1>3, <1>6
<1>8. /\ cs'[d].owner = cs[d].owner /\ cs'[d].bListed = cs[d].bListed
      /\ cs'[d].bListedPrio = cs[d].bListedPrio /\ cs'[d].linkedTo = cs[d].linkedTo
      /\ cs'[d].proxList = InsertBehind(cs[d].proxList, ProxPrio, s)
      /\ \A c \in Crits \ {d} : cs'[c] = cs[c]
  BY ONLY <1>3, <1>6, d \in Crits DEF CritType
<1>9. ToSet(cs'[d].proxList) = ToSet(cs[d].proxList) \union {s}
  BY <1>4, <1>8, WaiterQueue, InsertionStands DEF Stands
<1> HIDE DEF first
<1>10. ASSUME ~first
       PROVE  \E h \in ToSet(cs[d].proxList) : th[h].proxPrio <= th[s].proxPrio
  <2>1. cs[d].proxList # << >> /\ ~(th[s].proxPrio < HeadPrio(cs[d]))
    BY <1>10 DEF first
  <2>2. PICK h \in Threads : h = Head(cs[d].proxList) /\ h \in ToSet(cs[d].proxList)
    BY <2>1, FirstWaiter
  <2>3. HeadPrio(cs[d]) = th[h].proxPrio
    BY <2>1, <2>2 DEF HeadPrio
  <2> QED BY <1>5, <2>1, <2>2, <2>3
<1>11. \A c \in Crits : cs[c].bListed = 2 =>
        cs[c].owner \in Threads \ {s} /\ pc[cs[c].owner] = "l_leave" /\ arg[cs[c].owner] = c
  BY <1>1 DEF RankInv, LendOK
<1>a. sched' = sched /\ th' = th /\ arg' = arg
  BY <1>6
<1>b. \A c \in Crits : /\ cs'[c].owner = cs[c].owner /\ cs'[c].bListed = cs[c].bListed
                       /\ cs'[c].bListedPrio = cs[c].bListedPrio /\ cs'[c].linkedTo = cs[c].linkedTo
  BY <1>8
<1>12. RanksStay({s})
  BY <1>5, <1>7, <1>a, <1>b DEF RanksStay
<1>13. ListsStay({d})
  <2>1. \A c \in Crits \ {d} : \A u \in ToSet(cs[c].proxList) : pc'[u] = pc[u]
    BY <1>4, <1>5, <1>7
  <2>2. \A c \in Crits \ {d} : cs'[c].bListed = 2 =>
          cs'[c].owner \in Threads /\ pc'[cs'[c].owner] = "l_leave" /\ arg'[cs'[c].owner] = c
    BY <1>7, <1>8, <1>11, <1>a
  <2> QED BY <1>8, <1>a, <2>1, <2>2 DEF ListsStay
<1>14. OwnersStay({d})
  BY <1>5, <1>7, <1>8, <1>a DEF OwnersStay
<1>15. RankOK(s)'
  <2>1. \A c \in Crits : cs[c].bListed = 1 /\ cs[c].linkedTo = s =>
           cs'[c].bListed = 1 /\ cs'[c].linkedTo = s /\ cs'[c].bListedPrio <= cs[c].bListedPrio
    BY <1>5, <1>8
  <2> QED BY <1>1, <1>6, <2>1, OwnRankStays
<1>16. LendOK(d)'
  <2>1. LendOK(d)
    BY DEF RankInv
  <2>2. cs'[d].bListed = 1 => \E u \in ToSet(cs'[d].proxList) : th'[u].proxPrio <= cs'[d].bListedPrio
    BY <1>6, <1>8, <1>9, <2>1 DEF LendOK
  <2>3. ASSUME cs[d].bListed = 1, NEW u \in ToSet(cs[d].proxList) \union {s}
        PROVE  \/ cs[d].bListedPrio <= th[u].proxPrio
               \/ \E v \in ToSet(cs[d].proxList) \union {s} :
                    pc'[v] = "t_boost1" /\ th[v].proxPrio <= th[u].proxPrio
    <3>1. ASSUME NEW w \in ToSet(cs[d].proxList), th[w].proxPrio <= th[u].proxPrio
          PROVE  \/ cs[d].bListedPrio <= th[u].proxPrio
                 \/ \E v \in ToSet(cs[d].proxList) \union {s} :
                      pc'[v] = "t_boost1" /\ th[v].proxPrio <= th[u].proxPrio
      <4>0. u \in Threads /\ w \in Threads
        BY <1>5
      <4>1. CASE cs[d].bListedPrio <= th[w].proxPrio
        BY <1>5, <3>1, <4>0, <4>1
      <4>2. CASE \E v \in ToSet(cs[d].proxList) : pc[v] = "t_boost1" /\ th[v].proxPrio <= th[w].proxPrio
        <5>1. PICK v \in ToSet(cs[d].proxList) : pc[v] = "t_boost1" /\ th[v].proxPrio <= th[w].proxPrio
          BY <4>2
        <5>2. v \in Threads \ {s}
          BY <1>4, <1>5
        <5>3. th[v].proxPrio <= th[u].proxPrio /\ pc'[v] = "t_boost1"
          BY <1>5, <1>7, <3>1, <4>0, <5>1, <5>2
        <5> QED BY <5>3
      <4> QED BY <2>1, <2>3, <4>1, <4>2 DEF LendOK
    <3>2. CASE u \in ToSet(cs[d].proxList)
      <4>1. th[u].proxPrio <= th[u].proxPrio
        BY <1>5, <3>2
      <4> QED BY <3>1, <3>2, <4>1
    <3>3. CASE u = s
      <4>1. CASE first
        BY <1>5, <1>7, <3>3, <4>1
      <4>2. CASE ~first
        BY <1>10, <3>1, <3>3, <4>2
      <4> QED BY <4>1, <4>2
    <3> QED BY <3>2, <3>3
  <2>4. cs'[d].bListed = 2 =>
          cs'[d].owner \in Threads /\ pc'[cs'[d].owner] = "l_leave" /\ arg'[cs'[d].owner] = d
    BY <1>7, <1>b, <1>11, <1>a
  <2> QED BY <1>6, <1>8, <1>9, <2>2, <2>3, <2>4 DEF LendOK
<1>17. ASSUME NEW t \in Threads
       PROVE  AheadOK(t, d)'
  <2>1. AheadOK(t, d)
    BY DEF RankInv
  <2>2. ASSUME th[t].hLastCrit = d, cs[d].owner = t, NEW u \in ToSet(cs[d].proxList) \union {s}
        PROVE  sched.cprio[t] <= th[u].proxPrio
    <3>1. CASE u \in ToSet(cs[d].proxList)
      BY <2>1, <2>2, <3>1 DEF AheadOK
    <3>2. CASE u = s
      <4>1. OwnerPth(d) = t
        BY <1>6, <2>2 DEF CanTake, OwnerPth
      <4>2. ~(sched.cprio[t] > sched.cprio[s])
        BY <1>6, <2>2, <4>1 DEF CanSteal
      <4>3. sched.cprio[s] <= th[s].proxPrio
        BY <1>4 DEF RankInv, RankOK
      <4> QED BY <1>5, <3>2, <4>2, <4>3
    <3> QED BY <3>1, <3>2
  <2>3. ASSUME arg[t] = d, pc'[t] = "t_alloc" \/ th[t].fresh
        PROVE  cs[d].owner # t
    BY <1>7, <2>1, <2>3 DEF AheadOK
  <2> QED BY <1>6, <1>8, <1>9, <2>2, <2>3 DEF AheadOK
<1>18. \A c \in Crits \ {d} : arg'[s] # c
  BY <1>2, <1>6
<1> HIDE DEF AheadOK, LendOK, RankOK
<1> QED BY <1>12, <1>13, <1>14, <1>15, <1>16, <1>17, <1>18, StayRank

\* PostBoostCrit2 raises the owner, which is not the thread that runs.
LEMMA Boost2Rank ==
  ASSUME TypeInv, TypeInv', MutexInv, WaitInv, AliveInv, RankInv, NEW s \in Threads,
         PostBoostCrit2(s)
  PROVE  RankInv'
<1>1. /\ Runs(s) /\ pc[s] = "t_boost2" /\ pc[s] \in TakeSteps /\ sched.running = s /\ SchedOK(sched)
  <2>1. Runs(s) /\ pc[s] = "t_boost2"
    BY DEF PostBoostCrit2, At
  <2> QED BY <2>1, WaitActor DEF TakeSteps
<1>2. PICK d \in Crits : arg[s] = d
  BY <1>1, WaitTaker
<1>3. PICK o : o = OwnerPth(d)
  OBVIOUS
<1>4. PICK prio : prio = HeadPrio(cs[d])
  OBVIOUS
<1>5. th[s].wait = "PROCESSING" => /\ o \in Threads \ {s} /\ o # NoThread
  <2> SUFFICES ASSUME th[s].wait = "PROCESSING"
               PROVE  o \in Threads \ {s} /\ o # NoThread
    OBVIOUS
  <2>1. th[s].fresh
    BY <1>1, WaitActor DEF ProxyOK
  <2>2. s \in ToSet(cs[d].proxList)
    BY <1>1, <1>2, <2>1, WaitActor DEF PlaceOK, InCall
  <2>3. cs[d].owner # NoThread
    BY <1>1, <2>2, WaitActor, WaiterQueue, Members DEF WaitersOK
  <2>4. cs[d].owner # s
    BY <1>2, <2>1 DEF RankInv, AheadOK
  <2> QED BY <1>3, <2>3, <2>4, OwnerLives
<1>6. /\ cs' = cs /\ th' = th /\ arg' = arg /\ pc' = [pc EXCEPT ![s] = "t_part2"]
      /\ sched' = IF th[s].wait = "PROCESSING" /\ cs[d].proxList # << >> /\ prio < sched.cprio[o]
                  THEN BoostCPrio(sched, o, prio) ELSE sched
  BY <1>2, <1>3, <1>4, <1>5 DEF PostBoostCrit2, Goto
<1>7. /\ pc'[s] = "t_part2" /\ \A t \in Threads \ {s} : pc'[t] = pc[t]
  BY <1>6 DEF TypeInv, TypeOK
<1>8. \A t \in Threads : sched.cprio[t] \in Int
  BY RankTypes
<1>9. /\ sched'.running = s /\ sched'.rs = sched.rs /\ sched'.cprio[s] = sched.cprio[s]
      /\ \A t \in Threads : sched'.cprio[t] <= sched.cprio[t]
  <2>1. CASE sched' = sched
    BY <1>1, <1>8, <2>1
  <2>2. CASE sched' # sched
    <3>1. /\ o \in Threads \ {s} /\ prio < sched.cprio[o] /\ sched' = BoostCPrio(sched, o, prio)
      BY <1>5, <1>6, <2>2
    <3>2. prio \in Priority /\ sched \in SchedType
      <4>1. DataOK /\ cs[d] \in CritType /\ sched \in SchedType
        BY TypeInvSplit DEF TypeInv, TypeOK
      <4> QED BY <1>4, <4>1, HeadPrioType
    <3>3. sched'.rs = sched.rs
      BY <1>1, <3>1, <3>2, BoostCPrioOK
    <3>4. sched'.cprio = [sched.cprio EXCEPT ![o] = prio]
      <4>1. o \in Threads
        BY <3>1
      <4>2. BoostCPrio(sched, o, prio).cprio = [sched.cprio EXCEPT ![o] = prio]
        BY <3>2, <4>1, BoostPrio
      <4> QED BY <3>1, <4>2
    <3>5. sched'.running = s
      BY <1>1, <3>1, <3>2, RunningKept
    <3>6. DOMAIN sched.cprio = Threads /\ prio \in Int
      BY <3>2 DEF SchedType, Priority
    <3>7. \A t \in Threads : sched'.cprio[t] = IF t = o THEN prio ELSE sched.cprio[t]
      BY <3>4, <3>6
    <3> QED BY <1>8, <3>1, <3>3, <3>5, <3>6, <3>7
  <2> QED BY <2>1, <2>2
<1>10. /\ \A c \in Crits : cs[c].bListedPrio \in Int /\ ToSet(cs[c].proxList) \subseteq Threads
       /\ \A c \in Crits : c # NoCrit
  BY <1>1, Actor, RankTypes
<1>11. RanksStay({s})
  BY <1>6, <1>7, <1>8, <1>9, <1>10 DEF RanksStay
<1>12. ListsStay({})
  <2>1. \A c \in Crits : cs[c].bListed = 2 =>
          cs[c].owner \in Threads \ {s} /\ pc[cs[c].owner] = "l_leave" /\ arg[cs[c].owner] = c
    BY <1>1 DEF RankInv, LendOK
  <2>2. \A u \in Threads : pc[u] = "t_boost1" => pc'[u] = "t_boost1"
    BY <1>1, <1>7
  <2> QED BY <1>6, <1>7, <1>10, <2>1, <2>2 DEF ListsStay
<1>13. OwnersStay({})
  BY <1>6, <1>9 DEF OwnersStay
<1>14. RankOK(s)'
  <2>1. \A c \in Crits : cs[c].bListed = 1 /\ cs[c].linkedTo = s =>
           cs'[c].bListed = 1 /\ cs'[c].linkedTo = s /\ cs'[c].bListedPrio <= cs[c].bListedPrio
    BY <1>6, <1>10
  <2> QED BY <1>1, <1>6, <1>9, <2>1, OwnRankStays
<1>15. \A c \in Crits : arg'[s] = c /\ (pc'[s] = "t_alloc" \/ th'[s].fresh) => cs'[c].owner # s
  BY <1>6, <1>7 DEF RankInv, AheadOK
<1> QED BY <1>11, <1>12, <1>13, <1>14, <1>15, StayRank

\* PreLeaveCrit takes the critical section off the list, and the thread out of the
\* computation of priorities until PostUnlinkCritMut.
LEMMA PreLeaveRank ==
  ASSUME TypeInv, TypeInv', MutexInv, WaitInv, AliveInv, RankInv, NEW s \in Threads, PreLeaveCrit(s)
  PROVE  RankInv'
<1>1. Runs(s) /\ pc[s] = "l_pre" /\ sched' = sched /\ sched.running = s
  BY DEF PreLeaveCrit, At, Runs
<1>2. PICK d \in Crits : arg[s] = d
  BY <1>1, WaitLeaver
<1>3. /\ cs \in [Crits -> CritType] /\ th \in [Threads -> ThreadType] /\ ~th[s].fresh
      /\ th[s].hLastCrit = NoCrit /\ \A c \in Crits : c # NoCrit
  BY <1>1, WaitActor, Actor DEF TypeInv, TypeOK
<1>4. CASE Leaving(s, d)
  <2>1. /\ cs' = [cs EXCEPT ![d] = [UnlinkCritMut(cs[d]) EXCEPT !.low = FALSE, !.bListed = 2]]
        /\ th' = [th EXCEPT ![s].noPrioCalc = TRUE] /\ Goto(s, "l_leave") /\ arg' = arg
    BY <1>2, <1>4 DEF PreLeaveCrit
  <2>2. cs'[d].owner = s /\ cs'[d].bListed = 2 /\ \A c \in Crits \ {d} : cs'[c] = cs[c]
    BY <1>3, <1>4, <2>1 DEF UnlinkCritMut, CritType, Leaving
  <2>3. \A t \in Threads \ {s} : pc'[t] = pc[t] /\ th'[t] = th[t]
    BY <2>1 DEF Goto, TypeInv, TypeOK
  <2>4. /\ pc'[s] = "l_leave" /\ ~th'[s].fresh /\ th'[s].noPrioCalc
        /\ th'[s].hLastCrit = th[s].hLastCrit /\ th'[s].proxPrio = th[s].proxPrio
    <3>1. pc'[s] = "l_leave"
      BY <2>1 DEF Goto, TypeInv, TypeOK
    <3> QED BY <1>3, <2>1, <3>1 DEF ThreadType
  <2>5. /\ \A t \in Threads : sched.cprio[t] \in Int
        /\ \A c \in Crits : cs[c].bListedPrio \in Int /\ ToSet(cs[c].proxList) \subseteq Threads
    BY RankTypes
  <2>6. cs[d].bListed = 1 => cs[d].linkedTo = s
    BY <1>4 DEF Leaving, MutexInv, PairInv, ListOK
  <2>7. RanksStay({s})
    <3>1. \A t \in Threads \ {s} : \A c \in Crits : cs[c].bListed = 1 /\ cs[c].linkedTo = t =>
             cs'[c].bListed = 1 /\ cs'[c].linkedTo = t /\ cs'[c].bListedPrio <= cs[c].bListedPrio
      BY <2>2, <2>5, <2>6
    <3> QED BY <1>1, <2>1, <2>3, <2>5, <3>1 DEF RanksStay
  <2>8. ListsStay({d})
    <3>1. \A c \in Crits : cs[c].bListed = 2 =>
            cs[c].owner \in Threads \ {s} /\ pc[cs[c].owner] = "l_leave" /\ arg[cs[c].owner] = c
      BY <1>1 DEF RankInv, LendOK
    <3>2. \A u \in Threads : th'[u].proxPrio = th[u].proxPrio /\ (pc[u] = "t_boost1" => pc'[u] = "t_boost1")
      BY <1>1, <2>3, <2>4
    <3>3. \A c \in Crits \ {d} : cs'[c].bListed = 2 =>
             cs'[c].owner \in Threads /\ pc'[cs'[c].owner] = "l_leave" /\ arg'[cs'[c].owner] = c
      BY <2>1, <2>2, <2>3, <3>1
    <3> QED BY <2>2, <2>5, <3>2, <3>3 DEF ListsStay
  <2>9. OwnersStay({d})
    BY <1>1, <1>3, <2>2, <2>3, <2>4, <2>5 DEF OwnersStay
  <2>10. RankOK(s)'
    BY <2>4 DEF RankOK
  <2>11. LendOK(d)'
    BY <1>2, <2>1, <2>2, <2>4 DEF LendOK
  <2>12. ASSUME NEW t \in Threads
         PROVE  AheadOK(t, d)'
    BY <1>3, <2>2, <2>4 DEF AheadOK
  <2>13. \A c \in Crits \ {d} : arg'[s] # c
    BY <1>2, <2>1
  <2> HIDE DEF RankOK, LendOK, AheadOK
  <2> QED BY <2>7, <2>8, <2>9, <2>10, <2>11, <2>12, <2>13, StayRank
<1>5. CASE ~Leaving(s, d)
  <2>1. ReturnToUser(s, {}) /\ cs' = cs /\ th' = th
    BY <1>2, <1>5 DEF PreLeaveCrit
  <2>2. /\ arg'[s] = NoCrit /\ \A t \in Threads \ {s} : pc'[t] = pc[t] /\ arg'[t] = arg[t]
        /\ pc'[s] \in {"x_next", "x_start", "user"}
    BY <2>1, ReturnEffect
  <2> QED BY <1>1, <1>3, <2>1, <2>2, QuietRank
<1> QED BY <1>4, <1>5

\* LeaveCrit with nobody waiting.
LEMMA FreeRank ==
  ASSUME TypeInv, TypeInv', MutexInv, WaitInv, AliveInv, RankInv, NEW s \in Threads, LeaveCritFree(s)
  PROVE  RankInv'
<1>1. Runs(s) /\ pc[s] = "l_leave" /\ sched.running = s
  BY DEF LeaveCritFree, At, Runs
<1>2. PICK d \in Crits : arg[s] = d
  BY <1>1, WaitLeaver
<1>3. /\ ~th[s].fresh /\ cs[d].bListed = 2 /\ NoThread \notin Threads
      /\ th[s].hLastCrit = NoCrit /\ \A c \in Crits : c # NoCrit
  BY <1>1, <1>2, WaitActor, Actor DEF PlaceOK, InCall
<1>4. /\ sched' = sched /\ th' = th /\ arg' = arg /\ Goto(s, "l_post")
      /\ cs' = [cs EXCEPT ![d].owner = NoThread, ![d].needtrap = FALSE, ![d].bListed = 0]
  BY <1>2 DEF LeaveCritFree
<1>5. pc'[s] = "l_post" /\ \A t \in Threads \ {s} : pc'[t] = pc[t]
  BY <1>4 DEF Goto, TypeInv, TypeOK
<1>6. cs'[d].owner = NoThread /\ cs'[d].bListed = 0 /\ \A c \in Crits \ {d} : cs'[c] = cs[c]
  BY <1>4 DEF TypeInv, TypeOK, CritType
<1>7. /\ \A t \in Threads : sched.cprio[t] \in Int
      /\ \A c \in Crits : cs[c].bListedPrio \in Int /\ ToSet(cs[c].proxList) \subseteq Threads
  BY RankTypes
<1>8. \A t : \A c \in Crits : cs[c].bListed = 1 /\ cs[c].linkedTo = t =>
         cs'[c].bListed = 1 /\ cs'[c].linkedTo = t /\ cs'[c].bListedPrio <= cs[c].bListedPrio
  BY <1>3, <1>6, <1>7
<1>a. sched' = sched /\ th' = th /\ arg' = arg
  BY <1>4
<1>9. RanksStay({s})
  BY <1>1, <1>5, <1>7, <1>8, <1>a DEF RanksStay
<1>10. ListsStay({d})
  <2>1. \A u \in Threads : pc[u] = "t_boost1" => pc'[u] = "t_boost1"
    BY <1>1, <1>5
  <2>2. ASSUME NEW c \in Crits \ {d}, cs[c].bListed = 2
        PROVE  cs[c].owner \in Threads /\ pc'[cs[c].owner] = "l_leave" /\ arg[cs[c].owner] = c
    BY <1>2, <1>5, <2>2 DEF RankInv, LendOK
  <2> QED BY <1>4, <1>6, <1>7, <2>1, <2>2 DEF ListsStay
<1>11. OwnersStay({d})
  BY <1>5, <1>6, <1>7, <1>a DEF OwnersStay
<1>12. RankOK(s)'
  BY <1>1, <1>4, <1>5, <1>8, OwnRank
<1>13. LendOK(d)'
  BY <1>6 DEF LendOK
<1>14. ASSUME NEW t \in Threads
       PROVE  AheadOK(t, d)'
  BY <1>3, <1>6 DEF AheadOK
<1>15. \A c \in Crits \ {d} : arg'[s] # c
  BY <1>2, <1>4
<1> HIDE DEF RankOK, LendOK, AheadOK
<1> QED BY <1>9, <1>10, <1>11, <1>12, <1>13, <1>14, <1>15, StayRank

\* LeaveCrit hands over to the best waiter: what it may be robbed of it has at a
\* priority no worse than any other waiter's.
LEMMA HandOffRank ==
  ASSUME TypeInv, TypeInv', MutexInv, WaitInv, AliveInv, RankInv, NEW s \in Threads,
         LeaveCritHandOff(s)
  PROVE  RankInv'
<1>1. Runs(s) /\ pc[s] = "l_leave" /\ sched.running = s
  BY DEF LeaveCritHandOff, At, Runs
<1>2. PICK d \in Crits : arg[s] = d
  BY <1>1, WaitLeaver
<1>3. PICK u : u = Head(cs[d].proxList)
  OBVIOUS
<1>4. /\ cs[d].proxList # << >> /\ th[u].fresh
      /\ cs' = [cs EXCEPT ![d] = HandOver(cs[d])] /\ arg' = arg
      /\ Goto(s, "l_run") \/ Goto(s, "l_post")
      /\ sched' = sched \/ sched' = [sched EXCEPT !.rs[u] = "NEEDSRUN"]
  BY <1>2, <1>3 DEF LeaveCritHandOff
<1>5. PICK w : th' = [th EXCEPT ![u].fresh = FALSE, ![u].hLastCrit = d, ![u].wait = w]
  BY <1>2, <1>3 DEF LeaveCritHandOff
<1>6. /\ u \in Threads /\ InCall(u, d, QueuedSteps) /\ u \in ToSet(cs[d].proxList)
      /\ ToSet(Tail(cs[d].proxList)) = ToSet(cs[d].proxList) \ {u}
  BY <1>3, <1>4, FirstWaiter
<1>7. u # s /\ pc[u] # "t_alloc" /\ arg[u] = d
  BY <1>1, <1>6 DEF InCall, QueuedSteps
<1>8. /\ th \in [Threads -> ThreadType] /\ cs \in [Crits -> CritType] /\ sched \in SchedType
  BY DEF TypeInv, TypeOK
<1>9. /\ cs'[d].owner = u /\ cs'[d].bListed = 0 /\ cs'[d].proxList = Tail(cs[d].proxList)
      /\ \A c \in Crits \ {d} : cs'[c] = cs[c]
  BY <1>3, <1>4, <1>8 DEF HandOver, CritType
<1>10. /\ \A t \in Threads : /\ th'[t].proxPrio = th[t].proxPrio /\ th'[t].bprio = th[t].bprio
                             /\ th'[t].noPrioCalc = th[t].noPrioCalc
                             /\ t # u => th'[t].fresh = th[t].fresh /\ th'[t].hLastCrit = th[t].hLastCrit
       /\ ~th'[u].fresh
  BY ONLY <1>5, <1>6, <1>8 DEF ThreadType
<1>11. /\ sched'.cprio = sched.cprio /\ sched'.running = s
       /\ \A t \in Threads \ {u} : sched'.rs[t] = sched.rs[t]
  BY <1>1, <1>4, <1>6, <1>8 DEF SchedType
<1>12. pc'[s] \in {"l_run", "l_post"} /\ \A t \in Threads \ {s} : pc'[t] = pc[t]
  BY <1>4 DEF Goto, TypeInv, TypeOK
<1>13. /\ \A t \in Threads : sched.cprio[t] \in Int /\ th[t].proxPrio \in Int
       /\ \A c \in Crits : cs[c].bListedPrio \in Int /\ ToSet(cs[c].proxList) \subseteq Threads
  BY RankTypes
<1>14. /\ ~th[s].fresh /\ cs[d].bListed = 2 /\ th[s].hLastCrit = NoCrit
       /\ \A c \in Crits : c # NoCrit
  BY <1>1, <1>2, WaitActor, Actor DEF PlaceOK, InCall
<1>15. \A t : \A c \in Crits : cs[c].bListed = 1 /\ cs[c].linkedTo = t =>
         cs'[c].bListed = 1 /\ cs'[c].linkedTo = t /\ cs'[c].bListedPrio <= cs[c].bListedPrio
  BY <1>9, <1>13, <1>14
<1>16. RanksStay({s, u})
  BY <1>4, <1>10, <1>11, <1>12, <1>13, <1>15 DEF RanksStay
<1>17. ListsStay({d})
  <2>1. \A t \in Threads : th'[t].proxPrio = th[t].proxPrio /\ (pc[t] = "t_boost1" => pc'[t] = "t_boost1")
    BY <1>1, <1>10, <1>12
  <2>2. ASSUME NEW c \in Crits \ {d}, cs[c].bListed = 2
        PROVE  cs[c].owner \in Threads /\ pc'[cs[c].owner] = "l_leave" /\ arg'[cs[c].owner] = c
    BY <1>2, <1>4, <1>12, <2>2 DEF RankInv, LendOK
  <2> QED BY <1>9, <1>13, <2>1, <2>2 DEF ListsStay
<1>18. OwnersStay({d})
  <2> SUFFICES ASSUME NEW c \in Crits \ {d}, NEW t \in Threads, cs'[c].owner = t
               PROVE  /\ cs[c].owner = t
                      /\ th'[t].hLastCrit = c => th[t].hLastCrit = c /\ sched'.cprio[t] <= sched.cprio[t]
    BY DEF OwnersStay
  <2>1. cs[c].owner = t
    BY <1>9
  <2>2. th'[t].hLastCrit = c => th[t].hLastCrit = c
    <3>1. th'[u].hLastCrit = d
      BY ONLY <1>5, <1>6, <1>8 DEF ThreadType
    <3> QED BY <1>10, <3>1
  <2> QED BY <1>11, <1>13, <2>1, <2>2
<1>19. RankOK(s)'
  <2>1. th'[s].noPrioCalc => pc'[s] \in {"l_leave", "l_run", "l_post"}
    BY <1>12
  <2> QED BY <1>1, <1>7, <1>10, <1>11, <1>15, <2>1, OwnRank
<1>20. RankOK(u)'
  <2>1. th'[u].noPrioCalc => pc'[u] \in {"l_leave", "l_run", "l_post"}
    BY <1>6, <1>7, <1>10, <1>12 DEF RankInv, RankOK
  <2> QED BY <1>7, <1>10, <1>11, <2>1 DEF RankOK
<1>21. LendOK(d)'
  BY <1>9 DEF LendOK
<1>22. ASSUME NEW t \in Threads
       PROVE  AheadOK(t, d)'
  <2>1. ASSUME t = u, NEW v \in ToSet(cs'[d].proxList)
        PROVE  sched'.cprio[t] <= th'[v].proxPrio
    <3>1. v \in ToSet(cs[d].proxList) /\ v \in Threads
      BY <1>6, <1>9, <1>13, <2>1
    <3>2. ProxPrio[u] <= ProxPrio[v]
      BY <1>3, <1>4, <3>1, WaiterQueue, HeadStands
    <3>3. th[u].proxPrio <= th[v].proxPrio
      BY <1>6, <3>1, <3>2 DEF ProxPrio
    <3>4. sched.cprio[u] <= th[u].proxPrio
      BY <1>4, <1>6 DEF RankInv, RankOK
    <3> QED BY <1>6, <1>10, <1>11, <1>13, <2>1, <3>1, <3>3, <3>4
  <2>2. arg'[t] = d /\ (pc'[t] = "t_alloc" \/ th'[t].fresh) => cs'[d].owner # t
    BY <1>7, <1>9, <1>10, <1>12
  <2> QED BY <1>9, <2>1, <2>2 DEF AheadOK
<1>23. \A c \in Crits \ {d} : arg'[s] # c /\ arg'[u] # c
  BY <1>2, <1>4, <1>7
<1> HIDE DEF RankOK, LendOK, AheadOK
<1> QED BY <1>6, <1>16, <1>17, <1>18, <1>19, <1>20, <1>21, <1>22, <1>23, StayRank

\* After LeaveCrit: the new owner becomes runnable, and the leaver goes back to the
\* best priority recorded for it.
LEMMA PostLeaveRank ==
  ASSUME TypeInv, TypeInv', MutexInv, WaitInv, AliveInv, RankInv, NEW s \in Threads,
         LeaveCritRun(s) \/ PostUnlinkCritMut(s)
  PROVE  RankInv'
<1>1. Runs(s) /\ pc[s] \in {"l_run", "l_post"} /\ cs' = cs
  BY DEF LeaveCritRun, PostUnlinkCritMut, At
<1>2. /\ SchedOK(sched) /\ sched.running = s /\ sched.rs[s] = "RUNNING" /\ ~sched.resched /\ ~th[s].fresh
      /\ sched \in SchedType
  BY <1>1, WaitActor DEF SchedOK
<1>3. CASE LeaveCritRun(s)
  <2>1. /\ th' = th /\ arg' = arg /\ pc'[s] = "l_post" /\ \A t \in Threads \ {s} : pc'[t] = pc[t]
        /\ sched' = sched \/ sched' = MakeRunIfNeeded(sched, tgt[s])
    BY <1>3 DEF LeaveCritRun, Goto, TypeInv, TypeOK
  <2>2. tgt[s] \in Threads
    BY <1>3 DEF LeaveCritRun, At, TypeInv, TgtOK, TgtSteps
  <2>3. sched'.rs = sched.rs \/ sched'.rs = [sched.rs EXCEPT ![tgt[s]] = "RUNNABLE"]
    BY <1>2, <2>1, <2>2, MakeRunIfNeededOK
  <2>4. \A t \in Threads : sched'.rs[t] = "NEEDSRUN" => sched.rs[t] = "NEEDSRUN"
    BY <1>2, <2>2, <2>3 DEF SchedType
  <2>5. sched'.cprio = sched.cprio /\ sched'.running = s
    <3>1. 0 \in Priority
      BY DEF Priority, MAX_PRIORITY_LEVELS
    <3>2. /\ MakeRunIfNeeded(sched, tgt[s]).cprio = sched.cprio
          /\ MakeRunIfNeeded(sched, tgt[s]).running = sched.running
      BY <1>2, <2>2, <3>1, PrioKept, RunningKept
    <3> QED BY <1>2, <2>1, <3>2
  <2>6. RankOK(s)'
    <3>1. \A c \in Crits : cs[c].bListed = 1 /\ cs[c].linkedTo = s =>
             cs'[c].bListed = 1 /\ cs'[c].linkedTo = s /\ cs'[c].bListedPrio <= cs[c].bListedPrio
      BY <1>1, RankTypes
    <3> QED BY <1>1, <2>1, <2>4, <2>5, <3>1, OwnRank
  <2>7. /\ \A t \in Threads \ {s} : /\ pc'[t] = pc[t] /\ arg'[t] = arg[t] /\ th'[t] = th[t]
                                    /\ sched'.cprio[t] = sched.cprio[t]
                                    /\ sched'.rs[t] = "NEEDSRUN" => sched.rs[t] = "NEEDSRUN"
        /\ ~th'[s].fresh /\ pc'[s] # "t_alloc" /\ th'[s].hLastCrit = th[s].hLastCrit
        /\ th'[s].proxPrio = th[s].proxPrio
    BY <1>2, <2>1, <2>4, <2>5
  <2> HIDE DEF RankOK
  <2> QED BY <1>1, <2>5, <2>6, <2>7, OwnStepRank
<1>4. CASE PostUnlinkCritMut(s)
  <2> DEFINE prio == PrioFrom(s, OwnedList(s))
  <2>1. /\ th' = [th EXCEPT ![s].noPrioCalc = FALSE] /\ ReturnToUser(s, {})
        /\ sched' = IF prio # sched.cprio[s] THEN SetRunningPrio(sched, prio) ELSE sched
    BY <1>4 DEF PostUnlinkCritMut
  <2>2. /\ ~th'[s].fresh /\ th'[s].proxPrio = th[s].proxPrio /\ \A t \in Threads \ {s} : th'[t] = th[t]
        /\ ~th'[s].noPrioCalc /\ th'[s].bprio = th[s].bprio /\ th'[s].hLastCrit = th[s].hLastCrit
    BY <1>2, <2>1 DEF TypeInv, TypeOK, ThreadType
  <2>3. prio \in Priority /\ Lent(s, prio)
    BY LentPrio
  <2> HIDE DEF prio
  <2>4. /\ QueueHolds(sched) /\ RunningMarked(sched)
        /\ \A u \in Runnable(sched) : sched.cprio[sched.running] <= sched.cprio[u]
    BY <1>2, NoThreadAssumption DEF SchedOK, NoneBetter
  <2>5. SetRunningPrio(sched, prio).rs = sched.rs
    BY <1>2, <2>3, <2>4, SetRunningPrioOK
  <2>6. /\ SetRunningPrio(sched, prio).cprio = [sched.cprio EXCEPT ![s] = prio]
        /\ SetRunningPrio(sched, prio).running = s
    BY <1>2, <2>3, PrioKept, RunningKept
  <2>7. /\ sched'.rs = sched.rs /\ sched'.running = s /\ sched'.cprio[s] = prio
        /\ \A t \in Threads \ {s} : sched'.cprio[t] = sched.cprio[t]
    BY <1>2, <2>1, <2>5, <2>6 DEF SchedType
  <2>8. /\ arg'[s] = NoCrit /\ \A t \in Threads \ {s} : pc'[t] = pc[t] /\ arg'[t] = arg[t]
        /\ pc'[s] \in {"x_next", "x_start", "user"}
    BY <2>1, ReturnEffect
  <2>9. RankOK(s)'
    <3>1. Lent(s, sched.cprio[s])'
      BY <1>1, <2>2, <2>3, <2>7 DEF Lent, OwnedList
    <3> HIDE DEF Lent
    <3> QED BY <2>2, <3>1 DEF RankOK
  <2>10. \A t \in Threads \ {s} : /\ pc'[t] = pc[t] /\ arg'[t] = arg[t] /\ th'[t] = th[t]
                                  /\ sched'.cprio[t] = sched.cprio[t]
                                  /\ sched'.rs[t] = "NEEDSRUN" => sched.rs[t] = "NEEDSRUN"
    BY <2>2, <2>7, <2>8
  <2>11. ~th'[s].fresh /\ pc'[s] # "t_alloc"
    BY <2>2, <2>8
  <2> HIDE DEF RankOK
  <2> QED BY <1>1, <2>2, <2>7, <2>9, <2>10, <2>11, OwnStepRank
<1> QED BY <1>3, <1>4

\* A step of SC_TakeCritSec: nobody gives up a wait, and nobody leaves one queued.
LEMMA TakeRank ==
  ASSUME TypeInv, TypeInv', MutexInv, WaitInv, AliveInv, RankInv, NEW s \in Threads, TakeCritSec(s)
  PROVE  RankInv'
<1>1. ~(CSWaitPart1Abort(s) \/ CSWaitPart2Abort(s))
  BY DEF CSWaitPart1Abort, CSWaitPart2Abort, MustAbort, AliveInv, AliveOK
<1>2. ~DequeuePrioProxy(s)
  <2> SUFFICES ASSUME DequeuePrioProxy(s)
               PROVE  FALSE
    OBVIOUS
  <2>1. Runs(s) /\ pc[s] = "t_after" /\ pc[s] \in TakeSteps
    BY DEF DequeuePrioProxy, At, TakeSteps
  <2>2. arg[s] \in Crits /\ s \in ToSet(cs[arg[s]].proxList) /\ ~th[s].fresh
    BY <2>1, WaitTaker, WaitActor DEF DequeuePrioProxy
  <2> QED BY <2>2 DEF AliveInv, TrapOK
<1> QED BY <1>1, <1>2, AllocRank, TakeMovesRank, TakenRank, ListStepRank, FinalBoostRank, PendRank,
           Boost2Rank DEF TakeCritSec

\* A step of SC_LeaveCritSec: every queued proxy waits.
LEMMA LeaveCritRank ==
  ASSUME TypeInv, TypeInv', MutexInv, WaitInv, AliveInv, RankInv, NEW s \in Threads, LeaveCritSec(s)
  PROVE  RankInv'
<1>1. ~LeaveCritStale(s)
  <2> SUFFICES ASSUME LeaveCritStale(s)
               PROVE  FALSE
    OBVIOUS
  <2>1. Runs(s) /\ pc[s] = "l_leave"
    BY DEF LeaveCritStale, At
  <2>2. PICK d \in Crits : arg[s] = d
    BY <2>1, WaitLeaver
  <2>3. cs[d].proxList # << >> /\ ~th[Head(cs[d].proxList)].fresh
    BY <2>2 DEF LeaveCritStale
  <2>4. Head(cs[d].proxList) \in ToSet(cs[d].proxList)
    BY <2>3, FirstWaiter
  <2> QED BY <2>3, <2>4 DEF AliveInv, TrapOK
<1> QED BY <1>1, PreLeaveRank, FreeRank, HandOffRank, PostLeaveRank DEF LeaveCritSec

\* Initially nobody waits, and every thread has its base priority.
LEMMA RankInit ==
  ASSUME Init
  PROVE  RankInv
<1>1. ToSet(<< >>) = {}
  BY DEF ToSet
<1>2. NoThread \notin Threads /\ \A c \in Crits : c # NoCrit
  BY NoThreadAssumption, CritAssumption DEF NoCrit
<1>3. \A t \in Threads : RankOK(t)
  BY <1>2 DEF Init, RankOK
<1>4. \A c \in Crits : LendOK(c)
  BY DEF Init, LendOK
<1>5. \A t \in Threads, c \in Crits : AheadOK(t, c)
  BY <1>1, <1>2 DEF Init, AheadOK
<1> QED BY <1>3, <1>4, <1>5 DEF RankInv

\* Every step keeps the ranks.
LEMMA RankStep ==
  ASSUME NobodyAbandons, TypeInv, TypeInv', MutexInv, WaitInv, AliveInv, RankInv, [Next]_vars
  PROVE  RankInv'
<1>1. ASSUME NEW s \in Threads, ThreadStep(s)
      PROVE  RankInv'
  <2>1. ~Kill(s)
    BY DEF Kill, SetThreadToDie, SetThreadBasePrio, KillRun, At, KillSteps, NobodyAbandons, AliveInv,
           AliveOK, Calls, UserMode, TakeSteps, LeaveSteps, ExitSteps
  <2> QED BY <1>1, <2>1, UserRank, TakeRank, LeaveCritRank DEF ThreadStep
<1>2. ASSUME NEW s \in Threads, Block(s)
      PROVE  RankInv'
  BY <1>2, UserRank
<1> QED BY <1>1, <1>2, WakeRank, NextThreadRank DEF Next

\* So the five invariants hold together.
LEMMA RankAlways ==
  ASSUME NobodyAbandons
  PROVE  Spec => [](TypeInv /\ MutexInv /\ WaitInv /\ AliveInv /\ RankInv)
<1>1. Init => TypeInv /\ MutexInv /\ WaitInv /\ AliveInv /\ RankInv
  BY TypeInit, MutexInit, WaitInit, AliveInit, RankInit
<1>2. TypeInv /\ MutexInv /\ WaitInv /\ AliveInv /\ RankInv /\ [Next]_vars
        => (TypeInv /\ MutexInv /\ WaitInv /\ AliveInv /\ RankInv)'
  <2> SUFFICES ASSUME TypeInv, MutexInv, WaitInv, AliveInv, RankInv, [Next]_vars
               PROVE  (TypeInv /\ MutexInv /\ WaitInv /\ AliveInv /\ RankInv)'
    OBVIOUS
  <2>1. TypeInv' /\ MutexInv' /\ WaitInv' /\ AliveInv'
    BY TypeStep, MutexStep, WaitStep, AliveStep
  <2>2. RankInv'
    BY <2>1, RankStep
  <2> QED BY <2>1, <2>2
<1> QED BY <1>1, <1>2, PTL DEF Spec

-----------------------------------------------------------------------------
(* Who becomes the owner. *)

Becomes(s) == CSWaitPart1Take(s) \/ CSWaitPart1Steal(s)

\* Nothing else a thread does gives a critical section an owner.
LEMMA OwnerKept ==
  ASSUME TypeInv, AliveInv, NobodyAbandons, NEW s \in Threads, ThreadStep(s), NEW c \in Crits,
         ~EnterFast(s, c), ~Becomes(s), ~LeaveCritHandOff(s)
  PROVE  cs'[c].owner \in {cs[c].owner, NoThread}
<1>1. cs \in [Crits -> CritType]
  BY DEF TypeInv, TypeOK
<1>2. ASSUME NEW d, NEW m, NEW b,
             \/ cs' = cs
             \/ cs' = [cs EXCEPT ![d].lockCount = m]
             \/ cs' = [cs EXCEPT ![d].low = b]
             \/ cs' = [cs EXCEPT ![d].proxList = m]
             \/ cs' = [cs EXCEPT ![d].proxList = m, ![d].needtrap = b]
      PROVE  cs'[c].owner = cs[c].owner
  <2>1. CASE cs' = [cs EXCEPT ![d].lockCount = m]
    BY ONLY <1>1, <2>1, c \in Crits DEF CritType
  <2>2. CASE cs' = [cs EXCEPT ![d].low = b]
    BY ONLY <1>1, <2>2, c \in Crits DEF CritType
  <2>3. CASE cs' = [cs EXCEPT ![d].proxList = m]
    BY ONLY <1>1, <2>3, c \in Crits DEF CritType
  <2>4. CASE cs' = [cs EXCEPT ![d].proxList = m, ![d].needtrap = b]
    BY ONLY <1>1, <2>4, c \in Crits DEF CritType
  <2> QED BY <1>2, <2>1, <2>2, <2>3, <2>4
<1>3. ASSUME NEW d, NEW new, cs' = [cs EXCEPT ![d] = new],
             d \in Crits => new.owner \in {cs[d].owner, NoThread}
      PROVE  cs'[c].owner \in {cs[c].owner, NoThread}
  BY <1>1, <1>3
<1>4. CASE Enter(s)
  <2>1. CASE \E d \in Crits : EnterFast(s, d)
    <3>1. PICK d \in Crits : cs' = [cs EXCEPT ![d].owner = s, ![d].low = FALSE] /\ d # c
      BY <2>1 DEF EnterFast
    <3> QED BY ONLY <1>1, <3>1, c \in Crits DEF CritType
  <2>2. CASE ~\E d \in Crits : EnterFast(s, d)
    BY <1>2, <1>4, <2>2 DEF Enter, EnterAgain, EnterSlow, EnterSetCount
  <2> QED BY <2>1, <2>2
<1>5. CASE Leave(s)
  <2>1. CASE LeaveFree(s)
    <3>1. cs' = [cs EXCEPT ![arg[s]] = ExchangeFree(cs[arg[s]], s)]
      BY <2>1 DEF LeaveFree
    <3>2. arg[s] \in Crits => ExchangeFree(cs[arg[s]], s).owner \in {cs[arg[s]].owner, NoThread}
      BY <1>1 DEF ExchangeFree, CritType
    <3> QED BY <1>3, <3>1, <3>2
  <2>2. CASE ~LeaveFree(s)
    BY <1>2, <1>5, <2>2 DEF Leave, LeaveNested, LeaveMark, LeaveTest
  <2> QED BY <2>1, <2>2
<1>6. CASE TakeCritSec(s)
  <2>1. \/ \E d, m, b : \/ cs' = cs
                        \/ cs' = [cs EXCEPT ![d].proxList = m]
                        \/ cs' = [cs EXCEPT ![d].proxList = m, ![d].needtrap = b]
        \/ \E d, o, new : /\ cs' = [cs EXCEPT ![d] = new]
                          /\ d \in Crits => \/ new = cs[d] \/ new = ReprioCritMut(cs[d], o)
                                            \/ new = LinkCritMut(cs[d], o)
    <3>1. CASE LaterLinkCritMut(s)
      <4>1. cs' = [cs EXCEPT ![arg[s]] = IF cs[arg[s]].bListed = 0 /\ Owns(s, arg[s])
                                         THEN LinkCritMut(cs[arg[s]], s) ELSE cs[arg[s]]]
        BY <3>1 DEF LaterLinkCritMut
      <4> QED BY <4>1
    <3>2. CASE PostBoostCrit1(s) \/ DoReprioCrit(s) \/ CSWaitPart2Block(s)
      BY <3>2 DEF PostBoostCrit1, Fault, DoReprioCrit, CSWaitPart2Block
    <3>3. CASE CritFinalBoost(s)
      BY <1>1, <3>3 DEF CritFinalBoost
    <3>4. CASE CSWaitPart1Pend(s) \/ DequeuePrioProxy(s)
      BY <3>4 DEF CSWaitPart1Pend, DequeuePrioProxy
    <3>5. CASE \/ AllocProxy(s) \/ AllocFails(s) \/ WaitConfig(s) \/ CSWaitPart1Abort(s)
               \/ PostBoostCrit2(s) \/ CSWaitPart2Signalled(s) \/ CSWaitPart2Abort(s) \/ TakeRetry(s)
      BY <3>5 DEF AllocProxy, AllocFails, WaitConfig, CSWaitPart1Abort, PostBoostCrit2, Fault,
         CSWaitPart2Signalled, CSWaitPart2Abort, TakeRetry
    <3> QED BY <1>6, <3>1, <3>2, <3>3, <3>4, <3>5 DEF TakeCritSec, Becomes
  <2>2. ASSUME NEW d, NEW o, NEW new, cs' = [cs EXCEPT ![d] = new],
               d \in Crits => \/ new = cs[d] \/ new = ReprioCritMut(cs[d], o)
                              \/ new = LinkCritMut(cs[d], o)
        PROVE  cs'[c].owner \in {cs[c].owner, NoThread}
    <3>1. d \in Crits => new.owner = cs[d].owner
      BY <1>1, <2>2, DoLinkEffect DEF ReprioCritMut, LinkCritMut
    <3> QED BY <1>3, <2>2, <3>1
  <2>3. CASE \E d, m, b : \/ cs' = cs
                          \/ cs' = [cs EXCEPT ![d].proxList = m]
                          \/ cs' = [cs EXCEPT ![d].proxList = m, ![d].needtrap = b]
    BY <1>2, <2>3
  <2> QED BY <2>1, <2>2, <2>3
<1>7. CASE LeaveCritSec(s)
  <2>1. CASE PreLeaveCrit(s)
    <3>1. CASE cs' # cs
      <4>1. PICK d : /\ cs' = [cs EXCEPT ![d] = [UnlinkCritMut(cs[d]) EXCEPT !.low = FALSE, !.bListed = 2]]
        BY <2>1, <3>1 DEF PreLeaveCrit
      <4>2. d \in Crits => [UnlinkCritMut(cs[d]) EXCEPT !.low = FALSE, !.bListed = 2].owner = cs[d].owner
        BY <1>1 DEF UnlinkCritMut, CritType
      <4> QED BY <1>3, <4>1, <4>2
    <3> QED BY <3>1
  <2>2. CASE LeaveCritFree(s)
    <3>1. PICK d : cs' = [cs EXCEPT ![d].owner = NoThread, ![d].needtrap = FALSE, ![d].bListed = 0]
      BY <2>2 DEF LeaveCritFree
    <3> QED BY ONLY <1>1, <3>1, c \in Crits DEF CritType
  <2>3. CASE LeaveCritStale(s) \/ LeaveCritRun(s) \/ PostUnlinkCritMut(s)
    BY <1>2, <2>3 DEF LeaveCritStale, LeaveCritRun, PostUnlinkCritMut
  <2> QED BY <1>7, <2>1, <2>2, <2>3 DEF LeaveCritSec
<1>8. CASE Exit(s) \/ Kill(s)
  <2>1. ~LeaveListed(s)
    BY DEF LeaveListed, At, AliveInv, AliveOK
  <2> QED BY <1>2, <1>8, <2>1 DEF Exit, ExitThread, NKTerminateThread, DoLeaveSomething, RemoveThread,
             Kill, SetThreadToDie, SetThreadBasePrio, KillRun
<1> QED BY <1>4, <1>5, <1>6, <1>7, <1>8 DEF ThreadStep

\* Whoever becomes the owner runs at a priority at least as good as every waiter
\* asked with, and asked with one itself unless a boost came after AllocProxy.
LEMMA NewOwnerIsBest ==
  ASSUME NobodyAbandons, TypeInv, MutexInv, WaitInv, AliveInv, RankInv, [Next]_vars,
         NEW c \in Crits, NEW t \in Threads, cs[c].owner # t, cs'[c].owner = t,
         NEW u \in Threads, WaitsFor(u, c)'
  PROVE  /\ sched.cprio[t] <= th[u].proxPrio
         /\ pc[t] # "t_part1" => th[t].proxPrio <= th[u].proxPrio
<1>1. u \in ToSet(cs'[c].proxList) /\ NoThread \notin Threads /\ cs \in [Crits -> CritType]
  BY NoThreadAssumption DEF WaitsFor, TypeInv, TypeOK
<1>2. \A v \in Threads : sched.cprio[v] \in Int /\ th[v].proxPrio \in Int
  BY RankTypes
<1>3. ToSet(<< >>) = {}
  BY DEF ToSet
<1>4. PICK s \in Threads : ThreadStep(s)
  <2>1. cs' # cs
    OBVIOUS
  <2> QED BY <2>1 DEF Next, Block, Wake, QuantumTick, KCNextThread, AllGone, vars
<1>5. EnterFast(s, c) \/ Becomes(s) \/ LeaveCritHandOff(s)
  BY <1>1, <1>4, OwnerKept
<1>6. CASE EnterFast(s, c)
  <2>1. cs[c].owner = NoThread /\ cs' = [cs EXCEPT ![c].owner = s, ![c].low = FALSE]
    BY <1>6 DEF EnterFast
  <2>2. cs'[c].proxList = cs[c].proxList
    BY ONLY <1>1, <2>1, c \in Crits DEF CritType
  <2>3. cs[c].proxList = << >>
    BY <2>1 DEF WaitInv, WaitersOK
  <2> QED BY <1>1, <1>3, <2>2, <2>3
<1>7. CASE Becomes(s)
  <2>1. Runs(s) /\ pc[s] = "t_part1" /\ pc[s] \in TakeSteps
    BY <1>7 DEF Becomes, CSWaitPart1Take, CSWaitPart1Steal, At, TakeSteps
  <2>2. PICK d \in Crits : arg[s] = d
    BY <2>1, WaitTaker
  <2>3. /\ CanTake(d) \/ CanSteal(s, d)
        /\ cs'[d].owner = s /\ cs'[d].proxList = cs[d].proxList
        /\ \A e \in Crits \ {d} : cs'[e] = cs[e]
    <3>1. CASE CSWaitPart1Take(s)
      <4>1. CanTake(d) /\ cs' = [cs EXCEPT ![d].owner = s, ![d].low = FALSE, ![d].lockCount = 1]
        BY <2>2, <3>1 DEF CSWaitPart1Take
      <4>2. /\ cs'[d].owner = s /\ cs'[d].proxList = cs[d].proxList
            /\ \A e \in Crits \ {d} : cs'[e] = cs[e]
        BY ONLY <1>1, <4>1, d \in Crits DEF CritType
      <4> QED BY <4>1, <4>2
    <3>2. CASE CSWaitPart1Steal(s)
      <4>1. CanSteal(s, d) /\ cs' = [cs EXCEPT ![d].owner = s, ![d].low = FALSE,
                                               ![d].needtrap = @ \/ cs[d].proxList # << >>]
        BY <2>2, <3>2 DEF CSWaitPart1Steal
      <4>2. /\ cs'[d].owner = s /\ cs'[d].proxList = cs[d].proxList
            /\ \A e \in Crits \ {d} : cs'[e] = cs[e]
        BY ONLY <1>1, <4>1, d \in Crits DEF CritType
      <4> QED BY <4>1, <4>2
    <3> QED BY <1>7, <3>1, <3>2 DEF Becomes
  <2>4. c = d /\ s = t /\ u \in ToSet(cs[d].proxList)
    BY <1>1, <2>3
  <2>5. cs[d].proxList # << >>
    BY <1>3, <2>4
  <2>6. /\ cs[d].needtrap /\ cs[d].owner # NoThread
        /\ OwnerPth(d) = cs[d].owner /\ OwnerPth(d) \in Threads /\ OwnerPth(d) # NoThread
    BY <2>5, OwnerLives DEF WaitInv, WaitersOK
  <2>7. ~CanTake(d) \/ cs[d].owner = NoThread
    BY <2>6 DEF CanTake
  <2>8. CanSteal(s, d)
    BY <2>3, <2>6, <2>7
  <2>9. PICK o \in Threads : o = OwnerPth(d) /\ cs[d].owner = o
    BY <2>6
  <2>10. th[o].hLastCrit = d /\ sched.cprio[o] > sched.cprio[s]
    BY <2>8, <2>9 DEF CanSteal
  <2>11. sched.cprio[o] <= th[u].proxPrio
    BY <2>4, <2>9, <2>10 DEF RankInv, AheadOK
  <2> QED BY <1>2, <2>1, <2>4, <2>10, <2>11
<1>8. CASE LeaveCritHandOff(s)
  <2>1. Runs(s) /\ pc[s] = "l_leave"
    BY <1>8 DEF LeaveCritHandOff, At
  <2>2. PICK d \in Crits : arg[s] = d
    BY <2>1, WaitLeaver
  <2>3. PICK h : h = Head(cs[d].proxList)
    OBVIOUS
  <2>4. cs[d].proxList # << >> /\ th[h].fresh /\ cs' = [cs EXCEPT ![d] = HandOver(cs[d])]
    BY <1>8, <2>2, <2>3 DEF LeaveCritHandOff
  <2>5. /\ h \in Threads /\ h \in ToSet(cs[d].proxList)
        /\ ToSet(Tail(cs[d].proxList)) = ToSet(cs[d].proxList) \ {h}
    BY <2>3, <2>4, FirstWaiter
  <2>6. /\ cs'[d].owner = h /\ cs'[d].proxList = Tail(cs[d].proxList)
        /\ \A e \in Crits \ {d} : cs'[e] = cs[e]
    BY <1>1, <2>3, <2>4 DEF HandOver, CritType
  <2>7. c = d /\ t = h /\ u \in ToSet(cs[d].proxList)
    BY <1>1, <2>5, <2>6
  <2>8. ProxPrio[h] <= ProxPrio[u]
    BY <2>3, <2>4, <2>7, WaiterQueue, HeadStands
  <2>9. th[h].proxPrio <= th[u].proxPrio
    BY <2>5, <2>8 DEF ProxPrio
  <2>10. sched.cprio[h] <= th[h].proxPrio
    BY <2>4, <2>5 DEF RankInv, RankOK
  <2> QED BY <1>2, <2>5, <2>7, <2>9, <2>10
<1> QED BY <1>5, <1>6, <1>7, <1>8

\* A critical section never passes to a thread while a better one waits for it,
\* whether LeaveCrit hands it off, CSWaitPart1 takes it or steals it back, or the
\* fast path of EnterCriticalSection finds it free.
THEOREM NobodyOvertakes ==
  ASSUME NobodyAbandons
  PROVE  Spec => NoOvertaking
<1> DEFINE All == TypeInv /\ MutexInv /\ WaitInv /\ AliveInv /\ RankInv
           Passes == \A c \in Crits, t \in Threads :
             cs[c].owner # t /\ cs'[c].owner = t =>
               \A u \in Threads : WaitsFor(u, c)' =>
                 /\ sched.cprio[t] <= th[u].proxPrio
                 /\ pc[t] # "t_part1" => th[t].proxPrio <= th[u].proxPrio
<1>1. Spec => []All
  BY RankAlways
<1>2. All /\ [Next]_vars => [Passes]_vars
  BY NewOwnerIsBest
<1>3. NoOvertaking <=> [][Passes]_vars
  BY DEF NoOvertaking
<1> HIDE DEF All, Passes
<1> QED BY <1>1, <1>2, <1>3, PTL DEF Spec
=============================================================================
