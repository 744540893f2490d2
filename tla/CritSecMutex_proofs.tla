------------------------ MODULE CritSecMutex_proofs ------------------------
(***************************************************************************)
(* Types and ownership in CritSec for every set of threads and critical    *)
(* sections.                                                               *)
(*                                                                         *)
(* Types.  TypeOK alone is not inductive: a step reads the critical        *)
(* section its call is about and the thread a wake-up in progress is       *)
(* about, so the invariant says that both exist wherever they are read.    *)
(*                                                                         *)
(* Ownership: who entered is the owner (mutual exclusion), and what is     *)
(* listed is on its owner's list.  The invariant is about one thread t and *)
(* one critical section c at a time: a step of a thread can only disturb   *)
(* it for pairs with that thread or with the critical section its call is  *)
(* about.  The last section derives that CritSec implements RecursiveLock. *)
(***************************************************************************)
EXTENDS CritSec, KSched_proofs

ArgSteps == {"e_count", "l_test", "l_free", "x_leave"} \union TakeSteps \union LeaveSteps
TgtSteps == {"l_run"} \union KillSteps

ArgOK == \A t \in Threads : pc[t] \in ArgSteps => arg[t] \in Crits
TgtOK == \A t \in Threads : pc[t] \in TgtSteps => tgt[t] \in Threads

TypeInv == TypeOK /\ ArgOK /\ TgtOK

\* TypeInv in two parts: where the threads are, and the data they work on.
CtlOK == /\ pc \in [Threads -> PCs]
         /\ arg \in [Threads -> Crits \union {NoCrit}]
         /\ tgt \in [Threads -> Threads \union {NoThread}]
         /\ ArgOK /\ TgtOK

DataOK == /\ sched \in SchedType
          /\ cs \in [Crits -> CritType]
          /\ th \in [Threads -> ThreadType]
          /\ depth \in [Threads -> [Crits -> Nat]]
          /\ budget \in [Threads -> Nat]

-----------------------------------------------------------------------------
(* Fields of the records, one at a time. *)

LEMMA CritField ==
  ASSUME NEW crit \in CritType
  PROVE  /\ \A o \in Threads \union {NoThread} : [crit EXCEPT !.owner = o] \in CritType
         /\ \A b \in BOOLEAN : [crit EXCEPT !.low = b] \in CritType
         /\ \A n \in Int : [crit EXCEPT !.lockCount = n] \in CritType
         /\ \A b \in BOOLEAN : [crit EXCEPT !.needtrap = b] \in CritType
         /\ \A l \in 0 .. 2 : [crit EXCEPT !.bListed = l] \in CritType
         /\ \A q \in Seq(Threads) : [crit EXCEPT !.proxList = q] \in CritType
BY DEF CritType
LEMMA CritFields ==
  ASSUME NEW crit \in CritType
  PROVE  /\ crit.owner \in Threads \union {NoThread} /\ crit.low \in BOOLEAN
         /\ crit.lockCount \in Int /\ crit.needtrap \in BOOLEAN /\ crit.bListed \in 0 .. 2
         /\ crit.bListedPrio \in Priority /\ crit.linkedTo \in Threads \union {NoThread}
         /\ crit.proxList \in Seq(Threads)
BY DEF CritType
LEMMA ThreadField ==
  ASSUME NEW rec \in ThreadType
  PROVE  /\ \A p \in Priority : /\ [rec EXCEPT !.bprio = p] \in ThreadType
                                /\ [rec EXCEPT !.proxPrio = p] \in ThreadType
         /\ \A w \in WaitState : [rec EXCEPT !.wait = w] \in ThreadType
         /\ \A h \in Crits \union {NoCrit} : [rec EXCEPT !.hLastCrit = h] \in ThreadType
         /\ \A b \in BOOLEAN : /\ [rec EXCEPT !.fresh = b] \in ThreadType
                               /\ [rec EXCEPT !.noPrioCalc = b] \in ThreadType
                               /\ [rec EXCEPT !.dying = b] \in ThreadType
                               /\ [rec EXCEPT !.dead = b] \in ThreadType
                               /\ [rec EXCEPT !.buried = b] \in ThreadType
BY DEF ThreadType, NoCrit
LEMMA PrioritiesType ==
  ASSUME DataOK, NEW t \in Threads
  PROVE  sched.cprio[t] \in Priority /\ th[t].proxPrio \in Priority /\ th[t].bprio \in Priority
BY DEF DataOK, SchedType, ThreadType

-----------------------------------------------------------------------------
(* The helpers on critical sections, owned lists and threads. *)

LEMMA HeadPrioType ==
  ASSUME DataOK, NEW crit \in CritType
  PROVE  HeadPrio(crit) \in Priority
<1>1. CASE crit.proxList = << >>
  BY <1>1 DEF HeadPrio, Priority, MAX_PRIORITY_LEVELS
<1>2. CASE crit.proxList # << >>
  <2>1. Head(crit.proxList) \in Threads
    BY <1>2, HeadTailProperties DEF CritType
  <2> QED BY <1>2, <2>1 DEF HeadPrio, DataOK, ThreadType
<1> QED BY <1>1, <1>2

LEMMA DoLinkType ==
  ASSUME DataOK, NEW crit \in CritType, NEW t \in Threads
  PROVE  /\ DoLinkCritMut(crit, t) \in CritType
         /\ LinkCritMut(crit, t) \in CritType
         /\ ReprioCritMut(crit, t) \in CritType
<1>1. DoLinkCritMut(crit, t) \in CritType
  <2>1. ASSUME NEW p \in Priority
        PROVE  [crit EXCEPT !.bListed = 1, !.bListedPrio = p, !.linkedTo = t] \in CritType
    BY 1 \in 0 .. 2 DEF CritType
  <2> QED BY <2>1, HeadPrioType DEF DoLinkCritMut
<1> QED BY <1>1 DEF LinkCritMut, ReprioCritMut

LEMMA UnlinkType ==
  ASSUME NEW crit \in CritType
  PROVE  UnlinkCritMut(crit) \in CritType
<1>1. 0 \in Priority /\ 0 \in 0 .. 2
  BY DEF Priority, MAX_PRIORITY_LEVELS
<1> QED BY <1>1 DEF UnlinkCritMut, CritType

\* The priority a thread has from its base priority and what it owns.
LEMMA PrioFromType ==
  ASSUME DataOK, NEW t \in Threads
  PROVE  PrioFrom(t, OwnedList(t)) \in Priority
<1> DEFINE S == {th[t].bprio} \union {cs[c].bListedPrio : c \in OwnedList(t)}
<1>1. th[t].bprio \in Priority /\ \A c \in OwnedList(t) : cs[c].bListedPrio \in Priority
  BY DEF DataOK, ThreadType, CritType, OwnedList
<1>2. S \in SUBSET Priority /\ S # {}
  BY <1>1
<1>3. Min(S) \in S
  BY <1>2, MinPriority
<1> QED BY <1>2, <1>3 DEF PrioFrom

LEMMA OwnerPthType ==
  ASSUME DataOK, NEW c \in Crits
  PROVE  OwnerPth(c) \in Threads \union {NoThread}
BY DEF OwnerPth

LEMMA SignalledType ==
  ASSUME NEW rec \in ThreadType
  PROVE  Signalled(rec) \in ThreadType /\ NotStealable(rec) \in ThreadType
BY DEF Signalled, NotStealable, ThreadType, WaitState, NoCrit

-----------------------------------------------------------------------------
(* Control. *)

LEMMA TypeInvSplit == TypeInv <=> CtlOK /\ DataOK
BY DEF TypeInv, TypeOK, CtlOK, DataOK

LEMMA CtlStays ==
  ASSUME CtlOK, UNCHANGED <<pc, arg, tgt>>
  PROVE  CtlOK'
BY DEF CtlOK, ArgOK, TgtOK

\* One thread moves; what its new step reads is there.
LEMMA CtlMoves ==
  ASSUME CtlOK, NEW t \in Threads, NEW p \in PCs, Goto(t, p),
         arg' \in [Threads -> Crits \union {NoCrit}],
         tgt' \in [Threads -> Threads \union {NoThread}],
         \A u \in Threads \ {t} : arg'[u] = arg[u] /\ tgt'[u] = tgt[u],
         p \in ArgSteps => arg'[t] \in Crits,
         p \in TgtSteps => tgt'[t] \in Threads
  PROVE  CtlOK'
BY DEF CtlOK, ArgOK, TgtOK, Goto

\* The common case: the frame stays.
LEMMA CtlGoto ==
  ASSUME CtlOK, NEW t \in Threads, NEW p \in PCs, Goto(t, p), UNCHANGED <<arg, tgt>>,
         p \in ArgSteps => arg[t] \in Crits,
         p \in TgtSteps => tgt[t] \in Threads
  PROVE  CtlOK'
BY CtlMoves DEF CtlOK

\* The frame goes when the call returns.
LEMMA CtlReturns ==
  ASSUME CtlOK, NEW t \in Threads, NEW p \in {"user", "x_start", "x_next"}, Goto(t, p), DropFrame(t)
  PROVE  CtlOK'
<1>1. p \in PCs /\ p \notin ArgSteps /\ p \notin TgtSteps
  BY DEF PCs, ArgSteps, TgtSteps, UserMode, TakeSteps, LeaveSteps, ExitSteps, KillSteps
<1> QED BY <1>1, CtlMoves DEF CtlOK, DropFrame

LEMMA ReturnToUserOK ==
  ASSUME CtlOK, DataOK, NEW t \in Threads, NEW E, ReturnToUser(t, E)
  PROVE  CtlOK' /\ depth' \in [Threads -> [Crits -> Nat]]
<1>1. CtlOK'
  BY CtlReturns DEF ReturnToUser
<1>2. depth' \in [Threads -> [Crits -> Nat]]
  BY DEF ReturnToUser, DataOK, HoldsNothing
<1> QED BY <1>1, <1>2

LEMMA ArgThere ==
  ASSUME CtlOK, NEW t \in Threads, pc[t] \in ArgSteps
  PROVE  arg[t] \in Crits
BY DEF CtlOK, ArgOK

-----------------------------------------------------------------------------
(* One lemma per part of the next-state relation, one step per action. *)

LEMMA EnterType ==
  ASSUME CtlOK, DataOK, NEW t \in Threads, Enter(t)
  PROVE  CtlOK' /\ DataOK'
<1>1. ASSUME NEW c \in Crits, EnterAgain(t, c)
      PROVE  CtlOK' /\ DataOK'
  <2>1. CtlOK'
    BY <1>1, CtlStays DEF EnterAgain
  <2>2. cs' \in [Crits -> CritType]
    <3>1. cs[c] \in CritType /\ cs[c].lockCount + 1 \in Int
      BY CritFields DEF DataOK
    <3> QED BY <1>1, <3>1, CritField DEF EnterAgain, DataOK
  <2>3. depth' \in [Threads -> [Crits -> Nat]] /\ budget' \in [Threads -> Nat]
    BY <1>1 DEF EnterAgain, Spend, DataOK
  <2> QED BY <1>1, <2>1, <2>2, <2>3 DEF EnterAgain, DataOK
<1>2. ASSUME NEW c \in Crits, EnterFast(t, c)
      PROVE  CtlOK' /\ DataOK'
  <2>1. CtlOK'
    BY <1>2, CtlMoves DEF EnterFast, CtlOK, PCs, ArgSteps, TgtSteps, UserMode, KillSteps
  <2>2. cs' \in [Crits -> CritType]
    BY <1>2, CritField DEF EnterFast, DataOK
  <2>3. budget' \in [Threads -> Nat]
    BY <1>2 DEF EnterFast, Spend, DataOK
  <2> QED BY <1>2, <2>1, <2>2, <2>3 DEF EnterFast, DataOK
<1>3. ASSUME NEW c \in Crits, EnterSlow(t, c)
      PROVE  CtlOK' /\ DataOK'
  <2>1. CtlOK'
    BY <1>3, CtlMoves DEF EnterSlow, CtlOK, PCs, ArgSteps, TgtSteps, TakeSteps, KillSteps
  <2>2. budget' \in [Threads -> Nat]
    BY <1>3 DEF EnterSlow, Spend, DataOK
  <2> QED BY <1>3, <2>1, <2>2 DEF EnterSlow, DataOK
<1>4. ASSUME EnterSetCount(t)
      PROVE  CtlOK' /\ DataOK'
  <2>1. CtlOK'
    BY <1>4, CtlReturns DEF EnterSetCount
  <2>2. cs' \in [Crits -> CritType]
    BY <1>4, CritField, 1 \in Int DEF EnterSetCount, DataOK
  <2>3. depth' \in [Threads -> [Crits -> Nat]]
    BY <1>4 DEF EnterSetCount, DataOK
  <2> QED BY <1>4, <2>1, <2>2, <2>3 DEF EnterSetCount, DataOK
<1> QED BY <1>1, <1>2, <1>3, <1>4 DEF Enter

LEMMA LeaveType ==
  ASSUME CtlOK, DataOK, NEW t \in Threads, Leave(t)
  PROVE  CtlOK' /\ DataOK'
<1>1. ASSUME NEW c \in Crits, LeaveNested(t, c)
      PROVE  CtlOK' /\ DataOK'
  <2>1. CtlOK'
    BY <1>1, CtlStays DEF LeaveNested
  <2>2. cs' \in [Crits -> CritType]
    <3>1. cs[c] \in CritType /\ cs[c].lockCount - 1 \in Int
      BY CritFields DEF DataOK
    <3> QED BY <1>1, <3>1, CritField DEF LeaveNested, DataOK
  <2>3. depth' \in [Threads -> [Crits -> Nat]]
    BY <1>1 DEF LeaveNested, DataOK
  <2> QED BY <1>1, <2>1, <2>2, <2>3 DEF LeaveNested, DataOK
<1>2. ASSUME NEW c \in Crits, LeaveMark(t, c)
      PROVE  CtlOK' /\ DataOK'
  <2>1. CtlOK'
    BY <1>2, CtlMoves DEF LeaveMark, CtlOK, PCs, ArgSteps, TgtSteps, UserMode, KillSteps
  <2>2. cs' \in [Crits -> CritType]
    BY <1>2, CritField DEF LeaveMark, DataOK
  <2>3. depth' \in [Threads -> [Crits -> Nat]]
    BY <1>2 DEF LeaveMark, DataOK
  <2> QED BY <1>2, <2>1, <2>2, <2>3 DEF LeaveMark, DataOK
<1>3. ASSUME LeaveTest(t)
      PROVE  CtlOK' /\ DataOK'
  <2>1. arg[t] \in Crits
    BY <1>3, ArgThere DEF LeaveTest, At, ArgSteps
  <2>2. CtlOK'
    BY <1>3, <2>1, CtlGoto DEF LeaveTest, PCs, ArgSteps, TgtSteps, UserMode, LeaveSteps, KillSteps
  <2> QED BY <1>3, <2>2 DEF LeaveTest, DataOK
<1>4. ASSUME LeaveFree(t)
      PROVE  CtlOK' /\ DataOK'
  <2>1. CtlOK'
    BY <1>4, CtlReturns DEF LeaveFree
  <2>2. cs' \in [Crits -> CritType]
    BY <1>4, CritField DEF LeaveFree, ExchangeFree, DataOK
  <2> QED BY <1>4, <2>1, <2>2 DEF LeaveFree, DataOK
<1> QED BY <1>1, <1>2, <1>3, <1>4 DEF Leave

LEMMA WaitPart1Type ==
  ASSUME CtlOK, DataOK, NEW t \in Threads,
         \/ CSWaitPart1Abort(t) \/ CSWaitPart1Take(t) \/ CSWaitPart1Steal(t) \/ CSWaitPart1Pend(t)
  PROVE  CtlOK' /\ DataOK'
<1>1. CASE CSWaitPart1Abort(t)
  <2>1. CtlOK' /\ depth' \in [Threads -> [Crits -> Nat]]
    BY <1>1, ReturnToUserOK DEF CSWaitPart1Abort
  <2>2. th' \in [Threads -> ThreadType]
    BY <1>1, SignalledType DEF CSWaitPart1Abort, DataOK
  <2> QED BY <1>1, <2>1, <2>2 DEF CSWaitPart1Abort, DataOK
<1>2. CASE CSWaitPart1Take(t)
  <2>1. arg[t] \in Crits
    BY <1>2, ArgThere DEF CSWaitPart1Take, At, ArgSteps, TakeSteps
  <2>2. CtlOK'
    BY <1>2, <2>1, CtlGoto DEF CSWaitPart1Take, PCs, ArgSteps, TgtSteps, TakeSteps, KillSteps
  <2>3. cs' \in [Crits -> CritType]
    BY <1>2, CritField, 1 \in Int DEF CSWaitPart1Take, DataOK
  <2>4. th' \in [Threads -> ThreadType]
    BY <1>2, SignalledType DEF CSWaitPart1Take, DataOK
  <2> QED BY <1>2, <2>2, <2>3, <2>4 DEF CSWaitPart1Take, DataOK
<1>3. CASE CSWaitPart1Steal(t)
  <2>1. arg[t] \in Crits
    BY <1>3, ArgThere DEF CSWaitPart1Steal, At, ArgSteps, TakeSteps
  <2>2. CtlOK'
    BY <1>3, <2>1, CtlGoto DEF CSWaitPart1Steal, PCs, ArgSteps, TgtSteps, TakeSteps, KillSteps
  <2>3. cs' \in [Crits -> CritType]
    <3>1. ASSUME NEW b \in BOOLEAN, NEW c \in Crits
          PROVE  [cs EXCEPT ![c].owner = t, ![c].low = FALSE, ![c].needtrap = b]
                   \in [Crits -> CritType]
      BY CritField DEF DataOK
    <3>2. (cs[arg[t]].needtrap \/ cs[arg[t]].proxList # << >>) \in BOOLEAN
      OBVIOUS
    <3> QED BY <1>3, <2>1, <3>1, <3>2 DEF CSWaitPart1Steal, DataOK
  <2>4. th' \in [Threads -> ThreadType]
    BY <1>3, SignalledType DEF CSWaitPart1Steal, DataOK
  <2> QED BY <1>3, <2>2, <2>3, <2>4 DEF CSWaitPart1Steal, DataOK
<1>4. CASE CSWaitPart1Pend(t)
  <2>1. arg[t] \in Crits
    BY <1>4, ArgThere DEF CSWaitPart1Pend, At, ArgSteps, TakeSteps
  <2>2. CtlOK'
    BY <1>4, <2>1, CtlGoto DEF CSWaitPart1Pend, PCs, ArgSteps, TgtSteps, TakeSteps, KillSteps
  <2>3. cs' \in [Crits -> CritType]
    BY <1>4, CritField, CritFields, InsertType DEF CSWaitPart1Pend, DataOK
  <2> QED BY <1>4, <2>2, <2>3 DEF CSWaitPart1Pend, DataOK
<1> QED BY <1>1, <1>2, <1>3, <1>4

LEMMA BoostType ==
  ASSUME CtlOK, DataOK, NEW t \in Threads,
         LaterLinkCritMut(t) \/ PostBoostCrit1(t) \/ PostBoostCrit2(t)
  PROVE  CtlOK' /\ DataOK'
<1>1. CASE LaterLinkCritMut(t)
  <2>1. arg[t] \in Crits
    BY <1>1, ArgThere DEF LaterLinkCritMut, At, ArgSteps, TakeSteps
  <2>2. CtlOK'
    BY <1>1, <2>1, CtlGoto DEF LaterLinkCritMut, PCs, ArgSteps, TgtSteps, TakeSteps, KillSteps
  <2>3. cs' \in [Crits -> CritType]
    BY <1>1, DoLinkType DEF LaterLinkCritMut, DataOK
  <2> QED BY <1>1, <2>2, <2>3 DEF LaterLinkCritMut, DataOK
<1>2. ASSUME Fault(t)
      PROVE  CtlOK' /\ DataOK'
  <2>1. CtlOK'
    BY <1>2, CtlGoto DEF Fault, PCs, ArgSteps, TgtSteps, TakeSteps, LeaveSteps, KillSteps
  <2> QED BY <1>2, <2>1 DEF Fault, DataOK
<1>3. CASE PostBoostCrit1(t) /\ ~Fault(t)
  <2> DEFINE c == arg[t]
  <2>1. c \in Crits
    BY <1>3, ArgThere DEF PostBoostCrit1, At, ArgSteps, TakeSteps
  <2>2. CtlOK'
    BY <1>3, <2>1, CtlGoto DEF PostBoostCrit1, PCs, ArgSteps, TgtSteps, TakeSteps, KillSteps
  <2>3. cs' \in [Crits -> CritType]
    <3>1. CASE cs[c].bListed = 1 /\ OwnerPth(c) # NoThread
      <4>1. ReprioCritMut(cs[c], OwnerPth(c)) \in CritType
        BY <2>1, <3>1, DoLinkType, OwnerPthType DEF DataOK
      <4> QED BY <1>3, <2>1, <3>1, <4>1 DEF PostBoostCrit1, DataOK
    <3>2. CASE cs[c].bListed # 1
      <4>1. ReprioCritMut(cs[c], OwnerPth(c)) = cs[c]
        BY <3>2 DEF ReprioCritMut
      <4> QED BY <1>3, <2>1, <4>1 DEF PostBoostCrit1, DataOK
    <3>3. CASE cs[c].bListed = 1 /\ OwnerPth(c) = NoThread
      BY <1>3, <3>3 DEF PostBoostCrit1, DataOK
    <3> QED BY <3>1, <3>2, <3>3
  <2> QED BY <1>3, <2>2, <2>3 DEF PostBoostCrit1, DataOK
<1>4. CASE PostBoostCrit2(t) /\ ~Fault(t)
  <2> DEFINE c == arg[t]
  <2>1. c \in Crits
    BY <1>4, ArgThere DEF PostBoostCrit2, At, ArgSteps, TakeSteps
  <2>2. CtlOK'
    BY <1>4, <2>1, CtlGoto DEF PostBoostCrit2, PCs, ArgSteps, TgtSteps, TakeSteps, KillSteps
  <2>3. HeadPrio(cs[c]) \in Priority
    BY <2>1, HeadPrioType DEF DataOK
  <2>4. sched' \in SchedType
    <3>1. CASE OwnerPth(c) = NoThread
      BY <1>4, <3>1 DEF PostBoostCrit2, DataOK
    <3>2. CASE OwnerPth(c) # NoThread
      <4>1. BoostCPrio(sched, OwnerPth(c), HeadPrio(cs[c])) \in SchedType
        BY <2>1, <2>3, <3>2, OwnerPthType, BoostCPrioType DEF DataOK
      <4> QED BY <1>4, <4>1 DEF PostBoostCrit2, DataOK
    <3> QED BY <3>1, <3>2
  <2> QED BY <1>4, <2>2, <2>4 DEF PostBoostCrit2, DataOK
<1> QED BY <1>1, <1>2, <1>3, <1>4

LEMMA WaitPart2Type ==
  ASSUME CtlOK, DataOK, NEW t \in Threads,
         CSWaitPart2Signalled(t) \/ CSWaitPart2Abort(t) \/ CSWaitPart2Block(t)
  PROVE  CtlOK' /\ DataOK'
<1> DEFINE c == arg[t]
<1>1. c \in Crits
  BY ArgThere DEF CSWaitPart2Signalled, CSWaitPart2Abort, CSWaitPart2Block, At, ArgSteps, TakeSteps
<1>2. ASSUME Goto(t, "t_after"), UNCHANGED <<arg, tgt>>
      PROVE  CtlOK'
  BY <1>1, <1>2, CtlGoto DEF PCs, ArgSteps, TgtSteps, TakeSteps, KillSteps
<1>3. CASE CSWaitPart2Signalled(t)
  BY <1>2, <1>3 DEF CSWaitPart2Signalled, DataOK
<1>4. CASE CSWaitPart2Abort(t)
  <2>1. th' \in [Threads -> ThreadType]
    BY <1>4, SignalledType DEF CSWaitPart2Abort, DataOK
  <2> QED BY <1>2, <1>4, <2>1 DEF CSWaitPart2Abort, DataOK
<1>5. CASE CSWaitPart2Block(t)
  <2> DEFINE o == OwnerPth(c)
  <2> o \in Threads \union {NoThread}
    BY <1>1, OwnerPthType
  <2> HIDE DEF o
  <2>1. CASE cs[c].bListed = 0 /\ o = NoThread
    <3>1. Fault(t)
      BY <1>5, <2>1 DEF CSWaitPart2Block, o
    <3>2. CtlOK'
      BY <3>1, CtlGoto DEF Fault, PCs, ArgSteps, TgtSteps, TakeSteps, LeaveSteps, KillSteps
    <3> QED BY <3>1, <3>2 DEF Fault, DataOK
  <2>2. CASE cs[c].bListed = 0 /\ o # NoThread
    <3>1. /\ cs' = [cs EXCEPT ![c] = LinkCritMut(@, o)]
          /\ th' = [th EXCEPT ![o] = NotStealable(@), ![t].wait = "BLOCKED"]
          /\ sched' = BlockCurrent(sched)
          /\ Goto(t, "t_after")
          /\ UNCHANGED <<arg, tgt, depth, budget>>
      BY <1>5, <2>2 DEF CSWaitPart2Block, o
    <3>2. cs' \in [Crits -> CritType]
      BY <1>1, <2>2, <3>1, DoLinkType DEF DataOK
    <3>3. [th EXCEPT ![o] = NotStealable(@)] \in [Threads -> ThreadType]
      BY SignalledType DEF DataOK
    <3>4. th' \in [Threads -> ThreadType]
      BY <3>1, <3>3, ThreadField DEF WaitState
    <3> QED BY <1>2, <3>1, <3>2, <3>4, BlockCurrentType DEF DataOK
  <2>3. CASE cs[c].bListed # 0
    <3>1. /\ cs' = cs
          /\ th' = [th EXCEPT ![t].wait = "BLOCKED"]
          /\ sched' = BlockCurrent(sched)
          /\ Goto(t, "t_after")
          /\ UNCHANGED <<arg, tgt, depth, budget>>
      BY <1>5, <2>3 DEF CSWaitPart2Block
    <3>2. th' \in [Threads -> ThreadType]
      BY <3>1, ThreadField DEF DataOK, WaitState
    <3> QED BY <1>2, <3>1, <3>2, BlockCurrentType DEF DataOK
  <2> QED BY <2>1, <2>2, <2>3
<1> QED BY <1>3, <1>4, <1>5

LEMMA TakeType ==
  ASSUME CtlOK, DataOK, NEW t \in Threads, TakeCritSec(t)
  PROVE  CtlOK' /\ DataOK'
<1> DEFINE c == arg[t]
<1>1. CASE AllocProxy(t)
  <2>1. c \in Crits
    BY <1>1, ArgThere DEF AllocProxy, At, ArgSteps, TakeSteps
  <2>2. CtlOK'
    BY <1>1, <2>1, CtlGoto DEF AllocProxy, PCs, ArgSteps, TgtSteps, TakeSteps, KillSteps
  <2>3. th' \in [Threads -> ThreadType]
    BY <1>1, ThreadField, PrioritiesType DEF AllocProxy, DataOK
  <2> QED BY <1>1, <2>2, <2>3 DEF AllocProxy, DataOK
<1>2. CASE AllocFails(t)
  <2>1. CtlOK'
    BY <1>2, CtlStays DEF AllocFails
  <2>2. sched' \in SchedType
    BY <1>2, ThreadYieldType DEF AllocFails, At, Runs, DataOK
  <2>3. budget' \in [Threads -> Nat]
    BY <1>2 DEF AllocFails, Spend, DataOK
  <2> QED BY <1>2, <2>1, <2>2, <2>3 DEF AllocFails, DataOK
<1>3. CASE WaitConfig(t)
  <2>1. c \in Crits
    BY <1>3, ArgThere DEF WaitConfig, At, ArgSteps, TakeSteps
  <2>2. CtlOK'
    BY <1>3, <2>1, CtlGoto DEF WaitConfig, PCs, ArgSteps, TgtSteps, TakeSteps, KillSteps
  <2>3. th' \in [Threads -> ThreadType]
    BY <1>3, ThreadField DEF WaitConfig, WaitState, DataOK
  <2> QED BY <1>3, <2>2, <2>3 DEF WaitConfig, DataOK
<1>4. CASE DequeuePrioProxy(t)
  <2>1. c \in Crits
    BY <1>4, ArgThere DEF DequeuePrioProxy, At, ArgSteps, TakeSteps
  <2>2. CtlOK'
    BY <1>4, <2>1, CtlGoto DEF DequeuePrioProxy, PCs, ArgSteps, TgtSteps, TakeSteps, KillSteps
  <2>3. cs' \in [Crits -> CritType]
    <3>1. Without(cs[c].proxList, t) \in Seq(Threads)
      BY <2>1, CritFields, WithoutType DEF DataOK
    <3> QED BY <1>4, <2>1, <3>1, CritField DEF DequeuePrioProxy, DataOK
  <2> QED BY <1>4, <2>2, <2>3 DEF DequeuePrioProxy, DataOK
<1>5. CASE DoReprioCrit(t)
  <2>1. c \in Crits
    BY <1>5, ArgThere DEF DoReprioCrit, At, ArgSteps, TakeSteps
  <2>2. CtlOK'
    BY <1>5, <2>1, CtlGoto DEF DoReprioCrit, PCs, ArgSteps, TgtSteps, TakeSteps, KillSteps
  <2>3. cs' \in [Crits -> CritType]
    <3>1. OwnerPth(c) # NoThread => ReprioCritMut(cs[c], OwnerPth(c)) \in CritType
      BY <2>1, OwnerPthType, DoLinkType DEF DataOK
    <3> QED BY <1>5, <2>1, <3>1 DEF DoReprioCrit, DataOK
  <2> QED BY <1>5, <2>2, <2>3 DEF DoReprioCrit, DataOK
<1>6. CASE TakeRetry(t)
  <2>1. c \in Crits
    BY <1>6, ArgThere DEF TakeRetry, At, ArgSteps, TakeSteps
  <2>2. CtlOK'
    BY <1>6, <2>1, CtlGoto DEF TakeRetry, PCs, ArgSteps, TgtSteps, TakeSteps, KillSteps
  <2>3. 0 \in Priority
    BY DEF Priority, MAX_PRIORITY_LEVELS
  <2>4. th' \in [Threads -> ThreadType]
    BY <1>6, <2>3, ThreadField DEF TakeRetry, DataOK
  <2> QED BY <1>6, <2>2, <2>4 DEF TakeRetry, DataOK
<1>7. CASE CritFinalBoost(t)
  <2>1. c \in Crits
    BY <1>7, ArgThere DEF CritFinalBoost, At, ArgSteps, TakeSteps
  <2>2. CtlOK' /\ depth' \in [Threads -> [Crits -> Nat]]
    BY <1>7, ReturnToUserOK DEF CritFinalBoost
  <2>3. cs[c] \in CritType /\ LinkCritMut(cs[c], t) \in CritType /\ HeadPrio(cs[c]) \in Priority
    BY <2>1, DoLinkType, HeadPrioType DEF DataOK
  <2>4. cs' \in [Crits -> CritType]
    BY <1>7, <2>3 DEF CritFinalBoost, DataOK
  <2>5. sched' \in SchedType
    BY <1>7, <2>3, SetPrioType DEF CritFinalBoost, DataOK
  <2> QED BY <1>7, <2>2, <2>4, <2>5 DEF CritFinalBoost, DataOK
<1> QED BY <1>1, <1>2, <1>3, <1>4, <1>5, <1>6, <1>7, WaitPart1Type, BoostType, WaitPart2Type
        DEF TakeCritSec

LEMMA LeaveCritType ==
  ASSUME CtlOK, DataOK, NEW t \in Threads, LeaveCritSec(t)
  PROVE  CtlOK' /\ DataOK'
<1> DEFINE c == arg[t]
<1>1. CASE PreLeaveCrit(t) /\ Leaving(t, c)
  <2>1. c \in Crits
    BY <1>1, ArgThere DEF PreLeaveCrit, At, ArgSteps, LeaveSteps
  <2>2. CtlOK'
    BY <1>1, <2>1, CtlGoto DEF PreLeaveCrit, PCs, ArgSteps, TgtSteps, LeaveSteps, KillSteps
  <2>3. [UnlinkCritMut(cs[c]) EXCEPT !.low = FALSE, !.bListed = 2] \in CritType
    BY <2>1, UnlinkType, CritField, 2 \in 0 .. 2 DEF DataOK
  <2>4. cs' \in [Crits -> CritType]
    BY <1>1, <2>1, <2>3 DEF PreLeaveCrit, DataOK
  <2>5. th' = [th EXCEPT ![t].noPrioCalc = TRUE]
    BY <1>1 DEF PreLeaveCrit
  <2>6. th' \in [Threads -> ThreadType]
    BY <2>5, ThreadField DEF DataOK
  <2> QED BY <1>1, <2>2, <2>4, <2>6 DEF PreLeaveCrit, DataOK
<1>2. CASE PreLeaveCrit(t) /\ ~Leaving(t, c)
  <2>1. CtlOK' /\ depth' \in [Threads -> [Crits -> Nat]]
    BY <1>2, ReturnToUserOK DEF PreLeaveCrit
  <2> QED BY <1>2, <2>1 DEF PreLeaveCrit, DataOK
<1>3. CASE LeaveCritFree(t)
  <2>1. c \in Crits
    BY <1>3, ArgThere DEF LeaveCritFree, At, ArgSteps, LeaveSteps
  <2>2. CtlOK'
    BY <1>3, <2>1, CtlGoto DEF LeaveCritFree, PCs, ArgSteps, TgtSteps, LeaveSteps, KillSteps
  <2>3. cs' \in [Crits -> CritType]
    BY <1>3, CritField, 0 \in 0 .. 2 DEF LeaveCritFree, DataOK
  <2> QED BY <1>3, <2>2, <2>3 DEF LeaveCritFree, DataOK
<1>4. CASE LeaveCritStale(t)
  <2>1. c \in Crits
    BY <1>4, ArgThere DEF LeaveCritStale, At, ArgSteps, LeaveSteps
  <2>2. CtlOK'
    BY <1>4, CtlStays DEF LeaveCritStale
  <2>3. cs[c] \in CritType /\ Tail(cs[c].proxList) \in Seq(Threads)
    BY <1>4, <2>1, CritFields, HeadTailProperties DEF LeaveCritStale, DataOK
  <2>4. cs' \in [Crits -> CritType]
    BY <1>4, <2>1, <2>3, CritField DEF LeaveCritStale, DataOK
  <2> QED BY <1>4, <2>2, <2>4 DEF LeaveCritStale, DataOK
<1>5. CASE LeaveCritHandOff(t)
  <2> DEFINE u == Head(cs[c].proxList)
  <2>1. c \in Crits
    BY <1>5, ArgThere DEF LeaveCritHandOff, At, ArgSteps, LeaveSteps
  <2>2. cs[c] \in CritType /\ u \in Threads /\ Tail(cs[c].proxList) \in Seq(Threads)
    BY <1>5, <2>1, CritFields, HeadTailProperties DEF LeaveCritHandOff, DataOK
  <2> HIDE DEF u
  <2>3. CtlOK'
    <3>1. /\ tgt' = [tgt EXCEPT ![t] = u]
          /\ Goto(t, "l_run") \/ Goto(t, "l_post")
          /\ arg' = arg
      BY <1>5 DEF LeaveCritHandOff, u
    <3> QED BY <2>1, <2>2, <3>1, CtlMoves DEF CtlOK, PCs, ArgSteps, TgtSteps, LeaveSteps, KillSteps
  <2>4. HandOver(cs[c]) \in CritType
    <3>1. ASSUME NEW b \in BOOLEAN
          PROVE  [cs[c] EXCEPT !.owner = u, !.lockCount = 1, !.bListed = 0,
                               !.proxList = Tail(@), !.needtrap = b] \in CritType
      BY <2>2, CritField, 1 \in Int, 0 \in 0 .. 2
    <3>2. cs[c].needtrap \in BOOLEAN
      BY <2>2, CritFields
    <3> QED BY <3>1, <3>2 DEF HandOver, u
  <2>5. cs' \in [Crits -> CritType]
    BY <1>5, <2>1, <2>4 DEF LeaveCritHandOff, DataOK
  <2>6. th' \in [Threads -> ThreadType]
    <3>1. ASSUME NEW w \in WaitState
          PROVE  [th EXCEPT ![u].fresh = FALSE, ![u].hLastCrit = c, ![u].wait = w]
                   \in [Threads -> ThreadType]
      BY <2>1, <2>2, ThreadField DEF DataOK
    <3>2. th[u].wait \in WaitState /\ "SIGNALLED" \in WaitState
      BY <2>2 DEF DataOK, ThreadType, WaitState
    <3>3. th' = [th EXCEPT ![u].fresh = FALSE, ![u].hLastCrit = c, ![u].wait = th[u].wait]
          \/ th' = [th EXCEPT ![u].fresh = FALSE, ![u].hLastCrit = c, ![u].wait = "SIGNALLED"]
      BY <1>5, <2>2 DEF LeaveCritHandOff, u, DataOK, ThreadType
    <3> QED BY <3>1, <3>2, <3>3
  <2>7. sched' \in SchedType
    BY <1>5, NeedsRunType DEF LeaveCritHandOff, DataOK
  <2> QED BY <1>5, <2>3, <2>5, <2>6, <2>7 DEF LeaveCritHandOff, DataOK
<1>6. CASE LeaveCritRun(t)
  <2>1. c \in Crits /\ tgt[t] \in Threads
    BY <1>6, ArgThere DEF LeaveCritRun, At, ArgSteps, TgtSteps, LeaveSteps, CtlOK, TgtOK
  <2>2. CtlOK'
    BY <1>6, <2>1, CtlGoto DEF LeaveCritRun, PCs, ArgSteps, TgtSteps, LeaveSteps, KillSteps
  <2>3. sched' \in SchedType
    BY <1>6, <2>1, MakeRunIfNeededType DEF LeaveCritRun, DataOK
  <2> QED BY <1>6, <2>2, <2>3 DEF LeaveCritRun, DataOK
<1>7. CASE PostUnlinkCritMut(t)
  <2>1. CtlOK' /\ depth' \in [Threads -> [Crits -> Nat]]
    BY <1>7, ReturnToUserOK DEF PostUnlinkCritMut
  <2>2. th' \in [Threads -> ThreadType]
    BY <1>7, ThreadField DEF PostUnlinkCritMut, DataOK
  <2>3. sched' \in SchedType
    BY <1>7, PrioFromType, SetRunningPrioType DEF PostUnlinkCritMut, DataOK
  <2> QED BY <1>7, <2>1, <2>2, <2>3 DEF PostUnlinkCritMut, DataOK
<1> QED BY <1>1, <1>2, <1>3, <1>4, <1>5, <1>6, <1>7 DEF LeaveCritSec

LEMMA ExitType ==
  ASSUME CtlOK, DataOK, NEW t \in Threads, Exit(t)
  PROVE  CtlOK' /\ DataOK'
<1>1. CASE ExitThread(t)
  <2>1. CtlOK'
    BY <1>1, CtlGoto DEF ExitThread, PCs, ArgSteps, TgtSteps, ExitSteps, TakeSteps, LeaveSteps, KillSteps
  <2>2. depth' \in [Threads -> [Crits -> Nat]]
    BY <1>1 DEF ExitThread, HoldsNothing, DataOK
  <2> QED BY <1>1, <2>1, <2>2 DEF ExitThread, DataOK
<1>2. CASE NKTerminateThread(t)
  <2>1. CtlOK'
    BY <1>2, CtlGoto
    DEF NKTerminateThread, PCs, ArgSteps, TgtSteps, ExitSteps, TakeSteps, LeaveSteps, KillSteps
  <2>2. th' \in [Threads -> ThreadType]
    BY <1>2, ThreadField DEF NKTerminateThread, DataOK
  <2> QED BY <1>2, <2>1, <2>2 DEF NKTerminateThread, DataOK
<1>3. ASSUME DoLeaveSomething(t), OwnedList(t) # {}, th' = th,
             NEW c \in OwnedList(t), arg' = [arg EXCEPT ![t] = c], Goto(t, "x_leave")
      PROVE  CtlOK' /\ DataOK'
  <2>1. c \in Crits
    BY <1>3 DEF OwnedList
  <2>2. tgt' = tgt
    BY <1>3 DEF DoLeaveSomething
  <2>3. CtlOK'
    BY <1>3, <2>1, <2>2, CtlMoves DEF CtlOK, PCs, ArgSteps, TgtSteps, ExitSteps, KillSteps
  <2> QED BY <1>3, <2>3 DEF DoLeaveSomething, DataOK
<1>4. ASSUME DoLeaveSomething(t), arg' = arg, Goto(t, "x_buried"),
             th' = [th EXCEPT ![t].buried = TRUE]
      PROVE  CtlOK' /\ DataOK'
  <2>1. tgt' = tgt
    BY <1>4 DEF DoLeaveSomething
  <2>2. CtlOK'
    BY <1>4, <2>1, CtlGoto DEF PCs, ArgSteps, TgtSteps, ExitSteps, TakeSteps, LeaveSteps, KillSteps
  <2>3. th' \in [Threads -> ThreadType]
    BY <1>4, ThreadField DEF DataOK
  <2> QED BY <1>4, <2>2, <2>3 DEF DoLeaveSomething, DataOK
<1>5. CASE DoLeaveSomething(t)
  BY <1>3, <1>4, <1>5 DEF DoLeaveSomething
<1>6. CASE LeaveListed(t)
  <2>1. arg[t] \in Crits
    BY <1>6, ArgThere DEF LeaveListed, At, ArgSteps
  <2>2. CtlOK'
    BY <1>6, <2>1, CtlGoto
    DEF LeaveListed, PCs, ArgSteps, TgtSteps, UserMode, ExitSteps, TakeSteps, LeaveSteps, KillSteps
  <2>3. cs' \in [Crits -> CritType]
    <3>1. ASSUME NEW b \in BOOLEAN
          PROVE  [cs EXCEPT ![arg[t]].lockCount = 1, ![arg[t]].low = b] \in [Crits -> CritType]
      BY CritField, 1 \in Int DEF DataOK
    <3>2. (cs[arg[t]].low \/ Owns(t, arg[t])) \in BOOLEAN
      OBVIOUS
    <3> QED BY <1>6, <2>1, <3>1, <3>2 DEF LeaveListed, DataOK
  <2> QED BY <1>6, <2>2, <2>3 DEF LeaveListed, DataOK
<1>7. CASE RemoveThread(t)
  <2>1. CtlOK'
    BY <1>7, CtlGoto
    DEF RemoveThread, PCs, ArgSteps, TgtSteps, ExitSteps, TakeSteps, LeaveSteps, KillSteps
  <2> QED BY <1>7, <2>1, BlockCurrentType DEF RemoveThread, DataOK
<1> QED BY <1>1, <1>2, <1>5, <1>6, <1>7 DEF Exit

LEMMA KillType ==
  ASSUME CtlOK, DataOK, NEW t \in Threads, Kill(t)
  PROVE  CtlOK' /\ DataOK'
<1>1. ASSUME NEW u \in Threads, SetThreadToDie(t, u)
      PROVE  CtlOK' /\ DataOK'
  <2>1. CtlOK'
    <3>1. t # u
      BY <1>1, KillAssumption DEF SetThreadToDie
    <3>2. pc' \in [Threads -> PCs]
      BY <1>1 DEF SetThreadToDie, CtlOK, PCs, KillSteps, ExitSteps
    <3>3. tgt' \in [Threads -> Threads \union {NoThread}] /\ tgt'[t] \in Threads
      BY <1>1 DEF SetThreadToDie, CtlOK
    <3>4. arg' = arg /\ \A v \in Threads \ {t} : tgt'[v] = tgt[v]
      BY <1>1 DEF SetThreadToDie, CtlOK
    <3>5. /\ pc'[t] \in {"k_boostrun", "k_boost"}
          /\ \A v \in Threads \ {t} : pc'[v] = pc[v] \/ pc'[v] = "x_start"
      BY <1>1, <3>1 DEF SetThreadToDie, CtlOK
    <3>6. /\ "x_start" \notin ArgSteps \union TgtSteps
          /\ "k_boost" \notin ArgSteps /\ "k_boostrun" \notin ArgSteps
      BY DEF ArgSteps, TgtSteps, TakeSteps, LeaveSteps, KillSteps
    <3> QED BY <3>2, <3>3, <3>4, <3>5, <3>6 DEF CtlOK, ArgOK, TgtOK
  <2>2. sched' \in SchedType
    BY <1>1, RunqDequeueType, NeedsRunType DEF SetThreadToDie, DataOK
  <2>3. th' \in [Threads -> ThreadType]
    BY <1>1, ThreadField, SignalledType DEF SetThreadToDie, DataOK
  <2>4. depth' \in [Threads -> [Crits -> Nat]]
    BY <1>1 DEF SetThreadToDie, HoldsNothing, DataOK
  <2>5. budget' \in [Threads -> Nat]
    BY <1>1 DEF SetThreadToDie, Spend, DataOK
  <2> QED BY <1>1, <2>1, <2>2, <2>3, <2>4, <2>5 DEF SetThreadToDie, DataOK
<1>2. CASE SetThreadBasePrio(t)
  <2> DEFINE u == tgt[t]
  <2>1. u \in Threads
    BY <1>2 DEF SetThreadBasePrio, CtlOK, TgtOK, TgtSteps, KillSteps
  <2>2. CtlOK' /\ depth' \in [Threads -> [Crits -> Nat]]
    <3>1. CASE pc[t] = "k_boostrun"
      <4>1. Goto(t, "k_run") /\ UNCHANGED <<arg, tgt, depth>>
        BY <1>2, <3>1 DEF SetThreadBasePrio
      <4>2. CtlOK'
        BY <2>1, <4>1, CtlGoto DEF PCs, ArgSteps, TgtSteps, TakeSteps, LeaveSteps, KillSteps
      <4> QED BY <4>1, <4>2 DEF DataOK
    <3>2. CASE pc[t] # "k_boostrun"
      BY <1>2, <3>2, ReturnToUserOK DEF SetThreadBasePrio
    <3> QED BY <3>1, <3>2
  <2>3. th' \in [Threads -> ThreadType]
    BY <1>2, ThreadField, PrioritiesType DEF SetThreadBasePrio, DataOK
  <2>4. sched' \in SchedType
    BY <1>2, <2>1, PrioritiesType, BoostCPrioType DEF SetThreadBasePrio, DataOK
  <2> QED BY <1>2, <2>2, <2>3, <2>4 DEF SetThreadBasePrio, DataOK
<1>3. CASE KillRun(t)
  <2>1. tgt[t] \in Threads
    BY <1>3 DEF KillRun, At, CtlOK, TgtOK, TgtSteps, KillSteps
  <2>2. CtlOK' /\ depth' \in [Threads -> [Crits -> Nat]]
    BY <1>3, ReturnToUserOK DEF KillRun
  <2>3. sched' \in SchedType
    BY <1>3, <2>1, MakeRunIfNeededType DEF KillRun, DataOK
  <2> QED BY <1>3, <2>2, <2>3 DEF KillRun, DataOK
<1> QED BY <1>1, <1>2, <1>3 DEF Kill

LEMMA SchedulerType ==
  ASSUME CtlOK, DataOK,
         \/ \E t \in Threads : Block(t) \/ Wake(t)
         \/ QuantumTick \/ KCNextThread \/ AllGone
  PROVE  CtlOK' /\ DataOK'
<1>1. ASSUME NEW t \in Threads, Block(t)
      PROVE  CtlOK' /\ DataOK'
  <2>1. CtlOK'
    BY <1>1, CtlStays DEF Block
  <2>2. budget' \in [Threads -> Nat]
    BY <1>1 DEF Block, Spend, DataOK
  <2> QED BY <1>1, <2>1, <2>2, BlockCurrentType DEF Block, DataOK
<1>2. ASSUME NEW t \in Threads, Wake(t)
      PROVE  CtlOK' /\ DataOK'
  BY <1>2, CtlStays, MakeRunType DEF Wake, DataOK
<1>3. CASE QuantumTick
  BY <1>3, CtlStays, SetRescheduleType DEF QuantumTick, DataOK
<1>4. CASE KCNextThread
  <2>1. CtlOK'
    BY <1>4, CtlStays DEF KCNextThread
  <2> DEFINE prioCalc == [t \in Threads |-> IF th[t].noPrioCalc THEN sched.cprio[t]
                                            ELSE PrioFrom(t, OwnedList(t))]
             back(b) == PutBackCurrent([sched EXCEPT !.resched = FALSE], b)
  <2>2. prioCalc \in [Threads -> Priority]
    BY PrioFromType, PrioritiesType
  <2>3. ASSUME NEW b
        PROVE  back(b) \in SchedType
    <3>1. [sched EXCEPT !.resched = FALSE] \in SchedType
      BY DEF DataOK, SchedType
    <3> QED BY <3>1, PutBackCurrentType
  <2>4. PICK b : IF Dispatches(back(b))
                 THEN /\ sched' = Dispatch(back(b), prioCalc)
                      /\ th' = [th EXCEPT ![Head(back(b).runq)] = NotStealable(@)]
                 ELSE sched' = back(b) /\ th' = th
    BY <1>4, Zenon DEF KCNextThread
  <2> HIDE DEF prioCalc, back
  <2>5. sched' \in SchedType /\ th' \in [Threads -> ThreadType]
    <3>1. CASE Dispatches(back(b))
      BY <2>2, <2>3, <2>4, <3>1, DispatchType, SignalledType DEF DataOK
    <3>2. CASE ~Dispatches(back(b))
      BY <2>3, <2>4, <3>2 DEF DataOK
    <3> QED BY <3>1, <3>2
  <2> QED BY <1>4, <2>1, <2>5 DEF KCNextThread, DataOK
<1>5. CASE AllGone
  BY <1>5, CtlStays DEF AllGone, vars, DataOK
<1> QED BY <1>1, <1>2, <1>3, <1>4, <1>5

-----------------------------------------------------------------------------
(* The theorem. *)

LEMMA TypeInit == Init => TypeInv
<1> SUFFICES ASSUME Init
             PROVE  CtlOK /\ DataOK
  BY TypeInvSplit
<1>1. CtlOK
  BY DEF Init, CtlOK, ArgOK, TgtOK, ArgSteps, TgtSteps, PCs, UserMode, TakeSteps, LeaveSteps, KillSteps
<1>2. 0 \in Priority /\ 0 \in 0 .. 2 /\ 0 \in Int /\ << >> \in Seq(Threads)
  BY DEF Priority, MAX_PRIORITY_LEVELS
<1>3. sched \in SchedType
  BY <1>2, PriorityAssumption DEF Init, SchedType, RunState
<1>4. cs \in [Crits -> CritType]
  BY <1>2 DEF Init, CritType
<1>5. th \in [Threads -> ThreadType]
  BY <1>2, PriorityAssumption DEF Init, ThreadType, WaitState, NoCrit
<1>6. depth \in [Threads -> [Crits -> Nat]] /\ budget \in [Threads -> Nat]
  BY BoundAssumption DEF Init
<1> QED BY <1>1, <1>3, <1>4, <1>5, <1>6 DEF DataOK

LEMMA TypeStep == TypeInv /\ [Next]_vars => TypeInv'
<1> SUFFICES ASSUME TypeInv, [Next]_vars
             PROVE  CtlOK' /\ DataOK'
  BY DEF TypeInv, TypeOK, CtlOK, DataOK
<1>1. CtlOK /\ DataOK
  BY TypeInvSplit
<1>2. ASSUME NEW t \in Threads, ThreadStep(t)
      PROVE  CtlOK' /\ DataOK'
  BY <1>1, <1>2, EnterType, TakeType, LeaveType, LeaveCritType, ExitType, KillType DEF ThreadStep
<1>3. CASE UNCHANGED vars
  BY <1>1, <1>3, CtlStays DEF vars, DataOK
<1> QED BY <1>1, <1>2, <1>3, SchedulerType DEF Next

\* The state has its type in every reachable state, and what a step of a call
\* reads through its frame (the critical section, the thread to wake) exists.
THEOREM TypeCorrect == Spec => []TypeOK
<1>1. TypeInv => TypeOK
  BY DEF TypeInv
<1> QED BY <1>1, TypeInit, TypeStep, PTL DEF Spec

(***************************************************************************)
(* Ownership.                                                              *)
(***************************************************************************)

\* Where a thread's proxy can be queued, or stay queued after a hand-off.
QueuedSteps == {"t_boost1", "t_boost2", "t_part2", "t_after", "t_reprio", "fault"}

\* What a dead thread still does.
DeadSteps == ExitSteps \union {"l_test", "l_free"} \union LeaveSteps

InCall(t, c, steps) == pc[t] \in steps /\ arg[t] = c

\* What the client entered it owns, with the same count.
EntryOK(t, c) == depth[t][c] > 0 => Owns(t, c) /\ cs[c].lockCount = depth[t][c]

\* A thread inside a call about c, or exiting, has not entered c; a dead one only
\* exits, and is buried once nothing of its own is listed.
OutsideOK(t, c) ==
  /\ InCall(t, c, {"e_count", "l_test", "l_free", "l_pre", "l_leave"} \union TakeSteps)
       => depth[t][c] = 0
  /\ pc[t] \in ExitSteps \/ th[t].dead => depth[t][c] = 0
  /\ th[t].dead => pc[t] \in DeadSteps
  /\ pc[t] \in ExitSteps \ {"x_start"} => th[t].dead
  /\ th[t].buried <=> pc[t] \in {"x_buried", "gone"}

\* Where the code relies on being the owner it is, and a taker that became the
\* owner entered once.
CallerOK(t, c) ==
  /\ InCall(t, c, {"e_count", "t_final", "l_leave"}) => Owns(t, c)
  /\ InCall(t, c, TakeSteps) /\ cs[c].owner = t => ~cs[c].low /\ cs[c].lockCount = 1

\* A thread that owns what it has not entered is in the call that acquires or
\* leaves it, or exits.
OwnOK(t, c) ==
  Owns(t, c) /\ depth[t][c] = 0 =>
    InCall(t, c, {"e_count", "l_leave", "fault"} \union TakeSteps) \/ pc[t] \in ExitSteps \/ th[t].dead

\* The |1 mark is on the word only while its owner leaves or exits, and the fast
\* path frees the word only if nobody queued since the needtrap test.
MarkOK(t, c) ==
  /\ Leaving(t, c) => \/ InCall(t, c, {"l_test", "l_free", "l_pre"})
                      \/ pc[t] \in ExitSteps \/ th[t].dead
  /\ InCall(t, c, {"l_free"}) /\ Leaving(t, c) => ~cs[c].needtrap

\* A listed critical section is on the list of its owner, which lives and has run
\* since it got it.
ListOK(t, c) ==
  /\ cs[c].bListed = 1 =>
       /\ cs[c].owner \in Threads /\ cs[c].linkedTo = cs[c].owner /\ cs[c].needtrap
       /\ cs[c].owner = t => ~th[t].buried /\ th[t].hLastCrit # c
  /\ InCall(t, c, {"x_leave"}) => cs[c].bListed = 1 /\ cs[c].linkedTo = t

\* What can be stolen belongs to a thread that has not run since it got it, and
\* whoever is queued is still in the call.
WaitOK(t, c) ==
  /\ th[t].hLastCrit = c => sched.running # t /\ InCall(t, c, QueuedSteps)
  /\ t \in ToSet(cs[c].proxList) => InCall(t, c, QueuedSteps)

PairInv(t, c) == /\ EntryOK(t, c) /\ OutsideOK(t, c) /\ CallerOK(t, c) /\ OwnOK(t, c)
                 /\ MarkOK(t, c) /\ ListOK(t, c) /\ WaitOK(t, c)

MutexInv == \A t \in Threads, c \in Crits : PairInv(t, c)

-----------------------------------------------------------------------------
(* The scheduler's operators never choose a thread to run, KCNextThread does. *)

\* At most they leave nobody running.
LEMMA RunningKept ==
  ASSUME NEW s \in SchedType, NEW t \in Threads, NEW p \in Priority
  PROVE  /\ SetReschedule(s).running = s.running
         /\ MakeRun(s, t).running = s.running
         /\ RunqDequeue(s, t).running = s.running
         /\ MakeRunIfNeeded(s, t).running = s.running
         /\ BoostCPrio(s, t, p).running = s.running
         /\ SetRunningPrio(s, p).running = s.running
         /\ BlockCurrent(s).running = NoThread
<1>1. ASSUME NEW r \in SchedType
      PROVE  MakeRun(r, t).running = r.running
  BY DEF MakeRun, SchedType
<1>2. SetReschedule(s).running = s.running /\ RunqDequeue(s, t).running = s.running
  BY DEF SetReschedule, RunqDequeue, SchedType
<1>3. MakeRunIfNeeded(s, t).running = s.running
  BY <1>1 DEF MakeRunIfNeeded
<1>4. BoostCPrio(s, t, p).running = s.running
  <2> DEFINE boosted == [s EXCEPT !.cprio[t] = p]
  <2>1. boosted \in SchedType /\ boosted.running = s.running
    BY DEF SchedType
  <2>2. RunqDequeue(boosted, t) \in SchedType /\ RunqDequeue(boosted, t).running = s.running
    BY <2>1, RunqDequeueType DEF RunqDequeue, SchedType
  <2> QED BY <1>1, <2>1, <2>2 DEF BoostCPrio
<1>5. SetRunningPrio(s, p).running = s.running
  BY DEF SetRunningPrio, SetReschedule, SchedType
<1>6. BlockCurrent(s).running = NoThread
  BY DEF BlockCurrent, SchedType
<1> QED BY <1>1, <1>2, <1>3, <1>4, <1>5, <1>6

\* ThreadYield gives up the processor.
LEMMA YieldIdles ==
  ASSUME NEW s \in SchedType, s.running \in Threads
  PROVE  ThreadYield(s).running = NoThread
<1> DEFINE idle == SetReschedule([s EXCEPT !.running = NoThread])
<1>1. idle \in SchedType /\ idle.running = NoThread
  BY DEF SetReschedule, SchedType
<1> QED BY <1>1, 0 \in Priority, RunningKept DEF ThreadYield, Priority, MAX_PRIORITY_LEVELS

-----------------------------------------------------------------------------
(* What a step leaves alone. *)

\* A step that moves neither t nor c, and does not make t run while it can be
\* stolen from, keeps the invariant for the pair.
LEMMA Frame ==
  ASSUME NEW t \in Threads, NEW c \in Crits, PairInv(t, c),
         pc'[t] = pc[t], arg'[t] = arg[t], depth'[t][c] = depth[t][c], cs'[c] = cs[c],
         th'[t].dead = th[t].dead, th'[t].buried = th[t].buried,
         th'[t].hLastCrit \in {th[t].hLastCrit, NoCrit},
         sched'.running = t => sched.running = t \/ th'[t].hLastCrit = NoCrit
  PROVE  PairInv(t, c)'
<1>1. c # NoCrit
  BY CritAssumption DEF NoCrit
<1>2. EntryOK(t, c)' /\ OutsideOK(t, c)' /\ OwnOK(t, c)'
  BY DEF PairInv, EntryOK, OutsideOK, OwnOK, InCall, Owns
<1>3. CallerOK(t, c)' /\ MarkOK(t, c)'
  BY DEF PairInv, CallerOK, MarkOK, InCall, Owns, Leaving
<1>4. ListOK(t, c)' /\ WaitOK(t, c)'
  BY <1>1 DEF PairInv, ListOK, WaitOK, InCall
<1> QED BY <1>2, <1>3, <1>4 DEF PairInv

\* The running thread can not be stolen from.
LEMMA RunningHasRun ==
  ASSUME TypeInv, MutexInv, NEW s \in Threads, Runs(s)
  PROVE  th[s].hLastCrit = NoCrit
BY DEF TypeInv, TypeOK, ThreadType, MutexInv, PairInv, WaitOK, Runs, NoCrit

\* A step of s leaves the other threads where they are, takes the processor from
\* s at most, and touches no critical section but d.
OthersStay(s, d) ==
  /\ \A c \in Crits \ {d} : cs'[c] = cs[c]
  /\ \A t \in Threads \ {s} :
       /\ pc'[t] = pc[t] /\ arg'[t] = arg[t] /\ \A c \in Crits : depth'[t][c] = depth[t][c]
       /\ th'[t].dead = th[t].dead /\ th'[t].buried = th[t].buried
       /\ th'[t].hLastCrit \in {th[t].hLastCrit, NoCrit}
  /\ sched'.running \in {sched.running, NoThread}

\* So the invariant is left to show for s and for d.
LEMMA StepMutex ==
  ASSUME MutexInv, NEW s \in Threads, NEW d, OthersStay(s, d),
         \A c \in Crits : PairInv(s, c)',
         d \in Crits => \A t \in Threads \ {s} : PairInv(t, d)'
  PROVE  MutexInv'
<1> SUFFICES ASSUME NEW t \in Threads, NEW c \in Crits, t # s, c # d
             PROVE  PairInv(t, c)'
  BY DEF MutexInv
<1>1. PairInv(t, c)
  BY DEF MutexInv
<1>2. sched'.running = t => sched.running = t
  BY NoThreadAssumption DEF OthersStay
<1> QED BY <1>1, <1>2, Frame DEF OthersStay

\* Steps that change no critical section and nothing else the invariant is about
\* but where the thread is.
OnlyMoves(s) ==
  /\ cs' = cs
  /\ \A t \in Threads :
       /\ t # s => pc'[t] = pc[t] /\ arg'[t] = arg[t]
       /\ \A c \in Crits : depth'[t][c] = depth[t][c]
       /\ th'[t].dead = th[t].dead /\ th'[t].buried = th[t].buried
       /\ th'[t].hLastCrit = th[t].hLastCrit
  /\ sched'.running \in {sched.running, NoThread}

\* Such a step to a place that asks for no more than the old one.
LEMMA MoveMutex ==
  ASSUME MutexInv, NEW s \in Threads, OnlyMoves(s),
         \A c \in Crits : PairInv(s, c)'
  PROVE  MutexInv'
<1>1. OthersStay(s, NoCrit)
  BY DEF OnlyMoves, OthersStay
<1> QED BY <1>1, StepMutex, CritAssumption DEF NoCrit

\* Return to the client, who entered the critical sections in entered.
LEMMA ReturnEffect ==
  ASSUME TypeInv, NEW s \in Threads, NEW entered, ReturnToUser(s, entered)
  PROVE  /\ arg'[s] = NoCrit
         /\ \A t \in Threads \ {s} : /\ pc'[t] = pc[t] /\ arg'[t] = arg[t]
                                     /\ \A c \in Crits : depth'[t][c] = depth[t][c]
         /\ \/ /\ pc'[s] = (IF th[s].dead THEN "x_next" ELSE "x_start")
               /\ \A c \in Crits : depth'[s][c] = 0
            \/ /\ ~th[s].dead /\ ~th[s].dying /\ pc'[s] = "user"
               /\ \A c \in Crits : depth'[s][c] = IF c \in entered THEN 1 ELSE depth[s][c]
BY DEF TypeInv, TypeOK, ReturnToUser, DropFrame, Goto, HoldsNothing

\* What an action of the running thread s finds: it can not be stolen from, it is
\* in no queue unless its call is, and it has its type.
LEMMA Actor ==
  ASSUME TypeInv, MutexInv, NEW s \in Threads, Runs(s)
  PROVE  /\ th[s].hLastCrit = NoCrit
         /\ \A c \in Crits : c # NoCrit /\ PairInv(s, c)
         /\ \A t \in Threads : pc[t] # "fault"
         /\ NoThread \notin Threads
BY RunningHasRun, CritAssumption, NoThreadAssumption DEF MutexInv, Runs, NoFault, NoCrit

-----------------------------------------------------------------------------
(* Entering, user mode. *)

\* A recursive entry counts up what its owner entered.
LEMMA EnterAgainMutex ==
  ASSUME TypeInv, MutexInv, NEW s \in Threads, NEW d \in Crits, EnterAgain(s, d)
  PROVE  MutexInv'
<1> SUFFICES ASSUME NEW t \in Threads, NEW c \in Crits
             PROVE  PairInv(t, c)'
  BY DEF MutexInv
<1>1. PairInv(t, c) /\ PairInv(s, d)
  BY DEF MutexInv
<1>2. /\ sched' = sched /\ th' = th /\ pc' = pc /\ arg' = arg /\ pc[s] = "user"
      /\ cs[d].owner = s /\ ~cs[d].low
  BY DEF EnterAgain, At, Owns
<1>3. CASE c # d
  <2>1. cs'[c] = cs[c] /\ depth'[t][c] = depth[t][c]
    BY <1>3 DEF EnterAgain, TypeInv, TypeOK
  <2> QED BY <1>1, <1>2, <2>1, Frame
<1>4. CASE c = d
  <2>1. /\ cs'[d].lockCount = cs[d].lockCount + 1 /\ cs'[d].owner = s /\ ~cs'[d].low
        /\ cs'[d].needtrap = cs[d].needtrap /\ cs'[d].bListed = cs[d].bListed
        /\ cs'[d].linkedTo = cs[d].linkedTo /\ cs'[d].proxList = cs[d].proxList
    BY <1>2 DEF EnterAgain, TypeInv, TypeOK, CritType
  <2>2. depth'[s][d] = depth[s][d] + 1 /\ (t # s => depth'[t][d] = depth[t][d])
    BY DEF EnterAgain, TypeInv, TypeOK
  <2>3. depth[t][d] \in Nat /\ depth[s][d] \in Nat
    BY DEF TypeInv, TypeOK
  <2>4. depth[s][d] > 0 /\ cs[d].lockCount = depth[s][d] /\ ~th[s].dead
    BY <1>1, <1>2, <2>3
       DEF PairInv, EntryOK, OwnOK, Owns, InCall, OutsideOK, TakeSteps, ExitSteps, DeadSteps,
           LeaveSteps
  <2>5. CASE t = s
    BY <1>1, <1>2, <1>4, <2>1, <2>2, <2>3, <2>4, <2>5
       DEF PairInv, EntryOK, OutsideOK, CallerOK, OwnOK, MarkOK, ListOK, WaitOK, Owns, Leaving,
           InCall, TakeSteps, ExitSteps
  <2>6. CASE t # s
    BY <1>1, <1>2, <1>4, <2>1, <2>2, <2>3, <2>6
       DEF PairInv, EntryOK, OutsideOK, CallerOK, OwnOK, MarkOK, ListOK, WaitOK, Owns, Leaving, InCall
  <2> QED BY <2>5, <2>6
<1> QED BY <1>3, <1>4

\* The exchange takes a free word: nobody has entered it and it is not listed.
LEMMA EnterFastMutex ==
  ASSUME TypeInv, MutexInv, NEW s \in Threads, NEW d \in Crits, EnterFast(s, d)
  PROVE  MutexInv'
<1> SUFFICES ASSUME NEW t \in Threads, NEW c \in Crits
             PROVE  PairInv(t, c)'
  BY DEF MutexInv
<1>1. PairInv(t, c) /\ PairInv(s, d)
  BY DEF MutexInv
<1>2. /\ sched' = sched /\ th' = th /\ depth' = depth /\ pc[s] = "user" /\ cs[d].owner = NoThread
      /\ depth[s][d] = 0 /\ NoThread \notin Threads
  BY NoThreadAssumption DEF EnterFast, At, MayEnter
<1>3. /\ pc'[s] = "e_count" /\ arg'[s] = d
      /\ t # s => pc'[t] = pc[t] /\ arg'[t] = arg[t]
  BY DEF EnterFast, Goto, TypeInv, TypeOK
<1>4. /\ cs'[d].lockCount = cs[d].lockCount /\ cs'[d].owner = s /\ ~cs'[d].low
      /\ cs'[d].needtrap = cs[d].needtrap /\ cs'[d].bListed = cs[d].bListed
      /\ cs'[d].linkedTo = cs[d].linkedTo /\ cs'[d].proxList = cs[d].proxList
      /\ c # d => cs'[c] = cs[c]
  BY DEF EnterFast, TypeInv, TypeOK, CritType
<1>5. depth[t][d] \in Nat
    BY DEF TypeInv, TypeOK
<1>6. CASE t # s /\ c # d
  BY <1>1, <1>2, <1>3, <1>4, <1>6, Frame
<1>7. CASE t = s
    BY <1>1, <1>2, <1>3, <1>4, <1>7
       DEF PairInv, EntryOK, OutsideOK, CallerOK, OwnOK, MarkOK, ListOK, WaitOK, Owns, Leaving,
           InCall, TakeSteps, ExitSteps, DeadSteps, LeaveSteps, QueuedSteps
<1>8. CASE t # s /\ c = d
    BY <1>1, <1>2, <1>3, <1>4, <1>5, <1>8
       DEF PairInv, EntryOK, OutsideOK, CallerOK, OwnOK, MarkOK, ListOK, WaitOK, Owns, Leaving, InCall
<1> QED BY <1>6, <1>7, <1>8

\* Going into the kernel changes where the thread is.
LEMMA EnterSlowMutex ==
  ASSUME TypeInv, MutexInv, NEW s \in Threads, NEW d \in Crits, EnterSlow(s, d)
  PROVE  MutexInv'
<1>1. /\ pc[s] = "user" /\ depth[s][d] = 0 /\ cs[d].owner # NoThread /\ ~Owns(s, d)
      /\ cs' = cs /\ pc'[s] = "t_alloc" /\ arg'[s] = d
  BY DEF EnterSlow, At, MayEnter, Goto, TypeInv, TypeOK
<1>2. OnlyMoves(s)
  BY DEF EnterSlow, Goto, OnlyMoves, TypeInv, TypeOK
<1>3. ASSUME NEW c \in Crits
      PROVE  PairInv(s, c)'
  <2>1. PairInv(s, c) /\ sched' = sched /\ th' = th /\ depth' = depth
    BY DEF MutexInv, EnterSlow
  <2> QED BY <1>1, <2>1
       DEF PairInv, EntryOK, OutsideOK, CallerOK, OwnOK, MarkOK, ListOK, WaitOK, Owns, Leaving,
           InCall, TakeSteps, ExitSteps, DeadSteps, LeaveSteps, QueuedSteps
<1> QED BY <1>2, <1>3, MoveMutex

\* LockCount = 1 counts the entry the exchange made.
LEMMA EnterSetCountMutex ==
  ASSUME TypeInv, MutexInv, NEW s \in Threads, EnterSetCount(s)
  PROVE  MutexInv'
<1>1. PICK d \in Crits : arg[s] = d
  BY DEF EnterSetCount, At, TypeInv, ArgOK, ArgSteps
<1> PairInv(s, d) /\ d # NoCrit
  BY CritAssumption DEF MutexInv, NoCrit
<1>2. /\ pc[s] = "e_count" /\ pc'[s] = "user" /\ arg'[s] = NoCrit /\ sched' = sched /\ th' = th
      /\ Owns(s, d) /\ d # NoCrit /\ ~th[s].dead
  <2>1. /\ pc[s] = "e_count" /\ pc'[s] = "user" /\ arg'[s] = NoCrit /\ sched' = sched /\ th' = th
    BY DEF EnterSetCount, At, Goto, DropFrame, TypeInv, TypeOK
  <2> QED BY <1>1, <2>1
         DEF PairInv, CallerOK, OutsideOK, InCall, DeadSteps, ExitSteps, LeaveSteps
<1>3. /\ cs'[d].lockCount = 1 /\ cs'[d].owner = cs[d].owner /\ cs'[d].low = cs[d].low
      /\ cs'[d].needtrap = cs[d].needtrap /\ cs'[d].bListed = cs[d].bListed
      /\ cs'[d].linkedTo = cs[d].linkedTo /\ cs'[d].proxList = cs[d].proxList
      /\ depth'[s][d] = 1
  BY <1>1 DEF EnterSetCount, TypeInv, TypeOK, CritType
<1>4. \A c \in Crits \ {d} : cs'[c] = cs[c] /\ depth'[s][c] = depth[s][c]
  BY <1>1 DEF EnterSetCount, TypeInv, TypeOK
<1>5. OthersStay(s, d)
  BY <1>1 DEF EnterSetCount, Goto, DropFrame, OthersStay, TypeInv, TypeOK
<1>6. ASSUME NEW c \in Crits
      PROVE  PairInv(s, c)'
  <2>1. PairInv(s, c)
    BY DEF MutexInv
  <2> QED BY <1>1, <1>2, <1>3, <1>4, <2>1
       DEF PairInv, EntryOK, OutsideOK, CallerOK, OwnOK, MarkOK, ListOK, WaitOK, Owns, Leaving,
           InCall, TakeSteps, ExitSteps, DeadSteps, LeaveSteps, QueuedSteps
<1>7. ASSUME NEW t \in Threads \ {s}
      PROVE  PairInv(t, d)'
  <2>1. PairInv(t, d) /\ depth[t][d] \in Nat
    BY DEF MutexInv, TypeInv, TypeOK
  <2> QED BY <1>2, <1>3, <1>5, <2>1
       DEF PairInv, EntryOK, OutsideOK, CallerOK, OwnOK, MarkOK, ListOK, WaitOK, Owns, Leaving,
           InCall, OthersStay
<1> QED BY <1>5, <1>6, <1>7, StepMutex

-----------------------------------------------------------------------------
(* SC_TakeCritSec. *)

\* A taker lives, has not entered what it asks for and is about one critical
\* section.
LEMMA Taker ==
  ASSUME TypeInv, MutexInv, NEW s \in Threads, Runs(s), pc[s] \in TakeSteps
  PROVE  /\ arg[s] \in Crits /\ depth[s][arg[s]] = 0 /\ ~th[s].dead /\ ~th[s].buried
         /\ th[s].hLastCrit = NoCrit
<1>1. arg[s] \in Crits
  BY DEF TypeInv, ArgOK, ArgSteps
<1>2. PairInv(s, arg[s])
  BY <1>1 DEF MutexInv
<1> QED BY <1>1, <1>2, Actor
       DEF PairInv, OutsideOK, InCall, TakeSteps, DeadSteps, ExitSteps, LeaveSteps

\* A step of a taker that leaves the OwnerThread word and its count alone: it
\* may set needtrap unless the owner is about to free the word, list the critical
\* section with its owner, and queue or dequeue its own proxy.
TakeEdit(s, d) ==
  /\ OthersStay(s, d) /\ pc'[s] \in TakeSteps \union {"fault"} /\ arg'[s] = d
  /\ \A c \in Crits : depth'[s][c] = depth[s][c]
  /\ th'[s].dead = th[s].dead /\ th'[s].buried = th[s].buried /\ th'[s].hLastCrit = NoCrit
  /\ cs'[d].owner = cs[d].owner /\ cs'[d].low = cs[d].low /\ cs'[d].lockCount = cs[d].lockCount
  /\ \/ cs'[d].needtrap = cs[d].needtrap
     \/ cs'[d].needtrap /\ (cs[d].low => cs[d].needtrap)
  /\ \/ cs'[d].bListed = cs[d].bListed /\ cs'[d].linkedTo = cs[d].linkedTo
     \/ /\ cs[d].owner \in Threads /\ cs'[d].linkedTo = cs[d].owner
        /\ cs'[d].bListed = 1 /\ cs'[d].needtrap
        /\ ~th[cs[d].owner].buried /\ th'[cs[d].owner].hLastCrit # d
  /\ ToSet(cs'[d].proxList) \subseteq ToSet(cs[d].proxList) \union {s}
  /\ s \in ToSet(cs'[d].proxList) => pc'[s] \in QueuedSteps
  /\ pc'[s] = "t_final" => Owns(s, d)

\* Such a step keeps the invariant.
LEMMA TakeEdits ==
  ASSUME TypeInv, MutexInv, NEW s \in Threads, Runs(s), pc[s] \in TakeSteps,
         NEW d \in Crits, arg[s] = d, TakeEdit(s, d)
  PROVE  MutexInv'
<1>1. /\ depth[s][d] = 0 /\ ~th[s].dead /\ ~th[s].buried /\ th[s].hLastCrit = NoCrit
      /\ NoThread \notin Threads
  BY Taker, NoThreadAssumption
<1>2. \A c \in Crits : c # NoCrit /\ PairInv(s, c)
  BY CritAssumption DEF MutexInv, NoCrit
<1>3. \A c \in Crits \ {d} : cs'[c] = cs[c]
  BY DEF TakeEdit, OthersStay
<1>4. ASSUME NEW c \in Crits \ {d}
      PROVE  PairInv(s, c)'
  BY <1>1, <1>2, <1>3
     DEF TakeEdit, PairInv, EntryOK, OutsideOK, CallerOK, OwnOK, MarkOK, ListOK, WaitOK, Owns, Leaving,
         InCall, TakeSteps, ExitSteps, DeadSteps, LeaveSteps, QueuedSteps
<1>5. PairInv(s, d)'
  <2>1. PairInv(s, d) /\ depth'[s][d] = 0 /\ d # NoCrit
    BY <1>1, <1>2 DEF TakeEdit
  <2>2. EntryOK(s, d)' /\ OutsideOK(s, d)' /\ CallerOK(s, d)' /\ OwnOK(s, d)'
    BY <1>1, <2>1
       DEF TakeEdit, PairInv, EntryOK, OutsideOK, CallerOK, OwnOK, Owns, InCall, TakeSteps, ExitSteps,
           DeadSteps, LeaveSteps
  <2>3. MarkOK(s, d)' /\ WaitOK(s, d)'
    BY <1>1, <2>1
       DEF TakeEdit, PairInv, CallerOK, OwnOK, MarkOK, WaitOK, Owns, Leaving, InCall, TakeSteps,
           ExitSteps,
           LeaveSteps, QueuedSteps
  <2>4. ListOK(s, d)'
    BY <1>1, <2>1 DEF TakeEdit, PairInv, ListOK, InCall, TakeSteps
  <2> QED BY <2>2, <2>3, <2>4 DEF PairInv
<1>6. ASSUME NEW t \in Threads \ {s}
      PROVE  PairInv(t, d)'
  <2>1. /\ PairInv(t, d) /\ d # NoCrit
        /\ pc'[t] = pc[t] /\ arg'[t] = arg[t] /\ depth'[t][d] = depth[t][d]
        /\ th'[t].dead = th[t].dead /\ th'[t].buried = th[t].buried
        /\ th'[t].hLastCrit \in {th[t].hLastCrit, NoCrit}
        /\ sched'.running = t => sched.running = t
    BY <1>1, <1>2 DEF MutexInv, TakeEdit, OthersStay
  <2>2. EntryOK(t, d)' /\ OutsideOK(t, d)' /\ CallerOK(t, d)' /\ OwnOK(t, d)'
    BY <2>1 DEF TakeEdit, PairInv, EntryOK, OutsideOK, CallerOK, OwnOK, Owns, InCall
  <2>3. MarkOK(t, d)' /\ WaitOK(t, d)'
    BY <2>1 DEF TakeEdit, PairInv, MarkOK, WaitOK, Leaving, InCall
  <2>4. ListOK(t, d)'
    BY <2>1 DEF TakeEdit, PairInv, ListOK, InCall
  <2> QED BY <2>2, <2>3, <2>4 DEF PairInv
<1> QED BY <1>4, <1>5, <1>6, StepMutex DEF TakeEdit

-----------------------------------------------------------------------------
(* Who is in a queue after it changed. *)

\* A part of a queue has its members.
LEMMA ToSetSubSeq ==
  ASSUME NEW q \in Seq(Threads), NEW m \in 1 .. Len(q) + 1, NEW n \in 0 .. Len(q)
  PROVE  ToSet(SubSeq(q, m, n)) \subseteq ToSet(q)
<1>1. Len(q) \in Nat /\ DOMAIN q = 1 .. Len(q)
  BY LenProperties
<1>2. ASSUME NEW i \in DOMAIN SubSeq(q, m, n)
      PROVE  SubSeq(q, m, n)[i] \in ToSet(q)
  <2>1. DOMAIN SubSeq(q, m, n) = 1 .. (IF m <= n THEN n - m + 1 ELSE 0)
    BY <1>1, SubSeqProperties
  <2>2. m + i - 1 \in 1 .. Len(q) /\ SubSeq(q, m, n)[i] = q[m + i - 1]
    BY <1>1, <1>2, <2>1, SubSeqProperties
  <2> QED BY <1>1, <2>2 DEF ToSet
<1> QED BY <1>2 DEF ToSet

\* Two queues put together have the members of both.
LEMMA ToSetConcat ==
  ASSUME NEW q \in Seq(Threads), NEW r \in Seq(Threads)
  PROVE  ToSet(q \o r) \subseteq ToSet(q) \union ToSet(r)
<1>1. ASSUME NEW i \in DOMAIN (q \o r)
      PROVE  (q \o r)[i] \in ToSet(q) \union ToSet(r)
  <2>1. /\ Len(q) \in Nat /\ Len(r) \in Nat /\ DOMAIN q = 1 .. Len(q) /\ DOMAIN r = 1 .. Len(r)
        /\ DOMAIN (q \o r) = 1 .. Len(q) + Len(r)
        /\ (q \o r)[i] = IF i <= Len(q) THEN q[i] ELSE r[i - Len(q)]
    BY LenProperties, ConcatProperties
  <2>2. CASE i <= Len(q)
    BY <2>1, <2>2 DEF ToSet
  <2>3. CASE i > Len(q)
    <3>1. i - Len(q) \in DOMAIN r
      BY <2>1, <2>3
    <3> QED BY <2>1, <2>3, <3>1 DEF ToSet
  <2> QED BY <2>1, <2>2, <2>3
<1> QED BY <1>1 DEF ToSet

\* Queueing adds the thread and nobody else.
LEMMA ToSetInsert ==
  ASSUME NEW q \in Seq(Threads), NEW prio, NEW t \in Threads
  PROVE  ToSet(InsertBehind(q, prio, t)) \subseteq ToSet(q) \union {t}
<1> DEFINE i == 1 + Cardinality({j \in DOMAIN q : prio[q[j]] <= prio[t]})
<1>1. i \in 1 .. Len(q) + 1
  <2>1. {j \in DOMAIN q : prio[q[j]] <= prio[t]} \in SUBSET DOMAIN q
    OBVIOUS
  <2> QED BY <2>1, CountWithin, LenProperties
<1> HIDE DEF i
<1>2. Len(q) \in Nat /\ i - 1 \in 0 .. Len(q)
  BY <1>1, LenProperties
<1>3. SubSeq(q, 1, i - 1) \in Seq(Threads) /\ SubSeq(q, i, Len(q)) \in Seq(Threads)
  BY <1>1, <1>2, SubSeqProperties, ElementOfSeq
<1>4. <<t>> \in Seq(Threads) /\ ToSet(<<t>>) = {t}
  BY DEF ToSet
<1>5. ToSet(SubSeq(q, 1, i - 1)) \subseteq ToSet(q) /\ ToSet(SubSeq(q, i, Len(q))) \subseteq ToSet(q)
  BY <1>1, <1>2, ToSetSubSeq
<1>6. SubSeq(q, 1, i - 1) \o <<t>> \in Seq(Threads)
  BY <1>3, <1>4, ConcatProperties
<1>7. ToSet(SubSeq(q, 1, i - 1) \o <<t>> \o SubSeq(q, i, Len(q))) \subseteq ToSet(q) \union {t}
  BY <1>3, <1>4, <1>5, <1>6, ToSetConcat
<1> QED BY <1>7 DEF InsertBehind, InsertAt, i

\* Dequeueing adds nobody.
LEMMA ToSetRemove ==
  ASSUME NEW q \in Seq(Threads), NEW t
  PROVE  ToSet(Without(q, t)) \subseteq ToSet(q)
<1> SUFFICES ASSUME t \in ToSet(q)
             PROVE  ToSet(RemoveAt(q, IndexOf(q, t))) \subseteq ToSet(q)
  BY DEF Without
<1> DEFINE i == IndexOf(q, t)
<1>1. Len(q) \in Nat /\ DOMAIN q = 1 .. Len(q)
  BY LenProperties
<1>2. i \in 1 .. Len(q)
  BY <1>1 DEF IndexOf, ToSet
<1> HIDE DEF i
<1>3. SubSeq(q, 1, i - 1) \in Seq(Threads) /\ SubSeq(q, i + 1, Len(q)) \in Seq(Threads)
  BY <1>1, <1>2, SubSeqProperties, ElementOfSeq
<1>4. ToSet(SubSeq(q, 1, i - 1)) \subseteq ToSet(q) /\ ToSet(SubSeq(q, i + 1, Len(q))) \subseteq ToSet(q)
  BY <1>1, <1>2, ToSetSubSeq
<1>5. ToSet(SubSeq(q, 1, i - 1) \o SubSeq(q, i + 1, Len(q)))
        \subseteq ToSet(SubSeq(q, 1, i - 1)) \union ToSet(SubSeq(q, i + 1, Len(q)))
  BY <1>3, ToSetConcat
<1>6. ToSet(SubSeq(q, 1, i - 1) \o SubSeq(q, i + 1, Len(q))) \subseteq ToSet(q)
  BY <1>4, <1>5
<1> QED BY <1>6 DEF RemoveAt, i

\* The first and the others are members.
LEMMA ToSetHeadTail ==
  ASSUME NEW q \in Seq(Threads), q # << >>
  PROVE  Head(q) \in ToSet(q) /\ ToSet(Tail(q)) \subseteq ToSet(q)
<1>1. Len(q) \in Nat /\ DOMAIN q = 1 .. Len(q) /\ Len(q) # 0 /\ Head(q) = q[1]
  BY LenProperties, EmptySeq
<1>2. Len(Tail(q)) = Len(q) - 1 /\ \A i \in 1 .. Len(Tail(q)) : Tail(q)[i] = q[i + 1]
  BY <1>1, HeadTailProperties
<1>3. Tail(q) \in Seq(Threads)
  BY HeadTailProperties
<1>4. DOMAIN Tail(q) = 1 .. Len(q) - 1
  BY <1>2, <1>3, LenProperties
<1> QED BY <1>1, <1>2, <1>4 DEF ToSet

-----------------------------------------------------------------------------
(* The steps of a taker. *)

\* A listed critical section has a live owner that can not be stolen from.
LEMMA ListedOwner ==
  ASSUME MutexInv, NEW c \in Crits, cs[c].bListed = 1, Threads # {}
  PROVE  /\ cs[c].owner \in Threads /\ OwnerPth(c) = cs[c].owner /\ cs[c].linkedTo = cs[c].owner
         /\ cs[c].needtrap /\ ~th[cs[c].owner].buried /\ th[cs[c].owner].hLastCrit # c
<1>1. cs[c].owner \in Threads
  BY DEF MutexInv, PairInv, ListOK
<1>2. PairInv(cs[c].owner, c)
  BY <1>1 DEF MutexInv
<1> QED BY <1>1, <1>2 DEF PairInv, ListOK, OutsideOK, OwnerPth

\* Listing changes where a critical section is listed and nothing else.
LEMMA DoLinkEffect ==
  ASSUME NEW crit \in CritType, NEW t
  PROVE  LET new == DoLinkCritMut(crit, t) IN
         /\ new.owner = crit.owner /\ new.low = crit.low /\ new.lockCount = crit.lockCount
         /\ new.needtrap = crit.needtrap /\ new.proxList = crit.proxList
         /\ new.bListed = 1 /\ new.linkedTo = t
BY DEF DoLinkCritMut, CritType

\* Steps that touch no critical section.
LEMMA TakeMoves ==
  ASSUME TypeInv, MutexInv, NEW s \in Threads,
         \/ AllocProxy(s) \/ AllocFails(s) \/ WaitConfig(s) \/ PostBoostCrit2(s)
         \/ CSWaitPart2Signalled(s) \/ CSWaitPart2Abort(s) \/ TakeRetry(s)
  PROVE  MutexInv'
<1>1. /\ Runs(s) /\ pc[s] \in {"t_alloc", "t_config", "t_boost2", "t_part2", "t_after"}
      /\ cs' = cs /\ arg' = arg /\ depth' = depth
  BY DEF AllocProxy, AllocFails, WaitConfig, PostBoostCrit2, CSWaitPart2Signalled,
         CSWaitPart2Abort, TakeRetry, At, Fault
<1>2. PICK d \in Crits : arg[s] = d
  BY <1>1, Taker DEF TakeSteps
<1> th[s].hLastCrit = NoCrit /\ PairInv(s, d)
  BY <1>1, Taker DEF TakeSteps, MutexInv
<1>3. \A t \in Threads : /\ th'[t].dead = th[t].dead /\ th'[t].buried = th[t].buried
                         /\ th'[t].hLastCrit = th[t].hLastCrit
  <2>1. CASE th' = th
    BY <2>1
  <2>2. CASE AllocProxy(s)
    BY <2>2 DEF AllocProxy, TypeInv, TypeOK, ThreadType
  <2>3. CASE WaitConfig(s)
    BY <2>3 DEF WaitConfig, TypeInv, TypeOK, ThreadType
  <2>4. CASE CSWaitPart2Abort(s)
    BY <2>4 DEF CSWaitPart2Abort, Signalled, TypeInv, TypeOK, ThreadType
  <2>5. CASE TakeRetry(s)
    BY <2>5 DEF TakeRetry, TypeInv, TypeOK, ThreadType
  <2> QED BY <2>1, <2>2, <2>3, <2>4, <2>5 DEF AllocFails, PostBoostCrit2, CSWaitPart2Signalled, Fault
<1>4. /\ \A t \in Threads \ {s} : pc'[t] = pc[t]
      /\ pc'[s] \in {"t_alloc", "t_config", "t_part1", "t_part2", "t_after", "t_final", "fault"}
      /\ pc'[s] \in {"t_part2", "t_after", "fault"}
         \/ pc[s] \in {"t_alloc", "t_config"} \/ s \notin ToSet(cs[d].proxList)
      /\ pc'[s] = "t_final" => Owns(s, d)
  BY <1>2 DEF AllocProxy, AllocFails, WaitConfig, PostBoostCrit2, CSWaitPart2Signalled,
              CSWaitPart2Abort, TakeRetry, At, Fault, Goto, TypeInv, TypeOK
<1>5. s \in ToSet(cs[d].proxList) => pc'[s] \in QueuedSteps
  BY <1>1, <1>2, <1>4 DEF PairInv, WaitOK, InCall, QueuedSteps
<1>6. sched'.running \in {sched.running, NoThread}
  <2>1. CASE sched' = sched
    BY <2>1
  <2>2. CASE AllocFails(s)
    BY <1>1, <2>2, YieldIdles DEF AllocFails, Runs, TypeInv, TypeOK
  <2>3. CASE PostBoostCrit2(s) /\ sched' # sched
    <3>1. /\ OwnerPth(d) # NoThread
          /\ sched' = BoostCPrio(sched, OwnerPth(d), HeadPrio(cs[d]))
      BY <1>2, <2>3 DEF PostBoostCrit2, Fault
    <3>2. OwnerPth(d) \in Threads /\ HeadPrio(cs[d]) \in Priority
      BY <1>2, <3>1, OwnerPthType, HeadPrioType, TypeInvSplit DEF DataOK
    <3> QED BY <3>1, <3>2, RunningKept DEF TypeInv, TypeOK
  <2> QED BY <2>1, <2>2, <2>3
          DEF AllocProxy, WaitConfig, CSWaitPart2Signalled, CSWaitPart2Abort, TakeRetry
<1>7. OthersStay(s, d)
  BY <1>1, <1>3, <1>4, <1>6 DEF OthersStay
<1>8. TakeEdit(s, d)
  BY <1>1, <1>2, <1>3, <1>4, <1>5, <1>7 DEF TakeEdit, TakeSteps
<1> QED BY <1>1, <1>2, <1>8, TakeEdits DEF TakeSteps

\* The owner's list: LaterLinkCritMut, PostBoostCrit1 and DoReprioCrit.
LEMMA TakeLists ==
  ASSUME TypeInv, MutexInv, NEW s \in Threads,
         LaterLinkCritMut(s) \/ PostBoostCrit1(s) \/ DoReprioCrit(s)
  PROVE  MutexInv'
<1>1. /\ Runs(s) /\ pc[s] \in {"t_link", "t_boost1", "t_reprio"}
      /\ arg' = arg /\ depth' = depth /\ sched' = sched /\ th' = th
      /\ \A t \in Threads \ {s} : pc'[t] = pc[t]
      /\ pc'[s] \in {"t_after", "t_boost2", "fault"}
  BY DEF LaterLinkCritMut, PostBoostCrit1, DoReprioCrit, At, Fault, Goto, TypeInv, TypeOK
<1>0. PICK d \in Crits : arg[s] = d
  BY <1>1, Taker DEF TakeSteps
<1> DEFINE o == OwnerPth(d)
<1>2. /\ th[s].hLastCrit = NoCrit /\ ~th[s].buried /\ PairInv(s, d)
      /\ cs[d] \in CritType /\ d # NoCrit
  <2>1. cs[d] \in CritType /\ d # NoCrit /\ PairInv(s, d)
    BY CritAssumption DEF MutexInv, TypeInv, TypeOK, NoCrit
  <2> QED BY <1>1, <2>1, Taker DEF TakeSteps
<1>3. \/ cs' = cs
      \/ /\ cs' = [cs EXCEPT ![d] = DoLinkCritMut(cs[d], cs[d].owner)]
         /\ cs[d].owner \in Threads /\ cs[d].needtrap
         /\ ~th[cs[d].owner].buried /\ th[cs[d].owner].hLastCrit # d
  <2>1. CASE LaterLinkCritMut(s)
    <3>1. cs' = cs \/ /\ cs' = [cs EXCEPT ![d] = DoLinkCritMut(cs[d], s)] /\ cs[d].owner = s
                      /\ cs[d].needtrap
      BY <1>0, <1>2, <2>1 DEF LaterLinkCritMut, LinkCritMut, Owns, TypeInv, TypeOK
    <3> QED BY <1>2, <3>1
  <2>2. CASE cs[d].bListed # 1 /\ (PostBoostCrit1(s) \/ DoReprioCrit(s))
    BY <1>0, <1>2, <2>2 DEF PostBoostCrit1, DoReprioCrit, Fault, ReprioCritMut, TypeInv, TypeOK
  <2>3. CASE cs[d].bListed = 1 /\ (PostBoostCrit1(s) \/ DoReprioCrit(s))
    <3>1. cs' = cs \/ cs' = [cs EXCEPT ![d] = DoLinkCritMut(cs[d], o)]
      BY <1>0, <1>2, <2>3 DEF PostBoostCrit1, DoReprioCrit, Fault, ReprioCritMut, TypeInv, TypeOK
    <3>2. /\ o = cs[d].owner /\ cs[d].owner \in Threads /\ cs[d].needtrap
          /\ ~th[cs[d].owner].buried /\ th[cs[d].owner].hLastCrit # d
      BY <1>0, <1>2, <2>3, ListedOwner
    <3> QED BY <3>1, <3>2
  <2> QED BY <2>1, <2>2, <2>3
<1>4. /\ \A c \in Crits \ {d} : cs'[c] = cs[c]
      /\ cs'[d].owner = cs[d].owner /\ cs'[d].low = cs[d].low
      /\ cs'[d].lockCount = cs[d].lockCount /\ cs'[d].needtrap = cs[d].needtrap
      /\ cs'[d].proxList = cs[d].proxList
      /\ \/ cs'[d].bListed = cs[d].bListed /\ cs'[d].linkedTo = cs[d].linkedTo
         \/ /\ cs[d].owner \in Threads /\ cs'[d].linkedTo = cs[d].owner
            /\ cs'[d].bListed = 1 /\ cs'[d].needtrap
            /\ ~th[cs[d].owner].buried /\ th'[cs[d].owner].hLastCrit # d
  <2>1. CASE cs' = cs
    BY <2>1
  <2>2. CASE cs' # cs
    <3>1. cs' = [cs EXCEPT ![d] = DoLinkCritMut(cs[d], cs[d].owner)]
      BY <1>3, <2>2
    <3>2. cs'[d] = DoLinkCritMut(cs[d], cs[d].owner) /\ \A c \in Crits \ {d} : cs'[c] = cs[c]
      BY <3>1 DEF TypeInv, TypeOK
    <3>3. /\ cs'[d].owner = cs[d].owner /\ cs'[d].low = cs[d].low
          /\ cs'[d].lockCount = cs[d].lockCount /\ cs'[d].needtrap = cs[d].needtrap
          /\ cs'[d].proxList = cs[d].proxList
          /\ cs'[d].linkedTo = cs[d].owner /\ cs'[d].bListed = 1
      BY <1>2, <3>2, DoLinkEffect
    <3> QED BY <1>1, <1>3, <2>2, <3>2, <3>3
  <2> QED BY <2>1, <2>2
<1>5. s \in ToSet(cs[d].proxList) => pc'[s] \in QueuedSteps
  BY <1>1 DEF QueuedSteps
<1>6. OthersStay(s, d)
  BY <1>1, <1>4 DEF OthersStay
<1>7. TakeEdit(s, d)
  BY <1>0, <1>1, <1>2, <1>4, <1>5, <1>6 DEF TakeEdit, TakeSteps
<1> QED BY <1>0, <1>1, <1>7, TakeEdits DEF TakeSteps

\* Queueing the proxy: nobody may be about to free the word without looking.
LEMMA PendMutex ==
  ASSUME TypeInv, MutexInv, NEW s \in Threads, CSWaitPart1Pend(s)
  PROVE  MutexInv'
<1>1. /\ Runs(s) /\ pc[s] = "t_part1"
      /\ arg' = arg /\ depth' = depth /\ sched' = sched /\ th' = th
      /\ \A t \in Threads \ {s} : pc'[t] = pc[t]
      /\ pc'[s] \in {"t_boost1", "t_part2"}
  BY DEF CSWaitPart1Pend, At, Goto, TypeInv, TypeOK
<1>2. PICK d \in Crits : arg[s] = d
  BY <1>1, Taker DEF TakeSteps
<1>3. /\ th[s].hLastCrit = NoCrit
      /\ cs[d] \in CritType /\ cs[d].proxList \in Seq(Threads)
  BY <1>1, Taker DEF TakeSteps, TypeInv, TypeOK, CritType
<1>4. /\ cs' = [cs EXCEPT ![d].proxList = InsertBehind(cs[d].proxList, ProxPrio, s),
                          ![d].needtrap = TRUE]
      /\ cs[d].low => cs[d].needtrap
  BY <1>2, <1>3 DEF CSWaitPart1Pend, CanTake, TypeInv, TypeOK
<1>5. /\ \A c \in Crits \ {d} : cs'[c] = cs[c]
      /\ cs'[d].owner = cs[d].owner /\ cs'[d].low = cs[d].low
      /\ cs'[d].lockCount = cs[d].lockCount /\ cs'[d].needtrap
      /\ cs'[d].bListed = cs[d].bListed /\ cs'[d].linkedTo = cs[d].linkedTo
      /\ cs'[d].proxList = InsertBehind(cs[d].proxList, ProxPrio, s)
  BY <1>3, <1>4 DEF TypeInv, TypeOK, CritType
<1>6. ToSet(cs'[d].proxList) \subseteq ToSet(cs[d].proxList) \union {s}
  BY <1>3, <1>5, ToSetInsert
<1>7. TakeEdit(s, d)
  BY <1>1, <1>2, <1>3, <1>4, <1>5, <1>6 DEF TakeEdit, OthersStay, TakeSteps, QueuedSteps
<1> QED BY <1>1, <1>2, <1>7, TakeEdits DEF TakeSteps

\* A proxy taken out again.
LEMMA DequeueMutex ==
  ASSUME TypeInv, MutexInv, NEW s \in Threads, DequeuePrioProxy(s)
  PROVE  MutexInv'
<1>1. /\ Runs(s) /\ pc[s] = "t_after"
      /\ arg' = arg /\ depth' = depth /\ sched' = sched /\ th' = th
      /\ \A t \in Threads \ {s} : pc'[t] = pc[t]
      /\ pc'[s] \in {"t_reprio", "t_after"}
  BY DEF DequeuePrioProxy, At, Goto, TypeInv, TypeOK
<1>2. PICK d \in Crits : arg[s] = d
  BY <1>1, Taker DEF TakeSteps
<1>3. /\ th[s].hLastCrit = NoCrit
      /\ cs[d] \in CritType /\ cs[d].proxList \in Seq(Threads)
  BY <1>1, Taker DEF TakeSteps, TypeInv, TypeOK, CritType
<1>4. cs' = [cs EXCEPT ![d].proxList = Without(cs[d].proxList, s)]
  BY <1>2 DEF DequeuePrioProxy
<1>5. /\ \A c \in Crits \ {d} : cs'[c] = cs[c]
      /\ cs'[d].owner = cs[d].owner /\ cs'[d].low = cs[d].low
      /\ cs'[d].lockCount = cs[d].lockCount /\ cs'[d].needtrap = cs[d].needtrap
      /\ cs'[d].bListed = cs[d].bListed /\ cs'[d].linkedTo = cs[d].linkedTo
      /\ cs'[d].proxList = Without(cs[d].proxList, s)
  BY <1>3, <1>4 DEF TypeInv, TypeOK, CritType
<1>6. ToSet(cs'[d].proxList) \subseteq ToSet(cs[d].proxList)
  BY <1>3, <1>5, ToSetRemove
<1>7. TakeEdit(s, d)
  BY <1>1, <1>2, <1>3, <1>5, <1>6 DEF TakeEdit, OthersStay, TakeSteps, QueuedSteps
<1> QED BY <1>1, <1>2, <1>7, TakeEdits DEF TakeSteps

\* Blocking: the critical section is listed with its owner, which can not be
\* stolen from any more.
LEMMA BlockedMutex ==
  ASSUME TypeInv, MutexInv, NEW s \in Threads, CSWaitPart2Block(s)
  PROVE  MutexInv'
<1>1. /\ Runs(s) /\ pc[s] = "t_part2" /\ arg' = arg /\ depth' = depth
      /\ \A t \in Threads \ {s} : pc'[t] = pc[t]
      /\ pc'[s] \in {"t_after", "fault"}
  BY DEF CSWaitPart2Block, Fault, At, Goto, TypeInv, TypeOK
<1>2. PICK d \in Crits : arg[s] = d
  BY <1>1, Taker DEF TakeSteps
<1> DEFINE o == OwnerPth(d)
<1>3. /\ th[s].hLastCrit = NoCrit /\ th \in [Threads -> ThreadType] /\ d # NoCrit
      /\ cs[d] \in CritType /\ cs \in [Crits -> CritType]
  BY <1>1, Taker, CritAssumption DEF TakeSteps, TypeInv, TypeOK, NoCrit
<1>4. sched'.running \in {sched.running, NoThread}
  <2>1. sched' = sched \/ sched' = BlockCurrent(sched)
    BY DEF CSWaitPart2Block, Fault
  <2>2. BlockCurrent(sched).running = NoThread
    BY DEF BlockCurrent, TypeInv, TypeOK, SchedType
  <2> QED BY <2>1, <2>2
<1>5. \/ cs' = cs /\ th' = th
      \/ cs' = cs /\ th' = [th EXCEPT ![s].wait = "BLOCKED"]
      \/ /\ o \in Threads /\ o = cs[d].owner
         /\ cs' = [cs EXCEPT ![d] = LinkCritMut(cs[d], o)]
         /\ th' = [th EXCEPT ![o] = NotStealable(th[o]), ![s].wait = "BLOCKED"]
  BY <1>2, <1>3, NoThreadAssumption DEF CSWaitPart2Block, Fault, OwnerPth
<1>6. \A t \in Threads : /\ th'[t].dead = th[t].dead /\ th'[t].buried = th[t].buried
                         /\ th'[t].hLastCrit \in {th[t].hLastCrit, NoCrit}
  BY <1>3, <1>5 DEF NotStealable, ThreadType
<1>7. /\ \A c \in Crits \ {d} : cs'[c] = cs[c]
      /\ cs'[d].owner = cs[d].owner /\ cs'[d].low = cs[d].low
      /\ cs'[d].lockCount = cs[d].lockCount /\ cs'[d].needtrap = cs[d].needtrap
      /\ cs'[d].proxList = cs[d].proxList
      /\ \/ cs'[d].bListed = cs[d].bListed /\ cs'[d].linkedTo = cs[d].linkedTo
         \/ /\ cs[d].owner \in Threads /\ cs'[d].linkedTo = cs[d].owner
            /\ cs'[d].bListed = 1 /\ cs'[d].needtrap
            /\ ~th[cs[d].owner].buried /\ th'[cs[d].owner].hLastCrit # d
  <2>1. CASE cs' = cs
    BY <2>1
  <2>2. CASE cs' # cs
    <3>1. /\ o \in Threads /\ o = cs[d].owner /\ cs' = [cs EXCEPT ![d] = LinkCritMut(cs[d], o)]
          /\ th' = [th EXCEPT ![o] = NotStealable(th[o]), ![s].wait = "BLOCKED"]
      BY <1>5, <2>2
    <3>2. cs'[d] = LinkCritMut(cs[d], o) /\ \A c \in Crits \ {d} : cs'[c] = cs[c]
      BY <1>3, <3>1
    <3>3. th'[o].hLastCrit # d
      BY <1>3, <3>1 DEF NotStealable, ThreadType
    <3>4. CASE cs[d].needtrap /\ ~th[o].buried
      <4>1. cs'[d] = DoLinkCritMut(cs[d], o)
        BY <3>2, <3>4 DEF LinkCritMut
      <4>2. /\ cs'[d].owner = cs[d].owner /\ cs'[d].low = cs[d].low
            /\ cs'[d].lockCount = cs[d].lockCount /\ cs'[d].needtrap = cs[d].needtrap
            /\ cs'[d].proxList = cs[d].proxList
            /\ cs'[d].linkedTo = o /\ cs'[d].bListed = 1
        BY <1>3, <4>1, DoLinkEffect
      <4> QED BY <3>1, <3>2, <3>3, <3>4, <4>2
    <3>5. CASE ~(cs[d].needtrap /\ ~th[o].buried)
      BY <3>2, <3>5 DEF LinkCritMut
    <3> QED BY <3>4, <3>5
  <2> QED BY <2>1, <2>2
<1>8. s \in ToSet(cs'[d].proxList) => pc'[s] \in QueuedSteps
  BY <1>1 DEF QueuedSteps
<1>9. TakeEdit(s, d)
  BY <1>1, <1>2, <1>3, <1>4, <1>6, <1>7, <1>8 DEF TakeEdit, OthersStay, TakeSteps
<1> QED BY <1>1, <1>2, <1>9, TakeEdits DEF TakeSteps

-----------------------------------------------------------------------------
(* Becoming the owner. *)

\* s becomes the owner of a critical section that nobody else relies on owning.
LEMMA TakesOver ==
  ASSUME TypeInv, MutexInv, NEW s \in Threads, Runs(s), pc[s] = "t_part1",
         NEW d \in Crits, arg[s] = d, OthersStay(s, d),
         pc'[s] \in {"t_link", "t_after"}, arg'[s] = d,
         \A c \in Crits : depth'[s][c] = depth[s][c],
         th'[s].dead = th[s].dead, th'[s].buried = th[s].buried, th'[s].hLastCrit = NoCrit,
         cs'[d].owner = s, ~cs'[d].low, cs'[d].lockCount = 1,
         cs[d].bListed # 1, cs'[d].bListed = cs[d].bListed, cs'[d].proxList = cs[d].proxList,
         \A t \in Threads \ {s} :
           Owns(t, d) => depth[t][d] = 0 /\ ~InCall(t, d, {"e_count", "t_final", "l_leave"})
  PROVE  MutexInv'
<1>1. /\ depth[s][d] = 0 /\ ~th[s].dead /\ ~th[s].buried /\ th[s].hLastCrit = NoCrit
      /\ NoThread \notin Threads
  BY Taker, NoThreadAssumption DEF TakeSteps
<1>2. \A c \in Crits : c # NoCrit /\ PairInv(s, c)
  BY CritAssumption DEF MutexInv, NoCrit
<1>3. ASSUME NEW c \in Crits \ {d}
      PROVE  PairInv(s, c)'
  <2>1. cs'[c] = cs[c] /\ PairInv(s, c) /\ c # NoCrit
    BY <1>2 DEF OthersStay
  <2> QED BY <1>1, <2>1
     DEF PairInv, EntryOK, OutsideOK, CallerOK, OwnOK, MarkOK, ListOK, WaitOK, Owns, Leaving,
         InCall, TakeSteps, ExitSteps, DeadSteps, LeaveSteps, QueuedSteps
<1>4. PairInv(s, d)'
  <2>1. PairInv(s, d) /\ depth'[s][d] = 0 /\ d # NoCrit
    BY <1>1, <1>2
  <2>2. EntryOK(s, d)' /\ OutsideOK(s, d)' /\ CallerOK(s, d)' /\ OwnOK(s, d)'
    BY <1>1, <2>1
       DEF PairInv, EntryOK, OutsideOK, CallerOK, OwnOK, Owns, InCall, TakeSteps, ExitSteps,
           DeadSteps, LeaveSteps
  <2>3. MarkOK(s, d)' /\ ListOK(s, d)'
    BY <1>1, <2>1 DEF PairInv, MarkOK, ListOK, Leaving, InCall, ExitSteps
  <2>4. WaitOK(s, d)'
    BY <1>1, <2>1 DEF PairInv, WaitOK, InCall, QueuedSteps
  <2> QED BY <2>2, <2>3, <2>4 DEF PairInv
<1>5. ASSUME NEW t \in Threads \ {s}
      PROVE  PairInv(t, d)'
  <2>1. /\ PairInv(t, d) /\ d # NoCrit
        /\ pc'[t] = pc[t] /\ arg'[t] = arg[t] /\ depth'[t][d] = depth[t][d]
        /\ th'[t].dead = th[t].dead /\ th'[t].buried = th[t].buried
        /\ th'[t].hLastCrit \in {th[t].hLastCrit, NoCrit}
        /\ sched'.running = t => sched.running = t
    BY <1>1, <1>2 DEF MutexInv, OthersStay
  <2>2. EntryOK(t, d)' /\ OutsideOK(t, d)' /\ CallerOK(t, d)' /\ OwnOK(t, d)'
    BY <2>1 DEF PairInv, EntryOK, OutsideOK, CallerOK, OwnOK, Owns, InCall
  <2>3. MarkOK(t, d)' /\ ListOK(t, d)' /\ WaitOK(t, d)'
    BY <2>1 DEF PairInv, MarkOK, ListOK, WaitOK, Leaving, InCall
  <2> QED BY <2>2, <2>3 DEF PairInv
<1> QED BY <1>3, <1>4, <1>5, StepMutex

\* What CSWaitPart1 takes has no owner that lives and has entered it.
LEMMA TakeMutex ==
  ASSUME TypeInv, MutexInv, NEW s \in Threads, CSWaitPart1Take(s)
  PROVE  MutexInv'
<1>1. /\ Runs(s) /\ pc[s] = "t_part1" /\ pc'[s] = "t_after"
      /\ arg' = arg /\ depth' = depth /\ sched' = sched
      /\ \A t \in Threads \ {s} : pc'[t] = pc[t]
  BY DEF CSWaitPart1Take, At, Goto, TypeInv, TypeOK
<1>2. PICK d \in Crits : arg[s] = d
  BY <1>1, Taker DEF TakeSteps
<1>3. /\ th[s].hLastCrit = NoCrit /\ th \in [Threads -> ThreadType]
      /\ cs[d] \in CritType /\ cs \in [Crits -> CritType] /\ NoThread \notin Threads
  BY <1>1, Taker, NoThreadAssumption DEF TakeSteps, TypeInv, TypeOK
<1>4. /\ \A c \in Crits \ {d} : cs'[c] = cs[c]
      /\ cs'[d].owner = s /\ cs'[d].low = FALSE /\ cs'[d].lockCount = 1
      /\ cs'[d].bListed = cs[d].bListed /\ cs'[d].proxList = cs[d].proxList
  BY <1>2, <1>3 DEF CSWaitPart1Take, CritType
<1>5. \A t \in Threads : /\ th'[t].dead = th[t].dead /\ th'[t].buried = th[t].buried
                         /\ th'[t].hLastCrit = th[t].hLastCrit
  BY <1>3 DEF CSWaitPart1Take, Signalled, ThreadType
<1>6. CanTake(d)
  BY <1>2 DEF CSWaitPart1Take
<1>7. ASSUME NEW t \in Threads, cs[d].owner = t
      PROVE  /\ cs[d].bListed # 1
             /\ ~cs[d].low => depth[t][d] = 0 /\ pc[t] \in ExitSteps
  <2>1. PairInv(t, d) /\ t # NoThread
    BY <1>3 DEF MutexInv
  <2>2. CASE ~cs[d].needtrap /\ cs[d].low
    BY <1>7, <2>1, <2>2 DEF PairInv, ListOK
  <2>3. CASE pc[t] = "gone"
    BY <1>7, <2>1, <2>3 DEF PairInv, OutsideOK, ListOK, ExitSteps
  <2>4. CASE cs[d].bListed # 1 /\ th[t].buried
    BY <1>7, <2>1, <2>4 DEF PairInv, OutsideOK, ExitSteps
  <2> QED BY <1>6, <1>7, <2>1, <2>2, <2>3, <2>4 DEF CanTake, OwnerPth
<1>8. cs[d].bListed # 1
  <2>1. CASE cs[d].owner \in Threads
    BY <1>7, <2>1
  <2>2. CASE cs[d].owner \notin Threads
    BY <2>2 DEF MutexInv, PairInv, ListOK
  <2> QED BY <2>1, <2>2
<1>9. \A t \in Threads \ {s} :
        Owns(t, d) => depth[t][d] = 0 /\ ~InCall(t, d, {"e_count", "t_final", "l_leave"})
  BY <1>7 DEF Owns, InCall, ExitSteps
<1>10. OthersStay(s, d)
  BY <1>1, <1>4, <1>5 DEF OthersStay
<1> QED BY <1>1, <1>2, <1>3, <1>4, <1>5, <1>8, <1>9, <1>10, TakesOver DEF TakeSteps

\* What is stolen belongs to a thread still in its own call.
LEMMA StealMutex ==
  ASSUME TypeInv, MutexInv, NEW s \in Threads, CSWaitPart1Steal(s)
  PROVE  MutexInv'
<1>1. /\ Runs(s) /\ pc[s] = "t_part1" /\ pc'[s] \in {"t_link", "t_after"}
      /\ arg' = arg /\ depth' = depth /\ sched' = sched
      /\ \A t \in Threads \ {s} : pc'[t] = pc[t]
  BY DEF CSWaitPart1Steal, At, Goto, TypeInv, TypeOK
<1>2. PICK d \in Crits : arg[s] = d
  BY <1>1, Taker DEF TakeSteps
<1>3. /\ th[s].hLastCrit = NoCrit /\ th \in [Threads -> ThreadType]
      /\ cs[d] \in CritType /\ cs \in [Crits -> CritType] /\ NoThread \notin Threads
  BY <1>1, Taker, NoThreadAssumption DEF TakeSteps, TypeInv, TypeOK
<1>4. /\ \A c \in Crits \ {d} : cs'[c] = cs[c]
      /\ cs'[d].owner = s /\ cs'[d].low = FALSE /\ cs'[d].lockCount = cs[d].lockCount
      /\ cs'[d].bListed = cs[d].bListed /\ cs'[d].proxList = cs[d].proxList
  BY <1>2, <1>3 DEF CSWaitPart1Steal, CritType
<1>5. \A t \in Threads : /\ th'[t].dead = th[t].dead /\ th'[t].buried = th[t].buried
                         /\ th'[t].hLastCrit = th[t].hLastCrit
  BY <1>3 DEF CSWaitPart1Steal, Signalled, ThreadType
<1>6. CanSteal(s, d)
  BY <1>2 DEF CSWaitPart1Steal
<1> DEFINE o == cs[d].owner
<1>7. o \in Threads /\ th[o].hLastCrit = d
  BY <1>3, <1>6 DEF CanSteal, CanTake, OwnerPth
<1>8. /\ pc[o] \in TakeSteps \intersect QueuedSteps /\ arg[o] = d /\ depth[o][d] = 0
      /\ cs[d].lockCount = 1 /\ cs[d].bListed # 1
  <2>1. PairInv(o, d)
    BY <1>7 DEF MutexInv
  <2>2. pc[o] \in QueuedSteps /\ arg[o] = d /\ pc[o] # "fault"
    BY <1>1, <1>7, <2>1, Actor DEF PairInv, WaitOK, InCall
  <2>3. pc[o] \in TakeSteps
    BY <2>2 DEF QueuedSteps, TakeSteps
  <2> QED BY <1>7, <2>1, <2>2, <2>3 DEF PairInv, OutsideOK, CallerOK, ListOK, InCall
<1>9. \A t \in Threads \ {s} :
        Owns(t, d) => depth[t][d] = 0 /\ ~InCall(t, d, {"e_count", "t_final", "l_leave"})
  BY <1>8 DEF Owns, InCall, QueuedSteps
<1>10. OthersStay(s, d)
  BY <1>1, <1>4, <1>5 DEF OthersStay
<1> QED BY <1>1, <1>2, <1>3, <1>4, <1>5, <1>8, <1>9, <1>10, TakesOver DEF TakeSteps

-----------------------------------------------------------------------------
(* Returning from SC_TakeCritSec. *)

\* CSWAIT_ABORT: a dying thread returns without the critical section.
LEMMA AbortMutex ==
  ASSUME TypeInv, MutexInv, NEW s \in Threads, CSWaitPart1Abort(s)
  PROVE  MutexInv'
<1>1. /\ Runs(s) /\ pc[s] = "t_part1" /\ th[s].dying /\ ~th[s].dead
      /\ cs' = cs /\ sched' = sched /\ ReturnToUser(s, {})
  BY DEF CSWaitPart1Abort, At, MustAbort
<1>2. /\ th[s].hLastCrit = NoCrit /\ ~th[s].buried /\ th \in [Threads -> ThreadType]
  BY <1>1, Taker DEF TakeSteps, TypeInv, TypeOK
<1>3. /\ pc'[s] = "x_start" /\ arg'[s] = NoCrit
      /\ \A c \in Crits : depth'[s][c] = 0
      /\ \A t \in Threads \ {s} : /\ pc'[t] = pc[t] /\ arg'[t] = arg[t]
                                  /\ \A c \in Crits : depth'[t][c] = depth[t][c]
  BY <1>1, ReturnEffect
<1>4. \A t \in Threads : /\ th'[t].dead = th[t].dead /\ th'[t].buried = th[t].buried
                         /\ th'[t].hLastCrit = th[t].hLastCrit
  BY <1>2 DEF CSWaitPart1Abort, Signalled, ThreadType
<1>5. OthersStay(s, NoCrit)
  BY <1>1, <1>3, <1>4 DEF OthersStay
<1>6. ASSUME NEW c \in Crits
      PROVE  PairInv(s, c)'
  <2>1. PairInv(s, c) /\ c # NoCrit
    BY CritAssumption DEF MutexInv, NoCrit
  <2> QED BY <1>1, <1>2, <1>3, <1>4, <2>1
       DEF PairInv, EntryOK, OutsideOK, CallerOK, OwnOK, MarkOK, ListOK, WaitOK, Owns, Leaving,
           InCall, TakeSteps, ExitSteps, DeadSteps, LeaveSteps, QueuedSteps
<1> QED BY <1>5, <1>6, StepMutex, CritAssumption DEF NoCrit

\* CritFinalBoost, and the return with the critical section.
LEMMA FinalBoostMutex ==
  ASSUME TypeInv, MutexInv, NEW s \in Threads, CritFinalBoost(s)
  PROVE  MutexInv'
<1>1. Runs(s) /\ pc[s] = "t_final" /\ th' = th /\ arg[s] \in Crits
  BY Taker DEF CritFinalBoost, At, TakeSteps
<1>2. PICK d \in Crits : arg[s] = d
  BY <1>1
<1>3. /\ th[s].hLastCrit = NoCrit /\ ~th[s].buried /\ ~th[s].dead /\ depth[s][d] = 0
      /\ cs[d] \in CritType /\ cs \in [Crits -> CritType]
      /\ cs[d].owner = s /\ ~cs[d].low /\ cs[d].lockCount = 1
  <2>1. PairInv(s, d)
    BY DEF MutexInv
  <2> QED BY <1>1, <1>2, <2>1, Taker DEF PairInv, CallerOK, Owns, InCall, TakeSteps, TypeInv, TypeOK
<1>4. ReturnToUser(s, {d})
  BY <1>2 DEF CritFinalBoost
<1>5. /\ arg'[s] = NoCrit /\ pc'[s] \in {"x_start", "user"}
      /\ pc'[s] # "user" => \A c \in Crits : depth'[s][c] = 0
      /\ pc'[s] = "user" => \A c \in Crits : depth'[s][c] = IF c = d THEN 1 ELSE depth[s][c]
      /\ \A t \in Threads \ {s} : /\ pc'[t] = pc[t] /\ arg'[t] = arg[t]
                                  /\ \A c \in Crits : depth'[t][c] = depth[t][c]
  BY <1>3, <1>4, ReturnEffect
<1>6. /\ \A c \in Crits \ {d} : cs'[c] = cs[c]
      /\ cs'[d].owner = cs[d].owner /\ cs'[d].low = cs[d].low
      /\ cs'[d].lockCount = cs[d].lockCount /\ cs'[d].needtrap = cs[d].needtrap
      /\ cs'[d].proxList = cs[d].proxList
      /\ \/ cs'[d].bListed = cs[d].bListed /\ cs'[d].linkedTo = cs[d].linkedTo
         \/ cs'[d].bListed = 1 /\ cs'[d].linkedTo = s /\ cs'[d].needtrap
  <2>1. /\ \A c \in Crits \ {d} : cs'[c] = cs[c]
        /\ cs'[d] \in {cs[d], LinkCritMut(cs[d], s)}
    BY <1>2, <1>3 DEF CritFinalBoost
  <2>2. \/ cs'[d] = cs[d]
        \/ cs[d].needtrap /\ cs'[d] = DoLinkCritMut(cs[d], s)
    BY <2>1 DEF LinkCritMut
  <2>3. CASE cs'[d] = cs[d]
    BY <1>3, <2>1, <2>3
  <2>4. CASE cs[d].needtrap /\ cs'[d] = DoLinkCritMut(cs[d], s)
    <3>1. cs[d] \in CritType /\ cs'[d] = DoLinkCritMut(cs[d], s)
      BY <1>3, <2>4
    <3>2. /\ cs'[d].owner = cs[d].owner /\ cs'[d].low = cs[d].low
          /\ cs'[d].lockCount = cs[d].lockCount /\ cs'[d].needtrap = cs[d].needtrap
          /\ cs'[d].proxList = cs[d].proxList
          /\ cs'[d].bListed = 1 /\ cs'[d].linkedTo = s
      BY <3>1, DoLinkEffect
    <3> QED BY <2>1, <2>4, <3>2
  <2> QED BY <2>2, <2>3, <2>4
<1>7. sched'.running = sched.running
  BY DEF CritFinalBoost, TypeInv, TypeOK, SchedType
<1>8. OthersStay(s, d)
  BY <1>1, <1>5, <1>6, <1>7 DEF OthersStay
<1>9. ASSUME NEW c \in Crits \ {d}
      PROVE  PairInv(s, c)'
  <2>1. PairInv(s, c) /\ c # NoCrit /\ cs'[c] = cs[c] /\ depth'[s][c] \in {0, depth[s][c]}
    BY <1>5, <1>6, CritAssumption DEF MutexInv, NoCrit
  <2> QED BY <1>1, <1>2, <1>3, <1>5, <2>1
       DEF PairInv, EntryOK, OutsideOK, CallerOK, OwnOK, MarkOK, ListOK, WaitOK, Owns, Leaving,
           InCall, TakeSteps, ExitSteps, DeadSteps, LeaveSteps, QueuedSteps
<1>10. PairInv(s, d)'
  <2>1. PairInv(s, d) /\ d # NoCrit
    BY CritAssumption DEF MutexInv, NoCrit
  <2> QED BY <1>1, <1>2, <1>3, <1>5, <1>6, <2>1
       DEF PairInv, EntryOK, OutsideOK, CallerOK, OwnOK, MarkOK, ListOK, WaitOK, Owns, Leaving,
           InCall, TakeSteps, ExitSteps, DeadSteps, LeaveSteps, QueuedSteps
<1>11. ASSUME NEW t \in Threads \ {s}
       PROVE  PairInv(t, d)'
  <2>1. /\ PairInv(t, d) /\ NoThread \notin Threads
        /\ pc'[t] = pc[t] /\ arg'[t] = arg[t] /\ depth'[t][d] = depth[t][d] /\ th' = th
        /\ sched'.running = t => sched.running = t
    BY <1>1, <1>5, <1>7, NoThreadAssumption DEF MutexInv
  <2> QED BY <1>3, <1>6, <2>1
       DEF PairInv, EntryOK, OutsideOK, CallerOK, OwnOK, MarkOK, ListOK, WaitOK, Owns, Leaving, InCall
<1>12. \A c \in Crits : PairInv(s, c)'
  BY <1>9, <1>10
<1> QED BY <1>8, <1>11, <1>12, StepMutex

-----------------------------------------------------------------------------
(* LeaveCriticalSection, user mode. *)

\* An inner leave counts down and stays the owner.
LEMMA LeaveNestedMutex ==
  ASSUME TypeInv, MutexInv, NEW s \in Threads, NEW d \in Crits, LeaveNested(s, d)
  PROVE  MutexInv'
<1>1. /\ Runs(s) /\ pc[s] = "user" /\ depth[s][d] > 0 /\ cs[d].owner = s /\ ~cs[d].low
      /\ cs[d].lockCount # 1
      /\ sched' = sched /\ th' = th /\ pc' = pc /\ arg' = arg
  BY DEF LeaveNested, At, Owns
<1>2. /\ cs'[d].lockCount = cs[d].lockCount - 1 /\ cs'[d].owner = s /\ ~cs'[d].low
      /\ cs'[d].needtrap = cs[d].needtrap /\ cs'[d].bListed = cs[d].bListed
      /\ cs'[d].linkedTo = cs[d].linkedTo /\ cs'[d].proxList = cs[d].proxList
  BY <1>1 DEF LeaveNested, TypeInv, TypeOK, CritType
<1>3. /\ \A c \in Crits \ {d} : cs'[c] = cs[c] /\ depth'[s][c] = depth[s][c]
      /\ depth'[s][d] = depth[s][d] - 1 /\ depth[s][d] \in Nat
  BY DEF LeaveNested, TypeInv, TypeOK
<1>4. OthersStay(s, d)
  BY <1>1, <1>3 DEF LeaveNested, OthersStay, TypeInv, TypeOK
<1>5. ASSUME NEW c \in Crits
      PROVE  PairInv(s, c)'
  <2>1. PairInv(s, c)
    BY DEF MutexInv
  <2>2. CASE c # d
    BY <1>1, <1>3, <2>1, <2>2
       DEF PairInv, EntryOK, OutsideOK, CallerOK, OwnOK, MarkOK, ListOK, WaitOK, Owns, Leaving,
           InCall
  <2>3. CASE c = d
    BY <1>1, <1>2, <1>3, <2>1, <2>3
       DEF PairInv, EntryOK, OutsideOK, CallerOK, OwnOK, MarkOK, ListOK, WaitOK, Owns, Leaving,
           InCall, TakeSteps, ExitSteps, DeadSteps, LeaveSteps
  <2> QED BY <2>2, <2>3
<1>6. ASSUME NEW t \in Threads \ {s}
      PROVE  PairInv(t, d)'
  <2>1. PairInv(t, d) /\ depth[t][d] \in Nat /\ depth'[t][d] = depth[t][d]
    BY <1>4 DEF MutexInv, TypeInv, TypeOK, OthersStay
  <2> QED BY <1>1, <1>2, <2>1
       DEF PairInv, EntryOK, OutsideOK, CallerOK, OwnOK, MarkOK, ListOK, WaitOK, Owns, Leaving, InCall
<1> QED BY <1>4, <1>5, <1>6, StepMutex

\* The outermost leave: the client has not entered any more, the word is marked.
LEMMA LeaveMarkMutex ==
  ASSUME TypeInv, MutexInv, NEW s \in Threads, NEW d \in Crits, LeaveMark(s, d)
  PROVE  MutexInv'
<1>1. /\ Runs(s) /\ pc[s] = "user" /\ depth[s][d] > 0 /\ cs[d].owner = s /\ ~cs[d].low
      /\ cs[d].lockCount = 1
      /\ sched' = sched /\ th' = th /\ pc'[s] = "l_test" /\ arg'[s] = d
  BY DEF LeaveMark, At, Goto, Owns, TypeInv, TypeOK
<1>2. /\ cs'[d].lockCount = cs[d].lockCount /\ cs'[d].owner = s /\ cs'[d].low
      /\ cs'[d].needtrap = cs[d].needtrap /\ cs'[d].bListed = cs[d].bListed
      /\ cs'[d].linkedTo = cs[d].linkedTo /\ cs'[d].proxList = cs[d].proxList
  BY <1>1 DEF LeaveMark, TypeInv, TypeOK, CritType
<1>3. /\ \A c \in Crits \ {d} : cs'[c] = cs[c] /\ depth'[s][c] = depth[s][c]
      /\ depth'[s][d] = depth[s][d] - 1 /\ depth[s][d] \in Nat
  BY DEF LeaveMark, TypeInv, TypeOK
<1>4. OthersStay(s, d)
  BY <1>1, <1>3 DEF LeaveMark, Goto, OthersStay, TypeInv, TypeOK
<1>5. ASSUME NEW c \in Crits
      PROVE  PairInv(s, c)'
  <2>1. PairInv(s, c)
    BY DEF MutexInv
  <2>2. CASE c # d
    BY <1>1, <1>3, <2>1, <2>2
       DEF PairInv, EntryOK, OutsideOK, CallerOK, OwnOK, MarkOK, ListOK, WaitOK, Owns, Leaving,
           InCall, TakeSteps, ExitSteps, DeadSteps, LeaveSteps, QueuedSteps
  <2>3. CASE c = d
    BY <1>1, <1>2, <1>3, <2>1, <2>3
       DEF PairInv, EntryOK, OutsideOK, CallerOK, OwnOK, MarkOK, ListOK, WaitOK, Owns, Leaving,
           InCall, TakeSteps, ExitSteps, DeadSteps, LeaveSteps, QueuedSteps
  <2> QED BY <2>2, <2>3
<1>6. ASSUME NEW t \in Threads \ {s}
      PROVE  PairInv(t, d)'
  <2>1. /\ PairInv(t, d) /\ depth[t][d] \in Nat /\ depth'[t][d] = depth[t][d]
        /\ pc'[t] = pc[t] /\ arg'[t] = arg[t]
    BY <1>4 DEF MutexInv, TypeInv, TypeOK, OthersStay
  <2> QED BY <1>1, <1>2, <2>1
       DEF PairInv, EntryOK, OutsideOK, CallerOK, OwnOK, MarkOK, ListOK, WaitOK, Owns, Leaving, InCall
<1> QED BY <1>4, <1>5, <1>6, StepMutex

\* The needtrap test: the fast path goes on only if nobody waits.
LEMMA LeaveTestMutex ==
  ASSUME TypeInv, MutexInv, NEW s \in Threads, LeaveTest(s)
  PROVE  MutexInv'
<1>1. /\ pc[s] = "l_test" /\ pc'[s] = (IF cs[arg[s]].needtrap THEN "l_pre" ELSE "l_free")
      /\ arg' = arg /\ sched' = sched /\ th' = th /\ depth' = depth /\ cs' = cs
      /\ OnlyMoves(s)
  BY DEF LeaveTest, At, Goto, OnlyMoves, TypeInv, TypeOK
<1>2. ASSUME NEW c \in Crits
      PROVE  PairInv(s, c)'
  <2>1. PairInv(s, c)
    BY DEF MutexInv
  <2> QED BY <1>1, <2>1
       DEF PairInv, EntryOK, OutsideOK, CallerOK, OwnOK, MarkOK, ListOK, WaitOK, Owns, Leaving,
           InCall, TakeSteps, ExitSteps, DeadSteps, LeaveSteps, QueuedSteps
<1> QED BY <1>1, <1>2, MoveMutex

\* The exchange only frees the word nobody took, and nobody waits.
LEMMA LeaveFreeMutex ==
  ASSUME TypeInv, MutexInv, NEW s \in Threads, LeaveFree(s)
  PROVE  MutexInv'
<1>1. PICK d \in Crits : arg[s] = d
  BY DEF LeaveFree, At, TypeInv, ArgOK, ArgSteps
<1>2. /\ Runs(s) /\ pc[s] = "l_free" /\ arg'[s] = NoCrit
      /\ pc'[s] = (IF th[s].dead THEN "x_next" ELSE "user")
      /\ sched' = sched /\ th' = th /\ depth' = depth
      /\ \A t \in Threads \ {s} : pc'[t] = pc[t] /\ arg'[t] = arg[t]
  BY DEF LeaveFree, At, Goto, DropFrame, TypeInv, TypeOK
<1>3. /\ \A c \in Crits \ {d} : cs'[c] = cs[c]
      /\ \/ cs'[d] = cs[d] /\ ~Leaving(s, d)
         \/ /\ Leaving(s, d) /\ cs'[d].owner = NoThread /\ cs'[d].bListed = cs[d].bListed
            /\ cs'[d].proxList = cs[d].proxList
  BY <1>1 DEF LeaveFree, ExchangeFree, Leaving, TypeInv, TypeOK, CritType
<1>4. OthersStay(s, d) /\ NoThread \notin Threads
  BY <1>2, <1>3, NoThreadAssumption DEF OthersStay
<1>5. PairInv(s, d)
  BY DEF MutexInv
<1>6. /\ depth[s][d] = 0
      /\ Leaving(s, d) => cs[d].bListed # 1
      /\ th[s].hLastCrit = NoCrit
  BY <1>1, <1>2, <1>5, RunningHasRun DEF PairInv, OutsideOK, MarkOK, ListOK, InCall
<1>7. ASSUME NEW c \in Crits
      PROVE  PairInv(s, c)'
  <2>1. PairInv(s, c) /\ c # NoCrit
    BY CritAssumption DEF MutexInv, NoCrit
  <2>2. CASE c # d
    BY <1>1, <1>2, <1>3, <1>6, <2>1, <2>2
       DEF PairInv, EntryOK, OutsideOK, CallerOK, OwnOK, MarkOK, ListOK, WaitOK, Owns, Leaving,
           InCall, TakeSteps, ExitSteps, DeadSteps, LeaveSteps, QueuedSteps
  <2>3. CASE c = d
    BY <1>1, <1>2, <1>3, <1>4, <1>6, <2>1, <2>3
       DEF PairInv, EntryOK, OutsideOK, CallerOK, OwnOK, MarkOK, ListOK, WaitOK, Owns, Leaving,
           InCall, TakeSteps, ExitSteps, DeadSteps, LeaveSteps, QueuedSteps
  <2> QED BY <2>2, <2>3
<1>8. ASSUME NEW t \in Threads \ {s}
      PROVE  PairInv(t, d)'
  <2>1. PairInv(t, d) /\ depth[t][d] \in Nat
    BY DEF MutexInv, TypeInv, TypeOK
  <2> QED BY <1>2, <1>3, <1>4, <1>6, <2>1
       DEF PairInv, EntryOK, OutsideOK, CallerOK, OwnOK, MarkOK, ListOK, WaitOK, Owns, Leaving, InCall
<1> QED BY <1>4, <1>7, <1>8, StepMutex

-----------------------------------------------------------------------------
(* SC_LeaveCritSec. *)

\* A call that returns with nothing, from a place where only a dead thread owns
\* what it has not entered.
LEMMA ReturnMutex ==
  ASSUME TypeInv, MutexInv, NEW s \in Threads, Runs(s), ReturnToUser(s, {}),
         pc[s] \in {"l_pre", "l_post", "k_boost", "k_run"}, cs' = cs,
         pc[s] = "l_pre" => ~Leaving(s, arg[s]),
         \A t \in Threads : /\ th'[t].dead = th[t].dead /\ th'[t].buried = th[t].buried
                            /\ th'[t].hLastCrit = th[t].hLastCrit,
         sched'.running \in {sched.running, NoThread}
  PROVE  MutexInv'
<1>1. /\ arg'[s] = NoCrit
      /\ \/ /\ pc'[s] = (IF th[s].dead THEN "x_next" ELSE "x_start")
            /\ \A c \in Crits : depth'[s][c] = 0
         \/ /\ ~th[s].dead /\ pc'[s] = "user"
            /\ \A c \in Crits : depth'[s][c] = depth[s][c]
      /\ \A t \in Threads \ {s} : /\ pc'[t] = pc[t] /\ arg'[t] = arg[t]
                                  /\ \A c \in Crits : depth'[t][c] = depth[t][c]
  BY ReturnEffect
<1>2. OthersStay(s, NoCrit)
  BY <1>1 DEF OthersStay
<1>3. ASSUME NEW c \in Crits
      PROVE  PairInv(s, c)'
  <2>1. PairInv(s, c) /\ c # NoCrit /\ th[s].hLastCrit = NoCrit
    BY RunningHasRun, CritAssumption DEF MutexInv, NoCrit
  <2>2. ~th[s].buried /\ ~InCall(s, c, {"l_test", "l_free"})
    BY <2>1 DEF PairInv, OutsideOK, InCall
  <2>3. Leaving(s, c) => th[s].dead
    BY <2>1, <2>2 DEF PairInv, MarkOK, InCall, ExitSteps
  <2>4. Owns(s, c) /\ depth[s][c] = 0 => th[s].dead
    BY <2>1 DEF PairInv, OwnOK, InCall, ExitSteps, TakeSteps
  <2>5. EntryOK(s, c)' /\ OutsideOK(s, c)' /\ CallerOK(s, c)'
    BY <1>1, <2>1, <2>2
       DEF PairInv, EntryOK, OutsideOK, CallerOK, Owns, InCall, ExitSteps, DeadSteps, TakeSteps
  <2>6. OwnOK(s, c)' /\ MarkOK(s, c)'
    BY <1>1, <2>1, <2>3, <2>4 DEF OwnOK, MarkOK, Owns, Leaving, InCall, ExitSteps
  <2>7. ListOK(s, c)' /\ WaitOK(s, c)'
    BY <1>1, <2>1, <2>2 DEF PairInv, ListOK, WaitOK, InCall, QueuedSteps
  <2> QED BY <2>5, <2>6, <2>7 DEF PairInv
<1> QED BY <1>2, <1>3, StepMutex, CritAssumption DEF NoCrit

\* PreLeaveCrit turns the mark back into ownership, or another thread took it.
LEMMA PreLeaveMutex ==
  ASSUME TypeInv, MutexInv, NEW s \in Threads, PreLeaveCrit(s)
  PROVE  MutexInv'
<1>1. PICK d \in Crits : arg[s] = d
  BY DEF PreLeaveCrit, At, TypeInv, ArgOK, ArgSteps, LeaveSteps
<1>2. Runs(s) /\ pc[s] = "l_pre" /\ sched' = sched
  BY DEF PreLeaveCrit, At
<1>3. CASE ~Leaving(s, d)
  BY <1>1, <1>2, <1>3, ReturnMutex DEF PreLeaveCrit
<1>4. CASE Leaving(s, d)
  <2>1. /\ pc'[s] = "l_leave" /\ arg' = arg /\ depth' = depth
        /\ \A t \in Threads \ {s} : pc'[t] = pc[t]
    BY <1>1, <1>4 DEF PreLeaveCrit, Goto, TypeInv, TypeOK
  <2>2. \A t \in Threads : /\ th'[t].dead = th[t].dead /\ th'[t].buried = th[t].buried
                           /\ th'[t].hLastCrit = th[t].hLastCrit
    BY <1>1, <1>4 DEF PreLeaveCrit, TypeInv, TypeOK, ThreadType
  <2>3. /\ \A c \in Crits \ {d} : cs'[c] = cs[c]
        /\ cs'[d] = [UnlinkCritMut(cs[d]) EXCEPT !.low = FALSE, !.bListed = 2]
    BY <1>1, <1>4 DEF PreLeaveCrit, TypeInv, TypeOK
  <2>4. UnlinkCritMut(cs[d]) \in CritType /\ cs[d] \in CritType
    BY UnlinkType DEF TypeInv, TypeOK
  <2>5. /\ UnlinkCritMut(cs[d]).owner = cs[d].owner
        /\ UnlinkCritMut(cs[d]).lockCount = cs[d].lockCount
        /\ UnlinkCritMut(cs[d]).needtrap = cs[d].needtrap
        /\ UnlinkCritMut(cs[d]).proxList = cs[d].proxList
    BY <2>4 DEF UnlinkCritMut, CritType
  <2>6. /\ cs'[d].owner = s /\ ~cs'[d].low /\ cs'[d].bListed = 2
        /\ cs'[d].lockCount = cs[d].lockCount /\ cs'[d].proxList = cs[d].proxList
        /\ cs[d].owner = s
    <3>1. ASSUME NEW crit \in CritType
          PROVE  LET new == [crit EXCEPT !.low = FALSE, !.bListed = 2] IN
                 /\ new.owner = crit.owner /\ ~new.low /\ new.bListed = 2
                 /\ new.lockCount = crit.lockCount /\ new.proxList = crit.proxList
      BY DEF CritType
    <3> QED BY <1>4, <2>3, <2>4, <2>5, <3>1 DEF Leaving
  <2>7. OthersStay(s, d)
    BY <1>2, <2>1, <2>2, <2>3 DEF OthersStay
  <2>8. ASSUME NEW c \in Crits
        PROVE  PairInv(s, c)'
    <3>1. PairInv(s, c) /\ c # NoCrit /\ th[s].hLastCrit = NoCrit
      BY <1>2, RunningHasRun, CritAssumption DEF MutexInv, NoCrit
    <3>2. CASE c # d
      BY <1>1, <1>2, <2>1, <2>2, <2>3, <3>1, <3>2
         DEF PairInv, EntryOK, OutsideOK, CallerOK, OwnOK, MarkOK, ListOK, WaitOK, Owns, Leaving,
             InCall, TakeSteps, ExitSteps, DeadSteps, LeaveSteps, QueuedSteps
    <3>3. CASE c = d
      BY <1>1, <1>2, <2>1, <2>2, <2>6, <3>1, <3>3
         DEF PairInv, EntryOK, OutsideOK, CallerOK, OwnOK, MarkOK, ListOK, WaitOK, Owns, Leaving,
             InCall, TakeSteps, ExitSteps, DeadSteps, LeaveSteps, QueuedSteps
    <3> QED BY <3>2, <3>3
  <2>9. ASSUME NEW t \in Threads \ {s}
        PROVE  PairInv(t, d)'
    <3>1. PairInv(t, d) /\ depth[t][d] \in Nat
      BY DEF MutexInv, TypeInv, TypeOK
    <3> QED BY <1>2, <2>1, <2>2, <2>6, <3>1
         DEF PairInv, EntryOK, OutsideOK, CallerOK, OwnOK, MarkOK, ListOK, WaitOK, Owns, Leaving, InCall
  <2> QED BY <2>7, <2>8, <2>9, StepMutex
<1> QED BY <1>3, <1>4

\* Freed by its owner, in the kernel.
LEMMA LeaveCritFreeMutex ==
  ASSUME TypeInv, MutexInv, NEW s \in Threads, LeaveCritFree(s)
  PROVE  MutexInv'
<1>1. PICK d \in Crits : arg[s] = d
  BY DEF LeaveCritFree, At, TypeInv, ArgOK, ArgSteps, LeaveSteps
<1>2. /\ Runs(s) /\ pc[s] = "l_leave" /\ pc'[s] = "l_post" /\ arg' = arg
      /\ sched' = sched /\ th' = th /\ depth' = depth
      /\ \A t \in Threads \ {s} : pc'[t] = pc[t]
  BY DEF LeaveCritFree, At, Goto, TypeInv, TypeOK
<1>3. /\ \A c \in Crits \ {d} : cs'[c] = cs[c]
      /\ cs'[d].owner = NoThread /\ cs'[d].bListed = 0 /\ cs'[d].proxList = cs[d].proxList
  BY <1>1 DEF LeaveCritFree, TypeInv, TypeOK, CritType
<1>4. OthersStay(s, d) /\ NoThread \notin Threads
  BY <1>2, <1>3, NoThreadAssumption DEF OthersStay
<1>5. cs[d].owner = s /\ depth[s][d] = 0 /\ th[s].hLastCrit = NoCrit
  <2>1. PairInv(s, d)
    BY DEF MutexInv
  <2> QED BY <1>1, <1>2, <2>1, RunningHasRun DEF PairInv, OutsideOK, CallerOK, Owns, InCall
<1>6. ASSUME NEW c \in Crits
      PROVE  PairInv(s, c)'
  <2>1. PairInv(s, c) /\ c # NoCrit
    BY CritAssumption DEF MutexInv, NoCrit
  <2>2. CASE c # d
    BY <1>1, <1>2, <1>3, <1>5, <2>1, <2>2
       DEF PairInv, EntryOK, OutsideOK, CallerOK, OwnOK, MarkOK, ListOK, WaitOK, Owns, Leaving,
           InCall, TakeSteps, ExitSteps, DeadSteps, LeaveSteps, QueuedSteps
  <2>3. CASE c = d
    BY <1>1, <1>2, <1>3, <1>4, <1>5, <2>1, <2>3
       DEF PairInv, EntryOK, OutsideOK, CallerOK, OwnOK, MarkOK, ListOK, WaitOK, Owns, Leaving,
           InCall, TakeSteps, ExitSteps, DeadSteps, LeaveSteps, QueuedSteps
  <2> QED BY <2>2, <2>3
<1>7. ASSUME NEW t \in Threads \ {s}
      PROVE  PairInv(t, d)'
  <2>1. PairInv(t, d) /\ depth[t][d] \in Nat
    BY DEF MutexInv, TypeInv, TypeOK
  <2> QED BY <1>2, <1>3, <1>4, <1>5, <2>1
       DEF PairInv, EntryOK, OutsideOK, CallerOK, OwnOK, MarkOK, ListOK, WaitOK, Owns, Leaving, InCall
<1> QED BY <1>4, <1>6, <1>7, StepMutex

\* A queue that loses a stale proxy.
LEMMA LeaveCritStaleMutex ==
  ASSUME TypeInv, MutexInv, NEW s \in Threads, LeaveCritStale(s)
  PROVE  MutexInv'
<1>1. PICK d \in Crits : arg[s] = d
  BY DEF LeaveCritStale, At, TypeInv, ArgOK, ArgSteps, LeaveSteps
<1>2. /\ pc' = pc /\ arg' = arg /\ sched' = sched /\ th' = th /\ depth' = depth
      /\ cs[d].proxList \in Seq(Threads) /\ cs[d].proxList # << >>
  BY <1>1 DEF LeaveCritStale, TypeInv, TypeOK, CritType
<1>3. /\ \A c \in Crits \ {d} : cs'[c] = cs[c]
      /\ cs'[d].owner = cs[d].owner /\ cs'[d].low = cs[d].low
      /\ cs'[d].lockCount = cs[d].lockCount /\ cs'[d].needtrap = cs[d].needtrap
      /\ cs'[d].bListed = cs[d].bListed /\ cs'[d].linkedTo = cs[d].linkedTo
      /\ cs'[d].proxList = Tail(cs[d].proxList)
  BY <1>1 DEF LeaveCritStale, TypeInv, TypeOK, CritType
<1>4. ToSet(cs'[d].proxList) \subseteq ToSet(cs[d].proxList)
  BY <1>2, <1>3, ToSetHeadTail
<1> SUFFICES ASSUME NEW t \in Threads, NEW c \in Crits
             PROVE  PairInv(t, c)'
  BY DEF MutexInv
<1>5. PairInv(t, c)
  BY DEF MutexInv
<1>6. CASE c # d
  BY <1>2, <1>3, <1>5, <1>6, Frame
<1>7. CASE c = d
  BY <1>2, <1>3, <1>4, <1>5, <1>7
     DEF PairInv, EntryOK, OutsideOK, CallerOK, OwnOK, MarkOK, ListOK, WaitOK, Owns, Leaving, InCall
<1> QED BY <1>6, <1>7

\* The hand-off: the first waiter is still in its call, has not entered and has
\* not run since.
LEMMA HandOffMutex ==
  ASSUME TypeInv, MutexInv, NEW s \in Threads, LeaveCritHandOff(s)
  PROVE  MutexInv'
<1>1. PICK d \in Crits : arg[s] = d
  BY DEF LeaveCritHandOff, At, TypeInv, ArgOK, ArgSteps, LeaveSteps
<1>2. cs[d] \in CritType /\ cs[d].proxList \in Seq(Threads) /\ cs[d].proxList # << >>
  BY <1>1 DEF LeaveCritHandOff, TypeInv, TypeOK, CritType
<1>3. PICK u \in Threads : u = Head(cs[d].proxList)
  BY <1>2, HeadTailProperties
<1>4. /\ Runs(s) /\ sched.running = s /\ pc[s] = "l_leave" /\ pc'[s] \in {"l_run", "l_post"}
      /\ arg' = arg /\ depth' = depth
      /\ \A t \in Threads \ {s} : pc'[t] = pc[t]
  BY DEF LeaveCritHandOff, At, Runs, Goto, TypeInv, TypeOK
<1>5. /\ u \in ToSet(cs[d].proxList)
      /\ ToSet(Tail(cs[d].proxList)) \subseteq ToSet(cs[d].proxList)
  BY <1>2, <1>3, ToSetHeadTail
<1>6. /\ pc[u] \in QueuedSteps \intersect TakeSteps /\ arg[u] = d /\ u # s
      /\ depth[u][d] = 0 /\ ~th[u].dead /\ ~th[u].buried
  <2>1. PairInv(u, d)
    BY DEF MutexInv
  <2>2. pc[u] \in QueuedSteps /\ arg[u] = d /\ pc[u] # "fault"
    BY <1>4, <1>5, <2>1, Actor DEF PairInv, WaitOK, InCall
  <2> QED BY <1>4, <2>1, <2>2
         DEF PairInv, OutsideOK, InCall, QueuedSteps, TakeSteps, DeadSteps, ExitSteps, LeaveSteps
<1>7. sched'.running = s
  BY <1>4 DEF LeaveCritHandOff, TypeInv, TypeOK, SchedType
<1>8. /\ \A t \in Threads : /\ th'[t].dead = th[t].dead /\ th'[t].buried = th[t].buried
                            /\ t # u => th'[t].hLastCrit = th[t].hLastCrit
      /\ th'[u].hLastCrit = d
  BY <1>1, <1>3 DEF LeaveCritHandOff, TypeInv, TypeOK, ThreadType
<1>9. /\ \A c \in Crits \ {d} : cs'[c] = cs[c]
      /\ cs'[d].owner = u /\ cs'[d].low = cs[d].low /\ cs'[d].lockCount = 1
      /\ cs'[d].bListed = 0 /\ cs'[d].proxList = Tail(cs[d].proxList)
  <2>1. cs'[d] = HandOver(cs[d]) /\ \A c \in Crits \ {d} : cs'[c] = cs[c]
    BY <1>1 DEF LeaveCritHandOff, TypeInv, TypeOK
  <2>2. ASSUME NEW crit \in CritType
        PROVE  LET new == HandOver(crit) IN
               /\ new.owner = Head(crit.proxList) /\ new.low = crit.low /\ new.lockCount = 1
               /\ new.bListed = 0 /\ new.proxList = Tail(crit.proxList)
    BY DEF HandOver, CritType
  <2> QED BY <1>2, <1>3, <2>1, <2>2
<1>10. cs[d].owner = s /\ ~cs[d].low /\ depth[s][d] = 0 /\ th[s].hLastCrit = NoCrit
  <2>1. PairInv(s, d)
    BY DEF MutexInv
  <2> QED BY <1>1, <1>4, <2>1, RunningHasRun DEF PairInv, OutsideOK, CallerOK, Owns, InCall
<1> SUFFICES ASSUME NEW t \in Threads, NEW c \in Crits
             PROVE  PairInv(t, c)'
  BY DEF MutexInv
<1>11. PairInv(t, c) /\ PairInv(t, d) /\ c # NoCrit /\ d # NoCrit
  BY CritAssumption DEF MutexInv, NoCrit
<1>12. CASE t = s
  <2>1. CASE c # d
    BY <1>1, <1>4, <1>6, <1>8, <1>9, <1>10, <1>11, <1>12, <2>1
       DEF PairInv, EntryOK, OutsideOK, CallerOK, OwnOK, MarkOK, ListOK, WaitOK, Owns, Leaving,
           InCall, TakeSteps, ExitSteps, DeadSteps, LeaveSteps, QueuedSteps
  <2>2. CASE c = d
    BY <1>1, <1>4, <1>5, <1>6, <1>8, <1>9, <1>10, <1>11, <1>12, <2>2
       DEF PairInv, EntryOK, OutsideOK, CallerOK, OwnOK, MarkOK, ListOK, WaitOK, Owns, Leaving,
           InCall, TakeSteps, ExitSteps, DeadSteps, LeaveSteps, QueuedSteps
  <2> QED BY <2>1, <2>2
<1>13. CASE t # s /\ t # u
  <2>1. CASE c # d
    BY <1>4, <1>7, <1>8, <1>9, <1>11, <1>13, <2>1, Frame
  <2>2. CASE c = d
    BY <1>4, <1>5, <1>7, <1>8, <1>9, <1>10, <1>11, <1>13, <2>2
       DEF PairInv, EntryOK, OutsideOK, CallerOK, OwnOK, MarkOK, ListOK, WaitOK, Owns, Leaving, InCall
  <2> QED BY <2>1, <2>2
<1>14. CASE t = u
  <2>1. CASE c # d
    BY <1>4, <1>6, <1>7, <1>8, <1>9, <1>11, <1>14, <2>1
       DEF PairInv, EntryOK, OutsideOK, CallerOK, OwnOK, MarkOK, ListOK, WaitOK, Owns, Leaving, InCall
  <2>2. CASE c = d
    <3>1. EntryOK(u, d)' /\ OutsideOK(u, d)' /\ CallerOK(u, d)' /\ OwnOK(u, d)'
      BY <1>4, <1>6, <1>8, <1>9, <1>10, <1>11, <1>14
         DEF PairInv, EntryOK, OutsideOK, CallerOK, OwnOK, Owns, InCall, QueuedSteps
    <3>2. MarkOK(u, d)' /\ ListOK(u, d)' /\ WaitOK(u, d)'
      BY <1>4, <1>6, <1>7, <1>8, <1>9, <1>10, <1>11, <1>14
         DEF MarkOK, ListOK, WaitOK, Leaving, InCall, QueuedSteps
    <3> QED BY <1>14, <2>2, <3>1, <3>2 DEF PairInv
  <2> QED BY <2>1, <2>2
<1> QED BY <1>12, <1>13, <1>14

\* Waking the new owner does not make it run yet.
LEMMA LeaveCritRunMutex ==
  ASSUME TypeInv, MutexInv, NEW s \in Threads, LeaveCritRun(s)
  PROVE  MutexInv'
<1>1. /\ pc[s] = "l_run" /\ pc'[s] = "l_post" /\ Runs(s)
      /\ arg' = arg /\ th' = th /\ depth' = depth /\ cs' = cs
      /\ \A t \in Threads \ {s} : pc'[t] = pc[t]
  BY DEF LeaveCritRun, At, Goto, TypeInv, TypeOK
<1>2. sched'.running = sched.running
  <2>1. tgt[s] \in Threads
    BY <1>1 DEF TypeInv, TgtOK, TgtSteps
  <2> QED BY <2>1, RunningKept, 0 \in Priority
     DEF LeaveCritRun, TypeInv, TypeOK, Priority, MAX_PRIORITY_LEVELS
<1>3. OnlyMoves(s)
  BY <1>1, <1>2 DEF OnlyMoves
<1>4. ASSUME NEW c \in Crits
      PROVE  PairInv(s, c)'
  <2>1. PairInv(s, c) /\ c # NoCrit /\ th[s].hLastCrit = NoCrit
    BY <1>1, RunningHasRun, CritAssumption DEF MutexInv, NoCrit
  <2> QED BY <1>1, <2>1
       DEF PairInv, EntryOK, OutsideOK, CallerOK, OwnOK, MarkOK, ListOK, WaitOK, Owns, Leaving,
           InCall, TakeSteps, ExitSteps, DeadSteps, LeaveSteps, QueuedSteps
<1> QED BY <1>3, <1>4, MoveMutex

\* The end of SC_LeaveCritSec.
LEMMA PostUnlinkMutex ==
  ASSUME TypeInv, MutexInv, NEW s \in Threads, PostUnlinkCritMut(s)
  PROVE  MutexInv'
<1>1. Runs(s) /\ pc[s] = "l_post" /\ ReturnToUser(s, {}) /\ cs' = cs
  BY DEF PostUnlinkCritMut, At
<1>2. \A t \in Threads : /\ th'[t].dead = th[t].dead /\ th'[t].buried = th[t].buried
                         /\ th'[t].hLastCrit = th[t].hLastCrit
  BY DEF PostUnlinkCritMut, TypeInv, TypeOK, ThreadType
<1>3. sched'.running = sched.running
  <2>1. PrioFrom(s, OwnedList(s)) \in Priority
    BY PrioFromType, TypeInvSplit
  <2> QED BY <2>1, RunningKept DEF PostUnlinkCritMut, TypeInv, TypeOK
<1> QED BY <1>1, <1>2, <1>3, ReturnMutex

-----------------------------------------------------------------------------
(* Exit. *)

\* An exiting thread no longer counts on what it entered.
LEMMA ExitThreadMutex ==
  ASSUME TypeInv, MutexInv, NEW s \in Threads, ExitThread(s)
  PROVE  MutexInv'
<1>1. /\ pc[s] = "user" /\ pc'[s] = "x_start" /\ Runs(s) /\ cs' = cs
      /\ arg' = arg /\ th' = th /\ sched' = sched
      /\ \A c \in Crits : depth'[s][c] = 0
      /\ \A t \in Threads \ {s} : pc'[t] = pc[t] /\ depth'[t] = depth[t]
  BY DEF ExitThread, At, Goto, HoldsNothing, TypeInv, TypeOK
<1>2. OthersStay(s, NoCrit)
  BY <1>1 DEF OthersStay
<1>3. ASSUME NEW c \in Crits
      PROVE  PairInv(s, c)'
  <2>1. PairInv(s, c)
    BY DEF MutexInv
  <2> QED BY <1>1, <2>1
       DEF PairInv, EntryOK, OutsideOK, CallerOK, OwnOK, MarkOK, ListOK, WaitOK, Owns, Leaving,
           InCall, TakeSteps, ExitSteps, DeadSteps, LeaveSteps, QueuedSteps
<1> QED BY <1>2, <1>3, StepMutex, CritAssumption DEF NoCrit

\* SET_DEAD: an exiting thread has entered nothing.
LEMMA NKTerminateMutex ==
  ASSUME TypeInv, MutexInv, NEW s \in Threads, NKTerminateThread(s)
  PROVE  MutexInv'
<1>1. /\ pc[s] = "x_start" /\ pc'[s] = "x_next" /\ cs' = cs
      /\ arg' = arg /\ depth' = depth /\ sched' = sched
      /\ \A t \in Threads \ {s} : pc'[t] = pc[t] /\ th'[t] = th[t]
      /\ th'[s].dead /\ th'[s].buried = th[s].buried /\ th'[s].hLastCrit = th[s].hLastCrit
  BY DEF NKTerminateThread, At, Goto, TypeInv, TypeOK, ThreadType
<1>2. OthersStay(s, NoCrit)
  BY <1>1 DEF OthersStay
<1>3. ASSUME NEW c \in Crits
      PROVE  PairInv(s, c)'
  <2>1. PairInv(s, c)
    BY DEF MutexInv
  <2> QED BY <1>1, <2>1
       DEF PairInv, EntryOK, OutsideOK, CallerOK, OwnOK, MarkOK, ListOK, WaitOK, Owns, Leaving,
           InCall, TakeSteps, ExitSteps, DeadSteps, LeaveSteps, QueuedSteps
<1> QED BY <1>2, <1>3, StepMutex, CritAssumption DEF NoCrit

\* A buried thread has nothing listed.
LEMMA DoLeaveSomethingMutex ==
  ASSUME TypeInv, MutexInv, NEW s \in Threads, DoLeaveSomething(s)
  PROVE  MutexInv'
<1>1. /\ Runs(s) /\ pc[s] = "x_next" /\ cs' = cs /\ depth' = depth /\ sched' = sched
      /\ \A t \in Threads \ {s} : /\ pc'[t] = pc[t] /\ arg'[t] = arg[t] /\ th'[t] = th[t]
      /\ th'[s].dead = th[s].dead /\ th'[s].hLastCrit = th[s].hLastCrit
      /\ \/ /\ pc'[s] = "x_leave" /\ arg'[s] \in OwnedList(s) /\ th'[s].buried = th[s].buried
         \/ /\ pc'[s] = "x_buried" /\ OwnedList(s) = {} /\ arg'[s] = arg[s] /\ th'[s].buried
  BY DEF DoLeaveSomething, At, Goto, TypeInv, TypeOK, ThreadType
<1>2. OthersStay(s, NoCrit)
  BY <1>1 DEF OthersStay
<1>3. ASSUME NEW c \in Crits
      PROVE  PairInv(s, c)'
  <2>1. PairInv(s, c) /\ c # NoCrit /\ th[s].hLastCrit = NoCrit
    BY <1>1, RunningHasRun, CritAssumption DEF MutexInv, NoCrit
  <2>2. EntryOK(s, c)' /\ OutsideOK(s, c)' /\ CallerOK(s, c)' /\ OwnOK(s, c)'
    BY <1>1, <2>1
       DEF PairInv, EntryOK, OutsideOK, CallerOK, OwnOK, Owns, InCall, TakeSteps, ExitSteps, DeadSteps
  <2>3. MarkOK(s, c)' /\ WaitOK(s, c)'
    BY <1>1, <2>1 DEF PairInv, MarkOK, WaitOK, Leaving, InCall, ExitSteps, QueuedSteps
  <2>4. ListOK(s, c)'
    BY <1>1, <2>1 DEF PairInv, ListOK, InCall, OwnedList
  <2> QED BY <2>2, <2>3, <2>4 DEF PairInv
<1> QED BY <1>2, <1>3, StepMutex, CritAssumption DEF NoCrit

\* The listed critical section is the thread's own, marked already or marked now.
LEMMA LeaveListedMutex ==
  ASSUME TypeInv, MutexInv, NEW s \in Threads, LeaveListed(s)
  PROVE  MutexInv'
<1>1. PICK d \in Crits : arg[s] = d
  BY DEF LeaveListed, At, TypeInv, ArgOK, ArgSteps
<1>2. /\ Runs(s) /\ pc[s] = "x_leave" /\ pc'[s] = (IF Owns(s, d) THEN "l_test" ELSE "x_next")
      /\ arg' = arg /\ sched' = sched /\ th' = th /\ depth' = depth
      /\ \A t \in Threads \ {s} : pc'[t] = pc[t]
  BY <1>1 DEF LeaveListed, At, Goto, TypeInv, TypeOK
<1>3. /\ cs[d].owner = s /\ depth[s][d] = 0 /\ th[s].dead /\ ~th[s].buried
      /\ th[s].hLastCrit = NoCrit
  <2>1. PairInv(s, d)
    BY DEF MutexInv
  <2> QED BY <1>1, <1>2, <2>1, RunningHasRun DEF PairInv, OutsideOK, ListOK, InCall, ExitSteps
<1>4. cs[d] \in CritType /\ cs[d].low \in BOOLEAN
  BY DEF TypeInv, TypeOK, CritType
<1>5. /\ \A c \in Crits \ {d} : cs'[c] = cs[c]
      /\ cs'[d].owner = cs[d].owner /\ cs'[d].low /\ cs'[d].needtrap = cs[d].needtrap
      /\ cs'[d].bListed = cs[d].bListed /\ cs'[d].linkedTo = cs[d].linkedTo
      /\ cs'[d].proxList = cs[d].proxList
  <2>1. cs' = [cs EXCEPT ![d].lockCount = 1, ![d].low = @ \/ Owns(s, d)]
    BY <1>1 DEF LeaveListed
  <2>2. (cs[d].low \/ Owns(s, d)) = TRUE
    BY <1>3, <1>4 DEF Owns
  <2>3. cs' = [cs EXCEPT ![d].lockCount = 1, ![d].low = TRUE]
    BY <2>1, <2>2 DEF TypeInv, TypeOK, CritType
  <2> QED BY <2>3 DEF TypeInv, TypeOK, CritType
<1>6. OthersStay(s, d)
  BY <1>2, <1>5 DEF OthersStay
<1>7. ASSUME NEW c \in Crits
      PROVE  PairInv(s, c)'
  <2>1. PairInv(s, c) /\ c # NoCrit
    BY CritAssumption DEF MutexInv, NoCrit
  <2>2. CASE c # d
    BY <1>1, <1>2, <1>3, <1>5, <2>1, <2>2
       DEF PairInv, EntryOK, OutsideOK, CallerOK, OwnOK, MarkOK, ListOK, WaitOK, Owns, Leaving,
           InCall, TakeSteps, ExitSteps, DeadSteps, LeaveSteps, QueuedSteps
  <2>3. CASE c = d
    BY <1>1, <1>2, <1>3, <1>5, <2>1, <2>3
       DEF PairInv, EntryOK, OutsideOK, CallerOK, OwnOK, MarkOK, ListOK, WaitOK, Owns, Leaving,
           InCall, TakeSteps, ExitSteps, DeadSteps, LeaveSteps, QueuedSteps
  <2> QED BY <2>2, <2>3
<1>8. ASSUME NEW t \in Threads \ {s}
      PROVE  PairInv(t, d)'
  <2>1. PairInv(t, d) /\ depth[t][d] \in Nat
    BY DEF MutexInv, TypeInv, TypeOK
  <2> QED BY <1>2, <1>3, <1>5, <2>1
       DEF PairInv, EntryOK, OutsideOK, CallerOK, OwnOK, MarkOK, ListOK, WaitOK, Owns, Leaving, InCall
<1> QED BY <1>6, <1>7, <1>8, StepMutex

\* The buried thread goes.
LEMMA RemoveThreadMutex ==
  ASSUME TypeInv, MutexInv, NEW s \in Threads, RemoveThread(s)
  PROVE  MutexInv'
<1>1. /\ pc[s] = "x_buried" /\ pc'[s] = "gone" /\ cs' = cs
      /\ arg' = arg /\ th' = th /\ depth' = depth
      /\ \A t \in Threads \ {s} : pc'[t] = pc[t]
  BY DEF RemoveThread, At, Goto, TypeInv, TypeOK
<1>2. sched'.running = NoThread
  BY DEF RemoveThread, BlockCurrent, TypeInv, TypeOK, SchedType
<1>3. OnlyMoves(s)
  BY <1>1, <1>2 DEF OnlyMoves
<1>4. ASSUME NEW c \in Crits
      PROVE  PairInv(s, c)'
  <2>1. PairInv(s, c) /\ s # NoThread
    BY NoThreadAssumption DEF MutexInv
  <2> QED BY <1>1, <1>2, <2>1
       DEF PairInv, EntryOK, OutsideOK, CallerOK, OwnOK, MarkOK, ListOK, WaitOK, Owns, Leaving,
           InCall, TakeSteps, ExitSteps, DeadSteps, LeaveSteps, QueuedSteps
<1> QED BY <1>3, <1>4, MoveMutex

-----------------------------------------------------------------------------
(* KillOneThread. *)

\* A thread redirected in user mode owns what it owned, but exits.
LEMMA SetThreadToDieMutex ==
  ASSUME TypeInv, MutexInv, NEW s \in Threads, NEW u \in Threads, SetThreadToDie(s, u)
  PROVE  MutexInv'
<1>1. s # u
  BY KillAssumption DEF SetThreadToDie
<1>2. /\ Runs(s) /\ pc[s] = "user" /\ pc'[s] \in {"k_boost", "k_boostrun"} /\ ~th[u].dead
      /\ cs' = cs /\ arg' = arg
      /\ pc'[u] = IF InUser(u) THEN "x_start" ELSE pc[u]
      /\ \A t \in Threads \ {s, u} : pc'[t] = pc[t]
  BY <1>1 DEF SetThreadToDie, At, TypeInv, TypeOK
<1>3. /\ \A t \in Threads \ {u} : depth'[t] = depth[t]
      /\ \A c \in Crits : depth'[u][c] = IF InUser(u) THEN 0 ELSE depth[u][c]
  BY DEF SetThreadToDie, HoldsNothing, TypeInv, TypeOK
<1>4. \A t \in Threads : /\ th'[t].dead = th[t].dead /\ th'[t].buried = th[t].buried
                         /\ th'[t].hLastCrit = th[t].hLastCrit
  BY DEF SetThreadToDie, Signalled, TypeInv, TypeOK, ThreadType
<1>5. sched'.running = sched.running
  BY DEF SetThreadToDie, RunqDequeue, TypeInv, TypeOK, SchedType
<1>6. OthersStay(s, NoCrit) \/ InUser(u)
  BY <1>2, <1>3, <1>4, <1>5 DEF OthersStay
<1> SUFFICES ASSUME NEW t \in Threads, NEW c \in Crits
             PROVE  PairInv(t, c)'
  BY DEF MutexInv
<1>7. PairInv(t, c) /\ c # NoCrit
  BY CritAssumption DEF MutexInv, NoCrit
<1>8. CASE t = s
  <2>1. th[s].hLastCrit = NoCrit
    BY <1>2, RunningHasRun
  <2> QED BY <1>1, <1>2, <1>3, <1>4, <1>7, <1>8, <2>1
       DEF PairInv, EntryOK, OutsideOK, CallerOK, OwnOK, MarkOK, ListOK, WaitOK, Owns, Leaving,
           InCall, TakeSteps, ExitSteps, DeadSteps, LeaveSteps, QueuedSteps
<1>9. CASE t # s /\ ~(t = u /\ InUser(u))
  BY <1>2, <1>3, <1>4, <1>5, <1>7, <1>9, Frame
<1>10. CASE t = u /\ InUser(u)
  <2>1. pc[u] \in {"user", "e_count", "l_test", "l_free"}
    BY <1>10 DEF InUser, UserMode
  <2> QED BY <1>2, <1>3, <1>4, <1>7, <1>10, <2>1
       DEF PairInv, EntryOK, OutsideOK, CallerOK, OwnOK, MarkOK, ListOK, WaitOK, Owns, Leaving,
           InCall, TakeSteps, ExitSteps, DeadSteps, LeaveSteps, QueuedSteps
<1> QED BY <1>8, <1>9, <1>10

\* Priorities do not matter to ownership.
LEMMA SetThreadBasePrioMutex ==
  ASSUME TypeInv, MutexInv, NEW s \in Threads, SetThreadBasePrio(s)
  PROVE  MutexInv'
<1>1. Runs(s) /\ pc[s] \in {"k_boost", "k_boostrun"} /\ cs' = cs
  BY DEF SetThreadBasePrio, KillSteps
<1>2. tgt[s] \in Threads /\ sched.cprio[s] \in Priority /\ sched \in SchedType
  BY <1>1 DEF TypeInv, TypeOK, TgtOK, TgtSteps, KillSteps, SchedType
<1>3. \A t \in Threads : /\ th'[t].dead = th[t].dead /\ th'[t].buried = th[t].buried
                         /\ th'[t].hLastCrit = th[t].hLastCrit
  BY DEF SetThreadBasePrio, TypeInv, TypeOK, ThreadType
<1>4. sched'.running = sched.running
  BY <1>2, RunningKept DEF SetThreadBasePrio
<1>5. CASE pc[s] = "k_boost"
  BY <1>1, <1>3, <1>4, <1>5, ReturnMutex DEF SetThreadBasePrio
<1>6. CASE pc[s] = "k_boostrun"
  <2>1. /\ pc'[s] = "k_run" /\ arg' = arg /\ depth' = depth
        /\ \A t \in Threads \ {s} : pc'[t] = pc[t]
    BY <1>6 DEF SetThreadBasePrio, Goto, TypeInv, TypeOK
  <2>2. OnlyMoves(s)
    BY <1>1, <1>3, <1>4, <2>1 DEF OnlyMoves
  <2>3. ASSUME NEW c \in Crits
        PROVE  PairInv(s, c)'
    <3>1. PairInv(s, c) /\ c # NoCrit /\ th[s].hLastCrit = NoCrit
      BY <1>1, RunningHasRun, CritAssumption DEF MutexInv, NoCrit
    <3> QED BY <1>1, <1>3, <1>6, <2>1, <3>1
         DEF PairInv, EntryOK, OutsideOK, CallerOK, OwnOK, MarkOK, ListOK, WaitOK, Owns, Leaving,
             InCall, TakeSteps, ExitSteps, DeadSteps, LeaveSteps, QueuedSteps
  <2> QED BY <2>2, <2>3, MoveMutex
<1> QED BY <1>1, <1>5, <1>6

\* Waking the dying thread does not make it run yet.
LEMMA KillRunMutex ==
  ASSUME TypeInv, MutexInv, NEW s \in Threads, KillRun(s)
  PROVE  MutexInv'
<1>1. Runs(s) /\ pc[s] = "k_run" /\ ReturnToUser(s, {}) /\ cs' = cs /\ th' = th
  BY DEF KillRun, At
<1>2. sched'.running = sched.running
  <2>1. tgt[s] \in Threads
    BY <1>1 DEF TypeInv, TgtOK, TgtSteps, KillSteps
  <2> QED BY <2>1, RunningKept, 0 \in Priority
     DEF KillRun, TypeInv, TypeOK, Priority, MAX_PRIORITY_LEVELS
<1> QED BY <1>1, <1>2, ReturnMutex

-----------------------------------------------------------------------------
(* The scheduler. *)

\* Steps of the scheduler that choose no thread to run.
LEMMA SchedMutex ==
  ASSUME TypeInv, MutexInv, cs' = cs, pc' = pc, arg' = arg, depth' = depth, th' = th,
         sched'.running \in {sched.running, NoThread}
  PROVE  MutexInv'
<1> SUFFICES ASSUME NEW t \in Threads, NEW c \in Crits
             PROVE  PairInv(t, c)'
  BY DEF MutexInv
<1>1. PairInv(t, c) /\ t # NoThread
  BY NoThreadAssumption DEF MutexInv
<1> QED BY <1>1, Frame

\* The client blocks, an event wakes it, a quantum ends.
LEMMA ClientMutex ==
  ASSUME TypeInv, MutexInv, QuantumTick \/ \E t \in Threads : Block(t) \/ Wake(t)
  PROVE  MutexInv'
<1>1. sched'.running \in {sched.running, NoThread}
  <2>1. CASE QuantumTick
    BY <2>1 DEF QuantumTick, SetReschedule, TypeInv, TypeOK, SchedType
  <2>2. ASSUME NEW t \in Threads, Block(t)
        PROVE  sched'.running = NoThread
    BY <2>2 DEF Block, BlockCurrent, TypeInv, TypeOK, SchedType
  <2>3. ASSUME NEW t \in Threads, Wake(t)
        PROVE  sched'.running = sched.running
    BY <2>3 DEF Wake, MakeRun, TypeInv, TypeOK, SchedType
  <2> QED BY <2>1, <2>2, <2>3
<1>2. cs' = cs /\ pc' = pc /\ arg' = arg /\ depth' = depth /\ th' = th
  BY DEF QuantumTick, Block, Wake
<1> QED BY <1>1, <1>2, SchedMutex

\* The thread KCNextThread chooses can not be stolen from any more.
LEMMA NextThreadMutex ==
  ASSUME TypeInv, MutexInv, KCNextThread
  PROVE  MutexInv'
<1>1. cs' = cs /\ pc' = pc /\ arg' = arg /\ depth' = depth /\ th \in [Threads -> ThreadType]
  BY DEF KCNextThread, TypeInv, TypeOK
<1>2. PICK e \in {FALSE, TimeSlice} :
        LET back == PutBackCurrent([sched EXCEPT !.resched = FALSE], e)
            next == Head(back.runq)
            prioCalc == [t \in Threads |-> IF th[t].noPrioCalc THEN sched.cprio[t]
                                           ELSE PrioFrom(t, OwnedList(t))]
        IN  IF Dispatches(back)
            THEN /\ sched' = Dispatch(back, prioCalc)
                 /\ th' = [th EXCEPT ![next] = NotStealable(@)]
            ELSE sched' = back /\ th' = th
  BY DEF KCNextThread
<1> DEFINE s0   == [sched EXCEPT !.resched = FALSE]
           back == PutBackCurrent(s0, e)
           next == Head(back.runq)
           prioCalc == [t \in Threads |-> IF th[t].noPrioCalc THEN sched.cprio[t]
                                          ELSE PrioFrom(t, OwnedList(t))]
<1>3. s0 \in SchedType /\ s0.running = sched.running
  BY DEF TypeInv, TypeOK, SchedType
<1>4. back \in SchedType
  BY <1>3, PutBackCurrentType
<1>5. back.running \in {sched.running, NoThread}
  BY <1>3 DEF PutBackCurrent, SchedType
<1>6. prioCalc \in [Threads -> Priority]
  BY PrioritiesType, PrioFromType, TypeInvSplit
<1> HIDE DEF prioCalc, back
<1>7. CASE ~Dispatches(back)
  <2>1. sched' = back /\ th' = th
    BY <1>2, <1>7 DEF back, prioCalc
  <2> QED BY <1>1, <1>5, <2>1, SchedMutex
<1>8. CASE Dispatches(back)
  <2>1. sched' = Dispatch(back, prioCalc) /\ th' = [th EXCEPT ![next] = NotStealable(th[next])]
    BY <1>2, <1>8 DEF back, prioCalc
  <2>2. next \in Threads
    BY <1>4, <1>6, <1>8, DispatchType
  <2>3. sched'.running = next
    <3> DEFINE run == [back EXCEPT !.running = next, !.rs[next] = "RUNNING", !.runq = Tail(@)]
    <3>1. run.running = next
      BY <1>4 DEF SchedType
    <3>2. SetRunningPrio(run, prioCalc[next]).running = run.running
      BY <1>4 DEF SetRunningPrio, SetReschedule, SchedType
    <3> QED BY <2>1, <3>1, <3>2 DEF Dispatch
  <2>4. \A t \in Threads : /\ th'[t].dead = th[t].dead /\ th'[t].buried = th[t].buried
                           /\ th'[t].hLastCrit \in {th[t].hLastCrit, NoCrit}
                           /\ t = next => th'[t].hLastCrit = NoCrit
    BY <1>1, <2>1, <2>2 DEF NotStealable, ThreadType
  <2> SUFFICES ASSUME NEW t \in Threads, NEW c \in Crits
               PROVE  PairInv(t, c)'
    BY DEF MutexInv
  <2>5. PairInv(t, c)
    BY DEF MutexInv
  <2> QED BY <1>1, <2>3, <2>4, <2>5, Frame
<1> QED BY <1>7, <1>8

-----------------------------------------------------------------------------
(* The theorem. *)

\* Nothing is owned, listed or waited for at first.
LEMMA MutexInit ==
  ASSUME Init
  PROVE  MutexInv
<1>1. \A c \in Crits : c # NoCrit
  BY CritAssumption DEF NoCrit
<1>2. \A c \in Crits : /\ cs[c].owner = NoThread /\ cs[c].bListed = 0
                       /\ ToSet(cs[c].proxList) = {}
  <2>1. ToSet(<< >>) = {}
    BY DEF ToSet
  <2> QED BY <2>1 DEF Init
<1> SUFFICES ASSUME NEW t \in Threads, NEW c \in Crits
             PROVE  PairInv(t, c)
  BY DEF MutexInv
<1>3. /\ pc[t] = "user" /\ arg[t] = NoCrit /\ depth[t][c] = 0
      /\ ~th[t].dead /\ ~th[t].buried /\ th[t].hLastCrit = NoCrit /\ t # NoThread
  BY NoThreadAssumption DEF Init
<1> QED BY <1>1, <1>2, <1>3
     DEF PairInv, EntryOK, OutsideOK, CallerOK, OwnOK, MarkOK, ListOK, WaitOK, Owns, Leaving,
         InCall, TakeSteps, ExitSteps, DeadSteps, LeaveSteps, QueuedSteps

\* Every step keeps the invariant: one step per part of Next.
LEMMA MutexStep ==
  ASSUME TypeInv, MutexInv, [Next]_vars
  PROVE  MutexInv'
<1>1. CASE UNCHANGED vars
  <2>1. /\ sched' = sched /\ cs' = cs /\ th' = th /\ pc' = pc /\ arg' = arg /\ depth' = depth
    BY <1>1 DEF vars
  <2> QED BY <2>1, SchedMutex
<1>2. ASSUME NEW t \in Threads, Enter(t)
      PROVE  MutexInv'
  BY <1>2, EnterAgainMutex, EnterFastMutex, EnterSlowMutex, EnterSetCountMutex DEF Enter
<1>3. ASSUME NEW t \in Threads, TakeCritSec(t)
      PROVE  MutexInv'
  BY <1>3, TakeMoves, TakeLists, PendMutex, DequeueMutex, BlockedMutex, TakeMutex, StealMutex,
     AbortMutex, FinalBoostMutex DEF TakeCritSec
<1>4. ASSUME NEW t \in Threads, Leave(t)
      PROVE  MutexInv'
  BY <1>4, LeaveNestedMutex, LeaveMarkMutex, LeaveTestMutex, LeaveFreeMutex DEF Leave
<1>5. ASSUME NEW t \in Threads, LeaveCritSec(t)
      PROVE  MutexInv'
  BY <1>5, PreLeaveMutex, LeaveCritFreeMutex, LeaveCritStaleMutex, HandOffMutex,
     LeaveCritRunMutex, PostUnlinkMutex DEF LeaveCritSec
<1>6. ASSUME NEW t \in Threads, Exit(t)
      PROVE  MutexInv'
  BY <1>6, ExitThreadMutex, NKTerminateMutex, DoLeaveSomethingMutex, LeaveListedMutex,
     RemoveThreadMutex DEF Exit
<1>7. ASSUME NEW t \in Threads, Kill(t)
      PROVE  MutexInv'
  BY <1>7, SetThreadToDieMutex, SetThreadBasePrioMutex, KillRunMutex DEF Kill
<1>8. CASE KCNextThread
  BY <1>8, NextThreadMutex
<1>9. CASE QuantumTick \/ \E t \in Threads : Block(t) \/ Wake(t)
  BY <1>9, ClientMutex
<1> QED BY <1>1, <1>2, <1>3, <1>4, <1>5, <1>6, <1>7, <1>8, <1>9 DEF Next, ThreadStep, AllGone

\* Whoever entered a critical section more often than it left it is the owner in
\* the CRITICAL_SECTION, with the same count: no hand-off, steal-back, exit or
\* race around the |1 mark takes it away.
THEOREM EntriesOwned == Spec => []EnteredIsOwner
<1>1. Init => TypeInv /\ MutexInv
  BY TypeInit, MutexInit
<1>2. TypeInv /\ MutexInv /\ [Next]_vars => (TypeInv /\ MutexInv)'
  BY TypeStep, MutexStep
<1>3. TypeInv /\ MutexInv => EnteredIsOwner
  BY DEF MutexInv, PairInv, EntryOK, EnteredIsOwner
<1> QED BY <1>1, <1>2, <1>3, PTL DEF Spec

\* A listed critical section is on the list of its owner, which still resolves.
THEOREM ListsOwned ==
  ASSUME Threads # {}
  PROVE  Spec => []ListedWithOwner
<1>1. Init => TypeInv /\ MutexInv
  BY TypeInit, MutexInit
<1>2. TypeInv /\ MutexInv /\ [Next]_vars => (TypeInv /\ MutexInv)'
  BY TypeStep, MutexStep
<1>3. TypeInv /\ MutexInv => ListedWithOwner
  BY ListedOwner DEF ListedWithOwner
<1> QED BY <1>1, <1>2, <1>3, PTL DEF Spec

-----------------------------------------------------------------------------
(* CritSec implements RecursiveLock: whoever counts an entry is the owner,  *)
(* so a first entry finds nobody else inside.                              *)

\* The owner is the only thread that may have entered.
LEMMA OwnerAlone ==
  ASSUME MutexInv, NEW t \in Threads, NEW c \in Crits, Owns(t, c), DataOK
  PROVE  \A u \in Threads \ {t} : depth[u][c] = 0
<1> SUFFICES ASSUME NEW u \in Threads \ {t}
             PROVE  depth[u][c] = 0
  OBVIOUS
<1>1. PairInv(u, c) /\ depth[u][c] \in Nat
  BY DEF MutexInv, DataOK
<1> QED BY <1>1 DEF PairInv, EntryOK, Owns

\* Returning without a critical section is no step for the client, or its exit.
LEMMA ReturnIsExit ==
  ASSUME DataOK, NEW s \in Threads, ReturnToUser(s, {})
  PROVE  [Lock!Next]_depth
<1>1. CASE depth' = [depth EXCEPT ![s] = HoldsNothing]
  BY <1>1 DEF Lock!Next, Lock!Exit, Lock!Unheld, HoldsNothing
<1>2. CASE depth' = [depth EXCEPT ![s] = [c \in Crits |-> IF c \in {} THEN 1 ELSE @[c]]]
  <2>1. [c \in Crits |-> IF c \in {} THEN 1 ELSE depth[s][c]] = depth[s]
    BY DEF DataOK
  <2>2. depth' = [depth EXCEPT ![s] = depth[s]]
    BY <1>2, <2>1
  <2> QED BY <2>2 DEF DataOK
<1> QED BY <1>1, <1>2 DEF ReturnToUser

\* A step that makes s enter d once more, as the owner.
LEMMA EntersAsOwner ==
  ASSUME MutexInv, DataOK, NEW s \in Threads, NEW d \in Crits, Owns(s, d),
         depth' = [depth EXCEPT ![s][d] = depth[s][d] + 1]
  PROVE  Lock!Next
BY OwnerAlone DEF Lock!Next, Lock!Enter

\* Every step of an EnterCriticalSection call, in user mode or in the kernel.
LEMMA EnterImplements ==
  ASSUME TypeInv, MutexInv, NEW s \in Threads, Enter(s) \/ TakeCritSec(s)
  PROVE  [Lock!Next]_depth
<1> DataOK
  BY TypeInvSplit
<1>1. ASSUME NEW d \in Crits, EnterAgain(s, d)
      PROVE  Lock!Next
  BY <1>1, EntersAsOwner DEF EnterAgain
<1>2. CASE EnterSetCount(s)
  <2>1. PICK d \in Crits : arg[s] = d
    BY <1>2 DEF EnterSetCount, At, TypeInv, ArgOK, ArgSteps
  <2>2. Owns(s, d) /\ depth[s][d] = 0
    <3>1. PairInv(s, d)
      BY DEF MutexInv
    <3> QED BY <1>2, <2>1, <3>1 DEF EnterSetCount, At, PairInv, OutsideOK, CallerOK, InCall
  <2>3. depth' = [depth EXCEPT ![s][d] = depth[s][d] + 1]
    BY <1>2, <2>1, <2>2 DEF EnterSetCount
  <2> QED BY <2>2, <2>3, EntersAsOwner
<1>3. CASE CritFinalBoost(s)
  <2>1. Runs(s) /\ pc[s] = "t_final"
    BY <1>3 DEF CritFinalBoost, At
  <2>2. PICK d \in Crits : arg[s] = d
    BY <2>1, Taker DEF TakeSteps
  <2>3. Owns(s, d) /\ depth[s][d] = 0
    <3>1. PairInv(s, d)
      BY DEF MutexInv
    <3> QED BY <2>1, <2>2, <3>1, Taker DEF PairInv, CallerOK, InCall, TakeSteps
  <2>4. CASE depth' = [depth EXCEPT ![s] = HoldsNothing]
    BY <2>4 DEF Lock!Next, Lock!Exit, Lock!Unheld, HoldsNothing
  <2>5. CASE depth' = [depth EXCEPT ![s] = [c \in Crits |-> IF c \in {d} THEN 1 ELSE @[c]]]
    <3>1. depth[s] \in [Crits -> Nat] /\ depth \in [Threads -> [Crits -> Nat]]
      BY DEF DataOK
    <3>2. [c \in Crits |-> IF c \in {d} THEN 1 ELSE depth[s][c]] = [depth[s] EXCEPT ![d] = 1]
      BY <3>1
    <3>3. depth' = [depth EXCEPT ![s] = [depth[s] EXCEPT ![d] = 1]]
      BY <2>5, <3>2
    <3>4. depth' = [depth EXCEPT ![s][d] = depth[s][d] + 1]
      BY <2>3, <3>1, <3>3
    <3> QED BY <2>3, <3>4, EntersAsOwner
  <2> QED BY <1>3, <2>2, <2>4, <2>5 DEF CritFinalBoost, ReturnToUser
<1>4. CASE CSWaitPart1Abort(s)
  BY <1>4, ReturnIsExit DEF CSWaitPart1Abort
<1>5. CASE depth' = depth
  BY <1>5
<1>6. ASSUME NEW d \in Crits, EnterFast(s, d) \/ EnterSlow(s, d)
      PROVE  depth' = depth
  BY <1>6 DEF EnterFast, EnterSlow
<1>7. ASSUME \/ AllocProxy(s) \/ AllocFails(s) \/ WaitConfig(s) \/ CSWaitPart1Take(s)
             \/ CSWaitPart1Steal(s) \/ CSWaitPart1Pend(s) \/ LaterLinkCritMut(s)
             \/ PostBoostCrit1(s) \/ PostBoostCrit2(s) \/ CSWaitPart2Signalled(s)
             \/ CSWaitPart2Abort(s) \/ CSWaitPart2Block(s) \/ DequeuePrioProxy(s)
             \/ DoReprioCrit(s) \/ TakeRetry(s)
      PROVE  depth' = depth
  BY <1>7 DEF AllocProxy, AllocFails, WaitConfig, CSWaitPart1Take, CSWaitPart1Steal,
              CSWaitPart1Pend, LaterLinkCritMut, PostBoostCrit1, PostBoostCrit2,
              CSWaitPart2Signalled, CSWaitPart2Abort, CSWaitPart2Block, DequeuePrioProxy,
              DoReprioCrit, TakeRetry, Fault
<1> QED BY <1>1, <1>2, <1>3, <1>4, <1>5, <1>6, <1>7 DEF Enter, TakeCritSec

\* Every step of a LeaveCriticalSection call, an exit or a termination.
LEMMA LeaveImplements ==
  ASSUME TypeInv, MutexInv, NEW s \in Threads, Leave(s) \/ LeaveCritSec(s) \/ Exit(s) \/ Kill(s)
  PROVE  [Lock!Next]_depth
<1> DataOK
  BY TypeInvSplit
<1>1. ASSUME NEW d \in Crits, LeaveNested(s, d) \/ LeaveMark(s, d)
      PROVE  Lock!Next
  <2>1. depth[s][d] > 0 /\ depth' = [depth EXCEPT ![s][d] = @ - 1]
    BY <1>1 DEF LeaveNested, LeaveMark
  <2> QED BY <2>1 DEF Lock!Next, Lock!Leave
<1>2. CASE depth' = depth
  BY <1>2
<1>3. CASE ReturnToUser(s, {})
  BY <1>3, ReturnIsExit
<1>4. CASE ExitThread(s)
  BY <1>4 DEF ExitThread, Lock!Next, Lock!Exit, Lock!Unheld, HoldsNothing
<1>5. ASSUME NEW u \in Threads, SetThreadToDie(s, u)
      PROVE  [Lock!Next]_depth
  BY <1>5 DEF SetThreadToDie, Lock!Next, Lock!Exit, Lock!Unheld, HoldsNothing
<1>6. ASSUME \/ LeaveTest(s) \/ LeaveFree(s) \/ LeaveCritFree(s) \/ LeaveCritStale(s)
             \/ LeaveCritHandOff(s) \/ LeaveCritRun(s) \/ NKTerminateThread(s)
             \/ DoLeaveSomething(s) \/ LeaveListed(s) \/ RemoveThread(s)
      PROVE  depth' = depth
  BY <1>6 DEF LeaveTest, LeaveFree, LeaveCritFree, LeaveCritStale, LeaveCritHandOff,
              LeaveCritRun, NKTerminateThread, DoLeaveSomething, LeaveListed, RemoveThread
<1>7. ASSUME PreLeaveCrit(s) \/ PostUnlinkCritMut(s) \/ SetThreadBasePrio(s) \/ KillRun(s)
      PROVE  depth' = depth \/ ReturnToUser(s, {})
  BY <1>7 DEF PreLeaveCrit, PostUnlinkCritMut, SetThreadBasePrio, KillRun
<1> QED BY <1>1, <1>2, <1>3, <1>4, <1>5, <1>6, <1>7 DEF Leave, LeaveCritSec, Exit, Kill

\* Every step, one case per part of Next.
LEMMA StepImplements ==
  ASSUME TypeInv, MutexInv, [Next]_vars
  PROVE  [Lock!Next]_depth
<1>1. CASE \E t \in Threads : ThreadStep(t)
  BY <1>1, EnterImplements, LeaveImplements DEF ThreadStep
<1>2. ASSUME \/ UNCHANGED vars \/ QuantumTick \/ KCNextThread \/ AllGone
             \/ \E t \in Threads : Block(t) \/ Wake(t)
      PROVE  depth' = depth
  BY <1>2 DEF vars, QuantumTick, KCNextThread, AllGone, Block, Wake
<1> QED BY <1>1, <1>2 DEF Next

\* EnterCriticalSection, LeaveCriticalSection, exit and termination implement the
\* recursive lock: each of their steps is a step of it or leaves the counts alone.
THEOREM LockImplemented == Spec => ImplementsLock
<1>1. Init => TypeInv /\ MutexInv
  BY TypeInit, MutexInit
<1>2. TypeInv /\ MutexInv /\ [Next]_vars => (TypeInv /\ MutexInv)'
  BY TypeStep, MutexStep
<1>3. Init => Lock!Init
  BY DEF Init, Lock!Init, Lock!Unheld
<1>4. TypeInv /\ MutexInv /\ [Next]_vars => [Lock!Next]_depth
  BY StepImplements
<1> QED BY <1>1, <1>2, <1>3, <1>4, PTL DEF Spec, ImplementsLock, Lock!Spec
=============================================================================
