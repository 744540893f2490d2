--------------------------- MODULE WaitSignal_proofs ---------------------------
(***************************************************************************)
(* What signals and waits of WaitObj do to each other: no signal is missed *)
(* (NoSignalMissed), and a semaphore keeps to its limit (TypeOK), for any  *)
(* threads, objects and calls, if interrupt events are waited for without  *)
(* a time-out.                                                             *)
(*                                                                         *)
(* The inductive invariant is Inv of WaitObj_proofs together with MissInv: *)
(* who waits for an interrupt event waits for nothing else, and no object  *)
(* a live proxy is on is there for its thread; and with CountInv: what is  *)
(* pending at a semaphore is what its releasers have in hand.              *)
(***************************************************************************)
EXTENDS WaitObj_proofs

(***************************************************************************)
(* No signal is missed.                                                    *)
(***************************************************************************)
\* Where a thread may have proxies on objects.
Joining == InWait \union {"w_link", "w_dequeue", "w_reprio"}

\* An interrupt event is waited for alone.
Alone(h) ==
  /\ \A o \in ToSet(h.queued) : Kind[o] = "intr" => h.queued = <<o>> /\ h.pend = << >>
  /\ \A o \in ToSet(h.pend) : Kind[o] = "intr" => h.queued = << >> /\ h.pend = <<o>>

\* Proxies are on objects in the course of a wait only, and a KCall that signals
\* is about an object of its kind.
Links(p, h, a) ==
  /\ p \notin Joining => h.queued = << >>
  /\ Alone(h)
  /\ p = "s_auto" => Kind[a.call.obj] = "auto"
  /\ p = "s_intr" => Kind[a.call.obj] = "intr"

\* t's wait is open, and its proxy is on o.
Hooked(t, o) ==
  sched.live[t] /\ o \in ToSet(th[t].queued) /\ (Kind[o] = "intr" \/ t \in ToSet(obj[o].q))

MissInv ==
  /\ \A t \in Threads : Links(pc[t], th[t], arg[t])
  /\ \A t \in Threads, o \in Objects : Hooked(t, o) => ~Available(o, t)

\* Where a thread goes on with the proxies it has.
Onward(p, q) == q = p \/ (q \notin {"s_auto", "s_intr"} /\ (q \in Joining \/ p \notin Joining))

\* What a step leaves alone, unless it opens a wait, queues a proxy or cleans up.
NoneOpens   == \A u \in Threads : sched'.live[u] => sched.live[u]
Onwards     == \A u \in Threads : Onward(pc[u], pc'[u])
SameProxies(h, k) == k.queued = h.queued /\ k.pend = h.pend
ProxiesStay == \A u \in Threads : SameProxies(th[u], th'[u]) /\ arg'[u].call = arg[u].call

\* Whether x, as object o, is there for t to take.
Offer(o, x, t) ==
  CASE Kind[o] = "sem"   -> x.count > 0
    [] Kind[o] = "mutex" -> x.owner \in {NoThread, t}
    [] OTHER             -> x.state

\* A thread that goes on with its proxies keeps its links.
LEMMA LinksStay ==
  ASSUME NEW p, NEW q, NEW h, NEW k, NEW a, NEW b, Links(p, h, a), Onward(p, q), SameProxies(h, k),
         b.call = a.call
  PROVE  Links(q, k, b)
BY DEF Links, Onward, SameProxies, Alone

\* Objects stay.
LEMMA SameObjects ==
  ASSUME MissInv, NoneOpens, Onwards, ProxiesStay, obj' = obj
  PROVE  MissInv'
<1>1. \A t \in Threads : Links(pc'[t], th'[t], arg'[t])
  BY LinksStay DEF MissInv, Onwards, ProxiesStay
<1>2. ASSUME NEW t \in Threads, NEW o \in Objects, Hooked(t, o)'
      PROVE  ~Available(o, t)'
  <2>1. Hooked(t, o)
    BY <1>2 DEF Hooked, NoneOpens, ProxiesStay, SameProxies
  <2>2. ~Available(o, t)
    BY <2>1 DEF MissInv
  <2> QED BY <2>2 DEF Available
<1> QED BY <1>1, <1>2 DEF MissInv

\* One object changes, and is not there for those who wait for it.
LEMMA ObjectStep ==
  ASSUME Shape, MissInv, NoneOpens, \A t \in Threads : Links(pc'[t], th'[t], arg'[t]),
         NEW o \in Objects, NEW y, obj' = [obj EXCEPT ![o] = y],
         \A u \in Threads : \A m \in ToSet(th'[u].queued) :
           sched'.live[u] /\ m # o => m \in ToSet(th[u].queued),
         \A u \in Threads :
           sched'.live[u] /\ o \in ToSet(th'[u].queued) /\ (Kind[o] = "intr" \/ u \in ToSet(y.q)) =>
             ~Offer(o, y, u)
  PROVE  MissInv'
<1>1. obj'[o] = y /\ \A m \in Objects \ {o} : obj'[m] = obj[m]
  BY DEF Shape
<1>2. ASSUME NEW t \in Threads, NEW m \in Objects, Hooked(t, m)'
      PROVE  ~Available(m, t)'
  <2>1. CASE m = o
    <3>1. ~Offer(o, y, t)
      BY <1>1, <1>2, <2>1 DEF Hooked
    <3> QED BY <1>1, <2>1, <3>1 DEF Available, Offer
  <2>2. CASE m # o
    <3>1. Hooked(t, m)
      BY <1>1, <1>2, <2>2 DEF Hooked, NoneOpens
    <3>2. ~Available(m, t)
      BY <3>1 DEF MissInv
    <3> QED BY <1>1, <2>2, <3>2 DEF Available
  <2> QED BY <2>1, <2>2
<1> QED BY <1>2 DEF MissInv

\* One object changes to y, which no more threads wait for, and which is there
\* for no waiter that it was not there for.
LEMMA QuietObject ==
  ASSUME Shape, MissInv, NoneOpens, \A t \in Threads : Links(pc'[t], th'[t], arg'[t]),
         NEW o \in Objects, NEW y, obj' = [obj EXCEPT ![o] = y],
         \A u \in Threads : \A m \in ToSet(th'[u].queued) : sched'.live[u] => m \in ToSet(th[u].queued),
         \A u \in Threads : sched'.live[u] =>
           /\ u \in ToSet(y.q) => u \in ToSet(obj[o].q)
           /\ Offer(o, y, u) => Offer(o, obj[o], u)
  PROVE  MissInv'
<1>1. ASSUME NEW u \in Threads, sched'.live[u], o \in ToSet(th'[u].queued),
             Kind[o] = "intr" \/ u \in ToSet(y.q)
      PROVE  ~Offer(o, y, u)
  <2>1. Hooked(u, o)
    BY <1>1 DEF Hooked, NoneOpens
  <2>2. ~Offer(o, obj[o], u)
    BY <2>1 DEF MissInv, Available, Offer
  <2> QED BY <1>1, <2>2
<1>2. \A u \in Threads : \A m \in ToSet(th'[u].queued) :
        sched'.live[u] /\ m # o => m \in ToSet(th[u].queued)
  OBVIOUS
<1> QED BY <1>1, <1>2, ObjectStep
-----------------------------------------------------------------------------
\* One thread goes on.
LEMMA Goes ==
  ASSUME Shape, NEW t \in Threads, NEW p, pc[t] = p, NEW q, pc' = [pc EXCEPT ![t] = q], Onward(p, q)
  PROVE  Onwards
BY DEF Shape, Onwards, Onward

\* One thread's fields change, but not its proxies.
LEMMA OneKeeps ==
  ASSUME Shape, \A u \in Threads : arg'[u].call = arg[u].call, NEW t \in Threads, NEW y,
         th' = [th EXCEPT ![t] = y], SameProxies(th[t], y)
  PROVE  ProxiesStay
BY DEF Shape, ProxiesStay, SameProxies

\* The fields outside the proxies.
LEMMA ProxyFields ==
  ASSUME NEW x \in ThreadType, NEW r, NEW b, NEW n, NEW p, NEW m, NEW w
  PROVE  /\ SameProxies(x, [x EXCEPT !.ret = r]) /\ SameProxies(x, [x EXCEPT !.pendReturn = r])
         /\ SameProxies(x, [x EXCEPT !.noPrioCalc = b]) /\ SameProxies(x, [x EXCEPT !.bprio = p])
         /\ SameProxies(x, [x EXCEPT !.pendSusp = n])
         /\ SameProxies(x, [x EXCEPT !.proxPrio = p, !.ret = r, !.pendReturn = r, !.pendTime = m,
                                     !.pendWakeup = w, !.pendSusp = n])
BY DEF ThreadType, SameProxies

\* Nothing but the scheduler and the places of threads changes.
LEMMA OnlyMoves ==
  ASSUME MissInv, NoneOpens, Onwards, th' = th, arg' = arg, obj' = obj
  PROVE  MissInv'
BY SameObjects DEF ProxiesStay, SameProxies

\* Steps of the scheduler that open no wait: passing by,
LEMMA PassesOpens ==
  ASSUME NEW n, \A u \in Threads : Passes(sched, sched', u, n)
  PROVE  NoneOpens
BY DEF Passes, SameThread, Expires, Slips, NoneOpens

\* ... a change of the run queue,
LEMMA RunOpens ==
  ASSUME NEW t, RunChange(sched, sched', t)
  PROVE  NoneOpens
BY DEF RunChange, SameSleep, NoneOpens

\* ... a signal,
LEMMA MarkedOpens ==
  ASSUME NEW t, Marked(sched, sched', t)
  PROVE  NoneOpens /\ ~sched'.live[t]
BY DEF Marked, ExactSame, SameThread, NoneOpens

\* ... and a suspension.
LEMMA SuspendedOpens ==
  ASSUME NEW t, NEW n, Suspended(sched, sched', t, n)
  PROVE  NoneOpens
BY DEF Suspended, Passes, SameThread, Expires, Slips, NoneOpens

\* The wait is signalled, or over, or the thread wakes.
LEMMA WaitSignalledMiss ==
  ASSUME Inv, MissInv, NEW t \in Threads, WaitSignalled(t)
  PROVE  MissInv'
<1>1. Shape /\ sched \in SleepType /\ pc[t] = "w_one"
  BY OKFields DEF Inv, WaitSignalled, At
<1>2. sched' = Forgets(sched, t)
  BY DEF WaitSignalled, Awake, Forgets
<1>3. NoneOpens
  BY <1>1, <1>2, ForgetsSets DEF NoneOpens
<1>4. Onwards
  BY <1>1, Goes DEF WaitSignalled, Goto, Onward, Joining
<1>5. ProxiesStay
  <2> DEFINE y == [th[t] EXCEPT !.ret = th[t].pendReturn]
  <2>1. SameProxies(th[t], y)
    BY <1>1, ProxyFields DEF Shape
  <2>2. th' = [th EXCEPT ![t] = y] /\ arg' = arg
    BY DEF WaitSignalled
  <2> HIDE DEF y
  <2> QED BY <1>1, <2>1, <2>2, OneKeeps
<1> QED BY <1>3, <1>4, <1>5, SameObjects DEF WaitSignalled

\* WaitOneMore ends the wait of t, and opens none.
LEMMA FinishOpens ==
  ASSUME sched \in SleepType, Shape, NEW t \in Threads, pc[t] = "w_one", NEW r,
         NEW next \in {"w_dequeue", "w_link"}, Finish(t, r, next),
         \A u \in Threads : arg'[u].call = arg[u].call
  PROVE  NoneOpens /\ ~sched'.live[t] /\ Onwards /\ ProxiesStay
<1>1. sched' = Ended(sched, t)
  BY DEF Finish, Awake, Ended, Forgets
<1>2. NoneOpens /\ ~sched'.live[t]
  <2>1. sched'.live = [sched.live EXCEPT ![t] = FALSE] /\ sched.live \in [Threads -> BOOLEAN]
    BY <1>1, EndedSets, SleepFields DEF EndedTo
  <2> QED BY <2>1 DEF NoneOpens
<1>3. Onwards
  BY Goes DEF Finish, Goto, Onward, Joining
<1>4. ProxiesStay
  <2> DEFINE y == [th[t] EXCEPT !.ret = r]
  <2>1. SameProxies(th[t], y)
    BY ProxyFields DEF Shape
  <2>2. th' = [th EXCEPT ![t] = y]
    BY DEF Finish
  <2> HIDE DEF y
  <2> QED BY <2>1, <2>2, OneKeeps
<1> QED BY <1>2, <1>3, <1>4

\* A poll that finds an object not there waits for nothing.
LEMMA WaitPollsMiss ==
  ASSUME Inv, MissInv, NEW t \in Threads, NEW o \in Objects, WaitPolls(t, o)
  PROVE  MissInv'
<1>1. Shape /\ sched \in SleepType /\ pc[t] = "w_one"
  BY OKFields DEF Inv, WaitPolls, NextObject, At
<1>2. Finish(t, TimeOut, "w_dequeue") /\ arg' = arg /\ obj' = obj
  BY DEF WaitPolls
<1>3. NoneOpens /\ Onwards /\ ProxiesStay
  BY <1>1, <1>2, FinishOpens
<1> QED BY <1>2, <1>3, SameObjects

\* The time is over.
LEMMA WaitTimesOutMiss ==
  ASSUME Inv, MissInv, NEW t \in Threads, WaitTimesOut(t)
  PROVE  MissInv'
<1>1. Shape /\ sched \in SleepType /\ pc[t] = "w_one"
  BY OKFields DEF Inv, WaitTimesOut, AllQueued, At
<1>2. Finish(t, TimeOut, "w_dequeue") /\ arg' = arg /\ obj' = obj
  BY DEF WaitTimesOut
<1>3. NoneOpens /\ Onwards /\ ProxiesStay
  BY <1>1, <1>2, FinishOpens
<1> QED BY <1>2, <1>3, SameObjects

\* All are queued, and the thread blocks,
LEMMA WaitBlocksMiss ==
  ASSUME Inv, MissInv, NEW t \in Threads, WaitBlocks(t)
  PROVE  MissInv'
<1>1. Shape /\ sched \in SleepType /\ pc[t] = "w_one" /\ sched.running = t
  BY OKFields DEF Inv, WaitBlocks, AllQueued, At
<1>2. sched'.live = sched.live
  <2> DEFINE q == Forgets(sched, t)
             b == BlockCurrent(q)
  <2>1. q \in SleepType /\ q.live = sched.live /\ q.running = t
    BY <1>1, ForgetsSets DEF SamePlaces
  <2>2. sched' = [b EXCEPT !.wait[t] = "BLOCKED"]
    BY DEF WaitBlocks, Awake, Forgets
  <2> HIDE DEF q
  <2>3. b.live = q.live /\ b \in SleepType
    BY <2>1 DEF BlockCurrent, SleepType, RunState
  <2> HIDE DEF b
  <2>4. sched'.live = b.live
    BY <2>2, <2>3 DEF SleepType
  <2> QED BY <2>1, <2>3, <2>4
<1>3. Onwards
  BY <1>1, Goes DEF WaitBlocks, Goto, Onward, Joining, InWait
<1>4. NoneOpens
  BY <1>2 DEF NoneOpens
<1> QED BY <1>3, <1>4, OnlyMoves DEF WaitBlocks

\* ... or it looks for its place in the sleep queue.
LEMMA SearchOpens ==
  ASSUME NEW t \in Threads, NEW r, SearchStep(t, r), sched'.live = r.live
  PROVE  NoneOpens
BY DEF SearchStep, ExactSame, SameThread, NoneOpens

\* The wait goes to sleep.
LEMMA WaitSleepsMiss ==
  ASSUME Inv, MissInv, NEW t \in Threads, WaitSleeps(t)
  PROVE  MissInv'
<1> DEFINE r == SleepOneMore(Awake(t), t, th[t].pendWakeup)
<1>1. Runs(t, "w_one") /\ Shape /\ now < th[t].pendWakeup
  BY AllQueuedFacts DEF WaitSleeps, Inv
<1>2. SearchStep(t, r)
  BY <1>1, SearchStepDoes
<1>3. /\ obj' = obj /\ arg' = arg
      /\ \/ sched' = r /\ th' = th /\ pc' = pc
         \/ /\ sched' = [r EXCEPT !.wait[t] = "BLOCKED"] /\ th' = [th EXCEPT ![t].ret = TimeOut]
            /\ pc' = [pc EXCEPT ![t] = "w_woken"]
  BY DEF WaitSleeps, Goto
<1> HIDE DEF r
<1>4. r \in SleepType
  BY <1>2, OKFields DEF SearchStep
<1>5. sched'.live = r.live
  BY <1>3, <1>4 DEF SleepType
<1>6. NoneOpens
  BY <1>2, <1>5, SearchOpens
<1>7. CASE th' = th /\ pc' = pc
  BY <1>3, <1>6, <1>7, OnlyMoves DEF Onwards, Onward
<1>8. CASE th' = [th EXCEPT ![t].ret = TimeOut] /\ pc' = [pc EXCEPT ![t] = "w_woken"]
  <2>1. Onwards
    BY <1>1, <1>8, Goes DEF Onward, Joining, InWait, Runs
  <2> DEFINE y == [th[t] EXCEPT !.ret = TimeOut]
  <2>2. SameProxies(th[t], y)
    BY <1>1, ProxyFields DEF Shape
  <2>3. th' = [th EXCEPT ![t] = y]
    BY <1>8
  <2> HIDE DEF y
  <2>4. ProxiesStay
    BY <1>1, <1>3, <2>2, <2>3, OneKeeps
  <2> QED BY <1>3, <1>6, <2>1, <2>4, SameObjects
<1> QED BY <1>3, <1>7, <1>8

\* Steps that change nothing but where the thread is.
LEMMA WokenMiss ==
  ASSUME Inv, MissInv, NEW t \in Threads, WaitWoken(t) \/ SleepWoken(t)
  PROVE  MissInv'
<1>1. NoneOpens /\ th' = th /\ arg' = arg /\ obj' = obj /\ Shape
  BY DEF WaitWoken, SleepWoken, NoneOpens, Inv
<1>2. CASE WaitWoken(t)
  BY <1>1, <1>2, Goes, OnlyMoves DEF WaitWoken, Goto, At, Onward, Joining, InWait
<1>3. CASE SleepWoken(t)
  BY <1>1, <1>3, Goes, OnlyMoves DEF SleepWoken, Goto, At, Onward, Joining, InWait
<1> QED BY <1>2, <1>3
-----------------------------------------------------------------------------
\* MakeRunIfNeeded.
LEMMA MakeRunMiss ==
  ASSUME Inv, MissInv, NEW t \in Threads, MakeRunNeeded(t)
  PROVE  MissInv'
<1> DEFINE w == arg[t].tgt
           next == AfterRun[pc[t]]
<1>1. Runs(t, pc[t]) /\ pc[t] \in DOMAIN AfterRun
  BY RunsNow DEF MakeRunNeeded
<1>2. Shape /\ SleepOK(sched) /\ BedsOK(sched) /\ DueOK(sched, now)
  BY OKFields DEF Inv
<1>3. w \in Threads
  <2>1. CallOK(pc[t], arg[t])
    BY <1>1, RunPCs DEF Runs, ThreadOK
  <2> QED BY <1>1, <1>2, <2>1 DEF CallOK, Shape, ArgType
<1>4. sched' = WakeIfNeeded(sched, w) /\ th' = th /\ obj' = obj
      /\ arg' = [arg EXCEPT ![t].tgt = NoThread] /\ pc' = [pc EXCEPT ![t] = next]
  BY DEF MakeRunNeeded, Goto
<1>5. NoneOpens
  <2>1. CASE sched.rs[w] = "NEEDSRUN"
    <3>1. WokenUp(sched, sched', w, now)
      BY <1>2, <1>3, <1>4, <2>1, WakeIfNeededDoes
    <3> QED BY <3>1 DEF WokenUp, Woken, ExactSame, SameThread, NoneOpens
  <2>2. CASE sched.rs[w] # "NEEDSRUN"
    BY <1>2, <1>3, <1>4, <2>2, WakeIfNeededDoes DEF NoneOpens
  <2> QED BY <2>1, <2>2
<1>6. \A u \in Threads : arg'[u].call = arg[u].call
  BY <1>2, <1>4, TargetSet
<1>7. Onwards
  <2>1. Onward(pc[t], next)
    BY <1>1, RunPCs DEF Onward, Joining, InWait
  <2> HIDE DEF next
  <2> QED BY <1>2, <1>4, <2>1, Goes
<1> QED BY <1>4, <1>5, <1>6, <1>7, SameObjects DEF ProxiesStay, SameProxies

\* The setter of a manual-reset event fixes its priority, and lets go of it,
LEMMA NoPrioCalcMiss ==
  ASSUME Inv, MissInv, NEW t \in Threads, SetNoPrioCalc(t) \/ ClearNoPrioCalc(t)
  PROVE  MissInv'
<1> DEFINE b == SetNoPrioCalc(t)
           y == [th[t] EXCEPT !.noPrioCalc = b]
           q == IF b THEN IF stub[t] = << >> THEN "k_return" ELSE "m_boost"
                ELSE IF arg[t].remain < arg[t].oldPrio THEN "m_adjust" ELSE "k_return"
           p == IF b THEN "m_prio" ELSE "m_clear"
<1>1. Shape
  BY DEF Inv
<1>2. pc[t] = p /\ b \in BOOLEAN /\ sched' = sched /\ obj' = obj /\ arg' = arg
      /\ pc' = [pc EXCEPT ![t] = q] /\ (th' = th \/ th' = [th EXCEPT ![t] = y])
  BY DEF SetNoPrioCalc, ClearNoPrioCalc, Goto, At
<1>3. SameProxies(th[t], y)
  <2> HIDE DEF b
  <2> QED BY <1>1, ProxyFields DEF Shape
<1>4. NoneOpens
  BY <1>2 DEF NoneOpens
<1>5. Onward(p, q)
  BY DEF Onward, Joining, InWait
<1> HIDE DEF y, q, p
<1>6. Onwards
  BY <1>1, <1>2, <1>5, Goes
<1>7. CASE th' = th
  BY <1>2, <1>4, <1>6, <1>7, OnlyMoves
<1>8. CASE th' = [th EXCEPT ![t] = y]
  <2>1. ProxiesStay
    BY <1>1, <1>2, <1>3, <1>8, OneKeeps
  <2> QED BY <1>2, <1>4, <1>6, <2>1, SameObjects
<1> QED BY <1>2, <1>7, <1>8

\* ... and takes the waiters' priority.
LEMMA BoostSelfMiss ==
  ASSUME Inv, MissInv, NEW t \in Threads, BoostSelf(t)
  PROVE  MissInv'
<1>1. Shape /\ sched \in SleepType
  BY OKFields DEF Inv
<1>2. pc[t] = "m_boost" /\ obj' = obj /\ arg' = arg /\ th' = th
      /\ pc' = [pc EXCEPT ![t] = "m_wake"]
      /\ \/ sched' = sched
         \/ sched' = [sched EXCEPT !.cprio[t] = arg[t].remain]
  BY DEF BoostSelf, Goto, At
<1>3. NoneOpens
  <2>1. sched'.live = sched.live
    BY <1>1, <1>2 DEF SleepType
  <2> QED BY <2>1 DEF NoneOpens
<1>4. Onwards
  BY <1>1, <1>2, Goes DEF Onward, Joining, InWait
<1> QED BY <1>2, <1>3, <1>4, OnlyMoves

\* The priority of the running thread is adjusted.
LEMMA AdjustPrioMiss ==
  ASSUME Inv, MissInv, NEW t \in Threads, AdjustPrioDown(t)
  PROVE  MissInv'
<1>1. Runs(t, "m_adjust") /\ Shape /\ SleepOK(sched)
  BY RunsNow DEF AdjustPrioDown, Inv
<1>2. RunChange(sched, sched', t)
  BY <1>1, PrioFacts, SetRunningPrioDoes DEF Runs, AdjustPrioDown
<1>3. Onwards
  BY <1>1, Goes DEF AdjustPrioDown, Goto, Onward, Joining, InWait, Runs
<1> QED BY <1>2, <1>3, RunOpens, OnlyMoves DEF AdjustPrioDown

\* ... as when a mutex was left.
LEMMA PostUnlinkMiss ==
  ASSUME Inv, MissInv, NEW t \in Threads, PostUnlinkCritMut(t)
  PROVE  MissInv'
<1> DEFINE y == [th[t] EXCEPT !.noPrioCalc = FALSE]
<1>1. Runs(t, "r_post") /\ Shape /\ SleepOK(sched)
  BY RunsNow DEF PostUnlinkCritMut, Inv
<1>2. NoneOpens
  <2>1. CASE sched' = sched
    BY <2>1 DEF NoneOpens
  <2>2. CASE sched' = SetRunningPrio(sched, OwnedPrio(t))
    <3>1. RunChange(sched, sched', t)
      BY <1>1, <2>2, PrioFacts, SetRunningPrioDoes DEF Runs
    <3> QED BY <3>1, RunOpens
  <2> QED BY <2>1, <2>2 DEF PostUnlinkCritMut
<1>3. Onwards
  BY <1>1, Goes DEF PostUnlinkCritMut, Goto, Onward, Joining, InWait, Runs
<1>4. SameProxies(th[t], y)
  BY <1>1, ProxyFields DEF Shape
<1>5. th' = [th EXCEPT ![t] = y] /\ arg' = arg /\ obj' = obj
  BY DEF PostUnlinkCritMut
<1> HIDE DEF y
<1> QED BY <1>1, <1>2, <1>3, <1>4, <1>5, OneKeeps, SameObjects

\* Sleep(0).
LEMMA YieldMiss ==
  ASSUME Inv, MissInv, NEW t \in Threads, Yield(t)
  PROVE  MissInv'
<1>1. Runs(t, "yield") /\ Shape /\ SleepOK(sched)
  BY RunsNow DEF Yield, Inv
<1>2. RunChange(sched, sched', t)
  BY <1>1, ThreadYieldDoes DEF Runs, Yield
<1>3. Onwards
  BY <1>1, Goes DEF Yield, Goto, Onward, Joining, InWait, Runs
<1> QED BY <1>2, <1>3, RunOpens, OnlyMoves DEF Yield

\* A sleep.
LEMMA PutToSleepMiss ==
  ASSUME Inv, MissInv, NEW t \in Threads, PutThreadToSleep(t)
  PROVE  MissInv'
<1> DEFINE r == SleepOneMore(Awake(t), t, th[t].pendWakeup)
           q == IF now >= th[t].pendWakeup THEN "k_return"
                ELSE IF (IF now < th[t].pendWakeup THEN r ELSE Awake(t)).running = t
                THEN "z_put" ELSE "z_woken"
<1>1. Runs(t, "z_put") /\ Shape /\ sched \in SleepType
  BY RunsNow, OKFields DEF PutThreadToSleep, Inv
<1>2. /\ sched' = IF now < th[t].pendWakeup THEN r ELSE Awake(t)
      /\ pc' = [pc EXCEPT ![t] = q] /\ th' = th /\ obj' = obj /\ arg' = arg
  BY DEF PutThreadToSleep, Goto
<1>3. NoneOpens
  <2>1. CASE now < th[t].pendWakeup
    <3>1. SearchStep(t, r) /\ sched' = r
      BY <1>1, <1>2, <2>1, SearchStepDoes
    <3> HIDE DEF r
    <3> QED BY <3>1, SearchOpens
  <2>2. CASE ~(now < th[t].pendWakeup)
    <3>1. sched' = Forgets(sched, t)
      BY <1>2, <2>2 DEF Awake, Forgets
    <3> QED BY <1>1, <3>1, ForgetsSets DEF NoneOpens
  <2> QED BY <2>1, <2>2
<1>4. q \in {"k_return", "z_put", "z_woken"}
  OBVIOUS
<1> HIDE DEF q, r
<1>5. Onwards
  <2>1. Onward("z_put", q)
    BY <1>4 DEF Onward, Joining, InWait
  <2> QED BY <1>1, <1>2, <2>1, Goes DEF Runs
<1> QED BY <1>2, <1>3, <1>5, OnlyMoves

\* A boost opens no wait.
LEMMA BoostedOpens ==
  ASSUME Inv, NEW u \in Threads, NEW prio \in Priority,
         sched' = sched \/ sched' = BoostSleeper(sched, u, prio)
  PROVE  NoneOpens
<1>1. /\ \A v \in Threads \ {u} : Passes(sched, sched', v, now)
      /\ Passes(sched, sched', u, now) \/ Requeued(sched, sched', u)
  BY Boosted
<1>2. ASSUME NEW v \in Threads, Passes(sched, sched', v, now)
      PROVE  sched'.live[v] => sched.live[v]
  BY <1>2 DEF Passes, SameThread, Expires, Slips
<1>3. Requeued(sched, sched', u) => (sched'.live[u] => sched.live[u])
  BY DEF Requeued
<1> QED BY <1>1, <1>2, <1>3 DEF NoneOpens

\* A base priority is set.
LEMMA BasePrioMiss ==
  ASSUME Inv, MissInv, NEW t \in Threads, SetThreadBasePrio(t)
  PROVE  MissInv'
<1> DEFINE u == Op(t).thread
           p == Op(t).prio
           own == Min({p} \union ListedPrios(t))
           y == [th[u] EXCEPT !.bprio = p]
<1>1. Runs(t, "basePrio") /\ Shape /\ SleepOK(sched)
  BY RunsNow DEF SetThreadBasePrio, Inv
<1>2. u \in Threads /\ p \in Priority
  <2>1. Op(t) \in CallType /\ Op(t).call = "basePrio"
    BY <1>1 DEF Runs, CallAt, Op
  <2> QED BY <2>1, CallFacts
<1>3. own \in Priority
  BY <1>1, <1>2, PrioFacts
<1>4. /\ obj' = obj /\ arg' = arg /\ pc' = [pc EXCEPT ![t] = "k_return"] /\ th' = [th EXCEPT ![u] = y]
      /\ \/ sched' = sched
         \/ sched' = SetRunningPrio(sched, own)
         \/ sched' = BoostSleeper(sched, u, p)
  BY DEF SetThreadBasePrio, Goto
<1>5. SameProxies(th[u], y)
  BY <1>1, <1>2, ProxyFields DEF Shape
<1> HIDE DEF u, p, own, y
<1>6. NoneOpens
  <2>1. CASE sched' = SetRunningPrio(sched, own)
    <3>1. RunChange(sched, sched', t)
      BY <1>1, <1>3, <2>1, SetRunningPrioDoes DEF Runs
    <3> QED BY <3>1, RunOpens
  <2> QED BY <1>2, <1>4, <2>1, BoostedOpens
<1>7. Onwards
  BY <1>1, <1>4, Goes DEF Onward, Joining, InWait, Runs
<1> QED BY <1>1, <1>2, <1>4, <1>5, <1>6, <1>7, OneKeeps, SameObjects

\* A suspension of the running thread opens no wait.
LEMMA SuspendItselfOpens ==
  ASSUME Inv, NEW t \in Threads, NEW p, Runs(t, p), sched' = SuspendNow(sched, t)
  PROVE  NoneOpens
<1>1. SleepOK(sched) /\ DueOK(sched, now)
  BY DEF Inv
<1>2. Suspended(sched, sched', t, now)
  BY <1>1, SuspendNowDoes DEF Runs
<1> QED BY <1>2, SuspendedOpens

\* A thread suspends itself, in the client or not,
LEMMA SuspendItselfMiss ==
  ASSUME Inv, MissInv, NEW t \in Threads, SuspendSelf(t) \/ Retire(t)
  PROVE  MissInv'
<1>1. \/ Runs(t, "suspendSelf") /\ SuspendSelf(t)
      \/ Runs(t, "user") /\ Retire(t)
  BY RunsNow DEF SuspendSelf, Retire
<1>2. Shape
  BY DEF Inv
<1>3. sched' = SuspendNow(sched, t) /\ th' = th /\ arg' = arg /\ obj' = obj
  BY DEF SuspendSelf, Retire
<1>4. NoneOpens
  BY <1>1, <1>3, SuspendItselfOpens
<1>5. Onwards
  BY <1>1, <1>2, Goes DEF SuspendSelf, Retire, Goto, Onwards, Onward, Joining, InWait, Runs
<1> QED BY <1>3, <1>4, <1>5, OnlyMoves

\* ... or another.
LEMMA SuspendOtherOpens ==
  ASSUME Inv, NEW u \in Threads, sched.rs[u] = "BLOCKED" \/ pc[u] = "user",
         sched' = SuspendNow(sched, u)
  PROVE  NoneOpens
<1>1. SleepOK(sched) /\ DueOK(sched, now) /\ ThreadOK(sched, u, th[u], pc[u], arg[u], now)
  BY DEF Inv
<1>2. sched.rs[u] # "NEEDSRUN"
  BY <1>1 DEF ThreadOK, StandsOK
<1>3. Suspended(sched, sched', u, now)
  BY <1>1, <1>2, SuspendNowDoes
<1> QED BY <1>3, SuspendedOpens
\* ThreadSuspend: at once, or counted.
LEMMA SuspendMiss ==
  ASSUME Inv, MissInv, NEW t \in Threads, Suspend(t)
  PROVE  MissInv'
<1> DEFINE u == Op(t).thread
           y == [th[u] EXCEPT !.pendSusp = th[u].pendSusp + 1]
<1>1. Runs(t, "suspend") /\ Shape /\ u \in Threads
  BY RunsNow, ControlFacts DEF Suspend, Inv
<1>2. /\ obj' = obj /\ arg' = arg /\ pc' = [pc EXCEPT ![t] = "k_return"]
      /\ \/ sched' = sched /\ th' = [th EXCEPT ![u] = y]
         \/ sched' = SuspendNow(sched, u) /\ th' = th /\ (pc[u] = "user" \/ u = t)
  BY DEF Suspend, Goto, InKernel
<1>3. SameProxies(th[u], y)
  <2> DEFINE n == th[u].pendSusp + 1
  <2> HIDE DEF n
  <2> QED BY <1>1, ProxyFields DEF Shape
<1> HIDE DEF u, y
<1>4. Onwards
  BY <1>1, <1>2, Goes DEF Onward, Joining, InWait, Runs
<1>5. CASE sched' = sched /\ th' = [th EXCEPT ![u] = y]
  <2>1. ProxiesStay
    BY <1>1, <1>2, <1>3, <1>5, OneKeeps
  <2> QED BY <1>2, <1>4, <1>5, <2>1, SameObjects DEF NoneOpens
<1>6. CASE sched' = SuspendNow(sched, u) /\ th' = th /\ pc[u] = "user"
  <2>1. NoneOpens
    BY <1>1, <1>6, SuspendOtherOpens
  <2> QED BY <1>2, <1>4, <1>6, <2>1, OnlyMoves
<1>7. CASE sched' = SuspendNow(sched, t) /\ th' = th
  <2>1. NoneOpens
    BY <1>1, <1>7, SuspendItselfOpens
  <2> QED BY <1>2, <1>4, <1>7, <2>1, OnlyMoves
<1> QED BY <1>2, <1>5, <1>6, <1>7

\* ScavengeStacks, up to the suspension.
LEMMA ScavengeMiss ==
  ASSUME Inv, MissInv, NEW t \in Threads, Scavenge(t)
  PROVE  MissInv'
<1> DEFINE u == Op(t).thread
           refused == InKernel(u) /\ sched.rs[u] # "BLOCKED"
<1>1. Runs(t, "c_suspend") /\ Shape /\ u \in Threads
  BY RunsNow, ControlFacts DEF Scavenge, Inv
<1>2. /\ obj' = obj /\ arg' = arg /\ th' = th
      /\ pc' = [pc EXCEPT ![t] = IF refused THEN "k_return" ELSE "c_resume"]
      /\ sched' = IF refused THEN sched ELSE SuspendNow(sched, u)
  BY DEF Scavenge, Goto
<1>3. NoneOpens
  <2>1. CASE refused
    BY <1>2, <2>1 DEF NoneOpens
  <2>2. CASE ~refused
    BY <1>1, <1>2, <2>2, SuspendOtherOpens DEF InKernel
  <2> QED BY <2>1, <2>2
<1>4. Onwards
  <2> DEFINE q == IF refused THEN "k_return" ELSE "c_resume"
  <2>1. Onward("c_suspend", q)
    BY DEF Onward, Joining, InWait
  <2>2. pc' = [pc EXCEPT ![t] = q]
    BY <1>2
  <2> HIDE DEF q
  <2> QED BY <1>1, <2>1, <2>2, Goes DEF Runs
<1> QED BY <1>2, <1>3, <1>4, OnlyMoves

\* ThreadResume.
LEMMA ResumeMiss ==
  ASSUME Inv, MissInv, NEW t \in Threads, Resume(t)
  PROVE  MissInv'
<1> DEFINE u == Op(t).thread
           y == [th[u] EXCEPT !.pendSusp = th[u].pendSusp - 1]
<1>1. pc[t] \in {"resume", "c_resume"} /\ Runs(t, pc[t]) /\ Shape /\ SleepOK(sched)
  BY RunsNow DEF Resume, Inv
<1>2. u \in Threads
  BY <1>1, ControlFacts
<1>3. /\ obj' = obj /\ arg' = arg /\ pc' = [pc EXCEPT ![t] = "k_return"]
      /\ sched' = IF sched.susp[u] > 0 THEN ResumeNow(sched, u, HasProxy(u)) ELSE sched
      /\ th' = th \/ th' = [th EXCEPT ![u] = y]
  BY DEF Resume, ThreadResume, Goto
<1>4. SameProxies(th[u], y)
  <2> DEFINE n == th[u].pendSusp - 1
  <2> HIDE DEF n
  <2> QED BY <1>1, <1>2, ProxyFields DEF Shape
<1>5. HasProxy(u) \in BOOLEAN
  BY <1>1, <1>2, OKFields DEF HasProxy
<1> HIDE DEF u, y
<1>6. NoneOpens
  <2>1. CASE sched.susp[u] > 0
    <3> DEFINE b == HasProxy(u)
    <3>1. b \in BOOLEAN /\ sched' = ResumeNow(sched, u, b)
      BY <1>3, <1>5, <2>1
    <3> HIDE DEF b
    <3>2. Resumed(sched, sched', u, b)
      BY <1>1, <1>2, <2>1, <3>1, ResumeNowDoes
    <3> QED BY <3>2 DEF Resumed, ExactSame, SameThread, NoneOpens
  <2>2. CASE ~(sched.susp[u] > 0)
    BY <1>3, <2>2 DEF NoneOpens
  <2> QED BY <2>1, <2>2
<1>7. Onwards
  BY <1>1, <1>3, Goes DEF Onward, Joining, InWait
<1>8. CASE th' = th
  BY <1>3, <1>6, <1>7, <1>8, OnlyMoves
<1>9. CASE th' = [th EXCEPT ![u] = y]
  BY <1>1, <1>2, <1>3, <1>4, <1>6, <1>7, <1>9, OneKeeps, SameObjects
<1> QED BY <1>3, <1>8, <1>9

\* The clock ticks.
LEMMA TickMiss ==
  ASSUME Inv, MissInv, Tick
  PROVE  MissInv'
<1> DEFINE n == now + 1
           r == TimerWakes(sched)
<1>1. Shape /\ SleepOK(sched) /\ BedsOK(sched) /\ DueOK(sched, now) /\ now \in Nat /\ n \in Nat
  BY OKFields DEF Inv, Shape
<1>2. /\ obj' = obj /\ th' = th /\ pc' = pc /\ arg' = arg
      /\ sched' = IF RingDue(sched, n) THEN SetReschedule(r) ELSE sched
  BY DEF Tick
<1>3. DueOK(sched, n)
  <2>1. \A u : Hangs(sched, u) => sched.wakeup[u] \in Nat
    BY <1>1, BedFacts, OKFields DEF Times
  <2> QED BY <1>1, <2>1 DEF DueOK
<1> HIDE DEF n
<1>4. NoneOpens
  <2>1. CASE RingDue(sched, n)
    <3>1. SleepOK(r) /\ \A u \in Threads : Passes(sched, r, u, n)
      BY <1>1, <1>3, <2>1, TimerWakesDoes DEF Lawful
    <3> HIDE DEF r
    <3>2. sched'.live = r.live
      BY <1>2, <2>1, <3>1, OKFields DEF SetReschedule, SleepType
    <3> QED BY <3>1, <3>2 DEF Passes, SameThread, Expires, Slips, NoneOpens
  <2>2. CASE ~RingDue(sched, n)
    BY <1>2, <2>2 DEF NoneOpens
  <2> QED BY <2>1, <2>2
<1> QED BY <1>2, <1>4, OnlyMoves DEF Onwards, Onward

\* The dispatcher.
LEMMA NextThreadMiss ==
  ASSUME Inv, MissInv, KCNextThread
  PROVE  MissInv'
<1> DEFINE prioCalc == [t \in Threads |-> IF th[t].noPrioCalc THEN 0 ELSE OwnedPrio(t)]
<1>1. Shape /\ SleepOK(sched) /\ DueOK(sched, now)
  BY DEF Inv
<1>2. sched' = NextThread(sched, prioCalc) /\ obj' = obj /\ th' = th /\ pc' = pc /\ arg' = arg
  BY DEF KCNextThread, NextThread
<1>3. prioCalc \in Priorities
  <2>1. 0 \in Priority
    BY <1>1, PrioFacts DEF Priority
  <2> QED BY <1>1, <2>1, PrioFacts DEF Priorities
<1> HIDE DEF prioCalc
<1>4. NoneOpens
  BY <1>1, <1>2, <1>3, NextThreadDoes, PassesOpens
<1> QED BY <1>2, <1>4, OnlyMoves DEF Onwards, Onward

\* Nothing happens.
LEMMA StutterMiss ==
  ASSUME MissInv, UNCHANGED vars
  PROVE  MissInv'
BY OnlyMoves DEF vars, NoneOpens, Onwards, Onward
-----------------------------------------------------------------------------
\* Threads keep their links when no proxy moves.
LEMMA AllLinks ==
  ASSUME MissInv, Onwards, ProxiesStay
  PROVE  \A t \in Threads : Links(pc'[t], th'[t], arg'[t])
BY LinksStay DEF MissInv, Onwards, ProxiesStay

\* A mutex changes, but not its waiters and its owner.
LEMMA MutexStep ==
  ASSUME Inv, MissInv, NoneOpens, Onwards, ProxiesStay, NEW o \in Objects, Kind[o] = "mutex", NEW y,
         Changed(obj[o], y, obj[o].q, obj[o].owner), obj' = obj \/ obj' = [obj EXCEPT ![o] = y]
  PROVE  MissInv'
<1>1. CASE obj' = obj
  BY <1>1, SameObjects
<1>2. CASE obj' = [obj EXCEPT ![o] = y]
  <2>1. Shape /\ \A t \in Threads : Links(pc'[t], th'[t], arg'[t])
    BY AllLinks DEF Inv
  <2>2. \A u \in Threads : /\ u \in ToSet(y.q) => u \in ToSet(obj[o].q)
                           /\ Offer(o, y, u) => Offer(o, obj[o], u)
    BY DEF Changed, Offer
  <2>3. \A u \in Threads : \A m \in ToSet(th'[u].queued) : m \in ToSet(th[u].queued)
    BY DEF ProxiesStay, SameProxies
  <2> QED BY <1>2, <2>1, <2>2, <2>3, QuietObject
<1> QED BY <1>1, <1>2

\* The mutex a wait is about, in its KCalls.
LEMMA CritIs ==
  ASSUME Inv, NEW t \in Threads, NEW p \in {"w_link", "w_boost", "w_reprio"}, Runs(t, p)
  PROVE  /\ arg[t].crit \in Objects /\ Kind[arg[t].crit] = "mutex" /\ Shape
         /\ obj[arg[t].crit] \in ObjectShape
BY DEF Inv, Runs, ThreadOK, CallOK, OfKind, Shape

\* The mutex that was taken is listed, or the list told of its waiters.
LEMMA OwnersListMiss ==
  ASSUME Inv, MissInv, NEW t \in Threads, LaterLinkCritMut(t) \/ DoReprioMutex(t)
  PROVE  MissInv'
<1> DEFINE x == obj[arg[t].crit]
           y == IF LaterLinkCritMut(t) THEN Linked(x) ELSE ReprioCritMut(x)
<1>1. PICK p \in {"w_link", "w_reprio"} : Runs(t, p)
  BY RunsNow DEF LaterLinkCritMut, DoReprioMutex
<1>2. arg[t].crit \in Objects /\ Kind[arg[t].crit] = "mutex" /\ Shape /\ x \in ObjectShape
  BY <1>1, CritIs
<1>3. Changed(x, y, x.q, x.owner)
  BY <1>2, LinkedIs
<1>4. /\ obj' = obj \/ obj' = [obj EXCEPT ![arg[t].crit] = y]
      /\ pc' = [pc EXCEPT ![t] = "w_dequeue"] /\ sched' = sched /\ arg' = arg /\ th' = th
  BY DEF LaterLinkCritMut, DoReprioMutex, Goto
<1> HIDE DEF y
<1>5. NoneOpens /\ ProxiesStay
  BY <1>4 DEF NoneOpens, ProxiesStay, SameProxies
<1>6. Onwards
  BY <1>1, <1>2, <1>4, Goes DEF Onward, Joining, InWait, Runs
<1> QED BY <1>2, <1>3, <1>4, <1>5, <1>6, MutexStep

\* PostBoostMut lends the owner a priority.
LEMMA PostBoostMiss ==
  ASSUME Inv, MissInv, NEW t \in Threads, PostBoostMut(t)
  PROVE  MissInv'
<1> DEFINE m == arg[t].crit
           u == obj[m].owner
           x == obj[m]
           link == ~th[u].noPrioCalc /\ ~x.bListed
           y == IF link THEN Linked(x) ELSE ReprioCritMut(x)
           prio == sched.cprio[t]
<1>1. Runs(t, "w_boost") /\ sched \in SleepType
  BY RunsNow, OKFields DEF PostBoostMut, Inv
<1>2. m \in Objects /\ Kind[m] = "mutex" /\ Shape /\ x \in ObjectShape
  BY <1>1, CritIs
<1>3. Changed(x, y, x.q, x.owner)
  BY <1>2, LinkedIs
<1>4. /\ obj' = obj \/ obj' = [obj EXCEPT ![m] = y]
      /\ pc' = [pc EXCEPT ![t] = "w_one"] /\ arg' = arg /\ th' = th
      /\ \/ sched' = sched
         \/ sched.wait[t] = "PROCESSING" /\ sched' = BoostSleeper(sched, u, prio)
  BY DEF PostBoostMut, Goto
<1>5. ProxiesStay
  BY <1>4 DEF ProxiesStay, SameProxies
<1>6. Onwards
  BY <1>1, <1>2, <1>4, Goes DEF Onward, Joining, InWait, Runs
<1>7. NoneOpens
  <2>1. CASE sched' = sched
    BY <2>1 DEF NoneOpens
  <2>2. CASE sched.wait[t] = "PROCESSING" /\ sched' = BoostSleeper(sched, u, prio)
    <3>1. sched.live[t]
      BY <1>1, <2>2, Processing
    <3>2. t \in ToSet(x.q)
      BY <1>1, <3>1 DEF Inv, Boosters, Runs
    <3>3. x.q # << >>
      BY <3>2 DEF ToSet
    <3>4. u \in Threads
      BY <1>2, <3>3, ObjectFields DEF Inv, Owners
    <3>5. prio \in Priority
      BY <1>1, SleepFields DEF Priorities
    <3> HIDE DEF u, prio
    <3> QED BY <2>2, <3>4, <3>5, BoostedOpens
  <2> QED BY <1>4, <2>1, <2>2
<1> HIDE DEF y, m
<1> QED BY <1>2, <1>3, <1>4, <1>5, <1>6, <1>7, MutexStep

\* The mutex leaves the list of its owner.
LEMMA PreUnlinkMiss ==
  ASSUME Inv, MissInv, NEW t \in Threads, PreUnlinkCritMut(t)
  PROVE  MissInv'
<1> DEFINE x == obj[Obj(t)]
           b == FALSE
           y == [x EXCEPT !.bListed = b]
           z == [th[t] EXCEPT !.noPrioCalc = TRUE]
<1>1. Runs(t, "r_unlink") /\ Shape
  BY RunsNow DEF PreUnlinkCritMut, Inv
<1>2. Obj(t) \in Objects /\ Kind[Obj(t)] = "mutex" /\ x \in ObjectShape
  BY <1>1, CallIs DEF MutexPCs, Shape
<1>3. /\ obj' = [obj EXCEPT ![Obj(t)] = y] /\ th' = [th EXCEPT ![t] = z]
      /\ pc' = [pc EXCEPT ![t] = "r_leave"] /\ sched' = sched /\ arg' = arg
  BY DEF PreUnlinkCritMut, Goto
<1>4. b \in BOOLEAN
  OBVIOUS
<1> HIDE DEF b
<1>5. Changed(x, y, x.q, x.owner) /\ SameProxies(th[t], z)
  BY <1>1, <1>2, <1>4, ObjectChanges, ProxyFields DEF Shape
<1> HIDE DEF y, z
<1>6. NoneOpens /\ Onwards /\ ProxiesStay
  BY <1>1, <1>3, <1>5, Goes, OneKeeps DEF NoneOpens, Onward, Joining, InWait, Runs
<1> QED BY <1>2, <1>3, <1>5, <1>6, MutexStep

\* SC_ReleaseMutex.
LEMMA ReleaseMutexMiss ==
  ASSUME Inv, MissInv, NEW t \in Threads, ReleaseMutex(t)
  PROVE  MissInv'
<1> DEFINE x == obj[Obj(t)]
           n == x.lockCount - 1
           y == [x EXCEPT !.lockCount = n]
           q == IF x.owner = t /\ x.lockCount = 1 THEN "r_unlink" ELSE "k_return"
<1>1. Runs(t, "r_test") /\ Shape
  BY RunsNow DEF ReleaseMutex, Inv
<1>2. Obj(t) \in Objects /\ Kind[Obj(t)] = "mutex" /\ x \in ObjectShape
  BY <1>1, CallIs DEF MutexPCs, Shape
<1>3. /\ obj' = obj \/ obj' = [obj EXCEPT ![Obj(t)] = y]
      /\ pc' = [pc EXCEPT ![t] = q] /\ sched' = sched /\ arg' = arg /\ th' = th
  BY DEF ReleaseMutex, Goto
<1>4. n \in Int /\ Onward("r_test", q)
  BY <1>2, ObjectFields DEF Onward, Joining, InWait
<1> HIDE DEF n, q
<1>5. Changed(x, y, x.q, x.owner)
  BY <1>2, <1>4, ObjectChanges
<1> HIDE DEF y
<1>6. NoneOpens /\ Onwards /\ ProxiesStay
  BY <1>1, <1>3, <1>4, Goes DEF NoneOpens, Runs, ProxiesStay, SameProxies
<1> QED BY <1>2, <1>3, <1>5, <1>6, MutexStep

\* SC_ReleaseSemaphore: the units are not there yet.
LEMMA SemAddMiss ==
  ASSUME Inv, MissInv, NEW t \in Threads, SemAdd(t)
  PROVE  MissInv'
<1> DEFINE x == obj[Obj(t)]
           n == x.pending + Op(t).n
           y == [x EXCEPT !.pending = n]
<1>1. Runs(t, "p_add") /\ Shape
  BY RunsNow DEF SemAdd, Inv
<1>2. Obj(t) \in Objects /\ Kind[Obj(t)] = "sem" /\ x \in ObjectShape
  BY <1>1, CallIs DEF SemPCs, Shape
<1>3. \A u \in Threads : arg'[u].call = arg[u].call
  <2> DEFINE a == [arg[t] EXCEPT !.remain = Op(t).n]
  <2>1. arg' = arg \/ arg' = [arg EXCEPT ![t] = a]
    BY DEF SemAdd
  <2>2. a.call = arg[t].call
    BY <1>1 DEF Shape, ArgType
  <2> HIDE DEF a
  <2> QED BY <1>1, <2>1, <2>2 DEF Shape
<1>4. sched' = sched /\ th' = th
  BY DEF SemAdd
<1>5. NoneOpens /\ ProxiesStay
  BY <1>3, <1>4 DEF NoneOpens, ProxiesStay, SameProxies
<1>6. Onwards
  <2>1. PICK q \in {"k_return", "p_pop"} : pc' = [pc EXCEPT ![t] = q]
    BY DEF SemAdd, Goto
  <2>2. Onward("p_add", q)
    BY DEF Onward, Joining, InWait
  <2> QED BY <1>1, <2>1, <2>2, Goes DEF Runs
<1>7. CASE obj' = obj
  BY <1>5, <1>6, <1>7, SameObjects
<1>8. CASE obj' = [obj EXCEPT ![Obj(t)] = y]
  <2>1. y.q = x.q /\ \A u : Offer(Obj(t), y, u) => Offer(Obj(t), x, u)
    <3>1. y.q = x.q /\ y.count = x.count
      BY <1>2 DEF ObjectShape
    <3> QED BY <1>2, <3>1 DEF Offer
  <2> HIDE DEF y
  <2>2. \A u \in Threads : Links(pc'[u], th'[u], arg'[u])
    BY <1>5, <1>6, AllLinks
  <2> QED BY <1>1, <1>2, <1>4, <1>5, <1>8, <2>1, <2>2, QuietObject
<1>9. obj' = obj \/ obj' = [obj EXCEPT ![Obj(t)] = y]
  BY DEF SemAdd
<1> QED BY <1>7, <1>8, <1>9

\* SC_EventModify: reset.
LEMMA ResetEventMiss ==
  ASSUME Inv, MissInv, NEW t \in Threads, ResetEvent(t)
  PROVE  MissInv'
<1> DEFINE x == obj[Obj(t)]
           y == [x EXCEPT !.state = FALSE]
<1>1. Runs(t, "s_reset") /\ Shape
  BY RunsNow DEF ResetEvent, Inv
<1>2. Obj(t) \in Objects /\ x \in ObjectShape
  BY <1>1, CallIs DEF SignalPCs, Shape
<1>3. /\ obj' = [obj EXCEPT ![Obj(t)] = y] /\ pc' = [pc EXCEPT ![t] = "k_return"]
      /\ sched' = sched /\ arg' = arg /\ th' = th
  BY DEF ResetEvent, Goto
<1>4. y.q = x.q /\ \A u : Offer(Obj(t), y, u) => Offer(Obj(t), x, u)
  <2>1. y.q = x.q /\ y.count = x.count /\ y.owner = x.owner /\ ~y.state
    BY <1>2 DEF ObjectShape
  <2> QED BY <2>1 DEF Offer
<1> HIDE DEF y
<1>5. NoneOpens /\ Onwards /\ ProxiesStay
  BY <1>1, <1>3, Goes DEF NoneOpens, Runs, ProxiesStay, SameProxies, Onward, Joining, InWait
<1>6. \A u \in Threads : Links(pc'[u], th'[u], arg'[u])
  BY <1>5, AllLinks
<1> QED BY <1>1, <1>2, <1>3, <1>4, <1>5, <1>6, QuietObject
-----------------------------------------------------------------------------
\* A queue without its first has no others.
LEMMA TailMembers ==
  ASSUME NEW T, NEW q \in Seq(T), q # << >>
  PROVE  ToSet(Tail(q)) \subseteq ToSet(q)
<1>1. /\ Tail(q) \in Seq(T) /\ Len(Tail(q)) = Len(q) - 1 /\ Len(q) \in Nat
      /\ \A i \in 1 .. Len(q) - 1 : Tail(q)[i] = q[i + 1]
  BY HeadTailProperties, LenProperties
<1>2. ASSUME NEW u \in ToSet(Tail(q))
      PROVE  u \in ToSet(q)
  <2>1. DOMAIN q = 1 .. Len(q) /\ DOMAIN Tail(q) = 1 .. Len(q) - 1
    BY <1>1, LenProperties
  <2>2. PICK i \in 1 .. Len(q) - 1 : u = q[i + 1]
    BY <1>1, <1>2, <2>1 DEF ToSet
  <2>3. i + 1 \in 1 .. Len(q)
    BY <1>1
  <2> QED BY <2>1, <2>2, <2>3 DEF ToSet
<1> QED BY <1>2

\* A thread that joins a queue is the only one.
LEMMA InsertAdds ==
  ASSUME NEW q \in Seq(Threads), NEW prio, NEW t \in Threads,
         NEW r, r = InsertBehind(q, prio, t) \/ r = Append(q, t)
  PROVE  \A u \in ToSet(r) : u = t \/ u \in ToSet(q)
<1>1. CASE r = InsertBehind(q, prio, t)
  <2> DEFINE I == {i \in DOMAIN q : prio[q[i]] <= prio[t]}
             k == 1 + Cardinality(I)
  <2>1. Cardinality(I) \in 0 .. Len(q) /\ Len(q) \in Nat
    BY CountWithin, Members
  <2>2. k \in 1 .. Len(q) + 1 /\ r = InsertAt(q, k, t)
    BY <1>1, <2>1 DEF InsertBehind
  <2> HIDE DEF k
  <2>3. /\ r \in Seq(Threads) /\ Len(r) = Len(q) + 1 /\ r[k] = t
        /\ \A j \in 1 .. Len(q) : j < k => r[j] = q[j]
        /\ \A j \in 1 .. Len(q) : j >= k => r[j + 1] = q[j]
    BY <2>2, InsertAtEffect
  <2>4. ASSUME NEW u \in ToSet(r), u # t
        PROVE  u \in ToSet(q)
    <3>1. PICK i \in 1 .. Len(r) : u = r[i]
      BY <2>3, Members
    <3>2. CASE i < k
      BY <2>1, <2>2, <2>3, <3>1, <3>2, Members
    <3>3. CASE i > k
      <4>1. i - 1 \in 1 .. Len(q) /\ i - 1 >= k /\ (i - 1) + 1 = i
        BY <2>1, <2>2, <2>3, <3>3
      <4>2. r[(i - 1) + 1] = q[i - 1]
        BY <2>3, <4>1
      <4> QED BY <3>1, <4>1, <4>2, Members
    <3>4. i # k
      BY <2>3, <2>4, <3>1
    <3> QED BY <2>2, <3>2, <3>3, <3>4
  <2> QED BY <2>4
<1>2. CASE r = Append(q, t)
  <2>1. /\ r \in Seq(Threads) /\ Len(r) = Len(q) + 1 /\ r[Len(r)] = t
        /\ \A j \in 1 .. Len(q) : r[j] = q[j]
    BY <1>2
  <2>2. /\ Len(q) \in Nat /\ ToSet(q) = {q[j] : j \in 1 .. Len(q)}
        /\ ToSet(r) = {r[j] : j \in 1 .. Len(r)}
    BY <2>1, Members
  <2> QED BY <2>1, <2>2
<1> QED BY <1>1, <1>2

\* Who leaves a queue takes nobody in.
LEMMA WithoutAdds ==
  ASSUME NEW q \in Seq(Threads), NEW t, NEW r, r = Without(q, t)
  PROVE  \A u \in ToSet(r) : u \in ToSet(q)
<1>1. CASE t \notin ToSet(q)
  BY <1>1 DEF Without
<1>2. CASE t \in ToSet(q)
  <2> DEFINE i == IndexOf(q, t)
  <2>1. Len(q) \in Nat /\ DOMAIN q = 1 .. Len(q) /\ ToSet(q) = {q[j] : j \in 1 .. Len(q)}
    BY Members
  <2>2. i \in 1 .. Len(q) /\ q[i] = t
    BY <1>2, <2>1 DEF IndexOf
  <2>3. r = RemoveAt(q, i)
    BY <1>2 DEF Without
  <2> HIDE DEF i
  <2>4. /\ r \in Seq(Threads) /\ Len(r) = Len(q) - 1
        /\ \A j \in 1 .. Len(r) : r[j] = IF j < i THEN q[j] ELSE q[j + 1]
    BY <2>2, <2>3, RemoveAtEffect, SMTT(30)
  <2>5. ToSet(r) = {r[j] : j \in 1 .. Len(r)}
    BY <2>4, Members
  <2>6. ASSUME NEW j \in 1 .. Len(r)
        PROVE  r[j] \in ToSet(q)
    <3>1. j \in 1 .. Len(q) /\ j + 1 \in 1 .. Len(q)
      BY <2>1, <2>2, <2>4
    <3> QED BY <2>1, <2>4, <3>1
  <2> QED BY <2>5, <2>6
<1> QED BY <1>1, <1>2

\* A signal to w changes no proxy.
LEMMA SignalledStays ==
  ASSUME Shape, NEW w \in Threads, NEW o, th' = Signalled(w, o),
         \A u \in Threads : arg'[u].call = arg[u].call
  PROVE  ProxiesStay
<1> DEFINE y == IF sched.wait[w] = "BLOCKED" THEN [th[w] EXCEPT !.ret = o]
                ELSE [th[w] EXCEPT !.pendReturn = o]
<1>1. th' = [th EXCEPT ![w] = y]
  BY DEF Signalled
<1>2. SameProxies(th[w], y)
  BY ProxyFields DEF Shape
<1> HIDE DEF y
<1> QED BY <1>1, <1>2, OneKeeps

\* A KCall that gives what an object has to its waiter w.
LEMMA SignalMiss ==
  ASSUME Inv, MissInv, NEW w \in Threads, sched.live[w], NEW o \in Objects,
         sched' = Deliver(sched, w), th' = Signalled(w, o), \A u \in Threads : arg'[u].call = arg[u].call,
         Onwards, NEW m \in Objects, NEW y, obj' = [obj EXCEPT ![m] = y],
         \A u \in Threads \ {w} : /\ u \in ToSet(y.q) => u \in ToSet(obj[m].q)
                                  /\ Offer(m, y, u) => Offer(m, obj[m], u)
  PROVE  MissInv'
<1>1. Shape
  BY DEF Inv
<1>2. NoneOpens /\ ~sched'.live[w]
  BY Delivered, MarkedOpens
<1>3. ProxiesStay
  BY <1>1, SignalledStays
<1>4. \A u \in Threads : Links(pc'[u], th'[u], arg'[u])
  BY <1>3, AllLinks
<1>5. \A u \in Threads : \A k \in ToSet(th'[u].queued) : k \in ToSet(th[u].queued)
  BY <1>3 DEF ProxiesStay, SameProxies
<1> QED BY <1>1, <1>2, <1>4, <1>5, QuietObject

\* Where the KCall that wakes w goes on.
LEMMA WakeGoes ==
  ASSUME Shape, NEW t \in Threads, NEW p, pc[t] = p, NEW w, w \in Threads, NEW o, NEW wakes, NEW done,
         Wake(t, w, o, wakes, done), Onward(p, wakes), Onward(p, done)
  PROVE  Onwards /\ \A u \in Threads : arg'[u].call = arg[u].call
<1>1. ToWake(w) \in Threads \union {NoThread}
  BY DEF ToWake
<1>2. \A u \in Threads : arg'[u].call = arg[u].call
  BY <1>1, TargetSet DEF Wake
<1> DEFINE q == IF ToWake(w) = NoThread THEN done ELSE wakes
<1>3. pc' = [pc EXCEPT ![t] = q] /\ Onward(p, q)
  BY DEF Wake, Goto
<1> HIDE DEF q
<1> QED BY <1>2, <1>3, Goes

\* A proxy of a wait that is over is dropped.
LEMMA DropMiss ==
  ASSUME Inv, MissInv, NEW o \in Objects, obj[o].q # << >>, obj' = [obj EXCEPT ![o].q = Tail(@)],
         sched' = sched, th' = th, pc' = pc, arg' = arg
  PROVE  MissInv'
<1> DEFINE x == obj[o]
           q == Tail(x.q)
           y == [x EXCEPT !.q = q]
<1>1. Shape /\ x \in ObjectShape
  BY DEF Inv, Shape
<1>2. obj' = [obj EXCEPT ![o] = y]
  OBVIOUS
<1>3. y.q = q /\ \A u : Offer(o, y, u) => Offer(o, x, u)
  <2> HIDE DEF q
  <2>1. y.q = q /\ y.count = x.count /\ y.owner = x.owner /\ y.state = x.state
    BY <1>1 DEF ObjectShape
  <2> QED BY <2>1 DEF Offer
<1>4. \A u \in ToSet(q) : u \in ToSet(x.q)
  BY <1>1, ObjectFields, TailMembers
<1> HIDE DEF y, q
<1>5. NoneOpens /\ Onwards /\ ProxiesStay
  BY DEF NoneOpens, Onwards, Onward, ProxiesStay, SameProxies
<1>6. \A u \in Threads : Links(pc'[u], th'[u], arg'[u])
  BY <1>5, AllLinks
<1> QED BY <1>1, <1>2, <1>3, <1>4, <1>5, <1>6, QuietObject

\* EventModAuto: the event is set for nobody, or its first waiter takes it.
LEMMA EventModAutoMiss ==
  ASSUME Inv, MissInv, NEW t \in Threads, EventModAuto(t)
  PROVE  MissInv'
<1> DEFINE o == Obj(t)
           x == obj[o]
           w == Head(x.q)
<1>1. Runs(t, "s_auto") /\ Shape
  BY RunsNow DEF EventModAuto, Inv
<1>2. o \in Objects /\ x \in ObjectShape /\ x.q \in Seq(Threads)
  BY <1>1, CallIs, ObjectFields DEF SignalPCs, Shape
<1>3. Kind[o] = "auto"
  BY <1>1 DEF MissInv, Links, Runs, Op, Obj
<1>4. CASE x.q = << >>
  <2> DEFINE b == (Op(t).call = "set")
             y == [x EXCEPT !.state = b]
  <2>1. /\ obj' = [obj EXCEPT ![o] = y] /\ pc' = [pc EXCEPT ![t] = "k_return"]
        /\ sched' = sched /\ th' = th /\ arg' = arg
    BY <1>4 DEF EventModAuto, Goto
  <2>2. \A u : u \notin ToSet(y.q)
    <3>1. y.q = << >>
      BY <1>2, <1>4 DEF ObjectShape
    <3> QED BY <3>1 DEF ToSet
  <2> HIDE DEF y
  <2>3. NoneOpens /\ Onwards /\ ProxiesStay
    BY <1>1, <2>1, Goes DEF NoneOpens, Runs, ProxiesStay, SameProxies, Onward, Joining, InWait
  <2>4. \A u \in Threads : Links(pc'[u], th'[u], arg'[u])
    BY <2>3, AllLinks
  <2> QED BY <1>1, <1>2, <1>3, <2>1, <2>2, <2>3, <2>4, ObjectStep
<1>5. CASE x.q # << >> /\ ~sched.live[w]
  <2>1. obj' = [obj EXCEPT ![o].q = Tail(@)] /\ sched' = sched /\ th' = th /\ pc' = pc /\ arg' = arg
    BY <1>5 DEF EventModAuto
  <2> QED BY <1>2, <1>5, <2>1, DropMiss
<1>6. CASE x.q # << >> /\ sched.live[w]
  <2> DEFINE q == Tail(x.q)
             y == [x EXCEPT !.q = q, !.state = FALSE]
  <2>1. /\ obj' = [obj EXCEPT ![o] = y] /\ Wake(t, w, o, "s_run", "k_return")
    BY <1>6 DEF EventModAuto
  <2>2. w \in Threads /\ ToSet(q) \subseteq ToSet(x.q)
    BY <1>2, <1>6, QueueHead, TailMembers
  <2>3. y.q = q /\ ~y.state
    <3> HIDE DEF q
    <3> QED BY <1>2 DEF ObjectShape
  <2> HIDE DEF w, q, y, o
  <2>4. Onwards /\ \A u \in Threads : arg'[u].call = arg[u].call
    BY <1>1, <2>1, <2>2, WakeGoes DEF Onward, Joining, InWait, Runs
  <2>5. \A u : ~Offer(o, y, u)
    BY <1>3, <2>3 DEF Offer
  <2> QED BY <1>2, <1>6, <2>1, <2>2, <2>3, <2>4, <2>5, SignalMiss DEF Wake
<1> QED BY <1>4, <1>5, <1>6

\* EventModIntr: likewise, for the one waiter there can be.
LEMMA EventModIntrMiss ==
  ASSUME Inv, MissInv, NEW t \in Threads, EventModIntr(t)
  PROVE  MissInv'
<1> DEFINE o == Obj(t)
           x == obj[o]
           b == IF IntrWaiter(o) = {} THEN (Op(t).call = "set") ELSE FALSE
           y == [x EXCEPT !.state = b]
<1>1. Runs(t, "s_intr") /\ Shape
  BY RunsNow DEF EventModIntr, Inv
<1>2. o \in Objects /\ x \in ObjectShape
  BY <1>1, CallIs DEF SignalPCs, Shape
<1>3. Kind[o] = "intr"
  BY <1>1 DEF MissInv, Links, Runs, Op, Obj
<1>4. obj' = [obj EXCEPT ![o] = y]
  BY DEF EventModIntr
<1>5. y.q = x.q /\ y.state = b
  <2> HIDE DEF b
  <2> QED BY <1>2 DEF ObjectShape
<1>6. CASE IntrWaiter(o) = {}
  <2>1. pc' = [pc EXCEPT ![t] = "k_return"] /\ sched' = sched /\ th' = th /\ arg' = arg
    BY <1>6 DEF EventModIntr, Goto
  <2>2. NoneOpens /\ Onwards /\ ProxiesStay
    BY <1>1, <2>1, Goes DEF NoneOpens, Runs, ProxiesStay, SameProxies, Onward, Joining, InWait
  <2>3. \A u \in Threads : Links(pc'[u], th'[u], arg'[u])
    BY <2>2, AllLinks
  <2>4. ASSUME NEW u \in Threads, sched'.live[u], o \in ToSet(th'[u].queued)
        PROVE  FALSE
    <3>1. o \in ToSet(th[u].queued) /\ sched.live[u]
      BY <2>1, <2>4
    <3>2. th[u].queued = <<o>>
      BY <1>3, <3>1 DEF MissInv, Links, Alone
    <3>3. th[u].queued # << >>
      BY <3>2
    <3>4. u \in IntrWaiter(o)
      BY <3>1, <3>2, <3>3 DEF IntrWaiter, HasProxy
    <3> QED BY <1>6, <3>4
  <2> HIDE DEF y, o
  <2> QED BY <1>1, <1>2, <1>4, <2>1, <2>2, <2>3, <2>4, ObjectStep
<1>7. CASE IntrWaiter(o) # {}
  <2>1. PICK w \in IntrWaiter(o) : Wake(t, w, o, "s_run", "k_return")
    BY <1>7 DEF EventModIntr
  <2>2. w \in Threads /\ sched.live[w]
    BY IntrWaiterIs
  <2>3. \A u : ~Offer(o, y, u)
    BY <1>3, <1>5, <1>7 DEF Offer
  <2> HIDE DEF y, o
  <2>4. Onwards /\ \A u \in Threads : arg'[u].call = arg[u].call
    BY <1>1, <2>1, <2>2, WakeGoes DEF Onward, Joining, InWait, Runs
  <2> QED BY <1>2, <1>4, <1>5, <2>1, <2>2, <2>3, <2>4, SignalMiss DEF Wake
<1> QED BY <1>6, <1>7

\* EventModMan detaches all waiters: nobody waits for the event itself.
LEMMA EventModManMiss ==
  ASSUME Inv, MissInv, NEW t \in Threads, EventModMan(t)
  PROVE  MissInv'
<1> DEFINE o == Obj(t)
           x == obj[o]
           b == (Op(t).call = "set")
           n == MAX_PRIORITY_LEVELS - 1
           y == [x EXCEPT !.state = b, !.q = << >>, !.maxPrio = n]
<1>1. Runs(t, "m_mod") /\ Shape
  BY RunsNow DEF EventModMan, Inv
<1>2. o \in Objects /\ Kind[o] = "manual" /\ x \in ObjectShape
  BY <1>1, SettingFacts DEF Shape
<1>3. /\ obj' = [obj EXCEPT ![o] = y] /\ sched' = sched /\ th' = th
      /\ arg' = [arg EXCEPT ![t].remain = x.maxPrio]
      /\ pc' = [pc EXCEPT ![t] = "m_prio"]
  <2>1. /\ obj' = [obj EXCEPT ![o].state = b, ![o].q = << >>, ![o].maxPrio = n]
        /\ sched' = sched /\ th' = th /\ arg' = [arg EXCEPT ![t].remain = x.maxPrio]
        /\ pc' = [pc EXCEPT ![t] = "m_prio"]
    BY DEF EventModMan, Goto
  <2> HIDE DEF o, b, n
  <2>2. obj' = [obj EXCEPT ![o] = y]
    BY <1>1, <1>2, <2>1 DEF Shape, ObjectShape
  <2> QED BY <2>1, <2>2
<1>4. \A u : u \notin ToSet(y.q)
  <2> HIDE DEF b, n
  <2>1. y.q = << >>
    BY <1>2 DEF ObjectShape
  <2> QED BY <2>1 DEF ToSet
<1> HIDE DEF y
<1>5. \A u \in Threads : arg'[u].call = arg[u].call
  <2> DEFINE a == [arg[t] EXCEPT !.remain = x.maxPrio]
  <2>1. a.call = arg[t].call
    BY <1>1 DEF Shape, ArgType
  <2>2. arg' = [arg EXCEPT ![t] = a]
    BY <1>3
  <2> HIDE DEF a
  <2> QED BY <1>1, <2>1, <2>2 DEF Shape
<1>6. NoneOpens /\ ProxiesStay
  BY <1>3, <1>5 DEF NoneOpens, ProxiesStay, SameProxies
<1>7. Onwards
  <2>1. Onward("m_mod", "m_prio") /\ pc' = [pc EXCEPT ![t] = "m_prio"]
    BY <1>3 DEF Onward, Joining, InWait
  <2> QED BY <1>1, <2>1, Goes DEF Runs
<1>8. \A u \in Threads : Links(pc'[u], th'[u], arg'[u])
  BY <1>6, <1>7, AllLinks
<1> HIDE DEF o
<1> QED BY <1>1, <1>2, <1>3, <1>4, <1>6, <1>7, <1>8, ObjectStep

\* WakeOneThreadFlat: a detached waiter's wait is over, the event stays.
LEMMA WakeOneMiss ==
  ASSUME Inv, MissInv, NEW t \in Threads, WakeOneThreadFlat(t)
  PROVE  MissInv'
<1> DEFINE w == Head(stub[t])
<1>1. Runs(t, "m_wake") /\ Shape /\ stub[t] \in Seq(Threads) /\ Obj(t) \in Objects
  BY RunsNow, SettingFacts DEF WakeOneThreadFlat, Inv, Shape, Setting
<1>2. obj' = obj
  BY DEF WakeOneThreadFlat
<1>3. CASE stub[t] = << >>
  <2>1. pc' = [pc EXCEPT ![t] = "m_clear"] /\ sched' = sched /\ th' = th /\ arg' = arg
    BY <1>3 DEF WakeOneThreadFlat, Goto
  <2>2. NoneOpens /\ Onwards
    BY <1>1, <2>1, Goes DEF NoneOpens, Runs, Onward, Joining, InWait
  <2> QED BY <1>2, <2>1, <2>2, OnlyMoves
<1>4. CASE stub[t] # << >> /\ ~sched.live[w]
  <2>1. pc' = pc /\ sched' = sched /\ th' = th /\ arg' = arg
    BY <1>4 DEF WakeOneThreadFlat
  <2> QED BY <1>2, <2>1, OnlyMoves DEF NoneOpens, Onwards, Onward
<1>5. CASE stub[t] # << >> /\ sched.live[w]
  <2>1. Wake(t, w, Obj(t), "m_run", "m_wake") /\ w \in Threads
    BY <1>1, <1>5, QueueHead DEF WakeOneThreadFlat
  <2> HIDE DEF w
  <2>2. Onwards /\ \A u \in Threads : arg'[u].call = arg[u].call
    BY <1>1, <2>1, WakeGoes DEF Onward, Joining, InWait, Runs
  <2>3. NoneOpens
    BY <1>1, <1>5, <2>1, Delivered, MarkedOpens DEF Wake
  <2>4. ProxiesStay
    BY <1>1, <2>1, <2>2, SignalledStays DEF Wake
  <2> QED BY <1>2, <2>2, <2>3, <2>4, SameObjects
<1> QED BY <1>3, <1>4, <1>5

\* LeaveMutex: nobody waits, or the first waiter becomes the owner.
LEMMA LeaveMutexMiss ==
  ASSUME Inv, MissInv, NEW t \in Threads, LeaveMutex(t)
  PROVE  MissInv'
<1> DEFINE o == Obj(t)
           x == obj[o]
           w == Head(x.q)
<1>1. Runs(t, "r_leave") /\ Shape
  BY RunsNow DEF LeaveMutex, Inv
<1>2. o \in Objects /\ Kind[o] = "mutex" /\ x \in ObjectShape /\ x.q \in Seq(Threads)
  BY <1>1, CallIs, ObjectFields DEF MutexPCs, Shape
<1>3. CASE x.q = << >>
  <2> DEFINE y == [x EXCEPT !.owner = NoThread]
  <2>1. /\ obj' = [obj EXCEPT ![o] = y] /\ pc' = [pc EXCEPT ![t] = "r_post"]
        /\ sched' = sched /\ th' = th /\ arg' = arg
    BY <1>3 DEF LeaveMutex, Goto
  <2>2. \A u : u \notin ToSet(y.q)
    <3>1. y.q = << >>
      BY <1>2, <1>3 DEF ObjectShape
    <3> QED BY <3>1 DEF ToSet
  <2> HIDE DEF y, o
  <2>3. NoneOpens /\ Onwards /\ ProxiesStay
    BY <1>1, <2>1, Goes DEF NoneOpens, Runs, ProxiesStay, SameProxies, Onward, Joining, InWait
  <2>4. \A u \in Threads : Links(pc'[u], th'[u], arg'[u])
    BY <2>3, AllLinks
  <2> QED BY <1>1, <1>2, <2>1, <2>2, <2>3, <2>4, ObjectStep
<1>4. CASE x.q # << >> /\ ~sched.live[w]
  <2>1. obj' = [obj EXCEPT ![o].q = Tail(@)] /\ sched' = sched /\ th' = th /\ pc' = pc /\ arg' = arg
    BY <1>4 DEF LeaveMutex
  <2> QED BY <1>2, <1>4, <2>1, DropMiss
<1>5. CASE x.q # << >> /\ sched.live[w]
  <2> DEFINE q == Tail(x.q)
             n == 1
             z == [x EXCEPT !.q = q, !.owner = w, !.lockCount = n]
             y == Linked(z)
  <2>1. /\ obj' = [obj EXCEPT ![o] = y] /\ Wake(t, w, o, "r_run", "r_post")
    BY <1>5 DEF LeaveMutex
  <2>2. w \in Threads /\ ToSet(q) \subseteq ToSet(x.q) /\ q \in Seq(Threads) /\ n \in Int /\ w # NoThread
    BY <1>2, <1>5, QueueHead, TailMembers, NoThreadAssumption
  <2> HIDE DEF w, q, n
  <2>3. Changed(x, z, q, w)
    BY <1>2, <2>2, ObjectChanges
  <2> HIDE DEF z
  <2>4. Changed(z, y, z.q, z.owner)
    BY <1>1, <2>3, LinkedIs DEF Changed
  <2> HIDE DEF y, o
  <2>5. y.q = q /\ y.owner = w
    BY <2>3, <2>4 DEF Changed
  <2>6. Onwards /\ \A u \in Threads : arg'[u].call = arg[u].call
    BY <1>1, <2>1, <2>2, WakeGoes DEF Onward, Joining, InWait, Runs
  <2>7. \A u \in Threads \ {w} : ~Offer(o, y, u)
    BY <1>2, <2>2, <2>5 DEF Offer
  <2> QED BY <1>2, <1>5, <2>1, <2>2, <2>5, <2>6, <2>7, SignalMiss DEF Wake
<1> QED BY <1>3, <1>4, <1>5

\* SemPop: what nobody waits for is counted, or the first waiter gets a unit.
LEMMA SemPopMiss ==
  ASSUME Inv, MissInv, NEW t \in Threads, SemPop(t)
  PROVE  MissInv'
<1> DEFINE o == Obj(t)
           x == obj[o]
           w == Head(x.q)
           n == arg[t].remain
<1>1. Runs(t, "p_pop") /\ Shape
  BY RunsNow DEF SemPop, Inv
<1>2. o \in Objects /\ Kind[o] = "sem" /\ x \in ObjectShape /\ x.q \in Seq(Threads) /\ n \in Int
  BY <1>1, CallIs, ObjectFields DEF SemPCs, Shape, ArgType
<1>3. CASE n = 0 \/ x.q = << >>
  <2> DEFINE a == x.count + n
             b == x.pending - n
             y == [x EXCEPT !.count = a, !.pending = b]
  <2>1. /\ obj' = [obj EXCEPT ![o] = y] /\ pc' = [pc EXCEPT ![t] = "k_return"]
        /\ sched' = sched /\ th' = th /\ arg' = arg
    <3>1. /\ obj' = [obj EXCEPT ![o].count = @ + n, ![o].pending = @ - n]
          /\ pc' = [pc EXCEPT ![t] = "k_return"] /\ sched' = sched /\ th' = th /\ arg' = arg
      BY <1>3 DEF SemPop, Goto
    <3> HIDE DEF n, o
    <3>2. obj' = [obj EXCEPT ![o] = y]
      BY <1>1, <1>2, <3>1 DEF Shape, ObjectShape
    <3> QED BY <3>1, <3>2
  <2>2. x.count \in Int
    BY <1>2, ObjectFields
  <2>3. y.q = x.q /\ y.count = a
    <3> HIDE DEF a, b
    <3> QED BY <1>2 DEF ObjectShape
  <2>4. \A u : u \in ToSet(y.q) => ~(Offer(o, y, u) /\ ~Offer(o, x, u))
    <3>1. CASE n = 0
      BY <1>2, <2>2, <2>3, <3>1 DEF Offer
    <3>2. CASE x.q = << >>
      BY <2>3, <3>2 DEF ToSet
    <3> QED BY <1>3, <3>1, <3>2
  <2> HIDE DEF y
  <2>5. NoneOpens /\ Onwards /\ ProxiesStay
    BY <1>1, <2>1, Goes DEF NoneOpens, Runs, ProxiesStay, SameProxies, Onward, Joining, InWait
  <2>6. \A u \in Threads : Links(pc'[u], th'[u], arg'[u])
    BY <2>5, AllLinks
  <2>7. ASSUME NEW u \in Threads, sched'.live[u], o \in ToSet(th'[u].queued), u \in ToSet(y.q)
        PROVE  ~Offer(o, y, u)
    <3>1. Hooked(u, o)
      BY <2>1, <2>3, <2>7 DEF Hooked
    <3>2. ~Offer(o, x, u)
      BY <1>2, <3>1 DEF MissInv, Available, Offer
    <3> QED BY <2>4, <2>7, <3>2
  <2> HIDE DEF o
  <2> QED BY <1>1, <1>2, <2>1, <2>5, <2>6, <2>7, ObjectStep
<1>4. CASE n # 0 /\ x.q # << >> /\ ~sched.live[w]
  <2>1. obj' = [obj EXCEPT ![o].q = Tail(@)] /\ sched' = sched /\ th' = th /\ pc' = pc /\ arg' = arg
    BY <1>4 DEF SemPop
  <2> QED BY <1>2, <1>4, <2>1, DropMiss
<1>5. CASE n # 0 /\ x.q # << >> /\ sched.live[w]
  <2> DEFINE q == Tail(x.q)
             b == x.pending - 1
             k == n - 1
             v == ToWake(w)
             y == [x EXCEPT !.q = q, !.pending = b]
  <2>1. /\ obj' = [obj EXCEPT ![o].q = Tail(@), ![o].pending = @ - 1]
        /\ sched' = Deliver(sched, w) /\ th' = Signalled(w, o)
        /\ arg' = [arg EXCEPT ![t].tgt = v, ![t].remain = @ - 1]
        /\ pc' = [pc EXCEPT ![t] = IF v = NoThread THEN "p_pop" ELSE "p_run"]
    BY <1>5 DEF SemPop, Goto
  <2>2. w \in Threads /\ ToSet(q) \subseteq ToSet(x.q) /\ k \in Int /\ v \in Threads \union {NoThread}
    BY <1>2, <1>5, QueueHead, TailMembers DEF ToWake
  <2>3. obj' = [obj EXCEPT ![o] = y] /\ arg' = [arg EXCEPT ![t].tgt = v, ![t].remain = k]
    <3> HIDE DEF o, v, w
    <3> QED BY <1>1, <1>2, <2>1 DEF Shape, ObjectShape, ArgType
  <2>4. y.q = q /\ y.count = x.count
    <3> HIDE DEF q, b
    <3> QED BY <1>2 DEF ObjectShape
  <2>5. \A u : Offer(o, y, u) => Offer(o, x, u)
    BY <1>2, <2>4 DEF Offer
  <2> HIDE DEF w, q, y, k, v
  <2>6. \A u \in Threads : arg'[u].call = arg[u].call
    BY <1>1, <2>2, <2>3, RemainSet
  <2>7. Onwards
    <3> DEFINE p == IF v = NoThread THEN "p_pop" ELSE "p_run"
    <3>1. Onward("p_pop", p) /\ pc' = [pc EXCEPT ![t] = p]
      BY <2>1 DEF Onward, Joining, InWait
    <3> HIDE DEF p
    <3> QED BY <1>1, <3>1, Goes DEF Runs
  <2> HIDE DEF o
  <2> QED BY <1>2, <1>5, <2>1, <2>2, <2>3, <2>4, <2>5, <2>6, <2>7, SignalMiss
<1> QED BY <1>3, <1>4, <1>5

\* An interrupt's event is set when nobody waits, or ends the wait of its waiter.
LEMMA InterruptMiss ==
  ASSUME Inv, MissInv, NEW o \in Objects, Interrupt(o)
  PROVE  MissInv'
<1>1. Shape /\ SleepOK(sched) /\ DueOK(sched, now) /\ Kind[o] = "intr"
  BY DEF Inv, Interrupt
<1>2. pc' = pc /\ arg' = arg /\ Onwards
  BY DEF Interrupt, Onwards, Onward
<1>3. CASE IntrWaiter(o) = {}
  <2> DEFINE y == [obj[o] EXCEPT !.state = TRUE]
  <2>1. obj' = [obj EXCEPT ![o] = y] /\ sched' = sched /\ th' = th
    BY <1>3 DEF Interrupt
  <2>2. NoneOpens /\ ProxiesStay
    BY <1>2, <2>1 DEF NoneOpens, ProxiesStay, SameProxies
  <2>3. \A u \in Threads : Links(pc'[u], th'[u], arg'[u])
    BY <1>2, <2>2, AllLinks
  <2>4. ASSUME NEW u \in Threads, sched'.live[u], o \in ToSet(th'[u].queued)
        PROVE  FALSE
    <3>1. o \in ToSet(th[u].queued) /\ sched.live[u]
      BY <2>1, <2>4
    <3>2. th[u].queued = <<o>>
      BY <1>1, <3>1 DEF MissInv, Links, Alone
    <3>3. th[u].queued # << >>
      BY <3>2
    <3>4. u \in IntrWaiter(o)
      BY <3>1, <3>2, <3>3 DEF IntrWaiter, HasProxy
    <3> QED BY <1>3, <3>4
  <2> HIDE DEF y
  <2> QED BY <1>1, <2>1, <2>2, <2>3, <2>4, ObjectStep
<1>4. CASE IntrWaiter(o) # {}
  <2>1. PICK w \in IntrWaiter(o) :
          /\ sched' = IF sched.wait[w] = "BLOCKED" THEN IntrWakes(sched, w) ELSE Deliver(sched, w)
          /\ th' = Signalled(w, o) /\ obj' = obj
    BY <1>4 DEF Interrupt, IntrWakes
  <2>2. w \in Threads /\ sched.live[w]
    BY IntrWaiterIs
  <2>3. ProxiesStay
    BY <1>1, <1>2, <2>1, <2>2, SignalledStays
  <2>4. NoneOpens
    <3>1. CASE sched.wait[w] = "BLOCKED"
      <4>1. sched.rs[w] = "BLOCKED"
        BY <2>2, <3>1 DEF Inv, ThreadOK, OpenOK
      <4>2. \A u \in Threads \ {w} : ExactSame(sched, sched', u)
        BY <1>1, <2>1, <2>2, <3>1, <4>1, IntrWakesDoes
      <4> QED BY <2>2, <4>2 DEF ExactSame, SameThread, NoneOpens
    <3>2. CASE sched.wait[w] # "BLOCKED"
      BY <2>1, <2>2, <3>2, Delivered, MarkedOpens
    <3> QED BY <3>1, <3>2
  <2> QED BY <1>2, <2>1, <2>3, <2>4, SameObjects
<1> QED BY <1>3, <1>4
-----------------------------------------------------------------------------
\* No proxy is queued, and who opens a wait has none.
LEMMA FewerProxies ==
  ASSUME MissInv, \A u \in Threads : Links(pc'[u], th'[u], arg'[u]), obj' = obj,
         \A u \in Threads : \A o \in ToSet(th'[u].queued) :
           sched'.live[u] => sched.live[u] /\ o \in ToSet(th[u].queued)
  PROVE  MissInv'
<1>1. ASSUME NEW t \in Threads, NEW o \in Objects, Hooked(t, o)'
      PROVE  ~Available(o, t)'
  <2>1. Hooked(t, o)
    BY <1>1 DEF Hooked
  <2>2. ~Available(o, t)
    BY <2>1 DEF MissInv
  <2> QED BY <2>2 DEF Available
<1> QED BY <1>1 DEF MissInv

\* The links of the others stay.
LEMMA OneLinks ==
  ASSUME MissInv, NEW t \in Threads, Links(pc'[t], th'[t], arg'[t]),
         \A u \in Threads \ {t} : pc'[u] = pc[u] /\ th'[u] = th[u] /\ arg'[u] = arg[u]
  PROVE  \A u \in Threads : Links(pc'[u], th'[u], arg'[u])
BY DEF MissInv

\* A wait is opened before it has any proxy.
LEMMA WaitConfigMiss ==
  ASSUME Inv, MissInv, NEW t \in Threads, WaitConfig(t)
  PROVE  MissInv'
<1> DEFINE b == Kind[Head(th[t].pend)] # "intr"
<1>1. Shape /\ sched \in SleepType /\ pc[t] = "w_config"
  BY OKFields DEF Inv, WaitConfig, At
<1>2. /\ sched' = Opened(sched, t, b) /\ pc' = [pc EXCEPT ![t] = "w_one"]
      /\ obj' = obj /\ th' = th /\ arg' = arg
  BY DEF WaitConfig, Opened, Goto
<1>3. b \in BOOLEAN
  OBVIOUS
<1> HIDE DEF b
<1>4. sched'.live = [sched.live EXCEPT ![t] = TRUE] /\ sched.live \in [Threads -> BOOLEAN]
  <2>1. OpenedTo(sched, t, b, sched')
    BY <1>1, <1>2, <1>3, OpenedSets
  <2>2. sched.live \in [Threads -> BOOLEAN]
    BY <1>1, SleepFields
  <2> QED BY <2>1, <2>2 DEF OpenedTo
<1>5. Onwards
  BY <1>1, <1>2, Goes DEF Onward, Joining, InWait
<1>6. \A u \in Threads : Links(pc'[u], th'[u], arg'[u])
  BY <1>2, <1>5, AllLinks DEF ProxiesStay, SameProxies
<1>7. th[t].queued = << >>
  BY <1>1 DEF MissInv, Links, Joining, InWait
<1>8. \A o : o \notin ToSet(th[t].queued)
  BY <1>7 DEF ToSet
<1> QED BY <1>2, <1>4, <1>6, <1>8, FewerProxies

\* What is left of an object that t takes is not there for others.
LEMMA TakenOffers ==
  ASSUME Shape, NEW t \in Threads, t # NoThread, NEW o \in Objects, Available(o, t), NEW u, u # t,
         Offer(o, Taken(o, t), u)
  PROVE  Offer(o, obj[o], u)
<1> DEFINE x == obj[o]
           y == Taken(o, t)
<1>1. x \in ObjectShape /\ x.count \in Int
  BY ObjectFields DEF Shape
<1>2. CASE Kind[o] = "sem"
  <2>1. y.count = x.count - 1
    BY <1>1, <1>2 DEF Taken, ObjectShape
  <2> HIDE DEF y
  <2>2. y.count > 0
    BY <1>2 DEF Offer, y
  <2> QED BY <1>1, <1>2, <2>1, <2>2 DEF Offer
<1>3. CASE Kind[o] = "mutex"
  <2>1. y.owner = t
    BY <1>1, <1>3 DEF Taken, ObjectShape
  <2> HIDE DEF y
  <2>2. y.owner \in {NoThread, u}
    BY <1>3 DEF Offer, y
  <2> QED BY <2>1, <2>2
<1>4. CASE Kind[o] = "manual"
  BY <1>4 DEF Taken, Offer
<1>5. CASE Kind[o] \notin {"sem", "mutex", "manual"}
  <2>1. y.state = FALSE
    BY <1>1, <1>5 DEF Taken, ObjectShape
  <2> HIDE DEF y
  <2>2. y.state
    BY <1>5 DEF Offer, y
  <2> QED BY <2>1, <2>2
<1> QED BY <1>2, <1>3, <1>4, <1>5

\* The thread takes an object that is there.
LEMMA WaitTakesMiss ==
  ASSUME Inv, MissInv, NEW t \in Threads, NEW o \in Objects, WaitTakes(t, o)
  PROVE  MissInv'
<1> DEFINE newOwner == Kind[o] = "mutex" /\ obj[o].owner = NoThread
           next == IF newOwner THEN "w_link" ELSE "w_dequeue"
           c == IF newOwner THEN o ELSE NoObject
           y == Taken(o, t)
<1>1. Runs(t, "w_one") /\ Shape /\ sched \in SleepType /\ Available(o, t)
  BY RunsNow, OKFields DEF WaitTakes, NextObject, Inv
<1>2. Finish(t, o, next) /\ arg' = [arg EXCEPT ![t].crit = c] /\ obj' = [obj EXCEPT ![o] = y]
  BY DEF WaitTakes
<1>3. next \in {"w_dequeue", "w_link"}
  OBVIOUS
<1>4. \A u \in Threads : /\ u \in ToSet(y.q) => u \in ToSet(obj[o].q)
                         /\ u # t /\ Offer(o, y, u) => Offer(o, obj[o], u)
  BY <1>1, TakenIs, TakenOffers DEF Runs, Changed
<1> HIDE DEF y, c, next
<1>5. \A u \in Threads : arg'[u].call = arg[u].call
  <2> DEFINE a == [arg[t] EXCEPT !.crit = c]
  <2>1. a.call = arg[t].call /\ arg' = [arg EXCEPT ![t] = a]
    BY <1>1, <1>2 DEF Shape, ArgType
  <2> HIDE DEF a
  <2> QED BY <1>1, <2>1 DEF Shape
<1>6. NoneOpens /\ ~sched'.live[t] /\ Onwards /\ ProxiesStay
  BY <1>1, <1>2, <1>3, <1>5, FinishOpens DEF Runs
<1>7. \A u \in Threads : Links(pc'[u], th'[u], arg'[u])
  BY <1>6, AllLinks
<1>8. \A u \in Threads : \A m \in ToSet(th'[u].queued) : m \in ToSet(th[u].queued)
  BY <1>6 DEF ProxiesStay, SameProxies
<1> QED BY <1>1, <1>2, <1>4, <1>6, <1>7, <1>8, QuietObject

\* A proxy put before others.
LEMMA ConsMembers ==
  ASSUME NEW o \in Objects, NEW q \in Seq(Objects), NEW r, r = <<o>> \o q
  PROVE  /\ \A k \in ToSet(r) : k = o \/ k \in ToSet(q)
         /\ q = << >> => r = <<o>>
<1>1. <<o>> \in Seq(Objects) /\ Len(<<o>>) = 1 /\ <<o>>[1] = o
  OBVIOUS
<1>2. /\ r \in Seq(Objects) /\ Len(r) = Len(q) + 1 /\ Len(q) \in Nat
      /\ \A i \in 1 .. Len(q) + 1 : r[i] = IF i <= 1 THEN o ELSE q[i - 1]
  BY <1>1, ConcatProperties, LenProperties
<1>3. DOMAIN r = 1 .. Len(r) /\ DOMAIN q = 1 .. Len(q)
  BY <1>2, LenProperties
<1>4. ASSUME NEW k \in ToSet(r), k # o
      PROVE  k \in ToSet(q)
  <2>1. PICK i \in 1 .. Len(q) + 1 : k = r[i]
    BY <1>2, <1>3, <1>4 DEF ToSet
  <2>2. ~(i <= 1) /\ i - 1 \in 1 .. Len(q) /\ k = q[i - 1]
    BY <1>2, <1>4, <2>1
  <2> QED BY <1>3, <2>2 DEF ToSet
<1>5. q = << >> => r = <<o>>
  OBVIOUS
<1> QED BY <1>4, <1>5

\* WaitOneMore queues a proxy on an object that is not there.
LEMMA WaitEnqueuesMiss ==
  ASSUME Inv, MissInv, NEW t \in Threads, NEW o \in Objects, WaitEnqueues(t, o)
  PROVE  MissInv'
<1> DEFINE x == obj[o]
           h == th[t]
           y == Enqueued(o, t)
           p == Tail(h.pend)
           q == <<o>> \o h.queued
           z == [h EXCEPT !.pend = p, !.queued = q]
<1>1. Runs(t, "w_one") /\ Shape /\ sched \in SleepType /\ x \in ObjectShape /\ h \in ThreadType
  BY RunsNow, OKFields DEF WaitEnqueues, NextObject, Inv, Shape
<1>2. h.pend \in Seq(Objects) /\ h.queued \in Seq(Objects) /\ h.pend # << >> /\ o = Head(h.pend)
  BY <1>1, ThreadFields DEF WaitEnqueues, NextObject
<1>3. /\ ~Available(o, t) /\ obj' = [obj EXCEPT ![o] = y] /\ sched' = Forgets(sched, t)
      /\ th' = [th EXCEPT ![t].pend = Tail(@), ![t].queued = <<o>> \o @]
      /\ \/ pc' = pc /\ arg' = arg
         \/ pc' = [pc EXCEPT ![t] = "w_boost"] /\ arg' = [arg EXCEPT ![t].crit = o]
  BY DEF WaitEnqueues, Awake, Forgets, Goto
<1>4. th' = [th EXCEPT ![t] = z]
  BY <1>1, <1>3 DEF Shape, ThreadType
<1>5. /\ ToSet(p) \subseteq ToSet(h.pend) /\ o \in ToSet(h.pend)
      /\ \A k \in ToSet(q) : k = o \/ k \in ToSet(h.queued)
      /\ h.queued = << >> => q = <<o>>
  <2>1. o \in ToSet(h.pend)
    <3>1. Len(h.pend) \in Nat /\ DOMAIN h.pend = 1 .. Len(h.pend) /\ Len(h.pend) # 0 /\ o = h.pend[1]
      BY <1>2, LenProperties, EmptySeq, HeadTailProperties
    <3> QED BY <3>1 DEF ToSet
  <2>2. ToSet(p) \subseteq ToSet(h.pend)
    BY <1>2, TailMembers
  <2> DEFINE w == h.queued
  <2>3. w \in Seq(Objects) /\ q = <<o>> \o w
    BY <1>2
  <2> HIDE DEF h, q, w
  <2>4. (\A k \in ToSet(q) : k = o \/ k \in ToSet(w)) /\ (w = << >> => q = <<o>>)
    BY <2>3, ConsMembers
  <2> QED BY <2>1, <2>2, <2>4 DEF w
<1>6. h.pend = <<o>> => p = << >>
  <2>1. ASSUME h.pend = <<o>>
        PROVE  Tail(<<o>>) = << >>
    OBVIOUS
  <2> QED BY <2>1
<1>7. z.pend = p /\ z.queued = q
  <2> HIDE DEF p, q
  <2> QED BY <1>1 DEF ThreadType
<1> HIDE DEF z, p, q
<1>8. Alone(z)
  <2>1. Alone(h)
    BY DEF MissInv, Links
  <2>2. CASE Kind[o] = "intr"
    <3>1. h.queued = << >> /\ h.pend = <<o>>
      BY <1>5, <2>1, <2>2 DEF Alone
    <3>2. q = <<o>> /\ p = << >>
      BY <1>5, <1>6, <3>1
    <3>3. (\A k \in ToSet(<<o>>) : k = o) /\ \A k : k \notin ToSet(<< >>)
      BY DEF ToSet
    <3> QED BY <1>7, <3>2, <3>3 DEF Alone
  <2>3. CASE Kind[o] # "intr"
    <3>1. ASSUME NEW k \in ToSet(q), Kind[k] = "intr"
          PROVE  FALSE
      BY <1>2, <1>5, <2>1, <2>3, <3>1 DEF Alone
    <3>2. ASSUME NEW k \in ToSet(p), Kind[k] = "intr"
          PROVE  FALSE
      <4>1. h.pend = <<k>>
        BY <1>5, <2>1, <3>2 DEF Alone
      <4>2. Head(<<k>>) = k
        OBVIOUS
      <4> QED BY <1>2, <2>3, <3>2, <4>1, <4>2
    <3> QED BY <1>7, <3>1, <3>2 DEF Alone
  <2> QED BY <2>2, <2>3
<1>9. \A u \in Threads : Links(pc'[u], th'[u], arg'[u])
  <2>1. pc'[t] \in {"w_one", "w_boost"} /\ \A u \in Threads \ {t} : pc'[u] = pc[u] /\ arg'[u] = arg[u]
    BY <1>1, <1>3 DEF Runs, Shape
  <2>2. th'[t] = z /\ \A u \in Threads \ {t} : th'[u] = th[u]
    BY <1>1, <1>4 DEF Shape
  <2>3. Links(pc'[t], th'[t], arg'[t])
    BY <1>8, <2>1, <2>2 DEF Links, Joining, InWait
  <2> QED BY <2>1, <2>2, <2>3, OneLinks
<1>10. NoneOpens
  BY <1>1, <1>3, ForgetsSets DEF NoneOpens
<1>11. \A u \in Threads : \A m \in ToSet(th'[u].queued) :
         (u = t /\ m = o) \/ m \in ToSet(th[u].queued)
  BY <1>1, <1>4, <1>5, <1>7 DEF Shape
<1>12. /\ \A u : Offer(o, y, u) => Offer(o, x, u)
       /\ \A u \in ToSet(y.q) : u = t \/ u \in ToSet(x.q)
  <2>1. x.q \in Seq(Threads)
    BY <1>1, ObjectFields
  <2>2. CASE Kind[o] \in {"auto", "sem", "mutex"}
    <3> DEFINE r == InsertBehind(x.q, ProxPrio, t)
    <3>1. y = [x EXCEPT !.q = r]
      BY <1>1, <2>2 DEF Enqueued, ObjectShape
    <3>2. \A u \in ToSet(r) : u = t \/ u \in ToSet(x.q)
      BY <2>1, InsertAdds
    <3> HIDE DEF r, y
    <3>3. y.q = r /\ y.state = x.state /\ y.count = x.count /\ y.owner = x.owner
      BY <1>1, <3>1 DEF ObjectShape
    <3> QED BY <3>2, <3>3 DEF Offer
  <2>3. CASE Kind[o] = "manual"
    <3> DEFINE r == Append(x.q, t)
               n == Min({x.maxPrio, th[t].proxPrio})
    <3>1. y = [x EXCEPT !.q = r, !.maxPrio = n]
      <4> HIDE DEF Min
      <4> QED BY <1>1, <2>3 DEF Enqueued, ObjectShape
    <3>2. \A s : s = Append(x.q, t) => \A u \in ToSet(s) : u = t \/ u \in ToSet(x.q)
      BY <2>1, InsertAdds
    <3>3. \A u \in ToSet(r) : u = t \/ u \in ToSet(x.q)
      BY <3>2
    <3> HIDE DEF r, n, y
    <3>4. y.q = r /\ y.state = x.state /\ y.count = x.count /\ y.owner = x.owner
      BY <1>1, <3>1 DEF ObjectShape
    <3> QED BY <3>3, <3>4 DEF Offer
  <2>4. CASE Kind[o] \notin {"auto", "sem", "mutex", "manual"}
    BY <2>4 DEF Enqueued
  <2> QED BY <2>2, <2>3, <2>4
<1> HIDE DEF y, x, h
<1>13. ASSUME NEW u \in Threads, sched'.live[u], o \in ToSet(th'[u].queued),
              Kind[o] = "intr" \/ u \in ToSet(y.q)
       PROVE  ~Offer(o, y, u)
  <2>1. CASE u = t
    BY <1>3, <1>12, <2>1 DEF Available, Offer, x
  <2>2. CASE u # t
    <3>1. Hooked(u, o)
      BY <1>10, <1>11, <1>12, <1>13, <2>2 DEF Hooked, NoneOpens, x
    <3>2. ~Offer(o, x, u)
      BY <3>1 DEF MissInv, Available, Offer, x
    <3> QED BY <1>12, <3>2
  <2> QED BY <2>1, <2>2
<1> QED BY <1>1, <1>3, <1>9, <1>10, <1>11, <1>13, ObjectStep

\* A proxy of a wait that is over is taken off its object.
LEMMA DequeueProxyMiss ==
  ASSUME Inv, MissInv, NEW t \in Threads, DequeueProxy(t)
  PROVE  MissInv'
<1> DEFINE h == th[t]
           o == Head(h.queued)
           x == obj[o]
           r == Without(x.q, t)
           q == Tail(h.queued)
           y == [x EXCEPT !.q = r]
           z == [h EXCEPT !.queued = q]
<1>1. Runs(t, "w_dequeue") /\ Shape /\ ~sched.live[t] /\ h \in ThreadType
  BY RunsNow DEF DequeueProxy, Inv, Runs, Shape, InWait
<1>2. h.queued \in Seq(Objects) /\ h.queued # << >>
  BY <1>1, ThreadFields DEF DequeueProxy
<1>3. o \in Objects /\ ToSet(q) \subseteq ToSet(h.queued)
  BY <1>2, HeadTailProperties, TailMembers
<1>4. x \in ObjectShape /\ x.q \in Seq(Threads)
  BY <1>1, <1>3, ObjectFields DEF Shape
<1>5. /\ obj' = [obj EXCEPT ![o].q = Without(@, t)] /\ th' = [th EXCEPT ![t].queued = Tail(@)]
      /\ sched' = sched
      /\ \/ pc' = pc /\ arg' = arg
         \/ pc' = [pc EXCEPT ![t] = "w_reprio"] /\ arg' = [arg EXCEPT ![t].crit = o]
  BY DEF DequeueProxy, Goto
<1>6. obj' = [obj EXCEPT ![o] = y] /\ th' = [th EXCEPT ![t] = z]
  <2>1. th' = [th EXCEPT ![t] = z]
    BY <1>5
  <2> HIDE DEF o
  <2> QED BY <1>5, <2>1
<1>7. \A u \in ToSet(r) : u \in ToSet(x.q)
  BY <1>4, WithoutAdds
<1>8. y.q = r /\ \A u : Offer(o, y, u) => Offer(o, x, u)
  <2> HIDE DEF r
  <2>1. y.q = r /\ y.state = x.state /\ y.count = x.count /\ y.owner = x.owner
    BY <1>4 DEF ObjectShape
  <2> QED BY <2>1 DEF Offer
<1>9. z.pend = h.pend /\ z.queued = q
  <2> HIDE DEF q
  <2> QED BY <1>1 DEF ThreadType
<1>10. \A k : h.queued = <<k>> => q = << >>
  <2>1. \A k : Tail(<<k>>) = << >>
    OBVIOUS
  <2> QED BY <2>1
<1> HIDE DEF z, q, y, r
<1>11. Alone(z)
  <2>1. Alone(h)
    BY DEF MissInv, Links
  <2>2. ASSUME NEW k \in ToSet(q), Kind[k] = "intr"
        PROVE  FALSE
    <3>1. q = << >>
      BY <1>3, <1>10, <2>1, <2>2 DEF Alone
    <3> QED BY <2>2, <3>1 DEF ToSet
  <2>3. ASSUME NEW k \in ToSet(z.pend), Kind[k] = "intr"
        PROVE  FALSE
    BY <1>2, <1>9, <2>1, <2>3 DEF Alone
  <2> QED BY <1>9, <2>2, <2>3 DEF Alone
<1>12. \A u \in Threads : Links(pc'[u], th'[u], arg'[u])
  <2>1. pc'[t] \in {"w_dequeue", "w_reprio"} /\ \A u \in Threads \ {t} : pc'[u] = pc[u] /\ arg'[u] = arg[u]
    BY <1>1, <1>5 DEF Runs, Shape
  <2>2. th'[t] = z /\ \A u \in Threads \ {t} : th'[u] = th[u]
    BY <1>1, <1>6 DEF Shape
  <2>3. Links(pc'[t], th'[t], arg'[t])
    BY <1>11, <2>1, <2>2 DEF Links, Joining, InWait
  <2> QED BY <2>1, <2>2, <2>3, OneLinks
<1>13. \A u \in Threads : \A m \in ToSet(th'[u].queued) : m \in ToSet(th[u].queued)
  BY <1>1, <1>3, <1>6, <1>9 DEF Shape
<1> HIDE DEF x, h, o
<1> QED BY <1>1, <1>3, <1>5, <1>6, <1>7, <1>8, <1>12, <1>13, QuietObject DEF NoneOpens, x

\* The wait is cleaned up and the call returns.
LEMMA WaitReturnsMiss ==
  ASSUME Inv, MissInv, NEW t \in Threads, WaitReturns(t)
  PROVE  MissInv'
<1> DEFINE z == [th[t] EXCEPT !.pend = << >>, !.queued = << >>]
<1>1. Shape /\ sched \in SleepType /\ th[t] \in ThreadType
  BY OKFields DEF Inv, Shape
<1>2. /\ sched' = [sched EXCEPT !.lpce[t] = FALSE] /\ pc' = [pc EXCEPT ![t] = "k_return"]
      /\ obj' = obj /\ arg' = arg /\ th' = [th EXCEPT ![t].pend = << >>, ![t].queued = << >>]
  BY DEF WaitReturns, Goto
<1>3. th' = [th EXCEPT ![t] = z] /\ z.pend = << >> /\ z.queued = << >>
  BY <1>1, <1>2 DEF Shape, ThreadType
<1> HIDE DEF z
<1>4. \A k : k \notin ToSet(<< >>)
  BY DEF ToSet
<1>5. sched'.live = sched.live
  BY <1>1, <1>2 DEF SleepType
<1>6. \A u \in Threads : Links(pc'[u], th'[u], arg'[u])
  <2>1. th'[t] = z /\ pc'[t] = "k_return"
    BY <1>1, <1>2, <1>3 DEF Shape
  <2>2. Links(pc'[t], th'[t], arg'[t])
    BY <1>3, <1>4, <2>1 DEF Links, Alone
  <2> QED BY <1>1, <1>2, <1>3, <2>2, OneLinks DEF Shape
<1>7. \A u \in Threads : \A m \in ToSet(th'[u].queued) : m \in ToSet(th[u].queued)
  BY <1>1, <1>3, <1>4 DEF Shape
<1> QED BY <1>2, <1>5, <1>6, <1>7, FewerProxies
-----------------------------------------------------------------------------
\* A wait for an interrupt event is for it alone.
LEMMA InterruptsAlone ==
  ASSUME NEW op \in CallType, op.call = "wait", NEW o \in ToSet(op.objs), Kind[o] = "intr"
  PROVE  op.objs = <<o>>
<1> DEFINE K == OfKind({"auto", "manual", "sem", "mutex"})
           q == op.objs
<1>1. CASE q \in Seq(K)
  <2>1. \A i \in DOMAIN q : q[i] \in K
    BY <1>1
  <2>2. o \in K
    BY <2>1 DEF ToSet
  <2> QED BY <2>2 DEF OfKind
<1>2. CASE \E m \in Objects : q = <<m>>
  <2>1. PICK m \in Objects : q = <<m>>
    BY <1>2
  <2>2. o = m
    BY <2>1 DEF ToSet
  <2> QED BY <2>1, <2>2
<1>3. q \in Seq(K) \/ \E m \in Objects : q = <<m>>
  <2> HIDE DEF K
  <2>1. CASE op \in [call : {"wait"}, objs : Several, time : {INFINITE} \union Nat]
    BY <2>1 DEF Several, K
  <2>2. CASE op \in [call : {"wait"}, objs : {<<m>> : m \in OfKind({"intr"})},
                     time : {INFINITE} \union Nat]
    BY <2>2 DEF OfKind
  <2> QED BY <2>1, <2>2 DEF CallType
<1> QED BY <1>1, <1>2, <1>3

\* What a call finds ready: no proxies yet, and an interrupt event alone.
LEMMA PreparedLinks ==
  ASSUME Shape, sched \in SleepType, NEW t \in Threads, NEW op \in CallType,
         Alone(th[t]), th[t].queued = << >>
  PROVE  Prepared(t, op).queued = << >> /\ Alone(Prepared(t, op))
<1>1. th[t] \in ThreadType /\ \A k : k \notin ToSet(<< >>)
  BY DEF Shape, ToSet
<1>2. CASE op.call = "wait"
  <2>1. Prepared(t, op).queued = << >>
    BY <1>1, <1>2 DEF Prepared, ThreadType
  <2>2. Prepared(t, op).pend = op.objs
    BY <1>2, PreparedIs
  <2> QED BY <1>1, <1>2, <2>1, <2>2, InterruptsAlone DEF Alone
<1>3. CASE op.call = "sleep"
  <2>1. Prepared(t, op).queued = << >> /\ Prepared(t, op).pend = th[t].pend
    BY <1>1, <1>3 DEF Prepared, ThreadType
  <2> QED BY <2>1 DEF Alone
<1>4. CASE op.call \notin {"wait", "sleep"}
  <2>1. Prepared(t, op) = th[t]
    BY <1>4 DEF Prepared
  <2> QED BY <2>1
<1> QED BY <1>2, <1>3, <1>4

\* Where the KCalls that set an event begin.
LEMMA EntryKinds ==
  ASSUME NEW op \in CallType
  PROVE  /\ Entry(op) = "s_auto" => Kind[op.obj] = "auto"
         /\ Entry(op) = "s_intr" => Kind[op.obj] = "intr"
<1>1. /\ op.call \in {"wait", "set", "pulse", "reset", "releaseMutex", "releaseSemaphore", "sleep",
                      "basePrio", "suspend", "resume", "scavenge"}
      /\ op.call \in {"set", "pulse"} => Kind[op.obj] \in {"auto", "manual", "intr"}
  BY CallFacts
<1>2. CASE op.call \in {"set", "pulse"} /\ Kind[op.obj] = "auto"
  BY <1>2 DEF Entry
<1>3. CASE op.call \in {"set", "pulse"} /\ Kind[op.obj] = "intr"
  BY <1>3 DEF Entry
<1>4. CASE op.call \in {"set", "pulse"} /\ Kind[op.obj] = "manual"
  BY <1>4 DEF Entry
<1>5. CASE op.call \notin {"set", "pulse"}
  BY <1>1, <1>5 DEF Entry
<1> QED BY <1>1, <1>2, <1>3, <1>4, <1>5

\* A call begins.
LEMMA BeginCallMiss ==
  ASSUME UntimedInterrupts, Inv, MissInv, NEW t \in Threads, NEW op \in Ops[t], BeginCall(t, op)
  PROVE  MissInv'
<1> DEFINE h == Prepared(t, op)
           e == Entry(op)
           x == th[t].bprio
           a == [arg[t] EXCEPT !.call = op, !.oldPrio = x]
<1>1. Shape /\ sched \in SleepType /\ pc[t] = "user"
  BY OKFields DEF Inv, BeginCall, At
<1>2. op \in CallType /\ Untimed(op)
  BY OpsAssumption DEF UntimedInterrupts
<1>3. e \notin Joining
  BY <1>2, EntryIs DEF Joining
<1>4. /\ e = "s_auto" => Kind[op.obj] = "auto"
      /\ e = "s_intr" => Kind[op.obj] = "intr"
  BY <1>2, EntryKinds
<1>5. Alone(th[t]) /\ th[t].queued = << >>
  <2>1. Links(pc[t], th[t], arg[t])
    BY DEF MissInv
  <2> QED BY <1>1, <2>1 DEF Links, Joining, InWait
<1>6. h.queued = << >> /\ Alone(h)
  BY <1>1, <1>2, <1>5, PreparedLinks
<1>7. /\ sched' = [sched EXCEPT !.crab[t] = NoPlace] /\ th' = [th EXCEPT ![t] = h]
      /\ arg' = [arg EXCEPT ![t] = a] /\ pc' = [pc EXCEPT ![t] = e] /\ obj' = obj
  BY DEF BeginCall, Goto
<1> HIDE DEF h, e, x
<1>8. a.call = op
  BY <1>1 DEF Shape, ArgType
<1> HIDE DEF a
<1>9. sched'.live = sched.live
  BY <1>1, <1>7 DEF SleepType
<1>10. /\ th'[t] = h /\ arg'[t] = a /\ pc'[t] = e
       /\ \A u \in Threads \ {t} : pc'[u] = pc[u] /\ th'[u] = th[u] /\ arg'[u] = arg[u]
  BY <1>1, <1>7 DEF Shape
<1>11. Links(pc'[t], th'[t], arg'[t])
  BY <1>3, <1>4, <1>6, <1>8, <1>10 DEF Links
<1>12. \A u \in Threads : Links(pc'[u], th'[u], arg'[u])
  BY <1>10, <1>11, OneLinks
<1>13. \A u \in Threads : \A m \in ToSet(th'[u].queued) : m \in ToSet(th[u].queued)
  <2>1. \A k : k \notin ToSet(<< >>)
    BY DEF ToSet
  <2> QED BY <1>6, <1>10, <2>1
<1> QED BY <1>7, <1>9, <1>12, <1>13, FewerProxies

\* A call returns to its caller.
LEMMA ReturnMiss ==
  ASSUME Inv, MissInv, NEW t \in Threads, ReturnToUser(t)
  PROVE  MissInv'
<1> DEFINE intr == Op(t).call = "wait" /\ Kind[Head(Op(t).objs)] = "intr"
           suspend == th[t].pendSusp > 0 /\ ~intr
           n == IF suspend THEN 0 ELSE th[t].pendSusp
           q == Cleaned(sched, t)
           h == [th[t] EXCEPT !.proxPrio = 0, !.ret = TimeOut, !.pendReturn = TimeOut,
                              !.pendTime = 0, !.pendWakeup = 0, !.pendSusp = n]
<1>1. Shape /\ sched \in SleepType /\ pc[t] = "k_return" /\ th[t] \in ThreadType
  BY OKFields DEF Inv, ReturnToUser, At, Shape
<1>2. /\ sched' = IF suspend THEN [BlockCurrent(q) EXCEPT !.susp[t] = th[t].pendSusp] ELSE q
      /\ th' = [th EXCEPT ![t] = h] /\ arg' = [arg EXCEPT ![t] = NoArg]
      /\ pc' = [pc EXCEPT ![t] = "user"] /\ obj' = obj
  BY DEF ReturnToUser, Cleaned, Goto
<1> HIDE DEF suspend, n, q
<1>3. SameProxies(th[t], h)
  BY <1>1, ProxyFields
<1> HIDE DEF h
<1>4. q \in SleepType /\ q.live = sched.live
  BY <1>1, CleanedSets DEF CleanedTo, q
<1>5. sched'.live = sched.live
  <2> DEFINE b == BlockCurrent(q)
  <2>1. DOMAIN b = DOMAIN q /\ "susp" # "live"
    BY DEF BlockCurrent
  <2>2. b.live = q.live /\ "live" \in DOMAIN b
    BY <1>4 DEF BlockCurrent, SleepType
  <2> HIDE DEF b
  <2>3. \A m : [b EXCEPT !.susp[t] = m].live = b.live
    BY <2>2
  <2> QED BY <1>2, <1>4, <2>2, <2>3 DEF b
<1>6. /\ th'[t] = h /\ arg'[t] = NoArg /\ pc'[t] = "user"
      /\ \A u \in Threads \ {t} : pc'[u] = pc[u] /\ th'[u] = th[u] /\ arg'[u] = arg[u]
  BY <1>1, <1>2 DEF Shape
<1>7. Alone(th[t]) /\ th[t].queued = << >>
  <2>1. Links(pc[t], th[t], arg[t])
    BY DEF MissInv
  <2> QED BY <1>1, <2>1 DEF Links, Joining, InWait
<1>8. Links(pc'[t], th'[t], arg'[t])
  BY <1>3, <1>6, <1>7 DEF Links, SameProxies, Alone
<1>9. \A u \in Threads : Links(pc'[u], th'[u], arg'[u])
  BY <1>6, <1>8, OneLinks
<1>10. \A u \in Threads : \A m \in ToSet(th'[u].queued) : m \in ToSet(th[u].queued)
  BY <1>3, <1>6 DEF SameProxies
<1> QED BY <1>2, <1>5, <1>9, <1>10, FewerProxies
-----------------------------------------------------------------------------
\* No thread has a proxy at first.
LEMMA MissInit ==
  ASSUME Init
  PROVE  MissInv
<1>1. \A t \in Threads : /\ th[t].queued = << >> /\ th[t].pend = << >> /\ pc[t] = "user"
                         /\ ~sched.live[t]
  BY DEF Init
<1>2. \A k : k \notin ToSet(<< >>)
  BY DEF ToSet
<1> QED BY <1>1, <1>2 DEF MissInv, Links, Alone, Hooked

\* Every step of a wait keeps the invariant,
LEMMA WaitMiss ==
  ASSUME Inv, MissInv, NEW t \in Threads, Wait(t)
  PROVE  MissInv'
<1>1. CASE \E o \in Objects : WaitTakes(t, o) \/ WaitPolls(t, o) \/ WaitEnqueues(t, o)
  BY <1>1, WaitTakesMiss, WaitPollsMiss, WaitEnqueuesMiss
<1>2. CASE WaitWoken(t)
  BY <1>2, WokenMiss
<1>3. CASE LaterLinkCritMut(t) \/ DoReprioMutex(t)
  BY <1>3, OwnersListMiss
<1> QED BY <1>1, <1>2, <1>3, WaitConfigMiss, WaitSignalledMiss, WaitBlocksMiss, WaitTimesOutMiss,
           WaitSleepsMiss, PostBoostMiss, DequeueProxyMiss, WaitReturnsMiss DEF Wait

\* ... every step of a call that signals,
LEMMA SignalCallMiss ==
  ASSUME Inv, MissInv, NEW t \in Threads, Signal(t)
  PROVE  MissInv'
<1>1. CASE SetNoPrioCalc(t) \/ ClearNoPrioCalc(t)
  BY <1>1, NoPrioCalcMiss
<1> QED BY <1>1, EventModAutoMiss, EventModIntrMiss, ResetEventMiss, EventModManMiss, BoostSelfMiss,
           WakeOneMiss, AdjustPrioMiss, ReleaseMutexMiss, PreUnlinkMiss, LeaveMutexMiss, PostUnlinkMiss,
           SemAddMiss, SemPopMiss, MakeRunMiss DEF Signal

\* ... and every step of a call about a thread.
LEMMA ControlMiss ==
  ASSUME Inv, MissInv, NEW t \in Threads, Control(t)
  PROVE  MissInv'
<1>1. CASE SleepWoken(t)
  BY <1>1, WokenMiss
<1>2. CASE SuspendSelf(t)
  BY <1>2, SuspendItselfMiss
<1> QED BY <1>1, <1>2, YieldMiss, PutToSleepMiss, BasePrioMiss, SuspendMiss, ResumeMiss, ScavengeMiss
        DEF Control

\* Every step keeps the invariant.
LEMMA MissNext ==
  ASSUME UntimedInterrupts, Inv, MissInv, [Next]_vars
  PROVE  MissInv'
<1>1. CASE UNCHANGED vars
  BY <1>1, StutterMiss
<1>2. CASE Next
  <2>1. ASSUME NEW t \in Threads, KernelStep(t)
        PROVE  MissInv'
    BY <2>1, WaitMiss, SignalCallMiss, ControlMiss, ReturnMiss DEF KernelStep
  <2>2. ASSUME NEW t \in Threads, ClientStep(t)
        PROVE  MissInv'
    BY <2>2, SuspendItselfMiss, BeginCallMiss DEF ClientStep
  <2>3. CASE \E o \in Objects : Interrupt(o)
    BY <2>3, InterruptMiss
  <2>4. CASE Tick
    BY <2>4, TickMiss
  <2>5. CASE KCNextThread
    BY <2>5, NextThreadMiss
  <2>6. CASE Idle
    BY <2>6, StutterMiss DEF Idle
  <2> QED BY <1>2, <2>1, <2>2, <2>3, <2>4, <2>5, <2>6 DEF Next
<1> QED BY <1>1, <1>2

\* A thread whose wait is still open has found none of the objects it has a
\* proxy on there for it: a signal that comes between two steps of WaitOneMore,
\* of the owner's hand-over or of a time-out is never lost.
THEOREM NoSignalIsMissed ==
  ASSUME UntimedInterrupts
  PROVE  Spec => []NoSignalMissed
<1>1. Init => Inv /\ MissInv
  BY InitInv, MissInit
<1>2. Inv /\ MissInv /\ [Next]_vars => Inv' /\ MissInv'
  BY StepInv, MissNext
<1>3. MissInv => NoSignalMissed
  BY DEF MissInv, Hooked, NoSignalMissed, HasProxy
<1> QED BY <1>1, <1>2, <1>3, PTL DEF Spec
-----------------------------------------------------------------------------
(***************************************************************************)
(* The types, and the limit of a semaphore.                                *)
(***************************************************************************)
\* Where a releaser has units in hand.
Popping == {"p_pop", "p_run"}

\* The units of o that are on their way to waiters: remain of each releaser.
InFlight(o) ==
  {c \in Threads \X (1 .. MaxCount) :
     pc[c[1]] \in Popping /\ Obj(c[1]) = o /\ c[2] <= arg[c[1]].remain}

\* pending is what the releasers have in hand, together; with the count it
\* keeps to the limit.
CountOK(o, x) ==
  /\ x.count \in Nat
  /\ Kind[o] = "sem"  => x.pending = Cardinality(InFlight(o)) /\ x.count + x.pending <= MaxCount
  /\ Kind[o] # "sem" => x.count = 0 /\ x.pending = 0

\* An owner has not given its mutex back.
LockOK(x) == x.lockCount \in Nat /\ (x.owner # NoThread => x.lockCount > 0)

CountInv ==
  /\ \A o \in Objects : CountOK(o, obj[o]) /\ LockOK(obj[o])
  /\ \A t \in Threads : pc[t] \in Popping => arg[t].remain \in 0 .. MaxCount

\* What the bounds leave, and the calls that are made.
LimitInv ==
  /\ \A t \in Threads : arg[t].call \in Ops[t] \union {NoCall}
  /\ now \in 0 .. MaxTime /\ budget \in [Threads -> Nat] /\ intrs \in Nat

\* Who has units in hand goes on with them.
SameHands ==
  \A u \in Threads :
    /\ pc'[u] \in Popping <=> pc[u] \in Popping
    /\ pc[u] \in Popping => arg'[u].remain = arg[u].remain /\ arg'[u].call = arg[u].call

\* An object from which at most a permit is taken.
Modest(x, y) == y.pending = x.pending /\ y.count \in 0 .. x.count /\ LockOK(y)

\* The units of an object are finitely many.
LEMMA InFlightFinite ==
  ASSUME NEW o
  PROVE  IsFiniteSet(InFlight(o))
<1>1. IsFiniteSet(1 .. MaxCount)
  BY BudgetAssumption, FS_Interval
<1>2. IsFiniteSet(Threads \X (1 .. MaxCount))
  BY <1>1, ThreadsAssumption, FS_Product
<1> QED BY <1>2, FS_Subset DEF InFlight

\* Nobody takes units in hand or gives them away.
LEMMA ModestStep ==
  ASSUME CountInv, SameHands, \A o \in Objects : Modest(obj[o], obj'[o])
  PROVE  CountInv'
<1>1. ASSUME NEW o \in Objects
      PROVE  InFlight(o)' = InFlight(o)
  BY DEF SameHands, InFlight, Obj, Op
<1>2. ASSUME NEW o \in Objects
      PROVE  CountOK(o, obj[o])' /\ LockOK(obj'[o])
  <2>1. CountOK(o, obj[o]) /\ Modest(obj[o], obj'[o])
    BY DEF CountInv
  <2> DEFINE x == obj[o]
             y == obj'[o]
             n == Cardinality(InFlight(o))
  <2>2. x.count \in Nat /\ y.count \in 0 .. x.count /\ y.pending = x.pending
    BY <2>1 DEF CountOK, Modest
  <2>3. n \in Nat
    BY InFlightFinite, FS_CardinalityType
  <2>4. Cardinality(InFlight(o))' = n
    BY <1>1
  <2>5. CASE Kind[o] = "sem"
    <3>1. x.pending = n /\ x.count + x.pending <= MaxCount
      BY <2>1, <2>5 DEF CountOK
    <3> HIDE DEF x, y, n
    <3>2. y.count \in Nat /\ y.pending = n /\ y.count + y.pending <= MaxCount
      BY <2>2, <2>3, <3>1, BudgetAssumption
    <3> QED BY <2>1, <2>4, <2>5, <3>2 DEF CountOK, Modest, x, y
  <2>6. CASE Kind[o] # "sem"
    <3>1. x.pending = 0 /\ x.count = 0
      BY <2>1, <2>6 DEF CountOK
    <3> HIDE DEF x, y, n
    <3>2. y.count = 0 /\ y.pending = 0 /\ y.count \in Nat
      BY <2>2, <3>1
    <3> QED BY <2>1, <2>6, <3>2 DEF CountOK, Modest, x, y
  <2> QED BY <2>5, <2>6
<1>3. \A t \in Threads : pc'[t] \in Popping => arg'[t].remain \in 0 .. MaxCount
  BY DEF SameHands, CountInv
<1> QED BY <1>2, <1>3 DEF CountInv

\* t, with no units in hand, goes from p to q, and may note something of its call.
Moves(t, p, q) ==
  /\ pc[t] = p /\ pc' = [pc EXCEPT ![t] = q] /\ p \notin Popping /\ q \notin Popping
  /\ \/ arg' = arg
     \/ \E v : arg' = [arg EXCEPT ![t].tgt = v]
     \/ \E v : arg' = [arg EXCEPT ![t].crit = v]
     \/ \E v : arg' = [arg EXCEPT ![t].remain = v]

\* ... and has the same call.
SameCalls == \A u \in Threads : arg'[u].call = arg[u].call

\* What a step of a call leaves of the bounds.
LEMMA LimitStep ==
  ASSUME LimitInv, SameCalls, now' = now, budget' = budget, intrs' = intrs
  PROVE  LimitInv'
BY DEF LimitInv, SameCalls

\* Such a step leaves units and calls alone.
LEMMA MovesKeeps ==
  ASSUME Shape, NEW t \in Threads, NEW p, NEW q, Moves(t, p, q)
  PROVE  SameHands /\ SameCalls
<1>1. arg \in [Threads -> ArgType] /\ pc \in [Threads -> PCs]
  BY DEF Shape
<1>2. SameCalls /\ \A u \in Threads \ {t} : arg'[u] = arg[u]
  <2>1. CASE arg' = arg
    BY <2>1 DEF SameCalls
  <2>2. ASSUME NEW v, arg' = [arg EXCEPT ![t].tgt = v]
        PROVE  SameCalls /\ \A u \in Threads \ {t} : arg'[u] = arg[u]
    <3> DEFINE a == [arg[t] EXCEPT !.tgt = v]
    <3>1. a.call = arg[t].call
      BY <1>1 DEF ArgType
    <3>2. arg' = [arg EXCEPT ![t] = a]
      BY <2>2
    <3> HIDE DEF a
    <3> QED BY <1>1, <3>1, <3>2 DEF SameCalls
  <2>3. ASSUME NEW v, arg' = [arg EXCEPT ![t].crit = v]
        PROVE  SameCalls /\ \A u \in Threads \ {t} : arg'[u] = arg[u]
    <3> DEFINE a == [arg[t] EXCEPT !.crit = v]
    <3>1. a.call = arg[t].call
      BY <1>1 DEF ArgType
    <3>2. arg' = [arg EXCEPT ![t] = a]
      BY <2>3
    <3> HIDE DEF a
    <3> QED BY <1>1, <3>1, <3>2 DEF SameCalls
  <2>4. ASSUME NEW v, arg' = [arg EXCEPT ![t].remain = v]
        PROVE  SameCalls /\ \A u \in Threads \ {t} : arg'[u] = arg[u]
    <3> DEFINE a == [arg[t] EXCEPT !.remain = v]
    <3>1. a.call = arg[t].call
      BY <1>1 DEF ArgType
    <3>2. arg' = [arg EXCEPT ![t] = a]
      BY <2>4
    <3> HIDE DEF a
    <3> QED BY <1>1, <3>1, <3>2 DEF SameCalls
  <2> QED BY <2>1, <2>2, <2>3, <2>4 DEF Moves
<1>3. pc'[t] = q /\ \A u \in Threads \ {t} : pc'[u] = pc[u]
  BY <1>1 DEF Moves
<1> QED BY <1>2, <1>3 DEF SameHands, Moves

\* All objects stay, or one changes modestly.
Modestly == obj' = obj \/ \E o \in Objects : \E y : obj' = [obj EXCEPT ![o] = y] /\ Modest(obj[o], y)

\* ... then every object changes modestly, if at all.
LEMMA ModestIs ==
  ASSUME Shape, CountInv, Modestly
  PROVE  \A o \in Objects : Modest(obj[o], obj'[o])
<1>1. \A o \in Objects : Modest(obj[o], obj[o])
  BY DEF CountInv, CountOK, Modest
<1>2. CASE obj' = obj
  BY <1>1, <1>2
<1>3. ASSUME NEW o \in Objects, NEW y, obj' = [obj EXCEPT ![o] = y], Modest(obj[o], y)
      PROVE  \A m \in Objects : Modest(obj[m], obj'[m])
  BY <1>1, <1>3 DEF Shape
<1> QED BY <1>2, <1>3 DEF Modestly

\* An ordinary KCall.
LEMMA PlainCounts ==
  ASSUME Shape, CountInv, LimitInv, NEW t \in Threads, NEW p, NEW q, Moves(t, p, q), Modestly,
         now' = now, budget' = budget, intrs' = intrs
  PROVE  CountInv' /\ LimitInv'
<1>1. SameHands /\ SameCalls
  BY MovesKeeps
<1>2. \A o \in Objects : Modest(obj[o], obj'[o])
  BY ModestIs
<1> QED BY <1>1, <1>2, ModestStep, LimitStep

\* The fields outside the counts.
LEMMA ModestFields ==
  ASSUME NEW x \in ObjectShape, x.count \in Nat, LockOK(x)
  PROVE  /\ \A b : Modest(x, [x EXCEPT !.state = b])
         /\ \A b : Modest(x, [x EXCEPT !.bListed = b])
         /\ \A b, p : Modest(x, [x EXCEPT !.bListed = b, !.bListedPrio = p])
         /\ \A q : Modest(x, [x EXCEPT !.q = q])
         /\ \A q, p : Modest(x, [x EXCEPT !.q = q, !.maxPrio = p])
         /\ \A q, b : Modest(x, [x EXCEPT !.q = q, !.state = b])
         /\ \A b, q, p : Modest(x, [x EXCEPT !.state = b, !.q = q, !.maxPrio = p])
         /\ Modest(x, [x EXCEPT !.owner = NoThread])
         /\ \A w : \A n \in Nat : n > 0 => Modest(x, [x EXCEPT !.owner = w, !.lockCount = n])
         /\ \A n \in Nat : n > 0 => Modest(x, [x EXCEPT !.lockCount = n])
         /\ \A w, q : Modest(x, [x EXCEPT !.q = q, !.owner = w, !.lockCount = 1])
         /\ x.count > 0 => Modest(x, [x EXCEPT !.count = @ - 1])
<1>1. /\ x.count \in 0 .. x.count /\ x.lockCount \in Nat
      /\ x.count > 0 => x.count - 1 \in 0 .. x.count
  BY DEF LockOK
<1>2. /\ \A b : Modest(x, [x EXCEPT !.state = b])
      /\ \A b : Modest(x, [x EXCEPT !.bListed = b])
      /\ \A b, p : Modest(x, [x EXCEPT !.bListed = b, !.bListedPrio = p])
      /\ \A q : Modest(x, [x EXCEPT !.q = q])
  BY <1>1 DEF ObjectShape, Modest, LockOK
<1>3. /\ \A q, p : Modest(x, [x EXCEPT !.q = q, !.maxPrio = p])
      /\ \A q, b : Modest(x, [x EXCEPT !.q = q, !.state = b])
      /\ \A b, q, p : Modest(x, [x EXCEPT !.state = b, !.q = q, !.maxPrio = p])
  BY <1>1 DEF ObjectShape, Modest, LockOK
<1>4. /\ Modest(x, [x EXCEPT !.owner = NoThread])
      /\ \A w : \A n \in Nat : n > 0 => Modest(x, [x EXCEPT !.owner = w, !.lockCount = n])
  BY <1>1 DEF ObjectShape, Modest, LockOK
<1>5. /\ \A n \in Nat : n > 0 => Modest(x, [x EXCEPT !.lockCount = n])
      /\ \A w, q : Modest(x, [x EXCEPT !.q = q, !.owner = w, !.lockCount = 1])
      /\ x.count > 0 => Modest(x, [x EXCEPT !.count = @ - 1])
  BY <1>1 DEF ObjectShape, Modest, LockOK
<1> QED BY <1>2, <1>3, <1>4, <1>5

\* Linking a mutex again changes no count.
LEMMA LinkedModest ==
  ASSUME NEW x \in ObjectShape, NEW y, Modest(x, y), y \in ObjectShape
  PROVE  Modest(x, Linked(y)) /\ Modest(x, ReprioCritMut(y))
BY DEF Modest, Linked, ReprioCritMut, LockOK, ObjectShape

\* What the invariant says of one object.
LEMMA ObjectCounts ==
  ASSUME Shape, CountInv, NEW o \in Objects
  PROVE  obj[o] \in ObjectShape /\ obj[o].count \in Nat /\ LockOK(obj[o])
BY DEF Shape, CountInv, CountOK
-----------------------------------------------------------------------------
\* KCalls that leave the objects alone, first those of waits,
LEMMA WaitAsideCounts ==
  ASSUME Shape, CountInv, LimitInv, NEW t \in Threads,
         \/ WaitConfig(t) \/ WaitSignalled(t) \/ WaitBlocks(t) \/ WaitTimesOut(t)
         \/ WaitSleeps(t) \/ WaitWoken(t) \/ WaitReturns(t) \/ \E o \in Objects : WaitPolls(t, o)
  PROVE  CountInv' /\ LimitInv'
<1>1. obj' = obj /\ arg' = arg /\ now' = now /\ budget' = budget /\ intrs' = intrs
  BY DEF WaitConfig, WaitSignalled, WaitBlocks, WaitTimesOut, WaitSleeps, WaitWoken, WaitReturns,
         WaitPolls
<1>2. pc' = [pc EXCEPT ![t] = pc[t]] \/ \E q \in PCs \ Popping : pc' = [pc EXCEPT ![t] = q]
  <2>1. CASE \E o \in Objects : WaitPolls(t, o)
    BY <2>1 DEF WaitPolls, Finish, Goto, PCs, Popping, WaitPCs
  <2>2. CASE WaitSleeps(t)
    BY <2>2 DEF WaitSleeps, Goto, PCs, Popping, WaitPCs, Shape
  <2>3. CASE WaitWoken(t) \/ WaitReturns(t) \/ WaitBlocks(t)
    BY <2>3 DEF WaitWoken, WaitReturns, WaitBlocks, Goto, PCs, Popping, WaitPCs, OtherPCs
  <2>4. CASE WaitConfig(t) \/ WaitSignalled(t) \/ WaitTimesOut(t)
    BY <2>4 DEF WaitConfig, WaitSignalled, WaitTimesOut, Finish, Goto, PCs, Popping, WaitPCs
  <2> QED BY <2>1, <2>2, <2>3, <2>4
<1>3. pc[t] \notin Popping
  BY DEF WaitConfig, WaitSignalled, WaitBlocks, WaitTimesOut, WaitSleeps, WaitWoken, WaitReturns,
         WaitPolls, AllQueued, NextObject, At, Popping
<1>4. PICK q : q \notin Popping /\ pc' = [pc EXCEPT ![t] = q]
  BY <1>2, <1>3
<1> QED BY <1>1, <1>3, <1>4, PlainCounts DEF Moves, Modestly

\* ... then those of other calls.
LEMMA AsideCounts ==
  ASSUME Shape, CountInv, LimitInv, NEW t \in Threads,
         \/ SetNoPrioCalc(t) \/ BoostSelf(t) \/ WakeOneThreadFlat(t) \/ ClearNoPrioCalc(t)
         \/ AdjustPrioDown(t) \/ PostUnlinkCritMut(t)
         \/ Yield(t) \/ PutThreadToSleep(t) \/ SleepWoken(t)
         \/ SetThreadBasePrio(t) \/ SuspendSelf(t) \/ Suspend(t) \/ Resume(t) \/ Scavenge(t) \/ Retire(t)
  PROVE  CountInv' /\ LimitInv'
<1>1. obj' = obj /\ now' = now /\ budget' = budget /\ intrs' = intrs
  BY DEF SetNoPrioCalc, BoostSelf, WakeOneThreadFlat, ClearNoPrioCalc, AdjustPrioDown,
         PostUnlinkCritMut, Yield, PutThreadToSleep, SleepWoken, SetThreadBasePrio, SuspendSelf, Suspend, Resume, Scavenge, Retire
<1>2. pc[t] \notin Popping
  BY DEF SetNoPrioCalc, BoostSelf, WakeOneThreadFlat, ClearNoPrioCalc, AdjustPrioDown,
         PostUnlinkCritMut, Yield, PutThreadToSleep, SleepWoken, SetThreadBasePrio, SuspendSelf, Suspend, Resume, Scavenge, Retire,
         At, Popping
<1>3. \E q : q \notin Popping /\ Moves(t, pc[t], q)
  <2>1. CASE WakeOneThreadFlat(t)
    <3>1. CASE stub[t] = << >> \/ ~sched.live[Head(stub[t])]
      BY <1>2, <2>1, <3>1 DEF WakeOneThreadFlat, Goto, Moves, Popping, Shape
    <3>2. CASE stub[t] # << >> /\ sched.live[Head(stub[t])]
      BY <1>2, <2>1, <3>2 DEF WakeOneThreadFlat, Wake, Goto, Moves, Popping
    <3> QED BY <3>1, <3>2
  <2>2. CASE Retire(t)
    BY <1>2, <2>2 DEF Retire, Moves, Shape
  <2>3. CASE \/ SetNoPrioCalc(t) \/ BoostSelf(t) \/ ClearNoPrioCalc(t) \/ AdjustPrioDown(t)
             \/ PostUnlinkCritMut(t)
    BY <1>2, <2>3 DEF SetNoPrioCalc, BoostSelf, ClearNoPrioCalc, AdjustPrioDown, PostUnlinkCritMut, Goto,
                      Moves, Popping
  <2>4. CASE Yield(t) \/ PutThreadToSleep(t) \/ SleepWoken(t)
    BY <1>2, <2>4 DEF Yield, PutThreadToSleep, SleepWoken, Goto, Moves, Popping
  <2>5. CASE SetThreadBasePrio(t) \/ SuspendSelf(t) \/ Suspend(t)
    BY <1>2, <2>5 DEF SetThreadBasePrio, SuspendSelf, Suspend, Goto, Moves, Popping
  <2>6. CASE Resume(t) \/ Scavenge(t)
    BY <1>2, <2>6 DEF Resume, Scavenge, Goto, Moves, Popping
  <2> QED BY <2>1, <2>2, <2>3, <2>4, <2>5, <2>6
<1> QED BY <1>1, <1>3, PlainCounts DEF Modestly
-----------------------------------------------------------------------------
\* KCalls that change an object: of waits,
LEMMA WaitTakesCounts ==
  ASSUME Shape, CountInv, LimitInv, NEW t \in Threads, NEW o \in Objects, WaitTakes(t, o)
  PROVE  CountInv' /\ LimitInv'
<1> DEFINE newOwner == Kind[o] = "mutex" /\ obj[o].owner = NoThread
           q == IF newOwner THEN "w_link" ELSE "w_dequeue"
<1>1. obj[o] \in ObjectShape /\ obj[o].count \in Nat /\ LockOK(obj[o])
  BY ObjectCounts
<1>2. Modest(obj[o], Taken(o, t))
  <2>1. Available(o, t)
    BY DEF WaitTakes
  <2>2. CASE Kind[o] = "sem"
    BY <1>1, <2>1, <2>2, ModestFields DEF Available, Taken
  <2>3. CASE Kind[o] = "mutex" /\ obj[o].owner = t
    <3>1. obj[o].lockCount + 1 \in Nat /\ obj[o].lockCount + 1 > 0
      BY <1>1 DEF LockOK
    <3> QED BY <1>1, <2>3, <3>1, ModestFields DEF Taken
  <2>4. CASE Kind[o] = "mutex" /\ obj[o].owner # t
    <3>1. Taken(o, t) = [obj[o] EXCEPT !.owner = t, !.lockCount = 1]
      BY <2>4 DEF Taken
    <3> QED BY <1>1, <3>1 DEF Modest, LockOK, ObjectShape
  <2>5. CASE Kind[o] = "manual"
    BY <1>1, <2>5 DEF Taken, Modest
  <2>6. CASE Kind[o] \notin {"sem", "mutex", "manual"}
    BY <1>1, <2>6, ModestFields DEF Taken
  <2> QED BY <2>2, <2>3, <2>4, <2>5, <2>6
<1>3. Modestly
  BY <1>2 DEF Modestly, WaitTakes
<1>4. Moves(t, "w_one", q)
  BY DEF WaitTakes, NextObject, At, Finish, Goto, Moves, Popping
<1> QED BY <1>3, <1>4, PlainCounts DEF WaitTakes

\* ... a proxy is queued,
LEMMA WaitEnqueuesCounts ==
  ASSUME Shape, CountInv, LimitInv, NEW t \in Threads, NEW o \in Objects, WaitEnqueues(t, o)
  PROVE  CountInv' /\ LimitInv'
<1>1. obj[o] \in ObjectShape /\ obj[o].count \in Nat /\ LockOK(obj[o])
  BY ObjectCounts
<1>2. Modest(obj[o], Enqueued(o, t))
  <2>1. CASE Kind[o] \in {"auto", "sem", "mutex"}
    BY <1>1, <2>1, ModestFields DEF Enqueued
  <2>2. CASE Kind[o] = "manual"
    BY <1>1, <2>2, ModestFields DEF Enqueued
  <2>3. CASE Kind[o] \notin {"auto", "sem", "mutex", "manual"}
    BY <1>1, <2>3 DEF Enqueued, Modest
  <2> QED BY <2>1, <2>2, <2>3
<1>3. Modestly
  BY <1>2 DEF Modestly, WaitEnqueues
<1>4. \E q : Moves(t, "w_one", q)
  <2>1. pc[t] = "w_one" /\ pc = [pc EXCEPT ![t] = pc[t]]
    BY DEF WaitEnqueues, NextObject, At, Shape
  <2>2. \/ pc' = [pc EXCEPT ![t] = "w_boost"] /\ arg' = [arg EXCEPT ![t].crit = o]
        \/ pc' = pc /\ arg' = arg
    BY DEF WaitEnqueues, Goto
  <2> QED BY <2>1, <2>2 DEF Moves, Popping
<1> QED BY <1>3, <1>4, PlainCounts DEF WaitEnqueues

\* ... one is taken off,
LEMMA DequeueProxyCounts ==
  ASSUME Shape, CountInv, LimitInv, NEW t \in Threads, DequeueProxy(t)
  PROVE  CountInv' /\ LimitInv'
<1> DEFINE o == Head(th[t].queued)
<1>1. o \in Objects
  BY LenProperties DEF DequeueProxy, Shape, ThreadType
<1>2. obj[o] \in ObjectShape /\ obj[o].count \in Nat /\ LockOK(obj[o])
  BY <1>1, ObjectCounts
<1>3. Modestly
  <2> DEFINE y == [obj[o] EXCEPT !.q = Without(@, t)]
  <2>1. Modest(obj[o], y)
    BY <1>2, ModestFields
  <2>2. obj' = [obj EXCEPT ![o] = y]
    BY DEF DequeueProxy
  <2> HIDE DEF y, o
  <2> QED BY <1>1, <2>1, <2>2 DEF Modestly
<1>4. \E q : Moves(t, "w_dequeue", q)
  <2>1. pc[t] = "w_dequeue" /\ pc = [pc EXCEPT ![t] = pc[t]]
    BY DEF DequeueProxy, At, Shape
  <2>2. \/ pc' = [pc EXCEPT ![t] = "w_reprio"] /\ arg' = [arg EXCEPT ![t].crit = o]
        \/ pc' = pc /\ arg' = arg
    BY DEF DequeueProxy, Goto
  <2> HIDE DEF o
  <2> QED BY <2>1, <2>2 DEF Moves, Popping
<1> QED BY <1>3, <1>4, PlainCounts DEF DequeueProxy

\* ... or the owner's list is brought up to date.
LEMMA OwnersListCounts ==
  ASSUME Inv, CountInv, LimitInv, NEW t \in Threads,
         LaterLinkCritMut(t) \/ DoReprioMutex(t) \/ PostBoostMut(t)
  PROVE  CountInv' /\ LimitInv'
<1> DEFINE m == arg[t].crit
           p == pc[t]
<1>1. Shape /\ p \in {"w_link", "w_reprio", "w_boost"}
  BY DEF LaterLinkCritMut, DoReprioMutex, PostBoostMut, At, Inv
<1>2. m \in Objects
  <2>1. CallOK(p, arg[t])
    BY DEF Inv, ThreadOK
  <2> QED BY <1>1, <2>1 DEF CallOK, OfKind
<1>3. obj[m] \in ObjectShape /\ obj[m].count \in Nat /\ LockOK(obj[m]) /\ Modest(obj[m], obj[m])
  BY <1>1, <1>2, ObjectCounts DEF Modest
<1>4. Modest(obj[m], Linked(obj[m])) /\ Modest(obj[m], ReprioCritMut(obj[m]))
  BY <1>3, LinkedModest
<1>5. \/ obj' = obj
      \/ obj' = [obj EXCEPT ![m] = Linked(obj[m])]
      \/ obj' = [obj EXCEPT ![m] = ReprioCritMut(obj[m])]
  BY DEF LaterLinkCritMut, DoReprioMutex, PostBoostMut
<1>6. Modestly
  BY <1>2, <1>4, <1>5 DEF Modestly
<1>7. \E q : Moves(t, p, q)
  <2>1. CASE PostBoostMut(t)
    <3>1. pc' = [pc EXCEPT ![t] = "w_one"] /\ arg' = arg
      BY <2>1 DEF PostBoostMut, Goto
    <3>2. Moves(t, p, "w_one")
      BY <1>1, <3>1 DEF Moves, Popping
    <3> QED BY <3>2
  <2>2. CASE LaterLinkCritMut(t) \/ DoReprioMutex(t)
    BY <1>1, <2>2 DEF LaterLinkCritMut, DoReprioMutex, Goto, Moves, Popping
  <2> QED BY <2>1, <2>2
<1>8. now' = now /\ budget' = budget /\ intrs' = intrs
  BY DEF LaterLinkCritMut, DoReprioMutex, PostBoostMut
<1> QED BY <1>1, <1>6, <1>7, <1>8, PlainCounts

\* Who signals signals an object.
LEMMA SignalsObject ==
  ASSUME Inv, NEW t \in Threads, pc[t] \in SignalPCs \union MutexPCs \union SemPCs
  PROVE  /\ Obj(t) \in Objects /\ Shape /\ Op(t) \in CallType
         /\ pc[t] \in SemPCs => Kind[Obj(t)] = "sem" /\ Op(t).n \in Int
<1>1. CallOK(pc[t], arg[t]) /\ Shape
  BY DEF Inv, ThreadOK
<1>2. CallAt(pc[t], arg[t].call)
  BY <1>1 DEF CallOK, SignalPCs, MutexPCs, SemPCs
<1> QED BY <1>1, <1>2, CallFacts DEF CallAt, Obj, Op

\* A waiter is woken.
LEMMA WakeMoves ==
  ASSUME NEW t \in Threads, pc[t] \notin Popping, NEW w, NEW o, NEW wakes, NEW done,
         Wake(t, w, o, wakes, done), {wakes, done} \intersect Popping = {}
  PROVE  \E q : Moves(t, pc[t], q)
<1> DEFINE q == IF ToWake(w) = NoThread THEN done ELSE wakes
<1>1. pc' = [pc EXCEPT ![t] = q] /\ \E v : arg' = [arg EXCEPT ![t].tgt = v]
  BY DEF Wake, Goto
<1>2. q \notin Popping
  OBVIOUS
<1> HIDE DEF q
<1>3. Moves(t, pc[t], q)
  BY <1>1, <1>2 DEF Moves
<1> QED BY <1>3

\* Of calls that signal: events,
LEMMA EventCounts ==
  ASSUME Inv, CountInv, LimitInv, NEW t \in Threads,
         EventModAuto(t) \/ EventModIntr(t) \/ ResetEvent(t) \/ EventModMan(t)
  PROVE  CountInv' /\ LimitInv'
<1> DEFINE o == Obj(t)
           x == obj[o]
           p == pc[t]
<1>1. p \in {"s_auto", "s_intr", "s_reset", "m_mod"} /\ p \notin Popping
  BY DEF EventModAuto, EventModIntr, ResetEvent, EventModMan, At, Popping
<1>2. o \in Objects /\ Shape
  BY <1>1, SignalsObject DEF SignalPCs
<1>3. x \in ObjectShape /\ x.count \in Nat /\ LockOK(x)
  BY <1>2, ObjectCounts
<1>4. now' = now /\ budget' = budget /\ intrs' = intrs
  BY DEF EventModAuto, EventModIntr, ResetEvent, EventModMan
<1>5. \E y : obj' = [obj EXCEPT ![o] = y] /\ Modest(x, y)
  <2> DEFINE b  == Op(t).call = "set"
             q  == Tail(x.q)
             y1 == [x EXCEPT !.state = b]
             y2 == [x EXCEPT !.q = q]
             y3 == [x EXCEPT !.q = q, !.state = FALSE]
             y4 == [x EXCEPT !.state = FALSE]
             y5 == [x EXCEPT !.state = b, !.q = << >>, !.maxPrio = MAX_PRIORITY_LEVELS - 1]
  <2>1. \/ obj' = [obj EXCEPT ![o] = y1] \/ obj' = [obj EXCEPT ![o] = y2]
        \/ obj' = [obj EXCEPT ![o] = y3] \/ obj' = [obj EXCEPT ![o] = y4]
        \/ obj' = [obj EXCEPT ![o] = y5]
    <3>1. CASE EventModAuto(t)
      BY <3>1 DEF EventModAuto
    <3>2. CASE EventModIntr(t)
      BY <3>2 DEF EventModIntr
    <3>3. CASE ResetEvent(t) \/ EventModMan(t)
      BY <3>3 DEF ResetEvent, EventModMan
    <3> QED BY <3>1, <3>2, <3>3
  <2> HIDE DEF b, q
  <2>2. Modest(x, y1) /\ Modest(x, y2) /\ Modest(x, y3) /\ Modest(x, y4) /\ Modest(x, y5)
    BY <1>3, ModestFields
  <2> HIDE DEF o, x, y1, y2, y3, y4, y5
  <2> QED BY <2>1, <2>2
<1>6. Modestly
  BY <1>2, <1>5 DEF Modestly
<1>7. \E q : Moves(t, p, q)
  <2>1. pc = [pc EXCEPT ![t] = pc[t]]
    BY <1>2 DEF Shape
  <2>2. CASE EventModAuto(t)
    <3>1. CASE x.q = << >>
      BY <1>1, <2>2, <3>1 DEF EventModAuto, Goto, Moves, Popping
    <3>2. CASE x.q # << >> /\ ~sched.live[Head(x.q)]
      BY <1>1, <2>1, <2>2, <3>2 DEF EventModAuto, Moves
    <3>3. CASE x.q # << >> /\ sched.live[Head(x.q)]
      BY <1>1, <2>2, <3>3, WakeMoves DEF EventModAuto, Popping
    <3> QED BY <3>1, <3>2, <3>3
  <2>3. CASE EventModIntr(t)
    <3>1. CASE IntrWaiter(Obj(t)) = {}
      BY <1>1, <2>3, <3>1 DEF EventModIntr, Goto, Moves, Popping
    <3>2. CASE IntrWaiter(Obj(t)) # {}
      BY <1>1, <2>3, <3>2, WakeMoves DEF EventModIntr, Popping
    <3> QED BY <3>1, <3>2
  <2>4. CASE ResetEvent(t) \/ EventModMan(t)
    <3>1. CASE ResetEvent(t)
      <4>1. pc' = [pc EXCEPT ![t] = "k_return"] /\ arg' = arg
        BY <3>1 DEF ResetEvent, Goto
      <4>2. Moves(t, p, "k_return")
        BY <1>1, <4>1 DEF Moves, Popping
      <4> QED BY <4>2
    <3>2. CASE EventModMan(t)
      <4>1. pc' = [pc EXCEPT ![t] = "m_prio"]
        BY <3>2 DEF EventModMan, Goto
      <4>2. \E v : arg' = [arg EXCEPT ![t].remain = v]
        BY <3>2 DEF EventModMan
      <4>3. Moves(t, p, "m_prio")
        BY <1>1, <4>1, <4>2 DEF Moves, Popping
      <4> QED BY <4>3
    <3> QED BY <2>4, <3>1, <3>2
  <2> QED BY <2>2, <2>3, <2>4 DEF EventModMan
<1> QED BY <1>2, <1>4, <1>6, <1>7, PlainCounts

\* ... mutexes,
LEMMA MutexCounts ==
  ASSUME Inv, CountInv, LimitInv, NEW t \in Threads,
         ReleaseMutex(t) \/ PreUnlinkCritMut(t) \/ LeaveMutex(t)
  PROVE  CountInv' /\ LimitInv'
<1> DEFINE o == Obj(t)
           x == obj[o]
           p == pc[t]
<1>1. p \in {"r_test", "r_unlink", "r_leave"} /\ p \notin Popping
  BY DEF ReleaseMutex, PreUnlinkCritMut, LeaveMutex, At, Popping
<1>2. o \in Objects /\ Shape
  BY <1>1, SignalsObject DEF MutexPCs
<1>3. x \in ObjectShape /\ x.count \in Nat /\ LockOK(x)
  BY <1>2, ObjectCounts
<1>4. now' = now /\ budget' = budget /\ intrs' = intrs
  BY DEF ReleaseMutex, PreUnlinkCritMut, LeaveMutex
<1>5. obj' = obj \/ \E y : obj' = [obj EXCEPT ![o] = y] /\ Modest(x, y)
  <2>1. CASE ReleaseMutex(t)
    <3> DEFINE y == [x EXCEPT !.lockCount = @ - 1]
    <3>1. obj' = obj \/ (x.owner = t /\ x.lockCount # 1 /\ obj' = [obj EXCEPT ![o] = y])
      BY <2>1 DEF ReleaseMutex
    <3>2. x.owner = t /\ x.lockCount # 1 => Modest(x, y)
      <4>1. x.owner = t /\ x.lockCount # 1 => x.lockCount - 1 \in Nat /\ x.lockCount - 1 > 0
        BY <1>3, NoThreadAssumption DEF LockOK
      <4> QED BY <1>3, <4>1, ModestFields
    <3> HIDE DEF y, o, x
    <3> QED BY <3>1, <3>2
  <2>2. CASE PreUnlinkCritMut(t)
    <3> DEFINE y == [x EXCEPT !.bListed = FALSE]
    <3>1. obj' = [obj EXCEPT ![o] = y]
      BY <2>2 DEF PreUnlinkCritMut
    <3>2. Modest(x, y)
      BY <1>3, ModestFields
    <3> HIDE DEF y, o, x
    <3> QED BY <3>1, <3>2
  <2>3. CASE LeaveMutex(t)
    <3> DEFINE q  == Tail(x.q)
               w  == Head(x.q)
               y1 == [x EXCEPT !.owner = NoThread]
               y2 == [x EXCEPT !.q = q]
               y  == [x EXCEPT !.q = q, !.owner = w, !.lockCount = 1]
               y3 == Linked(y)
    <3>1. \/ obj' = [obj EXCEPT ![o] = y1] \/ obj' = [obj EXCEPT ![o] = y2]
          \/ x.q # << >> /\ obj' = [obj EXCEPT ![o] = y3]
      BY <2>3 DEF LeaveMutex
    <3>2. x.q # << >> => y \in ObjectShape
      <4>1. x.q # << >> => q \in Seq(Threads) /\ w \in Threads
        BY <1>3 DEF ObjectShape
      <4> HIDE DEF q, w, x
      <4>2. \A r \in Seq(Threads), v \in Threads \union {NoThread}, n \in Int :
              Changed(x, [x EXCEPT !.q = r, !.owner = v, !.lockCount = n], r, v)
        BY <1>3, ObjectChanges
      <4>3. x.q # << >> => w \in Threads \union {NoThread} /\ 1 \in Int
        BY <4>1
      <4>4. x.q # << >> => Changed(x, y, q, w)
        BY <4>1, <4>2, <4>3, Zenon
      <4> QED BY <4>4 DEF Changed
    <3>3. Modest(x, y1) /\ Modest(x, y2) /\ Modest(x, y)
      BY <1>3, ModestFields
    <3>4. x.q # << >> => Modest(x, y3)
      <4> HIDE DEF y, x
      <4> QED BY <1>3, <3>2, <3>3, LinkedModest
    <3> HIDE DEF y, y1, y2, y3, o, x
    <3> QED BY <3>1, <3>3, <3>4
  <2> QED BY <2>1, <2>2, <2>3
<1>6. Modestly
  BY <1>2, <1>5 DEF Modestly
<1>7. \E q : Moves(t, p, q)
  <2>1. pc = [pc EXCEPT ![t] = pc[t]]
    BY <1>2 DEF Shape
  <2>2. CASE ReleaseMutex(t)
    BY <1>1, <2>2 DEF ReleaseMutex, Goto, Moves, Popping
  <2>3. CASE PreUnlinkCritMut(t)
    <3>1. Moves(t, p, "r_leave")
      BY <1>1, <2>3 DEF PreUnlinkCritMut, Goto, Moves, Popping
    <3> QED BY <3>1
  <2>4. CASE LeaveMutex(t)
    <3>1. CASE x.q = << >>
      BY <1>1, <2>4, <3>1 DEF LeaveMutex, Goto, Moves, Popping
    <3>2. CASE x.q # << >> /\ ~sched.live[Head(x.q)]
      BY <1>1, <2>1, <2>4, <3>2 DEF LeaveMutex, Moves
    <3>3. CASE x.q # << >> /\ sched.live[Head(x.q)]
      BY <1>1, <2>4, <3>3, WakeMoves DEF LeaveMutex, Popping
    <3> QED BY <3>1, <3>2, <3>3
  <2> QED BY <2>2, <2>3, <2>4
<1> QED BY <1>2, <1>4, <1>6, <1>7, PlainCounts

\* ... and MakeRunIfNeeded, between two units.
LEMMA MakeRunCounts ==
  ASSUME Inv, CountInv, LimitInv, NEW t \in Threads, MakeRunNeeded(t)
  PROVE  CountInv' /\ LimitInv'
<1>1. Shape /\ pc[t] \in DOMAIN AfterRun
  BY DEF Inv, MakeRunNeeded
<1>2. /\ obj' = obj /\ now' = now /\ budget' = budget /\ intrs' = intrs
      /\ arg' = [arg EXCEPT ![t].tgt = NoThread] /\ pc' = [pc EXCEPT ![t] = AfterRun[pc[t]]]
  BY DEF MakeRunNeeded, Goto
<1>3. AfterRun[pc[t]] \in Popping <=> pc[t] \in Popping
  BY <1>1, RunPCs DEF Popping
<1>4. \A u \in Threads : arg'[u].call = arg[u].call /\ arg'[u].remain = arg[u].remain
  BY <1>1, <1>2, TargetSet
<1>5. SameHands /\ SameCalls
  BY <1>1, <1>2, <1>3, <1>4 DEF SameHands, SameCalls, Shape
<1>6. \A o \in Objects : Modest(obj[o], obj'[o])
  BY <1>1, <1>2, ModestIs DEF Modestly
<1> QED BY <1>2, <1>5, <1>6, ModestStep, LimitStep

\* Calls begin and return,
LEMMA BeginCallCounts ==
  ASSUME UntimedInterrupts, Inv, CountInv, LimitInv, NEW t \in Threads, NEW op \in Ops[t],
         BeginCall(t, op)
  PROVE  CountInv' /\ LimitInv'
<1> DEFINE old == th[t].bprio
           a   == [arg[t] EXCEPT !.call = op, !.oldPrio = old]
           e   == Entry(op)
<1>1. Shape /\ pc[t] = "user" /\ budget[t] > 0
  BY DEF Inv, BeginCall, At
<1>2. /\ arg' = [arg EXCEPT ![t] = a] /\ pc' = [pc EXCEPT ![t] = e] /\ obj' = obj
      /\ now' = now /\ intrs' = intrs /\ budget' = [budget EXCEPT ![t] = @ - 1]
  BY DEF BeginCall, Goto
<1>3. a.call = op
  BY <1>1 DEF Shape, ArgType
<1>4. e \notin Popping
  <2>1. op \in CallType
    BY OpsAssumption
  <2> QED BY <2>1, CallFacts DEF Entry, Popping
<1> HIDE DEF a, e
<1>5. /\ arg'[t] = a /\ pc'[t] = e
      /\ \A u \in Threads \ {t} : pc'[u] = pc[u] /\ arg'[u] = arg[u]
  BY <1>1, <1>2 DEF Shape
<1>6. CountInv'
  <2>1. SameHands
    BY <1>1, <1>4, <1>5 DEF SameHands, Popping
  <2>2. \A o \in Objects : Modest(obj[o], obj'[o])
    BY <1>1, <1>2, ModestIs DEF Modestly
  <2> QED BY <2>1, <2>2, ModestStep
<1>7. LimitInv'
  <2>1. budget' \in [Threads -> Nat]
    BY <1>1, <1>2 DEF LimitInv
  <2>2. \A u \in Threads : arg'[u].call \in Ops[u] \union {NoCall}
    BY <1>3, <1>5 DEF LimitInv
  <2> QED BY <1>2, <2>1, <2>2 DEF LimitInv
<1> QED BY <1>6, <1>7

\* ... with no units in hand,
LEMMA ReturnCounts ==
  ASSUME Inv, CountInv, LimitInv, NEW t \in Threads, ReturnToUser(t)
  PROVE  CountInv' /\ LimitInv'
<1>1. Shape /\ pc[t] = "k_return"
  BY DEF Inv, ReturnToUser, At
<1>2. /\ arg' = [arg EXCEPT ![t] = NoArg] /\ pc' = [pc EXCEPT ![t] = "user"] /\ obj' = obj
      /\ now' = now /\ intrs' = intrs /\ budget' = budget
  BY DEF ReturnToUser, Goto
<1>3. /\ arg'[t] = NoArg /\ pc'[t] = "user"
      /\ \A u \in Threads \ {t} : pc'[u] = pc[u] /\ arg'[u] = arg[u]
  BY <1>1, <1>2 DEF Shape
<1>4. CountInv'
  <2>1. SameHands
    BY <1>1, <1>3 DEF SameHands, Popping
  <2>2. \A o \in Objects : Modest(obj[o], obj'[o])
    BY <1>1, <1>2, ModestIs DEF Modestly
  <2> QED BY <2>1, <2>2, ModestStep
<1>5. LimitInv'
  BY <1>2, <1>3 DEF LimitInv, NoArg
<1> QED BY <1>4, <1>5

\* ... and the clock, an interrupt and the dispatcher leave units alone.
LEMMA SystemCounts ==
  ASSUME Inv, CountInv, LimitInv, Tick \/ KCNextThread \/ UNCHANGED vars \/ \E o \in Objects : Interrupt(o)
  PROVE  CountInv' /\ LimitInv'
<1>1. Shape
  BY DEF Inv
<1>2. arg' = arg /\ pc' = pc
  BY DEF Tick, KCNextThread, vars, Interrupt
<1>3. SameHands
  BY <1>2 DEF SameHands
<1>4. Modestly
  <2>1. CASE \E o \in Objects : Interrupt(o)
    <3>1. PICK o \in Objects : Interrupt(o)
      BY <2>1
    <3>2. obj[o] \in ObjectShape /\ obj[o].count \in Nat /\ LockOK(obj[o])
      BY <1>1, ObjectCounts
    <3> DEFINE y == [obj[o] EXCEPT !.state = TRUE]
    <3>3. Modest(obj[o], y)
      BY <3>2, ModestFields
    <3>4. obj' = obj \/ obj' = [obj EXCEPT ![o] = y]
      BY <3>1 DEF Interrupt
    <3> HIDE DEF y
    <3> QED BY <3>3, <3>4 DEF Modestly
  <2> QED BY <2>1 DEF Modestly, Tick, KCNextThread, vars
<1>5. CountInv'
  BY <1>1, <1>3, <1>4, ModestIs, ModestStep
<1>6. LimitInv'
  <2>1. budget' = budget
    BY DEF Tick, KCNextThread, vars, Interrupt
  <2>2. now' \in 0 .. MaxTime
    <3>1. now' = now \/ (now < MaxTime /\ now' = now + 1)
      BY DEF Tick, KCNextThread, vars, Interrupt
    <3>2. now \in 0 .. MaxTime /\ MaxTime \in Nat
      BY BudgetAssumption DEF LimitInv
    <3> QED BY <3>1, <3>2
  <2>3. intrs' \in Nat
    <3>1. intrs' = intrs \/ (intrs > 0 /\ intrs' = intrs - 1)
      BY DEF Tick, KCNextThread, vars, Interrupt
    <3>2. intrs \in Nat
      BY DEF LimitInv
    <3> QED BY <3>1, <3>2
  <2> QED BY <1>2, <2>1, <2>2, <2>3 DEF LimitInv
<1> QED BY <1>5, <1>6
-----------------------------------------------------------------------------
\* The units m + 1 to n of t.
LEMMA PartSize ==
  ASSUME NEW t, NEW m \in Nat, NEW n \in Nat, m <= n
  PROVE  LET S == {t} \X ((m + 1) .. n) IN IsFiniteSet(S) /\ Cardinality(S) = n - m
<1>1. IsFiniteSet((m + 1) .. n) /\ Cardinality((m + 1) .. n) = n - m
  <2>1. m + 1 \in Int /\ n \in Int
    OBVIOUS
  <2>2. /\ IsFiniteSet((m + 1) .. n)
        /\ Cardinality((m + 1) .. n) = IF m + 1 > n THEN 0 ELSE n - (m + 1) + 1
    BY <2>1, FS_Interval
  <2> QED BY <2>2
<1>2. IsFiniteSet({t}) /\ Cardinality({t}) = 1
  BY FS_Singleton
<1>3. /\ IsFiniteSet({t} \X ((m + 1) .. n))
      /\ Cardinality({t} \X ((m + 1) .. n)) = Cardinality({t}) * Cardinality((m + 1) .. n)
  BY <1>1, <1>2, FS_Product
<1> QED BY <1>1, <1>2, <1>3

\* A releaser takes n units in hand.
LEMMA UnitsTaken ==
  ASSUME Shape, NEW t \in Threads, NEW p \in Objects, NEW n \in 0 .. MaxCount,
         pc[t] \notin Popping, pc'[t] \in Popping, Obj(t)' = p, arg'[t].remain = n,
         \A u \in Threads \ {t} : pc'[u] = pc[u] /\ arg'[u] = arg[u]
  PROVE  /\ \A o \in Objects \ {p} : InFlight(o)' = InFlight(o)
         /\ Cardinality(InFlight(p))' = Cardinality(InFlight(p)) + n
<1> DEFINE H == {t} \X ((0 + 1) .. n)
<1>1. \A u \in Threads \ {t} : Obj(u)' = Obj(u)
  BY DEF Obj, Op
<1>2. \A o \in Objects \ {p} : InFlight(o)' = InFlight(o)
  BY <1>1 DEF InFlight
<1>3. InFlight(p)' = InFlight(p) \union H /\ InFlight(p) \intersect H = {}
  BY <1>1, BudgetAssumption DEF InFlight
<1>4. IsFiniteSet(H) /\ Cardinality(H) = n
  <2>1. 0 \in Nat /\ n \in Nat /\ 0 <= n /\ n - 0 = n
    BY BudgetAssumption
  <2> QED BY <2>1, PartSize
<1> HIDE DEF H
<1>5. Cardinality(InFlight(p) \union H) = Cardinality(InFlight(p)) + n - Cardinality({})
  BY <1>3, <1>4, InFlightFinite, FS_Union
<1>6. Cardinality({}) = 0 /\ Cardinality(InFlight(p)) \in Nat
  BY InFlightFinite, FS_CardinalityType, FS_EmptySet
<1> QED BY <1>2, <1>3, <1>5, <1>6

\* A releaser has m units left in hand.
LEMMA UnitsLeft ==
  ASSUME Shape, NEW t \in Threads, NEW p \in Objects, NEW n \in 0 .. MaxCount, NEW m \in 0 .. n,
         pc[t] \in Popping, Obj(t) = p, arg[t].remain = n,
         \/ pc'[t] \notin Popping /\ m = 0
         \/ pc'[t] \in Popping /\ Obj(t)' = p /\ arg'[t].remain = m,
         \A u \in Threads \ {t} : pc'[u] = pc[u] /\ arg'[u] = arg[u]
  PROVE  /\ \A o \in Objects \ {p} : InFlight(o)' = InFlight(o)
         /\ Cardinality(InFlight(p))' = Cardinality(InFlight(p)) - (n - m)
         /\ n <= Cardinality(InFlight(p))
<1> DEFINE H == {t} \X ((m + 1) .. n)
           S == InFlight(p)
<1>1. \A u \in Threads \ {t} : Obj(u)' = Obj(u)
  BY DEF Obj, Op
<1>2. \A o \in Objects \ {p} : InFlight(o)' = InFlight(o)
  BY <1>1 DEF InFlight
<1>3. InFlight(p)' = S \ H /\ S \intersect H = H
  BY <1>1, BudgetAssumption DEF InFlight
<1>4. IsFiniteSet(H) /\ Cardinality(H) = n - m
  <2>1. m \in Nat /\ n \in Nat /\ m <= n
    BY BudgetAssumption
  <2> QED BY <2>1, PartSize
<1>5. n <= Cardinality(S)
  <2> DEFINE A == {t} \X ((0 + 1) .. n)
  <2>1. A \in SUBSET S
    BY BudgetAssumption DEF InFlight
  <2>2. Cardinality(A) = n
    <3>1. 0 \in Nat /\ n \in Nat /\ 0 <= n /\ n - 0 = n
      BY BudgetAssumption
    <3> QED BY <3>1, PartSize
  <2> HIDE DEF A, S
  <2>3. IsFiniteSet(S)
    BY InFlightFinite DEF S
  <2>4. Cardinality(A) <= Cardinality(S)
    BY <2>1, <2>3, FS_Subset
  <2> QED BY <2>2, <2>4
<1> HIDE DEF H, S
<1>6. IsFiniteSet(S)
  BY InFlightFinite DEF S
<1>7. Cardinality(S \ H) = Cardinality(S) - Cardinality(S \intersect H)
  BY <1>6, FS_Difference
<1> QED BY <1>2, <1>3, <1>4, <1>5, <1>7 DEF S

\* The counts of p, a semaphore, change, and those of no other object.
LEMMA UnitsStep ==
  ASSUME Shape, CountInv, NEW p \in Objects, Kind[p] = "sem", NEW y, LockOK(y),
         obj' = [obj EXCEPT ![p] = y], \A o \in Objects \ {p} : InFlight(o)' = InFlight(o),
         y.count \in Nat, y.pending = Cardinality(InFlight(p))', y.count + y.pending <= MaxCount,
         \A t \in Threads : pc'[t] \in Popping => arg'[t].remain \in 0 .. MaxCount
  PROVE  CountInv'
<1>1. obj'[p] = y /\ \A o \in Objects \ {p} : obj'[o] = obj[o]
  BY DEF Shape
<1>2. CountOK(p, obj[p])' /\ LockOK(obj'[p])
  BY <1>1 DEF CountOK
<1>3. ASSUME NEW o \in Objects \ {p}
      PROVE  CountOK(o, obj[o])' /\ LockOK(obj'[o])
  BY <1>1 DEF CountOK, CountInv
<1> QED BY <1>2, <1>3 DEF CountInv

\* The amounts in hand of the others stay.
LEMMA OtherHands ==
  ASSUME CountInv, NEW t \in Threads, \A u \in Threads \ {t} : pc'[u] = pc[u] /\ arg'[u] = arg[u],
         pc'[t] \in Popping => arg'[t].remain \in 0 .. MaxCount
  PROVE  \A u \in Threads : pc'[u] \in Popping => arg'[u].remain \in 0 .. MaxCount
BY DEF CountInv

\* SC_ReleaseSemaphore: the units are counted as pending,
LEMMA SemAddCounts ==
  ASSUME Inv, CountInv, LimitInv, NEW t \in Threads, SemAdd(t)
  PROVE  CountInv' /\ LimitInv'
<1>1. pc[t] = "p_add" /\ now' = now /\ budget' = budget /\ intrs' = intrs
  BY DEF SemAdd, At
<1> PICK p \in Objects : p = Obj(t)
  BY <1>1, SignalsObject DEF SemPCs
<1> DEFINE n == Op(t).n
           x == obj[p]
           a == [arg[t] EXCEPT !.remain = n]
           m == x.pending + n
           y == [x EXCEPT !.pending = m]
<1>2. p \in Objects /\ Kind[p] = "sem" /\ n \in Int /\ Shape
  BY <1>1, SignalsObject DEF SemPCs
<1>3. x \in ObjectShape /\ x.count \in Nat /\ LockOK(x)
  BY <1>2, ObjectCounts
<1>4. CASE n <= 0 \/ x.count + x.pending + n > MaxCount
  <2>1. obj' = obj /\ arg' = arg /\ pc' = [pc EXCEPT ![t] = "k_return"]
    BY <1>4 DEF SemAdd, Goto
  <2>2. Moves(t, "p_add", "k_return")
    BY <1>1, <2>1 DEF Moves, Popping
  <2> QED BY <1>1, <1>2, <2>1, <2>2, PlainCounts DEF Modestly
<1>5. CASE ~(n <= 0 \/ x.count + x.pending + n > MaxCount)
  <2>1. /\ obj' = [obj EXCEPT ![p] = y] /\ arg' = [arg EXCEPT ![t] = a]
        /\ pc' = [pc EXCEPT ![t] = "p_pop"]
    BY <1>5 DEF SemAdd, Goto
  <2>2. x.pending = Cardinality(InFlight(p))
    BY <1>2 DEF CountInv, CountOK
  <2>3. Cardinality(InFlight(p)) \in Nat
    BY InFlightFinite, FS_CardinalityType
  <2>4. n \in 0 .. MaxCount /\ x.count + m <= MaxCount
    BY <1>2, <1>3, <1>5, <2>2, <2>3, BudgetAssumption
  <2>5. y.count = x.count /\ y.pending = m /\ LockOK(y)
    BY <1>3 DEF ObjectShape, LockOK
  <2>6. a.call = arg[t].call /\ a.remain = n
    BY <1>2 DEF Shape, ArgType
  <2> HIDE DEF a, n
  <2>7. /\ arg'[t] = a /\ pc'[t] = "p_pop"
        /\ \A u \in Threads \ {t} : pc'[u] = pc[u] /\ arg'[u] = arg[u]
    BY <1>2, <2>1 DEF Shape
  <2>8. Obj(t)' = p
    BY <2>6, <2>7 DEF Obj, Op
  <2> HIDE DEF x, y, m
  <2>9. /\ \A o \in Objects \ {p} : InFlight(o)' = InFlight(o)
        /\ Cardinality(InFlight(p))' = Cardinality(InFlight(p)) + n
    <3>1. pc[t] \notin Popping /\ pc'[t] \in Popping /\ arg'[t].remain = n
      BY <1>1, <2>6, <2>7 DEF Popping
    <3>2. p \in Objects /\ Shape
      BY <1>2
    <3> QED BY <2>4, <2>7, <2>8, <3>1, <3>2, UnitsTaken
  <2>10. \A u \in Threads : pc'[u] \in Popping => arg'[u].remain \in 0 .. MaxCount
    BY <2>4, <2>6, <2>7, OtherHands
  <2>11. y.pending = Cardinality(InFlight(p))'
    BY <2>2, <2>5, <2>9 DEF m
  <2>12. CountInv'
    <3>1. y.count \in Nat /\ y.count + y.pending <= MaxCount
      BY <1>3, <2>4, <2>5
    <3>2. obj' = [obj EXCEPT ![p] = y] /\ LockOK(y) /\ p \in Objects /\ Kind[p] = "sem" /\ Shape
      BY <1>2, <2>1, <2>5
    <3> QED BY <2>9, <2>10, <2>11, <3>1, <3>2, UnitsStep
  <2>13. SameCalls
    BY <2>6, <2>7 DEF SameCalls
  <2> QED BY <1>1, <2>12, <2>13, LimitStep
<1> QED BY <1>4, <1>5

\* ... and go to waiters one at a time, or to the count.
LEMMA SemPopCounts ==
  ASSUME Inv, CountInv, LimitInv, NEW t \in Threads, SemPop(t)
  PROVE  CountInv' /\ LimitInv'
<1>1. pc[t] = "p_pop" /\ now' = now /\ budget' = budget /\ intrs' = intrs
  BY DEF SemPop, At
<1> PICK p \in Objects : p = Obj(t)
  BY <1>1, SignalsObject DEF SemPCs
<1> PICK n \in 0 .. MaxCount : n = arg[t].remain
  BY <1>1 DEF CountInv, Popping
<1> DEFINE x == obj[p]
           w == Head(x.q)
<1>2. Kind[p] = "sem" /\ Shape /\ pc[t] \in Popping
  BY <1>1, SignalsObject DEF SemPCs, Popping
<1>3. x \in ObjectShape /\ x.count \in Nat /\ LockOK(x)
  BY <1>2, ObjectCounts
<1>4. x.pending = Cardinality(InFlight(p)) /\ x.count + x.pending <= MaxCount
  BY <1>2 DEF CountInv, CountOK
<1>5. Cardinality(InFlight(p)) \in Nat /\ MaxCount \in Nat
  BY InFlightFinite, FS_CardinalityType, BudgetAssumption
<1>6. CASE n = 0 \/ x.q = << >>
  <2> DEFINE y == [x EXCEPT !.count = @ + n, !.pending = @ - n]
  <2>1. obj' = [obj EXCEPT ![p] = y] /\ arg' = arg /\ pc' = [pc EXCEPT ![t] = "k_return"]
    BY <1>6 DEF SemPop, Goto
  <2>2. y.count = x.count + n /\ y.pending = x.pending - n /\ LockOK(y)
    BY <1>3 DEF ObjectShape, LockOK
  <2>3. pc'[t] = "k_return" /\ \A u \in Threads \ {t} : pc'[u] = pc[u] /\ arg'[u] = arg[u]
    BY <1>2, <2>1 DEF Shape
  <2> HIDE DEF x, y
  <2>4. /\ \A o \in Objects \ {p} : InFlight(o)' = InFlight(o)
        /\ Cardinality(InFlight(p))' = Cardinality(InFlight(p)) - (n - 0)
        /\ n <= Cardinality(InFlight(p))
    <3>1. pc'[t] \notin Popping /\ 0 \in 0 .. n
      BY <1>5, <2>3 DEF Popping
    <3> QED BY <1>2, <2>3, <3>1, UnitsLeft
  <2>5. /\ y.count \in Nat /\ y.count + y.pending <= MaxCount
        /\ y.pending = Cardinality(InFlight(p))'
    BY <1>3, <1>4, <1>5, <2>2, <2>4
  <2>6. \A u \in Threads : pc'[u] \in Popping => arg'[u].remain \in 0 .. MaxCount
    BY <2>3, OtherHands DEF Popping
  <2>7. CountInv'
    BY <1>2, <2>1, <2>2, <2>4, <2>5, <2>6, UnitsStep
  <2> QED BY <1>1, <2>1, <2>7, LimitStep DEF SameCalls
<1>7. CASE n # 0 /\ x.q # << >> /\ ~sched.live[w]
  <2> DEFINE q == Tail(x.q)
             y == [x EXCEPT !.q = q]
  <2>1. obj' = [obj EXCEPT ![p] = y] /\ arg' = arg /\ pc' = pc
    BY <1>7 DEF SemPop
  <2>2. Modest(x, y)
    BY <1>3, ModestFields
  <2> HIDE DEF y
  <2>3. Modestly
    BY <2>1, <2>2 DEF Modestly
  <2> QED BY <1>1, <1>2, <2>1, <2>3, ModestIs, ModestStep, LimitStep DEF SameHands, SameCalls
<1>8. CASE n # 0 /\ x.q # << >> /\ sched.live[w]
  <2> DEFINE q == Tail(x.q)
             v == ToWake(w)
             e == IF v = NoThread THEN "p_pop" ELSE "p_run"
             m == n - 1
             y == [x EXCEPT !.q = q, !.pending = @ - 1]
             a == [arg[t] EXCEPT !.tgt = v, !.remain = m]
  <2>1. obj' = [obj EXCEPT ![p] = y] /\ arg' = [arg EXCEPT ![t] = a] /\ pc' = [pc EXCEPT ![t] = e]
    BY <1>8 DEF SemPop, Goto
  <2>2. y.count = x.count /\ y.pending = x.pending - 1 /\ LockOK(y)
    BY <1>3 DEF ObjectShape, LockOK
  <2>3. a.call = arg[t].call /\ a.remain = m
    BY <1>2 DEF Shape, ArgType
  <2>4. e \in Popping
    BY DEF Popping
  <2> HIDE DEF x, y, a, e, v
  <2>5. /\ arg'[t] = a /\ pc'[t] = e
        /\ \A u \in Threads \ {t} : pc'[u] = pc[u] /\ arg'[u] = arg[u]
    BY <1>2, <2>1 DEF Shape
  <2>6. Obj(t)' = p
    BY <2>3, <2>5 DEF Obj, Op
  <2>7. m \in 0 .. n /\ n - m = 1 /\ m \in 0 .. MaxCount
    BY <1>5, <1>8
  <2>8. /\ \A o \in Objects \ {p} : InFlight(o)' = InFlight(o)
        /\ Cardinality(InFlight(p))' = Cardinality(InFlight(p)) - (n - m)
        /\ n <= Cardinality(InFlight(p))
    <3>1. pc'[t] \in Popping /\ arg'[t].remain = m
      BY <2>3, <2>4, <2>5
    <3> HIDE DEF m
    <3> QED BY <1>2, <2>5, <2>6, <2>7, <3>1, UnitsLeft
  <2>9. /\ y.count \in Nat /\ y.count + y.pending <= MaxCount
        /\ y.pending = Cardinality(InFlight(p))'
    BY <1>3, <1>4, <1>5, <2>2, <2>7, <2>8
  <2>10. \A u \in Threads : pc'[u] \in Popping => arg'[u].remain \in 0 .. MaxCount
    BY <2>3, <2>5, <2>7, OtherHands
  <2>11. CountInv'
    BY <1>2, <2>1, <2>2, <2>8, <2>9, <2>10, UnitsStep
  <2> QED BY <1>1, <2>3, <2>5, <2>11, LimitStep DEF SameCalls
<1> QED BY <1>6, <1>7, <1>8
-----------------------------------------------------------------------------
\* At first no units are anywhere.
LEMMA CountInit ==
  ASSUME Init
  PROVE  CountInv /\ LimitInv
<1>1. /\ \A t \in Threads : pc[t] = "user" /\ arg[t] = NoArg
      /\ \A o \in Objects : obj[o].count = 0 /\ obj[o].pending = 0 /\ obj[o].owner = NoThread
                            /\ obj[o].lockCount = 0
  BY DEF Init
<1>2. \A o \in Objects : InFlight(o) = {}
  BY <1>1 DEF InFlight, Popping
<1>3. Cardinality({}) = 0 /\ 0 \in Nat /\ 0 + 0 <= MaxCount /\ 0 \in 0 .. MaxTime
  BY FS_EmptySet, BudgetAssumption
<1>4. CountInv
  BY <1>1, <1>2, <1>3 DEF CountInv, CountOK, LockOK, Popping
<1>5. LimitInv
  BY <1>1, <1>3, BudgetAssumption DEF LimitInv, Init, NoArg
<1> QED BY <1>4, <1>5

\* Every step keeps the counts and the limits.
LEMMA CountNext ==
  ASSUME UntimedInterrupts, Inv, CountInv, LimitInv, [Next]_vars
  PROVE  CountInv' /\ LimitInv'
<1>1. Shape
  BY DEF Inv
<1>2. ASSUME NEW t \in Threads, Wait(t)
      PROVE  CountInv' /\ LimitInv'
  BY <1>1, <1>2, WaitAsideCounts, WaitTakesCounts, WaitEnqueuesCounts, DequeueProxyCounts,
     OwnersListCounts DEF Wait
<1>3. ASSUME NEW t \in Threads, Signal(t)
      PROVE  CountInv' /\ LimitInv'
  BY <1>1, <1>3, AsideCounts, EventCounts, MutexCounts, MakeRunCounts, SemAddCounts, SemPopCounts
     DEF Signal
<1>4. ASSUME NEW t \in Threads, Control(t) \/ Retire(t)
      PROVE  CountInv' /\ LimitInv'
  BY <1>1, <1>4, AsideCounts DEF Control
<1>5. ASSUME NEW t \in Threads, KernelStep(t) \/ ClientStep(t)
      PROVE  CountInv' /\ LimitInv'
  BY <1>2, <1>3, <1>4, <1>5, ReturnCounts, BeginCallCounts DEF KernelStep, ClientStep
<1>6. CASE Tick \/ KCNextThread \/ Idle \/ UNCHANGED vars \/ \E o \in Objects : Interrupt(o)
  BY <1>6, SystemCounts DEF Idle
<1> QED BY <1>5, <1>6 DEF Next

\* The invariants give the types.
LEMMA TypesHold ==
  ASSUME Inv, CountInv, LimitInv
  PROVE  TypeOK
<1>1. Shape /\ sched \in SleepType
  BY OKFields DEF Inv
<1>2. SchedTypeOK
  BY <1>1 DEF SleepType, SchedTypeOK, Priorities, Times, Ring, Place
<1>3. obj \in [Objects -> ObjectType]
  <2>1. ASSUME NEW o \in Objects
        PROVE  obj[o] \in ObjectType
    <3>1. /\ obj[o] \in ObjectShape /\ obj[o].count \in Nat /\ obj[o].lockCount \in Nat
          /\ MaxCount \in Nat
      BY <1>1, ObjectCounts, BudgetAssumption DEF LockOK
    <3>2. obj[o].count \in 0 .. MaxCount /\ obj[o].pending \in 0 .. MaxCount
      <4>1. CASE Kind[o] = "sem"
        <5>1. obj[o].pending \in Nat
          BY <4>1, InFlightFinite, FS_CardinalityType DEF CountInv, CountOK
        <5> QED BY <3>1, <4>1, <5>1 DEF CountInv, CountOK
      <4>2. CASE Kind[o] # "sem"
        BY <3>1, <4>2 DEF CountInv, CountOK
      <4> QED BY <4>1, <4>2
    <3> QED BY <3>1, <3>2 DEF ObjectShape, ObjectType
  <2> QED BY <1>1, <2>1 DEF Shape
<1> QED BY <1>1, <1>2, <1>3 DEF TypeOK, Shape, LimitInv

\* The types hold, and with them the limit of a semaphore: several releasers that
\* are preempted between SemAdd and SemPop never together bring count and pending
\* above lMaxCount, and what is pending is what they have in hand.
THEOREM TypesCorrect ==
  ASSUME UntimedInterrupts
  PROVE  Spec => []TypeOK
<1>1. Init => Inv /\ CountInv /\ LimitInv
  BY InitInv, CountInit
<1>2. Inv /\ CountInv /\ LimitInv /\ [Next]_vars => Inv' /\ CountInv' /\ LimitInv'
  BY StepInv, CountNext
<1>3. Inv /\ CountInv /\ LimitInv => TypeOK
  BY TypesHold
<1> QED BY <1>1, <1>2, <1>3, PTL DEF Spec
=============================================================================
