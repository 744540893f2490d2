---------------------------- MODULE WaitObj_proofs ----------------------------
(***************************************************************************)
(* Waits never corrupt the scheduler's lists, leave nobody blocked for ever*)
(* and never end before their time: ListsConsistent, EveryoneReachable and *)
(* NoEarlyTimeout of WaitObj hold in every state, for any threads, objects *)
(* and calls, if interrupt events are waited for without a time-out.  (With*)
(* one a boost breaks the lists: InterruptFindsBlocked.)                   *)
(*                                                                         *)
(* The inductive invariant says what the fields of one thread have to do   *)
(* with each other (ThreadOK): where the thread is, whether its proxies are*)
(* live, what bWaitState says and in which bed it lies.  It is an operator *)
(* on the scheduler record, so that the lemmas of SleepQ_proofs apply.     *)
(***************************************************************************)
EXTENDS SleepQ_proofs

\* Interrupt events are waited for until they come, or polled.
Untimed(op) == op.call = "wait" /\ Kind[Head(op.objs)] = "intr" => op.time \in {0, INFINITE}
UntimedInterrupts == \A t \in Threads : \A op \in Ops[t] : Untimed(op)

InWait == {"w_one", "w_boost", "w_woken"}

ArgType == [call : CallType \union {NoCall}, tgt : Threads \union {NoThread}, remain : Int,
            oldPrio : Priority, crit : Objects \union {NoObject}]

ObjectShape == [state : BOOLEAN, maxPrio : Priority, count : Int, pending : Int,
                owner : Threads \union {NoThread}, lockCount : Int, bListed : BOOLEAN,
                bListedPrio : Priority, q : Seq(Threads)]

\* The types, as far as the invariant needs them.
Shape ==
  /\ obj \in [Objects -> ObjectShape] /\ stub \in [Threads -> Seq(Threads)]
  /\ th \in [Threads -> ThreadType] /\ pc \in [Threads -> PCs] /\ arg \in [Threads -> ArgType]
  /\ now \in Nat

\* The call a thread is in goes with where it is.
CallAt(p, op) ==
  /\ op \in CallType /\ Untimed(op)
  /\ p \in WaitPCs => op.call = "wait"
  /\ p \in SignalPCs => op.call \in {"set", "pulse", "reset"}
  /\ p \in SignalPCs \ {"s_auto", "s_intr", "s_reset", "s_run"} => Kind[op.obj] = "manual"
  /\ p \in MutexPCs => op.call = "releaseMutex"
  /\ p \in SemPCs => op.call = "releaseSemaphore"
  /\ p \in {"z_put", "z_woken"} => op.call = "sleep"
  /\ p \in {"yield", "suspendSelf"} => op.call = "sleep" /\ op.time \in {0, INFINITE}
  /\ p = "basePrio" => op.call = "basePrio"
  /\ p \in {"suspend", "resume", "c_suspend", "c_resume"} => op.call \in {"suspend", "resume", "scavenge"}

CallOK(p, a) ==
  /\ p # "user" => CallAt(p, a.call)
  /\ p \in {"w_link", "w_boost", "w_reprio"} => a.crit \in OfKind({"mutex"})
  /\ a.tgt # NoThread <=> p \in DOMAIN AfterRun
  /\ p \in {"m_prio", "m_boost", "m_wake", "m_run", "m_clear", "m_adjust"} => a.remain \in Priority

\* Where a thread that does not run is.
StandsOK(s, t, p) ==
  /\ Queued(s, t) \/ Hangs(s, t) => p \in {"w_woken", "z_woken"}
  /\ s.rs[t] = "NEEDSRUN" => p = "w_woken" /\ t \notin s.needsleep
  /\ s.rs[t] = "BLOCKED" => p \in {"w_woken", "z_woken", "k_return", "user"}
  /\ t \in s.needsleep => s.rs[t] \in {"RUNNABLE", "RUNNING"} \/ s.susp[t] > 0
  /\ s.rs[t] = "BLOCKED" /\ s.susp[t] = 0 => s.live[t] \/ Queued(s, t) \/ Hangs(s, t)

\* A wait that is open, and how bWaitState tells what it does.
OpenOK(s, t, p) ==
  s.live[t] =>
    /\ p \in InWait /\ s.wait[t] # "SIGNALLED"
    /\ s.wait[t] = "BLOCKED" => s.rs[t] = "BLOCKED" /\ p = "w_woken" /\ t \notin s.needsleep
    /\ p = "w_woken" /\ s.rs[t] # "BLOCKED" => t \in s.needsleep
    /\ s.wait[t] = "PROCESSING" /\ s.rs[t] = "BLOCKED" => s.susp[t] > 0 /\ t \in s.needsleep

\* A wait that is over but has not noticed.
OverOK(s, t, p, h) ==
  p \in InWait /\ ~s.live[t] =>
    /\ s.wait[t] # "PROCESSING"
    /\ p = "w_woken" /\ s.rs[t] = "BLOCKED" => s.susp[t] > 0
    /\ p = "w_woken" /\ t \in s.needsleep => s.wait[t] = "SIGNALLED"
    /\ s.wait[t] = "SIGNALLED" => h.pendReturn # TimeOut

\* The proxies of a wait.
ProxiesOK(s, t, p, h, op) ==
  /\ p \in {"w_one", "w_boost"} => s.wait[t] # "BLOCKED"
  /\ p \in {"w_woken", "w_boost"} => h.queued # << >>
  /\ p = "w_one" => h.queued # << >> \/ h.pend # << >>
  /\ p = "w_config" => h.pend = op.objs
  /\ p \in InWait \union {"w_config"} => h.pendTime = PendTime(op.time)
  /\ p \in InWait => (s.lpce[t] <=> Kind[Head(op.objs)] # "intr")

\* When a wait or a sleep ends.
TimedOut(h, n) == h.pendTime # INFINITE /\ (h.pendTime = 0 \/ n >= h.pendWakeup)

Ends(h, p, op, n) ==
  /\ p \in {"w_link", "w_dequeue", "w_reprio"} /\ h.ret = TimeOut => TimedOut(h, n)
  /\ p = "k_return" /\ op.call = "wait" /\ h.ret = TimeOut => TimedOut(h, n)
  /\ p = "k_return" /\ op.call = "sleep" /\ op.time > 0 => n >= h.pendWakeup

TimesOK(s, t, p, h, op, n) ==
  /\ Queued(s, t) \/ Hangs(s, t) =>
       /\ s.wakeup[t] = h.pendWakeup
       /\ p = "w_woken" => h.pendTime \notin {0, INFINITE} /\ s.lpce[t]
  /\ p = "z_woken" => Queued(s, t) \/ Hangs(s, t) \/ t \in s.needsleep \/ n >= h.pendWakeup
  /\ p = "w_woken" /\ ~s.live[t] /\ t \notin s.needsleep /\ h.ret = TimeOut => TimedOut(h, n)
  /\ Ends(h, p, op, n)

ThreadOK(s, t, h, p, a, n) ==
  /\ CallOK(p, a) /\ StandsOK(s, t, p) /\ OpenOK(s, t, p) /\ OverOK(s, t, p, h)
  /\ ProxiesOK(s, t, p, h, a.call) /\ TimesOK(s, t, p, h, a.call, n)

\* A thread that is marked has somebody who is about to make it run.
Wakers == \A t \in Threads : sched.rs[t] = "NEEDSRUN" => \E u \in Threads : arg[u].tgt = t

\* A mutex that is waited for has an owner, and who is about to boost the owner
\* is waiting.
Owners == \A o \in Objects : Kind[o] = "mutex" /\ obj[o].q # << >> => obj[o].owner # NoThread
Boosters ==
  \A t \in Threads : pc[t] = "w_boost" /\ sched.live[t] => t \in ToSet(obj[arg[t].crit].q)

Inv ==
  /\ Shape /\ SleepOK(sched) /\ DueOK(sched, now)
  /\ \A t \in Threads : /\ CrabOK(sched, t, th[t].pendWakeup)
                        /\ ThreadOK(sched, t, th[t], pc[t], arg[t], now)
  /\ Wakers /\ Owners /\ Boosters

(***************************************************************************)
(* Calls.                                                                  *)
(***************************************************************************)
LEMMA CallFacts ==
  ASSUME NEW op \in CallType
  PROVE  /\ op.call = "wait" => /\ op.objs \in Seq(Objects) /\ op.objs # << >>
                                /\ op.time \in {INFINITE} \union Nat
         /\ op.call \in {"set", "pulse", "reset"} =>
              op.obj \in Objects /\ Kind[op.obj] \in {"auto", "manual", "intr"}
         /\ op.call = "releaseMutex" => op.obj \in Objects /\ Kind[op.obj] = "mutex"
         /\ op.call = "releaseSemaphore" => op.obj \in Objects /\ Kind[op.obj] = "sem" /\ op.n \in Int
         /\ op.call = "sleep" => op.time \in {INFINITE} \union Nat
         /\ op.call = "basePrio" => op.thread \in Threads /\ op.prio \in Priority
         /\ op.call \in {"suspend", "resume", "scavenge"} => op.thread \in Threads
         /\ op.call \in {"wait", "set", "pulse", "reset", "releaseMutex", "releaseSemaphore", "sleep",
                         "basePrio", "suspend", "resume", "scavenge"}
<1>1. CASE op \in [call : {"wait"}, objs : Several, time : {INFINITE} \union Nat]
  <2>1. op.call = "wait" /\ op.objs \in Several /\ op.time \in {INFINITE} \union Nat
    BY <1>1
  <2>2. op.objs # << >>
    BY <2>1 DEF Several
  <2>3. op.objs \in Seq(Objects)
    <3>1. op.objs \in Seq(OfKind({"auto", "manual", "sem", "mutex"}))
      BY <2>1 DEF Several
    <3> DEFINE K == OfKind({"auto", "manual", "sem", "mutex"})
    <3>2. K \subseteq Objects
      BY DEF OfKind
    <3> HIDE DEF K
    <3>3. op.objs \in Seq(K)
      BY <3>1 DEF K
    <3> QED BY <3>2, <3>3
  <2> QED BY <2>1, <2>2, <2>3
<1>2. CASE op \in [call : {"wait"}, objs : {<<o>> : o \in OfKind({"intr"})},
                   time : {INFINITE} \union Nat]
  <2>1. op.call = "wait" /\ op.objs \in {<<o>> : o \in OfKind({"intr"})}
        /\ op.time \in {INFINITE} \union Nat
    BY <1>2
  <2>2. PICK o \in Objects : op.objs = <<o>>
    BY <2>1 DEF OfKind
  <2>3. op.objs \in Seq(Objects) /\ op.objs # << >>
    BY <2>2
  <2> QED BY <2>1, <2>3
<1>3. CASE op \in [call : {"set", "pulse", "reset"}, obj : OfKind({"auto", "manual", "intr"})]
  BY <1>3 DEF OfKind
<1>4. CASE op \in [call : {"releaseMutex"}, obj : OfKind({"mutex"})]
  BY <1>4 DEF OfKind
<1>5. CASE op \in [call : {"releaseSemaphore"}, obj : OfKind({"sem"}), n : Int]
  BY <1>5 DEF OfKind
<1>6. CASE op \in [call : {"sleep"}, time : {INFINITE} \union Nat]
  BY <1>6
<1>7. CASE op \in [call : {"basePrio"}, thread : Threads, prio : Priority]
  BY <1>7
<1>8. CASE op \in [call : {"suspend", "resume", "scavenge"}, thread : Threads]
  BY <1>8
<1> QED BY <1>1, <1>2, <1>3, <1>4, <1>5, <1>6, <1>7, <1>8 DEF CallType

\* A wait for an interrupt event alone has no time-out.
LEMMA PendTimes ==
  ASSUME NEW op \in CallType, op.call \in {"wait", "sleep"}
  PROVE  /\ PendTime(op.time) \in {INFINITE} \union Nat
         /\ op.time \in {0, INFINITE} => PendTime(op.time) \in {0, INFINITE}
BY CallFacts DEF PendTime, INFINITE

(***************************************************************************)
(* What a step does to the thread it is about, or to any other.            *)
(***************************************************************************)
\* A thread that a step passes by stays in order.
LEMMA OthersStayOK ==
  ASSUME NEW s, NEW r, SleepOK(s), NEW u \in Threads, NEW h, NEW p, NEW a, NEW n \in Nat,
         NEW m \in Nat, n <= m, h.pendWakeup \in Int, Passes(s, r, u, m), ThreadOK(s, u, h, p, a, n)
  PROVE  ThreadOK(r, u, h, p, a, m)
<1>1. /\ CallOK(p, a) /\ StandsOK(s, u, p) /\ OpenOK(s, u, p) /\ OverOK(s, u, p, h)
      /\ ProxiesOK(s, u, p, h, a.call) /\ TimesOK(s, u, p, h, a.call, n)
  BY DEF ThreadOK
<1>2. /\ StateOK(s, u) /\ s.wakeup[u] \in Nat /\ s.rs[u] \in RunState
  BY OKFields DEF Times
<1>3. TimedOut(h, n) => TimedOut(h, m)
  BY DEF TimedOut
<1>4. Ends(h, p, a.call, m)
  BY <1>1, <1>3 DEF Ends, TimesOK
<1>5. CASE SameThread(s, r, u)
  <2>1. StandsOK(r, u, p)
    BY <1>1, <1>2, <1>5 DEF StandsOK, SameThread
  <2>2. OpenOK(r, u, p)
    BY <1>1, <1>2, <1>5 DEF OpenOK, SameThread
  <2>3. OverOK(r, u, p, h)
    BY <1>1, <1>2, <1>5 DEF OverOK, SameThread
  <2>4. ProxiesOK(r, u, p, h, a.call)
    BY <1>1, <1>5 DEF ProxiesOK, SameThread
  <2>5. TimesOK(r, u, p, h, a.call, m)
    BY <1>1, <1>3, <1>4, <1>5 DEF TimesOK, SameThread
  <2> QED BY <1>1, <2>1, <2>2, <2>3, <2>4, <2>5 DEF ThreadOK
<1>6. CASE Expires(s, r, u, m)
  <2>1. /\ p \in {"w_woken", "z_woken"} /\ s.wakeup[u] = h.pendWakeup /\ h.pendWakeup <= m
        /\ s.rs[u] \in {"BLOCKED", "NEEDSRUN"} /\ s.susp[u] = 0 /\ u \notin s.needsleep
        /\ p = "w_woken" => h.pendTime \notin {0, INFINITE}
    BY <1>1, <1>2, <1>6 DEF Expires, StandsOK, TimesOK, StateOK
  <2>2. StandsOK(r, u, p)
    BY <1>1, <1>6, <2>1 DEF StandsOK, Expires
  <2>3. OpenOK(r, u, p)
    BY <1>6 DEF OpenOK, Expires
  <2>4. OverOK(r, u, p, h)
    <3>1. CASE s.live[u]
      <4>1. s.wait[u] # "SIGNALLED" /\ p = "w_woken"
        BY <1>1, <2>1, <3>1 DEF OpenOK, InWait
      <4>2. s.rs[u] = "BLOCKED"
        BY <1>1, <2>1, <3>1, <4>1 DEF OpenOK
      <4>3. s.wait[u] # "PROCESSING"
        BY <1>1, <2>1, <3>1, <4>1, <4>2 DEF OpenOK
      <4>4. r.wait[u] = s.wait[u] /\ (u \in r.needsleep <=> u \in s.needsleep) /\ r.rs[u] = "RUNNABLE"
        BY <1>6, <4>2 DEF Expires
      <4> QED BY <2>1, <4>1, <4>3, <4>4 DEF OverOK
    <3>2. CASE ~s.live[u]
      BY <1>1, <1>6, <2>1, <3>2 DEF OverOK, Expires
    <3> QED BY <3>1, <3>2
  <2>5. ProxiesOK(r, u, p, h, a.call)
    BY <1>1, <1>6 DEF ProxiesOK, Expires
  <2>6. TimesOK(r, u, p, h, a.call, m)
    <3>1. p = "w_woken" => TimedOut(h, m)
      BY <2>1 DEF TimedOut
    <3> QED BY <1>4, <1>6, <2>1, <3>1 DEF TimesOK, Expires
  <2> QED BY <1>1, <2>2, <2>3, <2>4, <2>5, <2>6 DEF ThreadOK
<1>7. CASE Slips(s, r, u, m)
  <2>2. StandsOK(r, u, p)
    BY <1>1, <1>7 DEF StandsOK, Slips
  <2>3. OpenOK(r, u, p)
    BY <1>1, <1>7 DEF OpenOK, Slips
  <2>4. OverOK(r, u, p, h)
    BY <1>1, <1>7 DEF OverOK, Slips
  <2>5. ProxiesOK(r, u, p, h, a.call)
    BY <1>1, <1>7 DEF ProxiesOK, Slips
  <2>6. TimesOK(r, u, p, h, a.call, m)
    BY <1>1, <1>3, <1>4, <1>7 DEF TimesOK, Slips
  <2> QED BY <1>1, <2>2, <2>3, <2>4, <2>5, <2>6 DEF ThreadOK
<1> QED BY <1>5, <1>6, <1>7 DEF Passes

\* A running or runnable thread that is in no wait.
LEMMA UpOK ==
  ASSUME NEW s, NEW t, NEW h, NEW p, NEW a, NEW n, s.rs[t] \in {"RUNNING", "RUNNABLE"},
         ~Queued(s, t), ~Hangs(s, t), ~s.live[t], CallOK(p, a), Ends(h, p, a.call, n),
         p \notin InWait \union {"w_config", "z_woken"}
  PROVE  ThreadOK(s, t, h, p, a, n)
<1>1. StandsOK(s, t, p) /\ OpenOK(s, t, p)
  BY DEF StandsOK, OpenOK
<1>2. OverOK(s, t, p, h) /\ ProxiesOK(s, t, p, h, a.call) /\ TimesOK(s, t, p, h, a.call, n)
  BY DEF OverOK, ProxiesOK, TimesOK, InWait
<1> QED BY <1>1, <1>2 DEF ThreadOK

\* Only what a wait is about counts.
SameWait(h, k) ==
  /\ k.pend = h.pend /\ k.queued = h.queued /\ k.ret = h.ret /\ k.pendReturn = h.pendReturn
  /\ k.pendTime = h.pendTime /\ k.pendWakeup = h.pendWakeup

\* A thread stays OK when the fields that change say nothing about its wait.
LEMMA SameWaitOK ==
  ASSUME NEW s, NEW t, NEW h, NEW k, NEW p, NEW a, NEW n, ThreadOK(s, t, h, p, a, n), SameWait(h, k)
  PROVE  ThreadOK(s, t, k, p, a, n)
<1>1. TimedOut(h, n) <=> TimedOut(k, n)
  BY DEF SameWait, TimedOut
<1>2. Ends(h, p, a.call, n) => Ends(k, p, a.call, n)
  BY <1>1 DEF SameWait, Ends
<1>3. OverOK(s, t, p, k) /\ ProxiesOK(s, t, p, k, a.call)
  BY DEF ThreadOK, OverOK, ProxiesOK, SameWait
<1>4. TimesOK(s, t, p, k, a.call, n)
  BY <1>1, <1>2 DEF ThreadOK, TimesOK, SameWait
<1> QED BY <1>3, <1>4 DEF ThreadOK

\* A sleeper that waits has open proxies.
LEMMA SleeperIsOpen ==
  ASSUME NEW s, SleepOK(s), NEW t \in Threads, NEW h, NEW p, NEW a, NEW n, ThreadOK(s, t, h, p, a, n),
         Queued(s, t) \/ Hangs(s, t), s.rs[t] = "BLOCKED"
  PROVE  /\ p \in {"w_woken", "z_woken"} /\ s.susp[t] = 0 /\ t \notin s.needsleep
         /\ p = "w_woken" => s.live[t] /\ s.lpce[t]
         /\ p = "z_woken" => ~s.live[t]
<1>1. s.susp[t] = 0 /\ t \notin s.needsleep
  BY OKFields DEF StateOK
<1>2. p \in {"w_woken", "z_woken"} /\ (p = "w_woken" => s.lpce[t])
  BY DEF ThreadOK, StandsOK, TimesOK
<1>3. p = "w_woken" => s.live[t]
  BY <1>1 DEF ThreadOK, OverOK, InWait
<1>4. p = "z_woken" => ~s.live[t]
  BY DEF ThreadOK, OpenOK, InWait
<1> QED BY <1>1, <1>2, <1>3, <1>4

\* A sleeper that is boosted goes on waiting.
LEMMA RequeuedOK ==
  ASSUME NEW s, SleepOK(s), NEW r, NEW t \in Threads, NEW h, NEW p, NEW a, NEW n,
         ThreadOK(s, t, h, p, a, n), Requeued(s, r, t), r.rs[t] = "RUNNABLE", r.susp[t] = 0
  PROVE  ThreadOK(r, t, h, p, a, n)
<1>1. /\ p \in {"w_woken", "z_woken"} /\ (p = "w_woken" => s.live[t] /\ s.lpce[t])
      /\ p = "z_woken" => ~s.live[t]
  BY SleeperIsOpen DEF Requeued
<1>2. /\ CallOK(p, a) /\ OpenOK(s, t, p) /\ OverOK(s, t, p, h)
      /\ ProxiesOK(s, t, p, h, a.call) /\ TimesOK(s, t, p, h, a.call, n)
  BY DEF ThreadOK
<1>3. /\ ~Queued(r, t) /\ ~Hangs(r, t) /\ t \in r.needsleep /\ r.lpce[t] = s.lpce[t]
      /\ r.live[t] = s.live[t] /\ r.wait[t] = IF s.lpce[t] THEN "PROCESSING" ELSE s.wait[t]
  BY DEF Requeued
<1>4. StandsOK(r, t, p) /\ OpenOK(r, t, p)
  BY <1>1, <1>2, <1>3 DEF StandsOK, OpenOK, InWait
<1>5. OverOK(r, t, p, h) /\ ProxiesOK(r, t, p, h, a.call)
  BY <1>1, <1>2, <1>3 DEF OverOK, ProxiesOK, InWait
<1>6. TimesOK(r, t, p, h, a.call, n)
  BY <1>2, <1>3 DEF TimesOK
<1> QED BY <1>2, <1>4, <1>5, <1>6 DEF ThreadOK

\* Object o ends the wait of w: its result is in ret if w has blocked, otherwise
\* in pendReturn.
Gets(h, k, blocked, o) ==
  /\ k.pend = h.pend /\ k.queued = h.queued
  /\ k.pendTime = h.pendTime /\ k.pendWakeup = h.pendWakeup
  /\ IF blocked THEN k.ret = o /\ k.pendReturn = h.pendReturn
     ELSE k.pendReturn = o /\ k.ret = h.ret

\* The waiter that a signal marks stays OK.
LEMMA MarkedOK ==
  ASSUME NEW s, SleepOK(s), NEW r, NEW t \in Threads, NEW h, NEW k, NEW p, NEW a, NEW n,
         ThreadOK(s, t, h, p, a, n), Marked(s, r, t), s.live[t], NEW o \in Objects,
         Gets(h, k, s.wait[t] = "BLOCKED", o)
  PROVE  ThreadOK(r, t, k, p, a, n)
<1>1. /\ CallOK(p, a) /\ StandsOK(s, t, p) /\ OpenOK(s, t, p) /\ OverOK(s, t, p, h)
      /\ ProxiesOK(s, t, p, h, a.call) /\ TimesOK(s, t, p, h, a.call, n)
  BY DEF ThreadOK
<1>2. /\ p \in InWait /\ s.wait[t] # "SIGNALLED" /\ s.wait[t] \in WaitState
      /\ s.wait[t] = "BLOCKED" => s.rs[t] = "BLOCKED" /\ p = "w_woken" /\ t \notin s.needsleep
  BY <1>1, OKFields DEF OpenOK
<1>3. /\ (Queued(r, t) <=> Queued(s, t)) /\ (Hangs(r, t) <=> Hangs(s, t))
      /\ r.susp[t] = s.susp[t] /\ r.lpce[t] = s.lpce[t] /\ r.wakeup[t] = s.wakeup[t]
      /\ (t \in r.needsleep <=> t \in s.needsleep) /\ ~r.live[t]
      /\ IF s.wait[t] = "BLOCKED" THEN r.rs[t] = "NEEDSRUN" /\ r.wait[t] = "BLOCKED"
         ELSE r.rs[t] = s.rs[t] /\ r.wait[t] = "SIGNALLED"
  BY DEF Marked
<1>4. o # TimeOut
  BY TimeOutAssumption
<1>5. OpenOK(r, t, p)
  BY <1>3 DEF OpenOK
<1>6. /\ p = "w_woken" /\ s.rs[t] = "BLOCKED" /\ s.wait[t] # "BLOCKED" => s.susp[t] > 0
      /\ p = "w_woken" /\ s.wait[t] # "BLOCKED" => t \in s.needsleep
  BY <1>1, <1>2 DEF OpenOK, WaitState
<1>7. Ends(k, p, a.call, n)
  BY <1>2 DEF Ends, InWait
<1>8. CASE s.wait[t] = "BLOCKED"
  <2>1. StandsOK(r, t, p)
    BY <1>1, <1>2, <1>3, <1>8 DEF StandsOK
  <2>2. OverOK(r, t, p, k)
    BY <1>2, <1>3, <1>8 DEF OverOK
  <2>3. ProxiesOK(r, t, p, k, a.call)
    BY <1>1, <1>2, <1>3, <1>8 DEF ProxiesOK, Gets, InWait
  <2>4. TimesOK(r, t, p, k, a.call, n)
    BY <1>1, <1>2, <1>3, <1>4, <1>7, <1>8 DEF TimesOK, Gets
  <2> QED BY <1>1, <1>5, <2>1, <2>2, <2>3, <2>4 DEF ThreadOK
<1>9. CASE s.wait[t] # "BLOCKED"
  <2>0. s.rs[t] = "BLOCKED" => s.susp[t] > 0
    <3>1. s.rs[t] = "BLOCKED" => p = "w_woken"
      BY <1>1, <1>2 DEF StandsOK, InWait
    <3> QED BY <1>6, <1>9, <3>1
  <2>1. StandsOK(r, t, p)
    BY <1>1, <1>2, <1>3, <1>9, <2>0 DEF StandsOK
  <2>2. OverOK(r, t, p, k)
    BY <1>2, <1>3, <1>4, <1>6, <1>9 DEF OverOK, Gets
  <2>3. ProxiesOK(r, t, p, k, a.call)
    BY <1>1, <1>2, <1>3, <1>9 DEF ProxiesOK, Gets, InWait
  <2>4. TimesOK(r, t, p, k, a.call, n)
    BY <1>1, <1>2, <1>3, <1>4, <1>6, <1>7, <1>9 DEF TimesOK, Gets, InWait
  <2> QED BY <1>1, <1>5, <2>1, <2>2, <2>3, <2>4 DEF ThreadOK
<1> QED BY <1>8, <1>9

\* A thread whose wait is over gets up.
LEMMA WokenOK ==
  ASSUME NEW s, SleepOK(s), NEW r, NEW t \in Threads, NEW h, NEW p, NEW a, NEW n,
         ThreadOK(s, t, h, p, a, n), Woken(s, r, t), s.rs[t] = "NEEDSRUN"
  PROVE  ThreadOK(r, t, h, p, a, n)
<1>1. /\ CallOK(p, a) /\ StandsOK(s, t, p) /\ OpenOK(s, t, p) /\ OverOK(s, t, p, h)
      /\ ProxiesOK(s, t, p, h, a.call) /\ TimesOK(s, t, p, h, a.call, n)
  BY DEF ThreadOK
<1>2. p = "w_woken" /\ t \notin s.needsleep /\ ~s.live[t] /\ s.susp[t] \in Nat
  BY <1>1, OKFields DEF StandsOK, OpenOK
<1>3. /\ ~Queued(r, t) /\ ~Hangs(r, t) /\ r.wait[t] = s.wait[t] /\ r.lpce[t] = s.lpce[t]
      /\ r.susp[t] = s.susp[t] /\ ~r.live[t] /\ t \notin r.needsleep
      /\ r.rs[t] = IF s.susp[t] = 0 THEN "RUNNABLE" ELSE "BLOCKED"
  BY <1>2 DEF Woken
<1>4. StandsOK(r, t, p) /\ OpenOK(r, t, p)
  BY <1>2, <1>3 DEF StandsOK, OpenOK
<1>5. OverOK(r, t, p, h) /\ ProxiesOK(r, t, p, h, a.call)
  BY <1>1, <1>2, <1>3 DEF OverOK, ProxiesOK, InWait
<1>6. TimesOK(r, t, p, h, a.call, n)
  BY <1>1, <1>2, <1>3 DEF TimesOK
<1> QED BY <1>1, <1>4, <1>5, <1>6 DEF ThreadOK

\* ... at once, when an interrupt ends its wait.
LEMMA IntrOK ==
  ASSUME NEW s, SleepOK(s), NEW t \in Threads, NEW e, EndedWait(s, e, t), NEW r, NEW h, NEW k,
         NEW p, NEW a, NEW n, ThreadOK(s, t, h, p, a, n), Woken(e, r, t), s.live[t],
         s.wait[t] = "BLOCKED", NEW o \in Objects, Gets(h, k, TRUE, o)
  PROVE  ThreadOK(r, t, k, p, a, n)
<1>1. /\ CallOK(p, a) /\ StandsOK(s, t, p) /\ OpenOK(s, t, p) /\ OverOK(s, t, p, h)
      /\ ProxiesOK(s, t, p, h, a.call) /\ TimesOK(s, t, p, h, a.call, n)
  BY DEF ThreadOK
<1>2. p = "w_woken" /\ t \notin s.needsleep /\ s.susp[t] \in Nat /\ o # TimeOut
  BY <1>1, OKFields, TimeOutAssumption DEF OpenOK
<1>3. /\ ~Queued(r, t) /\ ~Hangs(r, t) /\ r.wait[t] = "BLOCKED" /\ r.lpce[t] = s.lpce[t]
      /\ r.susp[t] = s.susp[t] /\ ~r.live[t] /\ t \notin r.needsleep
      /\ r.rs[t] = IF s.susp[t] = 0 THEN "RUNNABLE" ELSE "BLOCKED"
  BY <1>2 DEF Woken, EndedWait
<1>4. StandsOK(r, t, p) /\ OpenOK(r, t, p)
  BY <1>2, <1>3 DEF StandsOK, OpenOK
<1>5. OverOK(r, t, p, k) /\ ProxiesOK(r, t, p, k, a.call)
  BY <1>1, <1>2, <1>3 DEF OverOK, ProxiesOK, InWait, Gets
<1>6. TimesOK(r, t, p, k, a.call, n)
  BY <1>1, <1>2, <1>3 DEF TimesOK, Gets, Ends
<1> QED BY <1>1, <1>4, <1>5, <1>6 DEF ThreadOK

\* A blocked thread, or one in user mode, is suspended.
LEMMA SuspendedOK ==
  ASSUME NEW s, SleepOK(s), NEW r, NEW t \in Threads, NEW h, NEW p, NEW a, NEW n, NEW m,
         ThreadOK(s, t, h, p, a, n), Suspended(s, r, t, m), s.rs[t] # "NEEDSRUN",
         s.rs[t] = "BLOCKED" \/ p \in {"user", "k_return"}
  PROVE  ThreadOK(r, t, h, p, a, n)
<1>1. /\ CallOK(p, a) /\ StandsOK(s, t, p) /\ OpenOK(s, t, p) /\ OverOK(s, t, p, h)
      /\ ProxiesOK(s, t, p, h, a.call) /\ TimesOK(s, t, p, h, a.call, n)
  BY DEF ThreadOK
<1>2. /\ r.susp[t] > 0 /\ r.rs[t] = "BLOCKED" /\ ~Queued(r, t) /\ ~Hangs(r, t)
      /\ r.lpce[t] = s.lpce[t] /\ r.live[t] = s.live[t]
      /\ IF Queued(s, t) \/ Hangs(s, t)
         THEN t \in r.needsleep /\ r.wait[t] = IF s.lpce[t] THEN "PROCESSING" ELSE s.wait[t]
         ELSE (t \in r.needsleep <=> t \in s.needsleep) /\ r.wait[t] = s.wait[t]
  <2>1. s.susp[t] \in Nat
    BY OKFields
  <2> QED BY <2>1 DEF Suspended
<1>3. p \in {"w_woken", "z_woken", "k_return", "user"}
  BY <1>1 DEF StandsOK
<1>4. StandsOK(r, t, p)
  BY <1>2, <1>3 DEF StandsOK
<1>5. CASE Queued(s, t) \/ Hangs(s, t)
  <2>1. s.rs[t] = "BLOCKED"
    BY <1>5, OKFields DEF StateOK
  <2>2. /\ p \in {"w_woken", "z_woken"} /\ (p = "w_woken" => s.live[t] /\ s.lpce[t])
        /\ p = "z_woken" => ~s.live[t]
    BY <1>5, <2>1, SleeperIsOpen
  <2>3. OpenOK(r, t, p)
    BY <1>2, <1>5, <2>2 DEF OpenOK, InWait
  <2>4. OverOK(r, t, p, h) /\ ProxiesOK(r, t, p, h, a.call)
    BY <1>1, <1>2, <1>5, <2>2 DEF OverOK, ProxiesOK, InWait
  <2>5. TimesOK(r, t, p, h, a.call, n)
    BY <1>1, <1>2, <1>5 DEF TimesOK
  <2> QED BY <1>1, <1>4, <2>3, <2>4, <2>5 DEF ThreadOK
<1>6. CASE ~(Queued(s, t) \/ Hangs(s, t))
  <2>1. OpenOK(r, t, p)
    BY <1>1, <1>2, <1>3, <1>6 DEF OpenOK, InWait
  <2>2. OverOK(r, t, p, h) /\ ProxiesOK(r, t, p, h, a.call)
    BY <1>1, <1>2, <1>3, <1>6 DEF OverOK, ProxiesOK, InWait
  <2>3. TimesOK(r, t, p, h, a.call, n)
    BY <1>1, <1>2, <1>6 DEF TimesOK
  <2> QED BY <1>1, <1>4, <2>1, <2>2, <2>3 DEF ThreadOK
<1> QED BY <1>5, <1>6

\* A suspended thread is resumed.
LEMMA ResumedOK ==
  ASSUME NEW s, SleepOK(s), NEW r, NEW t \in Threads, NEW h, NEW p, NEW a, NEW n, NEW hasProxy,
         ThreadOK(s, t, h, p, a, n), s.susp[t] > 0, Resumed(s, r, t, hasProxy),
         hasProxy <=> s.live[t] /\ h.queued # << >>
  PROVE  ThreadOK(r, t, h, p, a, n)
<1>1. /\ CallOK(p, a) /\ StandsOK(s, t, p) /\ OpenOK(s, t, p) /\ OverOK(s, t, p, h)
      /\ ProxiesOK(s, t, p, h, a.call) /\ TimesOK(s, t, p, h, a.call, n)
  BY DEF ThreadOK
<1>2. /\ s.susp[t] \in Nat /\ s.rs[t] \in {"BLOCKED", "NEEDSRUN"} /\ s.wait[t] \in WaitState
  BY OKFields DEF StateOK
<1>3. /\ r.susp[t] = s.susp[t] - 1 /\ ~Queued(r, t) /\ ~Hangs(r, t) /\ ~Queued(s, t) /\ ~Hangs(s, t)
      /\ r.lpce[t] = s.lpce[t] /\ r.live[t] = s.live[t]
      /\ (t \in r.needsleep <=> t \in s.needsleep) /\ r.wait[t] = s.wait[t]
      /\ r.rs[t] = IF s.susp[t] = 1 /\ s.rs[t] = "BLOCKED" /\ (~hasProxy \/ t \in s.needsleep)
                   THEN "RUNNABLE" ELSE s.rs[t]
  BY DEF Resumed
<1>4. s.live[t] => p = "w_woken" /\ hasProxy
  BY <1>1, <1>2 DEF OpenOK, StandsOK, InWait, ProxiesOK
<1>5. ProxiesOK(r, t, p, h, a.call) /\ TimesOK(r, t, p, h, a.call, n)
  BY <1>1, <1>3 DEF ProxiesOK, TimesOK
<1>6. CASE s.susp[t] = 1 /\ s.rs[t] = "BLOCKED" /\ (~hasProxy \/ t \in s.needsleep)
  <2>1. r.rs[t] = "RUNNABLE"
    BY <1>3, <1>6
  <2>2. StandsOK(r, t, p)
    BY <1>3, <2>1 DEF StandsOK
  <2>3. OpenOK(r, t, p)
    BY <1>1, <1>3, <1>4, <1>6, <2>1 DEF OpenOK, InWait
  <2>4. OverOK(r, t, p, h)
    BY <1>1, <1>3, <2>1 DEF OverOK
  <2> QED BY <1>1, <1>5, <2>2, <2>3, <2>4 DEF ThreadOK
<1>7. CASE ~(s.susp[t] = 1 /\ s.rs[t] = "BLOCKED" /\ (~hasProxy \/ t \in s.needsleep))
  <2>1. r.rs[t] = s.rs[t]
    BY <1>3, <1>7
  <2>2. s.rs[t] = "BLOCKED" /\ (~s.live[t] \/ t \in s.needsleep) => r.susp[t] > 0
    BY <1>2, <1>3, <1>4, <1>7
  <2>3. StandsOK(r, t, p)
    BY <1>1, <1>2, <1>3, <2>1, <2>2 DEF StandsOK
  <2>4. OpenOK(r, t, p)
    BY <1>1, <1>3, <2>1, <2>2 DEF OpenOK
  <2>5. OverOK(r, t, p, h)
    BY <1>1, <1>3, <2>1, <2>2 DEF OverOK
  <2> QED BY <1>1, <1>5, <2>3, <2>4, <2>5 DEF ThreadOK
<1> QED BY <1>6, <1>7

(***************************************************************************)
(* Putting a step together: every thread is passed by, or is in order by   *)
(* what the step does to it.                                               *)
(***************************************************************************)
\* A thread the step passes by.
Apart(u) ==
  /\ Passes(sched, sched', u, now') /\ CrabKept(sched, sched', u)
  /\ th'[u] = th[u] /\ pc'[u] = pc[u] /\ arg'[u] = arg[u]

\* A thread that is in order after the step.
Good(u) ==
  /\ CrabOK(sched', u, th'[u].pendWakeup) /\ ThreadOK(sched', u, th'[u], pc'[u], arg'[u], now')
  /\ sched'.rs[u] = "NEEDSRUN" =>
       sched.rs[u] = "NEEDSRUN" \/ \E v \in Threads : arg'[v].tgt = u
  /\ pc'[u] = "w_boost" /\ sched'.live[u] => u \in ToSet(obj'[arg'[u].crit].q)

\* Who was to be woken still is, or has been; who waits for a mutex goes on
\* waiting for it while its proxies are live.
TargetsKept ==
  \A v \in Threads : arg[v].tgt # NoThread =>
    arg'[v].tgt = arg[v].tgt \/ sched'.rs[arg[v].tgt] # "NEEDSRUN"
QueuesKept ==
  \A o \in Objects, u \in Threads :
    Kind[o] = "mutex" /\ u \in ToSet(obj[o].q) /\ sched'.live[u] => u \in ToSet(obj'[o].q)

ShapeNext ==
  /\ obj' \in [Objects -> ObjectShape] /\ stub' \in [Threads -> Seq(Threads)]
  /\ th' \in [Threads -> ThreadType] /\ pc' \in [Threads -> PCs] /\ arg' \in [Threads -> ArgType]
  /\ now' \in Nat
OwnersNext == \A o \in Objects : Kind[o] = "mutex" /\ obj'[o].q # << >> => obj'[o].owner # NoThread

World ==
  /\ ShapeNext /\ SleepOK(sched') /\ DueOK(sched', now') /\ now <= now'
  /\ OwnersNext /\ TargetsKept /\ QueuesKept

\* What Inv is after the step.
LEMMA InvNext ==
  ASSUME ShapeNext, SleepOK(sched'), DueOK(sched', now'), OwnersNext,
         \A t \in Threads : /\ CrabOK(sched', t, th'[t].pendWakeup)
                            /\ ThreadOK(sched', t, th'[t], pc'[t], arg'[t], now')
                            /\ sched'.rs[t] = "NEEDSRUN" => \E u \in Threads : arg'[u].tgt = t
                            /\ pc'[t] = "w_boost" /\ sched'.live[t] =>
                                 t \in ToSet(obj'[arg'[t].crit].q)
  PROVE  Inv'
<1>1. Shape' /\ Owners'
  BY DEF ShapeNext, OwnersNext, Shape, Owners
<1>2. Wakers' /\ Boosters'
  BY DEF Wakers, Boosters
<1> QED BY <1>1, <1>2 DEF Inv

\* A step keeps the invariant if every thread is left alone or is good after it.
LEMMA Assemble ==
  ASSUME Inv, World, \A u \in Threads : Apart(u) \/ Good(u)
  PROVE  Inv'
<1>1. /\ ShapeNext /\ SleepOK(sched') /\ DueOK(sched', now') /\ now <= now'
      /\ OwnersNext /\ TargetsKept /\ QueuesKept
  BY DEF World
<1>2. /\ SleepOK(sched) /\ BedsOK(sched) /\ now \in Nat /\ now' \in Nat
      /\ th \in [Threads -> ThreadType]
  BY <1>1, OKFields DEF Inv, Shape, ShapeNext
<1>3. SUFFICES ASSUME NEW u \in Threads
               PROVE  /\ CrabOK(sched', u, th'[u].pendWakeup)
                      /\ ThreadOK(sched', u, th'[u], pc'[u], arg'[u], now')
                      /\ sched'.rs[u] = "NEEDSRUN" => \E v \in Threads : arg'[v].tgt = u
                      /\ pc'[u] = "w_boost" /\ sched'.live[u] => u \in ToSet(obj'[arg'[u].crit].q)
  BY <1>1, InvNext
<1>4. /\ CrabOK(sched, u, th[u].pendWakeup) /\ ThreadOK(sched, u, th[u], pc[u], arg[u], now)
      /\ th[u].pendWakeup \in Int /\ u # NoThread
  BY <1>2, NoThreadAssumption DEF Inv, ThreadType
<1>5. sched.rs[u] = "NEEDSRUN" /\ sched'.rs[u] = "NEEDSRUN" => \E v \in Threads : arg'[v].tgt = u
  <2>1. sched.rs[u] = "NEEDSRUN" => \E v \in Threads : arg[v].tgt = u
    BY DEF Inv, Wakers
  <2> QED BY <1>1, <1>4, <2>1 DEF TargetsKept
<1>6. CASE Good(u)
  BY <1>5, <1>6 DEF Good
<1>7. CASE Apart(u)
  <2>1. Passes(sched, sched', u, now') /\ CrabKept(sched, sched', u)
        /\ th'[u] = th[u] /\ pc'[u] = pc[u] /\ arg'[u] = arg[u]
    BY <1>7 DEF Apart
  <2>2. CrabOK(sched', u, th'[u].pendWakeup)
    BY <1>2, <1>4, <2>1, CrabStaysOK
  <2>3. ThreadOK(sched', u, th'[u], pc'[u], arg'[u], now')
    BY <1>1, <1>2, <1>4, <2>1, OthersStayOK
  <2>4. /\ sched'.rs[u] = "NEEDSRUN" => sched.rs[u] = "NEEDSRUN"
        /\ sched'.live[u] => sched.live[u]
    BY <2>1 DEF Passes, SameThread, Expires, Slips
  <2>5. pc'[u] = "w_boost" /\ sched'.live[u] => u \in ToSet(obj'[arg'[u].crit].q)
    <3>1. pc[u] = "w_boost" => arg[u].crit \in OfKind({"mutex"})
      BY <1>4 DEF ThreadOK, CallOK
    <3>2. pc[u] = "w_boost" /\ sched.live[u] => u \in ToSet(obj[arg[u].crit].q)
      BY DEF Inv, Boosters
    <3>3. pc[u] = "w_boost" => arg[u].crit \in Objects /\ Kind[arg[u].crit] = "mutex"
      BY <3>1 DEF OfKind
    <3> QED BY <1>1, <2>1, <2>4, <3>2, <3>3 DEF QueuesKept
  <2> QED BY <1>5, <2>2, <2>3, <2>4, <2>5
<1> QED BY <1>3, <1>6, <1>7

\* The running thread and the call it is in.
Runs(t, p) ==
  /\ t # NoThread /\ sched.running = t /\ pc[t] = p /\ p \in PCs /\ sched.rs[t] = "RUNNING"
  /\ sched.susp[t] = 0 /\ sched.hang[t] = << >> /\ ~Queued(sched, t) /\ ~Hangs(sched, t)
  /\ CrabOK(sched, t, th[t].pendWakeup) /\ ThreadOK(sched, t, th[t], p, arg[t], now)
  /\ th[t] \in ThreadType /\ arg[t] \in ArgType
  /\ p # "user" => CallAt(p, arg[t].call) /\ arg[t].call \in CallType
  /\ p \notin InWait => ~sched.live[t]
  /\ p \notin DOMAIN AfterRun => arg[t].tgt = NoThread

\* What the invariant says of the running thread.
LEMMA RunsNow ==
  ASSUME Inv, NEW t \in Threads, NEW p, At(t, p)
  PROVE  Runs(t, p)
<1>1. sched.running = t /\ pc[t] = p
  BY DEF At
<1>2. SleepOK(sched) /\ th[t] \in ThreadType /\ arg[t] \in ArgType /\ p \in PCs
  BY <1>1 DEF Inv, Shape
<1>3. t # NoThread
  BY NoThreadAssumption
<1>4. /\ sched.rs[t] = "RUNNING" /\ sched.susp[t] = 0 /\ sched.hang[t] = << >>
      /\ ~Queued(sched, t) /\ ~Hangs(sched, t)
  BY <1>1, <1>2, RunningIsUp
<1>5. CrabOK(sched, t, th[t].pendWakeup) /\ ThreadOK(sched, t, th[t], p, arg[t], now)
  BY <1>1 DEF Inv
<1>6. /\ p # "user" => CallAt(p, arg[t].call) /\ arg[t].call \in CallType
      /\ p \notin DOMAIN AfterRun => arg[t].tgt = NoThread
  BY <1>5 DEF ThreadOK, CallOK, CallAt
<1>7. p \notin InWait => ~sched.live[t]
  BY <1>5 DEF ThreadOK, OpenOK
<1> QED BY <1>1, <1>2, <1>3, <1>4, <1>5, <1>6, <1>7 DEF Runs

\* Where MakeRunIfNeeded is called, and what follows.
LEMMA RunPCs ==
  /\ DOMAIN AfterRun = {"s_run", "m_run", "r_run", "p_run"}
  /\ AfterRun["s_run"] = "k_return" /\ AfterRun["m_run"] = "m_wake"
  /\ AfterRun["r_run"] = "r_post" /\ AfterRun["p_run"] = "p_pop"
BY DEF AfterRun

\* Objects whose waiters and owners stay.
LEMMA SameQueues ==
  ASSUME Inv, \A o \in Objects : obj'[o].q = obj[o].q /\ obj'[o].owner = obj[o].owner
  PROVE  QueuesKept /\ OwnersNext
BY DEF Inv, Owners, QueuesKept, OwnersNext

\* A step that leaves the scheduler alone passes everybody by.
LEMMA NothingPasses ==
  ASSUME Inv, sched' = sched, NEW u \in Threads, NEW n
  PROVE  Passes(sched, sched', u, n) /\ CrabKept(sched, sched', u)
BY DEF Passes, SameThread, CrabKept

\* A step of t that leaves the scheduler alone.
LEMMA QuietStep ==
  ASSUME Inv, NEW t \in Threads, sched' = sched, now' = now,
         ShapeNext, OwnersNext, QueuesKept, TargetsKept,
         \A u \in Threads \ {t} : th'[u] = th[u] /\ pc'[u] = pc[u] /\ arg'[u] = arg[u],
         ThreadOK(sched, t, th'[t], pc'[t], arg'[t], now),
         th'[t].pendWakeup = th[t].pendWakeup, pc'[t] # "w_boost"
  PROVE  Inv'
<1>1. SleepOK(sched) /\ DueOK(sched, now) /\ now \in Nat /\ CrabOK(sched, t, th[t].pendWakeup)
  BY DEF Inv, Shape
<1>2. World
  BY <1>1 DEF World
<1>3. Good(t)
  BY <1>1 DEF Good
<1>4. ASSUME NEW u \in Threads \ {t}
      PROVE  Apart(u)
  BY NothingPasses DEF Apart
<1> QED BY <1>2, <1>3, <1>4, Assemble

\* The place a call goes to, when no wait is open there.
OutPCs == PCs \ (InWait \union {"w_config", "z_woken", "w_boost"} \union DOMAIN AfterRun)

\* A thread that runs for itself, outside a wait: what else it does.
OwnStep(t, next) ==
  /\ next \in OutPCs /\ pc' = [pc EXCEPT ![t] = next] /\ now' = now
  /\ stub' \in [Threads -> Seq(Threads)] /\ obj' \in [Objects -> ObjectShape]
  /\ OwnersNext /\ QueuesKept
  /\ th' \in [Threads -> ThreadType] /\ arg' \in [Threads -> ArgType]
  /\ \A u \in Threads \ {t} : th'[u] = th[u] /\ arg'[u] = arg[u]
  /\ arg'[t].tgt = arg[t].tgt /\ CallOK(next, arg'[t]) /\ Ends(th'[t], next, arg'[t].call, now)
  /\ th'[t].pendWakeup = th[t].pendWakeup

\* A step of t, not in a wait, in which at most its priority or its place
\* changes.
LEMMA RunStep ==
  ASSUME Inv, NEW t \in Threads, NEW p, NEW next, Runs(t, p), ~sched.live[t], OwnStep(t, next),
         RunChange(sched, sched', t), sched'.rs[t] \in {"RUNNING", "RUNNABLE"}
  PROVE  Inv'
<1>1. pc \in [Threads -> PCs] /\ now \in Nat /\ DueOK(sched, now)
  BY DEF Inv, Shape
<1>2. /\ next \in OutPCs /\ next \in PCs /\ next \notin InWait \union {"w_config", "z_woken"}
      /\ next # "w_boost"
  BY DEF OutPCs, OwnStep
<1>3. ShapeNext /\ pc'[t] = next /\ \A u \in Threads \ {t} : pc'[u] = pc[u]
  BY <1>1, <1>2 DEF ShapeNext, OwnStep
<1>4. /\ SleepOK(sched') /\ SameSleep(sched, sched') /\ CrabsKept(sched, sched')
      /\ DueOK(sched', now') /\ now <= now'
      /\ ~Queued(sched', t) /\ ~Hangs(sched', t) /\ ~sched'.live[t]
      /\ \A u \in Threads \ {t} : ExactSame(sched, sched', u)
  BY <1>1 DEF RunChange, Runs, OwnStep, SameSleep
<1>5. ThreadOK(sched', t, th'[t], next, arg'[t], now')
  BY <1>2, <1>4, UpOK DEF OwnStep
<1>6. World
  BY <1>3, <1>4 DEF World, OwnStep, TargetsKept
<1>7. CrabOK(sched', t, th'[t].pendWakeup)
  <2>1. CrabKept(sched, sched', t) /\ BedsOK(sched) /\ CrabOK(sched, t, th[t].pendWakeup)
    BY <1>4 DEF CrabsKept, Inv, SleepOK
  <2> QED BY <2>1, CrabStaysOK DEF OwnStep
<1>8. Good(t)
  BY <1>2, <1>3, <1>5, <1>7 DEF Good
<1>9. ASSUME NEW u \in Threads \ {t}
      PROVE  Apart(u)
  BY <1>3, <1>4 DEF Apart, OwnStep, Passes, ExactSame, CrabsKept
<1> QED BY <1>6, <1>8, <1>9, Assemble

\* ... or none.
LEMMA PlainStep ==
  ASSUME Inv, NEW t \in Threads, NEW p, NEW next, Runs(t, p), ~sched.live[t], OwnStep(t, next),
         sched' = sched
  PROVE  Inv'
<1>1. RunChange(sched, sched', t)
  <2>1. SleepOK(sched) /\ \A u \in Threads : CrabKept(sched, sched', u)
    BY NothingPasses DEF Inv
  <2> QED BY <2>1 DEF RunChange, SameSleep, CrabsKept, ExactSame, SameThread
<1>2. sched'.rs[t] = "RUNNING"
  BY DEF Runs
<1> QED BY <1>1, <1>2, RunStep

\* Call-outs of one kind.
LEMMA CallStays ==
  ASSUME NEW p, NEW q, NEW a, CallAt(p, a.call), a.tgt = NoThread,
         q \in OutPCs \ {"user", "w_link", "w_reprio", "m_prio", "m_boost", "m_wake", "m_clear",
                         "m_adjust"},
         \/ p \in WaitPCs /\ q \in WaitPCs \union {"k_return"}
         \/ p \in SignalPCs /\ q = "k_return"
         \/ p \in MutexPCs /\ q \in MutexPCs \union {"k_return"}
         \/ p \in SemPCs /\ q \in SemPCs \union {"k_return"}
         \/ p \in OtherPCs \ {"user"} /\ q = "k_return"
  PROVE  CallOK(q, a)
<1>1. q \notin DOMAIN AfterRun /\ q # "user"
  BY DEF OutPCs
<1>2. CallAt(q, a.call)
  BY <1>1 DEF CallAt, WaitPCs, SignalPCs, MutexPCs, SemPCs, OtherPCs
<1> QED BY <1>1, <1>2, RunPCs DEF CallOK, OutPCs, InWait

\* The fields of an object, and how it may change.
LEMMA ObjectFields ==
  ASSUME NEW x \in ObjectShape
  PROVE  /\ x.state \in BOOLEAN /\ x.maxPrio \in Priority /\ x.count \in Int /\ x.pending \in Int
         /\ x.owner \in Threads \union {NoThread} /\ x.lockCount \in Int /\ x.bListed \in BOOLEAN
         /\ x.bListedPrio \in Priority /\ x.q \in Seq(Threads)
BY DEF ObjectShape

\* x with some of its fields set is y, and they are these.
Changed(x, y, q, owner) == y \in ObjectShape /\ y.q = q /\ y.owner = owner

\* Setting these fields of an object keeps its shape, and its queue and owner.
LEMMA ObjectChanges ==
  ASSUME NEW x \in ObjectShape
  PROVE  /\ \A n \in Int : Changed(x, [x EXCEPT !.lockCount = n], x.q, x.owner)
         /\ \A n \in Int : Changed(x, [x EXCEPT !.pending = n], x.q, x.owner)
         /\ \A n, m \in Int : Changed(x, [x EXCEPT !.count = n, !.pending = m], x.q, x.owner)
         /\ \A n \in Int : Changed(x, [x EXCEPT !.count = n], x.q, x.owner)
         /\ \A b \in BOOLEAN : Changed(x, [x EXCEPT !.state = b], x.q, x.owner)
         /\ \A b \in BOOLEAN : Changed(x, [x EXCEPT !.bListed = b], x.q, x.owner)
         /\ \A b \in BOOLEAN, p \in Priority : Changed(x, [x EXCEPT !.bListed = b, !.bListedPrio = p], x.q, x.owner)
         /\ \A w \in Threads \union {NoThread} : Changed(x, [x EXCEPT !.owner = w], x.q, w)
         /\ \A w \in Threads \union {NoThread}, n \in Int :
              Changed(x, [x EXCEPT !.owner = w, !.lockCount = n], x.q, w)
         /\ \A q \in Seq(Threads) : Changed(x, [x EXCEPT !.q = q], q, x.owner)
         /\ \A q \in Seq(Threads), p \in Priority : Changed(x, [x EXCEPT !.q = q, !.maxPrio = p], q, x.owner)
         /\ \A q \in Seq(Threads), n \in Int : Changed(x, [x EXCEPT !.q = q, !.pending = n], q, x.owner)
         /\ \A q \in Seq(Threads), b \in BOOLEAN : Changed(x, [x EXCEPT !.q = q, !.state = b], q, x.owner)
         /\ \A q \in Seq(Threads), w \in Threads \union {NoThread}, n \in Int :
              Changed(x, [x EXCEPT !.q = q, !.owner = w, !.lockCount = n], q, w)
         /\ \A b \in BOOLEAN, q \in Seq(Threads), p \in Priority :
              Changed(x, [x EXCEPT !.state = b, !.q = q, !.maxPrio = p], q, x.owner)
<1>1. \A n \in Int : Changed(x, [x EXCEPT !.lockCount = n], x.q, x.owner)
  BY DEF Changed, ObjectShape
<1>2. \A n \in Int : Changed(x, [x EXCEPT !.pending = n], x.q, x.owner)
  BY DEF Changed, ObjectShape
<1>3. \A n, m \in Int : Changed(x, [x EXCEPT !.count = n, !.pending = m], x.q, x.owner)
  BY DEF Changed, ObjectShape
<1>4. \A n \in Int : Changed(x, [x EXCEPT !.count = n], x.q, x.owner)
  BY DEF Changed, ObjectShape
<1>5. \A b \in BOOLEAN : Changed(x, [x EXCEPT !.state = b], x.q, x.owner)
  BY DEF Changed, ObjectShape
<1>6. \A b \in BOOLEAN : Changed(x, [x EXCEPT !.bListed = b], x.q, x.owner)
  BY DEF Changed, ObjectShape
<1>7. \A b \in BOOLEAN, p \in Priority :
        Changed(x, [x EXCEPT !.bListed = b, !.bListedPrio = p], x.q, x.owner)
  BY DEF Changed, ObjectShape
<1>8. \A w \in Threads \union {NoThread} : Changed(x, [x EXCEPT !.owner = w], x.q, w)
  BY DEF Changed, ObjectShape
<1>9. \A w \in Threads \union {NoThread}, n \in Int :
        Changed(x, [x EXCEPT !.owner = w, !.lockCount = n], x.q, w)
  BY DEF Changed, ObjectShape
<1>10. \A q \in Seq(Threads) : Changed(x, [x EXCEPT !.q = q], q, x.owner)
  BY DEF Changed, ObjectShape
<1>11. \A q \in Seq(Threads), p \in Priority :
        Changed(x, [x EXCEPT !.q = q, !.maxPrio = p], q, x.owner)
  BY DEF Changed, ObjectShape
<1>12. \A q \in Seq(Threads), n \in Int : Changed(x, [x EXCEPT !.q = q, !.pending = n], q, x.owner)
  BY DEF Changed, ObjectShape
<1>13. \A q \in Seq(Threads), b \in BOOLEAN :
        Changed(x, [x EXCEPT !.q = q, !.state = b], q, x.owner)
  BY DEF Changed, ObjectShape
<1>14. \A q \in Seq(Threads), w \in Threads \union {NoThread}, n \in Int :
        Changed(x, [x EXCEPT !.q = q, !.owner = w, !.lockCount = n], q, w)
  BY DEF Changed, ObjectShape
<1>15. \A b \in BOOLEAN, q \in Seq(Threads), p \in Priority :
        Changed(x, [x EXCEPT !.state = b, !.q = q, !.maxPrio = p], q, x.owner)
  BY DEF Changed, ObjectShape
<1> QED BY <1>1, <1>2, <1>3, <1>4, <1>5, <1>6, <1>7, <1>8, <1>9, <1>10, <1>11, <1>12, <1>13, <1>14, <1>15

\* One object changes.
LEMMA OneObject ==
  ASSUME obj \in [Objects -> ObjectShape], NEW o \in Objects, NEW y, NEW q, NEW owner,
         Changed(obj[o], y, q, owner), obj' = [obj EXCEPT ![o] = y]
  PROVE  /\ obj' \in [Objects -> ObjectShape] /\ obj'[o] = y /\ obj'[o].q = q /\ obj'[o].owner = owner
         /\ \A m \in Objects \ {o} : obj'[m] = obj[m]
BY DEF Changed

\* ... or none, and waiters and owners stay.
LEMMA OneObjectSame ==
  ASSUME obj \in [Objects -> ObjectShape], NEW o \in Objects, NEW y,
         Changed(obj[o], y, obj[o].q, obj[o].owner), obj' = obj \/ obj' = [obj EXCEPT ![o] = y]
  PROVE  /\ obj' \in [Objects -> ObjectShape]
         /\ \A m \in Objects : obj'[m].q = obj[m].q /\ obj'[m].owner = obj[m].owner
<1>1. CASE obj' = obj
  BY <1>1
<1>2. CASE obj' = [obj EXCEPT ![o] = y]
  BY <1>2, OneObject, ZenonT(30)
<1> QED BY <1>1, <1>2

\* The places outside a wait.
LEMMA Outs ==
  {"user", "k_return", "w_link", "w_dequeue", "w_reprio", "s_auto", "s_intr", "s_reset", "m_mod",
   "m_prio", "m_boost", "m_wake", "m_clear", "m_adjust", "r_test", "r_unlink", "r_leave", "r_post",
   "p_add", "p_pop", "z_put", "yield", "basePrio", "suspend", "suspendSelf", "resume", "c_suspend",
   "c_resume"} \subseteq OutPCs
BY RunPCs DEF OutPCs, PCs, WaitPCs, SignalPCs, MutexPCs, SemPCs, OtherPCs, InWait

\* The call a running thread is in.
LEMMA CallIs ==
  ASSUME NEW t \in Threads, NEW p, Runs(t, p), p # "user"
  PROVE  /\ Op(t) = arg[t].call /\ Op(t) \in CallType /\ CallAt(p, Op(t)) /\ Untimed(Op(t))
         /\ p \in WaitPCs => Op(t).call = "wait"
         /\ p \in SignalPCs => Op(t).call \in {"set", "pulse", "reset"} /\ Obj(t) \in Objects
                               /\ Kind[Obj(t)] # "mutex"
         /\ p \in MutexPCs => Op(t).call = "releaseMutex" /\ Obj(t) \in Objects /\ Kind[Obj(t)] = "mutex"
         /\ p \in SemPCs => Op(t).call = "releaseSemaphore" /\ Obj(t) \in Objects /\ Kind[Obj(t)] = "sem"
<1>1. Op(t) = arg[t].call /\ Op(t) \in CallType /\ CallAt(p, Op(t)) /\ Untimed(Op(t))
  BY DEF Runs, Op, CallAt
<1>2. /\ p \in WaitPCs => Op(t).call = "wait"
      /\ p \in SignalPCs => Op(t).call \in {"set", "pulse", "reset"}
      /\ p \in MutexPCs => Op(t).call = "releaseMutex"
      /\ p \in SemPCs => Op(t).call = "releaseSemaphore"
  BY <1>1 DEF CallAt
<1> QED BY <1>1, <1>2, CallFacts DEF Obj

\* Calls that say nothing of time.
LEMMA EndsOther ==
  ASSUME NEW h, NEW p, NEW op, NEW n, op.call \notin {"wait", "sleep"},
         p \notin {"w_link", "w_dequeue", "w_reprio"}
  PROVE  Ends(h, p, op, n)
BY DEF Ends

\* The fields of a thread, and how they may change.
LEMMA ThreadFields ==
  ASSUME NEW x \in ThreadType
  PROVE  /\ x.bprio \in Priority /\ x.proxPrio \in Priority /\ x.pend \in Seq(Objects)
         /\ x.queued \in Seq(Objects) /\ x.ret \in Outcome /\ x.pendReturn \in Outcome
         /\ x.pendTime \in {INFINITE} \union Nat /\ x.pendWakeup \in Int
         /\ x.noPrioCalc \in BOOLEAN /\ x.pendSusp \in Nat
BY DEF ThreadType

\* What is outside the wait changes.
LEMMA ThreadChanges ==
  ASSUME NEW x \in ThreadType, NEW b \in BOOLEAN, NEW p \in Priority, NEW n \in Nat
  PROVE  /\ [x EXCEPT !.noPrioCalc = b] \in ThreadType /\ SameWait(x, [x EXCEPT !.noPrioCalc = b])
         /\ [x EXCEPT !.bprio = p] \in ThreadType /\ SameWait(x, [x EXCEPT !.bprio = p])
         /\ [x EXCEPT !.pendSusp = n] \in ThreadType /\ SameWait(x, [x EXCEPT !.pendSusp = n])
<1>1. [x EXCEPT !.noPrioCalc = b] \in ThreadType /\ SameWait(x, [x EXCEPT !.noPrioCalc = b])
  BY DEF ThreadType, SameWait
<1>2. [x EXCEPT !.bprio = p] \in ThreadType /\ SameWait(x, [x EXCEPT !.bprio = p])
  BY DEF ThreadType, SameWait
<1>3. [x EXCEPT !.pendSusp = n] \in ThreadType /\ SameWait(x, [x EXCEPT !.pendSusp = n])
  BY DEF ThreadType, SameWait
<1> QED BY <1>1, <1>2, <1>3

\* One thread's fields change.
LEMMA OneThread ==
  ASSUME th \in [Threads -> ThreadType], NEW t \in Threads, NEW y \in ThreadType,
         th' = [th EXCEPT ![t] = y]
  PROVE  th' \in [Threads -> ThreadType] /\ th'[t] = y /\ \A u \in Threads \ {t} : th'[u] = th[u]
OBVIOUS

\* SC_ReleaseMutex: the last release goes on, any other is over.
LEMMA ReleaseMutexInv ==
  ASSUME Inv, NEW t \in Threads, ReleaseMutex(t)
  PROVE  Inv'
<1> DEFINE next == IF obj[Obj(t)].owner = t /\ obj[Obj(t)].lockCount = 1 THEN "r_unlink" ELSE "k_return"
<1>1. Runs(t, "r_test")
  BY RunsNow DEF ReleaseMutex
<1>2. CallAt("r_test", arg[t].call) /\ arg[t].call \in CallType /\ arg[t].tgt = NoThread /\ ~sched.live[t]
  BY <1>1, RunPCs DEF Runs, InWait
<1>3. Op(t).call = "releaseMutex" /\ Obj(t) \in Objects
  BY <1>2, CallFacts DEF CallAt, MutexPCs, Op, Obj
<1>4. next \in OutPCs
  BY RunPCs DEF OutPCs, PCs, MutexPCs, OtherPCs, InWait
<1>5. /\ sched' = sched /\ now' = now /\ pc' = [pc EXCEPT ![t] = next] /\ stub' = stub /\ th' = th
      /\ arg' = arg
  BY DEF ReleaseMutex, Goto
<1>6. Shape
  BY DEF Inv
<1>7. /\ obj' \in [Objects -> ObjectShape]
      /\ \A o \in Objects : obj'[o].q = obj[o].q /\ obj'[o].owner = obj[o].owner
  <2> DEFINE x == obj[Obj(t)]
             n == x.lockCount - 1
  <2>1. x \in ObjectShape /\ n \in Int
    BY <1>3, <1>6, ObjectFields DEF Shape
  <2>2. obj' = obj \/ obj' = [obj EXCEPT ![Obj(t)] = [x EXCEPT !.lockCount = n]]
    BY DEF ReleaseMutex
  <2> HIDE DEF n
  <2>3. Changed(x, [x EXCEPT !.lockCount = n], x.q, x.owner)
    BY <2>1, ObjectChanges, ObjectFields
  <2> QED BY <1>3, <1>6, <2>2, <2>3, OneObjectSame DEF Shape
<1>8. CallOK(next, arg[t])
  BY <1>2, <1>4, CallStays DEF MutexPCs
<1>9. Ends(th[t], next, arg[t].call, now)
  BY <1>3 DEF Ends, Op
<1> HIDE DEF next
<1>10. OwnStep(t, next)
  BY <1>4, <1>5, <1>6, <1>7, <1>8, <1>9, SameQueues DEF OwnStep, Shape
<1> QED BY <1>1, <1>2, <1>5, <1>10, PlainStep

\* Priorities computed from those of threads and objects.
LEMMA PrioFacts ==
  ASSUME Shape
  PROVE  /\ MAX_PRIORITY_LEVELS - 1 \in Priority
         /\ \A q \in Seq(Threads) : HeadPrio(q) \in Priority
         /\ \A t : \A p \in Priority : Min({p} \union ListedPrios(t)) \in Priority
         /\ \A t \in Threads : OwnedPrio(t) \in Priority
<1>1. MAX_PRIORITY_LEVELS - 1 \in Priority
  BY DEF MAX_PRIORITY_LEVELS, Priority
<1>2. ASSUME NEW q \in Seq(Threads)
      PROVE  HeadPrio(q) \in Priority
  <2>1. q # << >> => Head(q) \in Threads
    BY HeadTailProperties
  <2>2. \A t \in Threads : th[t].proxPrio \in Priority
    BY DEF Shape, ThreadType
  <2> QED BY <1>1, <2>1, <2>2 DEF HeadPrio
<1>3. ASSUME NEW t, NEW p \in Priority
      PROVE  Min({p} \union ListedPrios(t)) \in Priority
  <2> DEFINE S == {p} \union ListedPrios(t)
  <2>1. S \in SUBSET Priority /\ S # {}
    BY DEF Shape, ObjectShape, ListedPrios
  <2> HIDE DEF S
  <2>2. Min(S) \in S
    BY <2>1, MinPriority
  <2> QED BY <2>1, <2>2 DEF S
<1>4. ASSUME NEW t \in Threads
      PROVE  OwnedPrio(t) \in Priority
  <2>1. th[t].bprio \in Priority
    BY DEF Shape, ThreadType
  <2> QED BY <1>3, <2>1 DEF OwnedPrio
<1> QED BY <1>1, <1>2, <1>3, <1>4

\* PreUnlinkCritMut.
LEMMA PreUnlinkInv ==
  ASSUME Inv, NEW t \in Threads, PreUnlinkCritMut(t)
  PROVE  Inv'
<1>1. Runs(t, "r_unlink")
  BY RunsNow DEF PreUnlinkCritMut
<1>2. /\ Op(t).call = "releaseMutex" /\ Obj(t) \in Objects /\ arg[t].tgt = NoThread /\ ~sched.live[t]
      /\ arg[t].call = Op(t) /\ CallAt("r_unlink", arg[t].call)
  BY <1>1, CallIs, RunPCs DEF Runs, InWait, MutexPCs
<1>3. /\ sched' = sched /\ now' = now /\ pc' = [pc EXCEPT ![t] = "r_leave"] /\ stub' = stub
      /\ arg' = arg
  BY DEF PreUnlinkCritMut, Goto
<1>4. Shape
  BY DEF Inv
<1>5. /\ obj' \in [Objects -> ObjectShape]
      /\ \A o \in Objects : obj'[o].q = obj[o].q /\ obj'[o].owner = obj[o].owner
  <2> DEFINE x == obj[Obj(t)]
             b == FALSE
  <2>1. x \in ObjectShape /\ b \in BOOLEAN
    BY <1>2, <1>4 DEF Shape
  <2> HIDE DEF b
  <2>2. Changed(x, [x EXCEPT !.bListed = b], x.q, x.owner)
    BY <2>1, ObjectChanges
  <2>3. obj' = [obj EXCEPT ![Obj(t)] = [x EXCEPT !.bListed = b]]
    BY DEF PreUnlinkCritMut, b
  <2> QED BY <1>2, <1>4, <2>2, <2>3, OneObjectSame DEF Shape
<1>6. /\ th' \in [Threads -> ThreadType] /\ th'[t].pendWakeup = th[t].pendWakeup
      /\ \A u \in Threads \ {t} : th'[u] = th[u]
  <2> DEFINE x == th[t]
             y == [x EXCEPT !.noPrioCalc = TRUE]
  <2>1. x \in ThreadType
    BY <1>4 DEF Shape
  <2>2. y \in ThreadType /\ SameWait(x, y)
    BY <2>1, ThreadChanges, ThreadFields
  <2>3. th' = [th EXCEPT ![t] = y]
    BY DEF PreUnlinkCritMut
  <2> QED BY <1>4, <2>2, <2>3, OneThread DEF Shape, SameWait
<1>7. CallOK("r_leave", arg[t])
  BY <1>2, Outs, CallStays DEF MutexPCs
<1>8. Ends(th'[t], "r_leave", arg[t].call, now)
  BY <1>2, EndsOther
<1>9. OwnStep(t, "r_leave")
  BY <1>2, <1>3, <1>4, <1>5, <1>6, <1>7, <1>8, SameQueues, Outs DEF OwnStep, Shape
<1> QED BY <1>1, <1>2, <1>3, <1>9, PlainStep

\* PostUnlinkCritMut.
LEMMA PostUnlinkInv ==
  ASSUME Inv, NEW t \in Threads, PostUnlinkCritMut(t)
  PROVE  Inv'
<1>1. Runs(t, "r_post")
  BY RunsNow DEF PostUnlinkCritMut
<1>2. /\ Op(t).call = "releaseMutex" /\ arg[t].tgt = NoThread /\ ~sched.live[t]
      /\ arg[t].call = Op(t) /\ CallAt("r_post", arg[t].call)
  BY <1>1, CallIs, RunPCs DEF Runs, InWait, MutexPCs
<1>3. /\ now' = now /\ pc' = [pc EXCEPT ![t] = "k_return"] /\ stub' = stub
      /\ arg' = arg /\ obj' = obj
  BY DEF PostUnlinkCritMut, Goto
<1>4. Shape /\ SleepOK(sched)
  BY DEF Inv
<1>6. /\ th' \in [Threads -> ThreadType] /\ th'[t].pendWakeup = th[t].pendWakeup
      /\ \A u \in Threads \ {t} : th'[u] = th[u]
  <2> DEFINE x == th[t]
             y == [x EXCEPT !.noPrioCalc = FALSE]
  <2>1. x \in ThreadType
    BY <1>4 DEF Shape
  <2>2. y \in ThreadType /\ SameWait(x, y)
    BY <2>1, ThreadChanges, ThreadFields
  <2>3. th' = [th EXCEPT ![t] = y]
    BY DEF PostUnlinkCritMut
  <2> QED BY <1>4, <2>2, <2>3, OneThread DEF Shape, SameWait
<1>7. CallOK("k_return", arg[t])
  BY <1>2, Outs, CallStays DEF MutexPCs
<1>8. Ends(th'[t], "k_return", arg[t].call, now)
  BY <1>2, EndsOther
<1>9. OwnStep(t, "k_return")
  BY <1>2, <1>3, <1>4, <1>6, <1>7, <1>8, SameQueues, Outs DEF OwnStep, Shape
<1>10. CASE sched' = sched
  BY <1>1, <1>2, <1>9, <1>10, PlainStep
<1>11. CASE sched' = SetRunningPrio(sched, OwnedPrio(t))
  <2>1. RunChange(sched, sched', t) /\ sched'.rs = sched.rs
    BY <1>1, <1>4, <1>11, PrioFacts, SetRunningPrioDoes DEF Runs
  <2> QED BY <1>1, <1>2, <1>9, <2>1, RunStep DEF Runs
<1> QED BY <1>10, <1>11 DEF PostUnlinkCritMut

\* SC_ReleaseSemaphore: units that do not fit are refused.
LEMMA SemAddInv ==
  ASSUME Inv, NEW t \in Threads, SemAdd(t)
  PROVE  Inv'
<1> DEFINE no == Op(t).n <= 0 \/ obj[Obj(t)].count + obj[Obj(t)].pending + Op(t).n > MaxCount
           next == IF no THEN "k_return" ELSE "p_pop"
<1>1. Runs(t, "p_add")
  BY RunsNow DEF SemAdd
<1>2. /\ Op(t).call = "releaseSemaphore" /\ Obj(t) \in Objects /\ arg[t].tgt = NoThread /\ ~sched.live[t]
      /\ arg[t].call = Op(t) /\ CallAt("p_add", arg[t].call) /\ Op(t) \in CallType /\ Op(t).n \in Int
      /\ arg[t] \in ArgType
  <2>1. /\ Op(t).call = "releaseSemaphore" /\ Obj(t) \in Objects /\ arg[t].tgt = NoThread
        /\ ~sched.live[t] /\ arg[t].call = Op(t) /\ CallAt("p_add", arg[t].call) /\ Op(t) \in CallType
        /\ arg[t] \in ArgType
    BY <1>1, CallIs, RunPCs DEF Runs, InWait, SemPCs
  <2> QED BY <2>1, CallFacts
<1>3. /\ sched' = sched /\ now' = now /\ pc' = [pc EXCEPT ![t] = next] /\ stub' = stub /\ th' = th
  BY DEF SemAdd, Goto
<1>4. Shape
  BY DEF Inv
<1>5. /\ obj' \in [Objects -> ObjectShape]
      /\ \A o \in Objects : obj'[o].q = obj[o].q /\ obj'[o].owner = obj[o].owner
  <2> DEFINE x == obj[Obj(t)]
             n == x.pending + Op(t).n
  <2>1. x \in ObjectShape /\ n \in Int
    BY <1>2, <1>4, ObjectFields DEF Shape
  <2>2. obj' = obj \/ obj' = [obj EXCEPT ![Obj(t)] = [x EXCEPT !.pending = n]]
    BY DEF SemAdd
  <2> HIDE DEF n
  <2>3. Changed(x, [x EXCEPT !.pending = n], x.q, x.owner)
    BY <2>1, ObjectChanges, ObjectFields
  <2> QED BY <1>2, <1>4, <2>2, <2>3, OneObjectSame DEF Shape
<1>6. /\ arg' \in [Threads -> ArgType] /\ \A u \in Threads \ {t} : arg'[u] = arg[u]
      /\ arg'[t].tgt = arg[t].tgt /\ arg'[t].call = arg[t].call
  <2>1. [arg[t] EXCEPT !.remain = Op(t).n] \in ArgType
        /\ [arg[t] EXCEPT !.remain = Op(t).n].tgt = arg[t].tgt
        /\ [arg[t] EXCEPT !.remain = Op(t).n].call = arg[t].call
    BY <1>2 DEF ArgType
  <2>2. arg' = arg \/ arg' = [arg EXCEPT ![t] = [arg[t] EXCEPT !.remain = Op(t).n]]
    BY DEF SemAdd
  <2> QED BY <1>4, <2>1, <2>2 DEF Shape
<1>7. next \in OutPCs
  BY Outs
<1>8. CallOK(next, arg'[t])
  BY <1>2, <1>6, <1>7, CallStays DEF SemPCs
<1>9. Ends(th[t], next, arg'[t].call, now)
  BY <1>2, <1>6, EndsOther
<1> HIDE DEF next
<1>10. OwnStep(t, next)
  BY <1>2, <1>3, <1>4, <1>5, <1>6, <1>7, <1>8, <1>9, SameQueues DEF OwnStep, Shape
<1> QED BY <1>1, <1>2, <1>3, <1>10, PlainStep

\* SC_EventModify: reset.
LEMMA ResetEventInv ==
  ASSUME Inv, NEW t \in Threads, ResetEvent(t)
  PROVE  Inv'
<1>1. Runs(t, "s_reset")
  BY RunsNow DEF ResetEvent
<1>2. /\ Op(t).call \in {"set", "pulse", "reset"} /\ Obj(t) \in Objects /\ arg[t].tgt = NoThread
      /\ ~sched.live[t] /\ arg[t].call = Op(t) /\ CallAt("s_reset", arg[t].call)
  BY <1>1, CallIs, RunPCs DEF Runs, InWait, SignalPCs
<1>3. /\ sched' = sched /\ now' = now /\ pc' = [pc EXCEPT ![t] = "k_return"] /\ stub' = stub
      /\ arg' = arg /\ th' = th
  BY DEF ResetEvent, Goto
<1>4. Shape
  BY DEF Inv
<1>5. /\ obj' \in [Objects -> ObjectShape]
      /\ \A o \in Objects : obj'[o].q = obj[o].q /\ obj'[o].owner = obj[o].owner
  <2> DEFINE x == obj[Obj(t)]
             b == FALSE
  <2>1. x \in ObjectShape /\ b \in BOOLEAN
    BY <1>2, <1>4 DEF Shape
  <2> HIDE DEF b
  <2>2. Changed(x, [x EXCEPT !.state = b], x.q, x.owner)
    BY <2>1, ObjectChanges
  <2>3. obj' = [obj EXCEPT ![Obj(t)] = [x EXCEPT !.state = b]]
    BY DEF ResetEvent, b
  <2> QED BY <1>2, <1>4, <2>2, <2>3, OneObjectSame DEF Shape
<1>7. CallOK("k_return", arg[t])
  BY <1>2, Outs, CallStays DEF SignalPCs
<1>8. Ends(th[t], "k_return", arg[t].call, now)
  BY <1>2, EndsOther
<1>9. OwnStep(t, "k_return")
  BY <1>2, <1>3, <1>4, <1>5, <1>7, <1>8, SameQueues, Outs DEF OwnStep, Shape
<1> QED BY <1>1, <1>2, <1>3, <1>9, PlainStep

\* Setting a manual-reset event, beyond its first KCall.
Setting == {"m_prio", "m_boost", "m_wake", "m_clear", "m_adjust"}

\* What a call that sets a manual-reset event is about, on its way.
LEMMA SettingFacts ==
  ASSUME NEW t \in Threads, NEW p \in Setting \union {"m_mod", "m_run"}, Runs(t, p)
  PROVE  /\ Op(t).call \in {"set", "pulse", "reset"} /\ Obj(t) \in Objects /\ ~sched.live[t]
         /\ arg[t].call = Op(t) /\ CallAt(p, arg[t].call) /\ Kind[Obj(t)] = "manual"
         /\ p # "m_mod" => arg[t].remain \in Priority
         /\ p # "m_run" => arg[t].tgt = NoThread
         /\ \A q \in Setting : CallAt(q, arg[t].call) /\ CallAt("k_return", arg[t].call)
         /\ CallAt("m_run", arg[t].call)
         /\ \A h, q, n : q \in Setting \union {"k_return", "m_run"} => Ends(h, q, arg[t].call, n)
<1>1. /\ Op(t).call \in {"set", "pulse", "reset"} /\ Obj(t) \in Objects /\ ~sched.live[t]
      /\ arg[t].call = Op(t) /\ CallAt(p, arg[t].call)
  BY CallIs DEF Runs, InWait, SignalPCs, Setting
<1>2. Kind[Obj(t)] = "manual"
  BY <1>1 DEF CallAt, SignalPCs, Obj, Op, Setting
<1>3. p # "m_mod" => arg[t].remain \in Priority
  BY DEF Runs, ThreadOK, CallOK, Setting
<1>4. p # "m_run" => arg[t].tgt = NoThread
  BY RunPCs DEF Runs, Setting
<1>5. /\ \A q \in Setting : CallAt(q, arg[t].call) /\ CallAt("k_return", arg[t].call)
      /\ CallAt("m_run", arg[t].call)
  BY <1>1, <1>2 DEF CallAt, WaitPCs, SignalPCs, MutexPCs, SemPCs, Setting, Obj, Op
<1>6. \A h, q, n : q \in Setting \union {"k_return", "m_run"} => Ends(h, q, arg[t].call, n)
  BY <1>1, EndsOther DEF Setting
<1> QED BY <1>1, <1>2, <1>3, <1>4, <1>5, <1>6

\* A call in such a place.
LEMMA SettingOK ==
  ASSUME NEW a, NEW q \in Setting \union {"k_return"}, CallAt(q, a.call), a.tgt = NoThread,
         q # "k_return" => a.remain \in Priority
  PROVE  CallOK(q, a) /\ q \in OutPCs
BY Outs, RunPCs DEF CallOK, Setting

\* EventModMan detaches the waiters.
LEMMA EventModManInv ==
  ASSUME Inv, NEW t \in Threads, EventModMan(t)
  PROVE  Inv'
<1> DEFINE next == "m_prio"
           x == obj[Obj(t)]
<1>1. Runs(t, "m_mod")
  BY RunsNow DEF EventModMan
<1>2. /\ Obj(t) \in Objects /\ ~sched.live[t] /\ Kind[Obj(t)] = "manual" /\ arg[t].tgt = NoThread
      /\ CallAt("k_return", arg[t].call) /\ CallAt("m_prio", arg[t].call) /\ arg[t] \in ArgType
      /\ \A h : Ends(h, next, arg[t].call, now)
  BY <1>1, SettingFacts DEF Setting, Runs
<1>3. /\ sched' = sched /\ now' = now /\ pc' = [pc EXCEPT ![t] = next] /\ th' = th
      /\ stub' = [stub EXCEPT ![t] = x.q]
  BY DEF EventModMan, Goto
<1>4. Shape /\ x \in ObjectShape /\ x.q \in Seq(Threads) /\ x.maxPrio \in Priority
  BY <1>2, ObjectFields DEF Inv, Shape
<1>5. /\ obj' \in [Objects -> ObjectShape]
      /\ \A o \in Objects : Kind[o] = "mutex" => obj'[o].q = obj[o].q /\ obj'[o].owner = obj[o].owner
  <2> DEFINE b == (Op(t).call = "set")
             e == MAX_PRIORITY_LEVELS - 1
             none == << >>
             y == [x EXCEPT !.state = b, !.q = none, !.maxPrio = e]
  <2>1. b \in BOOLEAN /\ e \in Priority /\ none \in Seq(Threads)
    BY <1>4, PrioFacts
  <2>2. obj' = [obj EXCEPT ![Obj(t)] = y]
    BY DEF EventModMan
  <2> HIDE DEF b, e, none
  <2>3. Changed(x, y, none, x.owner)
    BY <1>4, <2>1, ObjectFields, ObjectChanges
  <2> HIDE DEF y
  <2>4. /\ obj' \in [Objects -> ObjectShape] /\ \A m \in Objects \ {Obj(t)} : obj'[m] = obj[m]
    BY <1>2, <1>4, <2>2, <2>3, OneObject DEF Shape
  <2> QED BY <1>2, <2>4
<1>6. QueuesKept /\ OwnersNext
  BY <1>5 DEF Inv, Owners, QueuesKept, OwnersNext
<1>7. /\ arg' \in [Threads -> ArgType] /\ \A u \in Threads \ {t} : arg'[u] = arg[u]
      /\ arg'[t].tgt = arg[t].tgt /\ arg'[t].call = arg[t].call /\ arg'[t].remain = x.maxPrio
  <2>1. /\ [arg[t] EXCEPT !.remain = x.maxPrio] \in ArgType
        /\ [arg[t] EXCEPT !.remain = x.maxPrio].tgt = arg[t].tgt
        /\ [arg[t] EXCEPT !.remain = x.maxPrio].call = arg[t].call
        /\ [arg[t] EXCEPT !.remain = x.maxPrio].remain = x.maxPrio
    <3>1. \A p \in Priority : p \in Int
      BY DEF Priority, MAX_PRIORITY_LEVELS
    <3>2. x.maxPrio \in Int
      BY <1>4, <3>1
    <3> QED BY <1>2, <3>2 DEF ArgType
  <2>2. arg' = [arg EXCEPT ![t] = [arg[t] EXCEPT !.remain = x.maxPrio]]
    BY DEF EventModMan
  <2> QED BY <1>4, <2>1, <2>2 DEF Shape
<1>8. CallOK(next, arg'[t]) /\ next \in OutPCs
  BY <1>2, <1>4, <1>7, SettingOK DEF Setting
<1>9. stub' \in [Threads -> Seq(Threads)]
  BY <1>3, <1>4 DEF Shape
<1> HIDE DEF next, x
<1>10. OwnStep(t, next)
  BY <1>2, <1>3, <1>4, <1>5, <1>6, <1>7, <1>8, <1>9 DEF OwnStep, Shape
<1> QED BY <1>1, <1>2, <1>3, <1>10, PlainStep

\* SetNoPrioCalc fixes the setter's priority, if it has somebody to wake.
LEMMA SetNoPrioCalcInv ==
  ASSUME Inv, NEW t \in Threads, SetNoPrioCalc(t)
  PROVE  Inv'
<1> DEFINE next == IF stub[t] = << >> THEN "k_return" ELSE "m_boost"
<1>1. Runs(t, "m_prio")
  BY RunsNow DEF SetNoPrioCalc
<1>2. /\ ~sched.live[t] /\ arg[t].tgt = NoThread /\ arg[t].remain \in Priority
      /\ CallAt(next, arg[t].call) /\ \A h : Ends(h, next, arg[t].call, now)
  BY <1>1, SettingFacts DEF Setting
<1>3. /\ sched' = sched /\ now' = now /\ pc' = [pc EXCEPT ![t] = next] /\ stub' = stub
      /\ arg' = arg /\ obj' = obj
  BY DEF SetNoPrioCalc, Goto
<1>4. Shape
  BY DEF Inv
<1>6. /\ th' \in [Threads -> ThreadType] /\ th'[t].pendWakeup = th[t].pendWakeup
      /\ \A u \in Threads \ {t} : th'[u] = th[u]
  <2> DEFINE x == th[t]
             y == [x EXCEPT !.noPrioCalc = TRUE]
  <2>1. x \in ThreadType
    BY <1>4 DEF Shape
  <2>2. y \in ThreadType /\ SameWait(x, y)
    BY <2>1, ThreadChanges, ThreadFields
  <2>3. th' = th \/ th' = [th EXCEPT ![t] = y]
    BY DEF SetNoPrioCalc
  <2>4. CASE th' = th
    BY <1>4, <2>4 DEF Shape
  <2>5. CASE th' = [th EXCEPT ![t] = y]
    BY <1>4, <2>2, <2>5, OneThread DEF Shape, SameWait
  <2> QED BY <2>3, <2>4, <2>5
<1>7. CallOK(next, arg[t]) /\ next \in OutPCs
  BY <1>2, SettingOK DEF Setting
<1> HIDE DEF next
<1>9. OwnStep(t, next)
  BY <1>2, <1>3, <1>4, <1>6, <1>7, SameQueues DEF OwnStep, Shape
<1> QED BY <1>1, <1>2, <1>3, <1>9, PlainStep

\* BoostSelf raises the setter.
LEMMA BoostSelfInv ==
  ASSUME Inv, NEW t \in Threads, BoostSelf(t)
  PROVE  Inv'
<1>1. Runs(t, "m_boost")
  BY RunsNow DEF BoostSelf
<1>2. /\ ~sched.live[t] /\ arg[t].tgt = NoThread /\ arg[t].remain \in Priority
      /\ CallAt("m_wake", arg[t].call) /\ \A h : Ends(h, "m_wake", arg[t].call, now)
  BY <1>1, SettingFacts DEF Setting
<1>3. /\ now' = now /\ pc' = [pc EXCEPT ![t] = "m_wake"] /\ stub' = stub
      /\ arg' = arg /\ obj' = obj /\ th' = th
  BY DEF BoostSelf, Goto
<1>4. Shape /\ SleepOK(sched)
  BY DEF Inv
<1>7. CallOK("m_wake", arg[t]) /\ "m_wake" \in OutPCs
  BY <1>2, SettingOK DEF Setting
<1>9. OwnStep(t, "m_wake")
  BY <1>2, <1>3, <1>4, <1>7, SameQueues DEF OwnStep, Shape
<1>10. CASE sched' = sched
  BY <1>1, <1>2, <1>9, <1>10, PlainStep
<1>11. CASE sched' = [sched EXCEPT !.cprio[t] = arg[t].remain]
  <2>1. sched \in SleepType /\ sched.cprio \in Priorities
    BY <1>4, OKFields
  <2>2. [sched.cprio EXCEPT ![t] = arg[t].remain] \in Priorities
    BY <1>2, <2>1 DEF Priorities
  <2>3. sched' = [sched EXCEPT !.cprio = [sched.cprio EXCEPT ![t] = arg[t].remain]]
    BY <1>11
  <2>4. /\ sched' \in SleepType /\ SameSleep(sched, sched') /\ sched'.rs = sched.rs
        /\ sched'.running = sched.running /\ sched'.runq = sched.runq
        /\ sched'.cprio = [sched.cprio EXCEPT ![t] = arg[t].remain]
    BY ONLY <2>1, <2>2, <2>3 DEF SleepType, SameSleep
  <2>5. \A u \in Threads \ {t} : sched'.cprio[u] = sched.cprio[u]
    BY <2>1, <2>4 DEF Priorities
  <2>6. RunChange(sched, sched', t) /\ sched'.rs = sched.rs
    BY <1>1, <1>4, <2>4, <2>5, RunningPrioDoes DEF Runs
  <2> QED BY <1>1, <1>2, <1>9, <2>6, RunStep DEF Runs
<1> QED BY <1>10, <1>11 DEF BoostSelf

\* ClearNoPrioCalc.
LEMMA ClearNoPrioCalcInv ==
  ASSUME Inv, NEW t \in Threads, ClearNoPrioCalc(t)
  PROVE  Inv'
<1> DEFINE next == IF arg[t].remain < arg[t].oldPrio THEN "m_adjust" ELSE "k_return"
<1>1. Runs(t, "m_clear")
  BY RunsNow DEF ClearNoPrioCalc
<1>2. /\ ~sched.live[t] /\ arg[t].tgt = NoThread /\ arg[t].remain \in Priority
      /\ CallAt(next, arg[t].call) /\ \A h : Ends(h, next, arg[t].call, now)
  BY <1>1, SettingFacts DEF Setting
<1>3. /\ sched' = sched /\ now' = now /\ pc' = [pc EXCEPT ![t] = next] /\ stub' = stub
      /\ arg' = arg /\ obj' = obj
  BY DEF ClearNoPrioCalc, Goto
<1>4. Shape
  BY DEF Inv
<1>6. /\ th' \in [Threads -> ThreadType] /\ th'[t].pendWakeup = th[t].pendWakeup
      /\ \A u \in Threads \ {t} : th'[u] = th[u]
  <2> DEFINE x == th[t]
             y == [x EXCEPT !.noPrioCalc = FALSE]
  <2>1. x \in ThreadType
    BY <1>4 DEF Shape
  <2>2. y \in ThreadType /\ SameWait(x, y)
    BY <2>1, ThreadChanges, ThreadFields
  <2>3. th' = [th EXCEPT ![t] = y]
    BY DEF ClearNoPrioCalc
  <2> QED BY <1>4, <2>2, <2>3, OneThread DEF Shape, SameWait
<1>7. CallOK(next, arg[t]) /\ next \in OutPCs
  BY <1>2, SettingOK DEF Setting
<1> HIDE DEF next
<1>9. OwnStep(t, next)
  BY <1>2, <1>3, <1>4, <1>6, <1>7, SameQueues DEF OwnStep, Shape
<1> QED BY <1>1, <1>2, <1>3, <1>9, PlainStep

\* AdjustPrioDown.
LEMMA AdjustPrioDownInv ==
  ASSUME Inv, NEW t \in Threads, AdjustPrioDown(t)
  PROVE  Inv'
<1>1. Runs(t, "m_adjust")
  BY RunsNow DEF AdjustPrioDown
<1>2. /\ ~sched.live[t] /\ arg[t].tgt = NoThread
      /\ CallAt("k_return", arg[t].call) /\ \A h : Ends(h, "k_return", arg[t].call, now)
  BY <1>1, SettingFacts DEF Setting
<1>3. /\ now' = now /\ pc' = [pc EXCEPT ![t] = "k_return"] /\ stub' = stub /\ th' = th
      /\ arg' = arg /\ obj' = obj /\ sched' = SetRunningPrio(sched, OwnedPrio(t))
  BY DEF AdjustPrioDown, Goto
<1>4. Shape /\ SleepOK(sched)
  BY DEF Inv
<1>7. CallOK("k_return", arg[t]) /\ "k_return" \in OutPCs
  BY <1>2, SettingOK DEF Setting
<1>9. OwnStep(t, "k_return")
  BY <1>2, <1>3, <1>4, <1>7, SameQueues DEF OwnStep, Shape
<1>10. RunChange(sched, sched', t) /\ sched'.rs = sched.rs
  BY <1>1, <1>3, <1>4, PrioFacts, SetRunningPrioDoes DEF Runs
<1> QED BY <1>1, <1>2, <1>9, <1>10, RunStep DEF Runs

\* LaterLinkCritMut.
LEMMA LinkedIs ==
  ASSUME Shape, NEW x \in ObjectShape
  PROVE  Changed(x, Linked(x), x.q, x.owner) /\ Changed(x, ReprioCritMut(x), x.q, x.owner)
<1> DEFINE b == TRUE
           p == HeadPrio(x.q)
<1>1. b \in BOOLEAN /\ p \in Priority
  BY PrioFacts, ObjectFields
<1>2. Linked(x) = [x EXCEPT !.bListed = b, !.bListedPrio = p]
  BY DEF Linked
<1> HIDE DEF b, p
<1>3. Changed(x, Linked(x), x.q, x.owner)
  BY <1>1, <1>2 DEF Changed, ObjectShape
<1>4. Changed(x, x, x.q, x.owner)
  BY DEF Changed
<1> QED BY <1>3, <1>4 DEF ReprioCritMut

\* A KCall of a wait that touches its mutex alone.
LEMMA CritStep ==
  ASSUME Inv, NEW t \in Threads, NEW p \in {"w_link", "w_reprio"}, Runs(t, p),
         NEW y, Changed(obj[arg[t].crit], y, obj[arg[t].crit].q, obj[arg[t].crit].owner),
         obj' = obj \/ obj' = [obj EXCEPT ![arg[t].crit] = y],
         pc' = [pc EXCEPT ![t] = "w_dequeue"], sched' = sched, now' = now, stub' = stub, arg' = arg,
         th' = th
  PROVE  Inv'
<1>1. /\ arg[t].tgt = NoThread /\ ~sched.live[t] /\ CallAt(p, arg[t].call)
      /\ CallOK(p, arg[t]) /\ Ends(th[t], p, arg[t].call, now) /\ arg[t].call.call = "wait"
  BY RunPCs DEF Runs, InWait, ThreadOK, TimesOK, CallAt, WaitPCs
<1>2. Shape /\ arg[t].crit \in Objects
  BY <1>1 DEF Inv, CallOK, OfKind
<1>3. /\ obj' \in [Objects -> ObjectShape]
      /\ \A o \in Objects : obj'[o].q = obj[o].q /\ obj'[o].owner = obj[o].owner
  BY <1>2, OneObjectSame DEF Shape
<1>4. CallOK("w_dequeue", arg[t])
  BY <1>1, RunPCs DEF CallOK, CallAt, WaitPCs, SignalPCs, MutexPCs, SemPCs
<1>5. Ends(th[t], "w_dequeue", arg[t].call, now)
  BY <1>1 DEF Ends
<1>6. OwnStep(t, "w_dequeue")
  BY <1>1, <1>2, <1>3, <1>4, <1>5, SameQueues, Outs DEF OwnStep, Shape
<1> QED BY <1>1, <1>6, PlainStep

\* LaterLinkCritMut keeps the invariant: the mutex is listed, nobody moves.
LEMMA LaterLinkInv ==
  ASSUME Inv, NEW t \in Threads, LaterLinkCritMut(t)
  PROVE  Inv'
<1>1. Runs(t, "w_link")
  BY RunsNow DEF LaterLinkCritMut
<1>2. arg[t].crit \in Objects /\ Shape
  BY <1>1 DEF Inv, Runs, ThreadOK, CallOK, OfKind
<1> DEFINE x == obj[arg[t].crit]
           y == Linked(x)
<1>3. Changed(x, y, x.q, x.owner)
  BY <1>2, LinkedIs DEF Shape
<1>4. /\ obj' = obj \/ obj' = [obj EXCEPT ![arg[t].crit] = y]
      /\ pc' = [pc EXCEPT ![t] = "w_dequeue"]
      /\ sched' = sched /\ now' = now /\ stub' = stub /\ arg' = arg /\ th' = th
  BY DEF LaterLinkCritMut, Goto
<1> HIDE DEF y
<1> QED BY <1>1, <1>3, <1>4, CritStep

\* DoReprioMutex.
LEMMA DoReprioInv ==
  ASSUME Inv, NEW t \in Threads, DoReprioMutex(t)
  PROVE  Inv'
<1>1. Runs(t, "w_reprio")
  BY RunsNow DEF DoReprioMutex
<1>2. arg[t].crit \in Objects /\ Shape
  BY <1>1 DEF Inv, Runs, ThreadOK, CallOK, OfKind
<1> DEFINE x == obj[arg[t].crit]
           y == ReprioCritMut(x)
<1>3. Changed(x, y, x.q, x.owner)
  BY <1>2, LinkedIs DEF Shape
<1>4. /\ obj' = obj \/ obj' = [obj EXCEPT ![arg[t].crit] = y]
      /\ pc' = [pc EXCEPT ![t] = "w_dequeue"]
      /\ sched' = sched /\ now' = now /\ stub' = stub /\ arg' = arg /\ th' = th
  BY DEF DoReprioMutex, Goto
<1> HIDE DEF y
<1> QED BY <1>1, <1>3, <1>4, CritStep

\* A sleep is over, or has to be resumed.
LEMMA SleepWokenInv ==
  ASSUME Inv, NEW t \in Threads, SleepWoken(t)
  PROVE  Inv'
<1> DEFINE next == IF t \in sched.needsleep THEN "z_put" ELSE "k_return"
<1>1. Runs(t, "z_woken")
  BY RunsNow DEF SleepWoken
<1>2. /\ arg[t].tgt = NoThread /\ ~sched.live[t] /\ CallAt("z_woken", arg[t].call)
      /\ arg[t].call.call = "sleep"
      /\ t \notin sched.needsleep => now >= th[t].pendWakeup
  BY <1>1, RunPCs DEF Runs, InWait, ThreadOK, TimesOK, CallAt
<1>3. /\ sched' = sched /\ now' = now /\ pc' = [pc EXCEPT ![t] = next] /\ stub' = stub
      /\ arg' = arg /\ obj' = obj /\ th' = th
  BY DEF SleepWoken, Goto
<1>4. CallOK(next, arg[t]) /\ next \in OutPCs
  BY <1>2, Outs, RunPCs DEF CallOK, CallAt, WaitPCs, SignalPCs, MutexPCs, SemPCs
<1>5. Ends(th[t], next, arg[t].call, now)
  BY <1>2 DEF Ends
<1> HIDE DEF next
<1>6. OwnStep(t, next)
  BY <1>2, <1>3, <1>4, <1>5, SameQueues DEF OwnStep, Shape, Inv
<1> QED BY <1>1, <1>2, <1>3, <1>6, PlainStep

\* Sleep(0).
LEMMA YieldInv ==
  ASSUME Inv, NEW t \in Threads, Yield(t)
  PROVE  Inv'
<1>1. Runs(t, "yield")
  BY RunsNow DEF Yield
<1>2. /\ arg[t].tgt = NoThread /\ ~sched.live[t] /\ CallAt("yield", arg[t].call)
      /\ arg[t].call.call = "sleep" /\ ~(arg[t].call.time > 0)
  BY <1>1, RunPCs DEF Runs, InWait, CallAt, INFINITE
<1>3. /\ sched' = ThreadYield(sched) /\ now' = now /\ pc' = [pc EXCEPT ![t] = "k_return"]
      /\ stub' = stub /\ arg' = arg /\ obj' = obj /\ th' = th
  BY DEF Yield, Goto
<1>4. CallOK("k_return", arg[t])
  BY <1>2, Outs, CallStays, SMTT(30) DEF OtherPCs
<1>5. Ends(th[t], "k_return", arg[t].call, now)
  BY <1>2 DEF Ends
<1>6. OwnStep(t, "k_return")
  BY <1>2, <1>3, <1>4, <1>5, SameQueues, Outs DEF OwnStep, Shape, Inv
<1>7. RunChange(sched, sched', t) /\ sched'.rs[t] = "RUNNABLE"
  BY <1>1, <1>3, ThreadYieldDoes DEF Inv, Runs
<1> QED BY <1>1, <1>2, <1>6, <1>7, RunStep

(***************************************************************************)
(* Signals.                                                                *)
(***************************************************************************)
\* A thread whose wait a signal ends.
LEMMA Delivered ==
  ASSUME Inv, NEW w \in Threads, sched.live[w], NEW o \in Objects,
         sched' = Deliver(sched, w), th' = Signalled(w, o)
  PROVE  /\ Marked(sched, sched', w) /\ th' \in [Threads -> ThreadType]
         /\ Gets(th[w], th'[w], sched.wait[w] = "BLOCKED", o)
         /\ \A u \in Threads \ {w} : th'[u] = th[u]
         /\ ThreadOK(sched', w, th'[w], pc[w], arg[w], now)
         /\ CrabOK(sched', w, th'[w].pendWakeup)
<1>1. /\ SleepOK(sched) /\ ThreadOK(sched, w, th[w], pc[w], arg[w], now) /\ Shape
      /\ CrabOK(sched, w, th[w].pendWakeup) /\ BedsOK(sched)
  BY OKFields DEF Inv
<1>2. sched.wait[w] = "BLOCKED" => sched.rs[w] = "BLOCKED"
  BY <1>1 DEF ThreadOK, OpenOK
<1>3. Marked(sched, sched', w)
  BY <1>1, <1>2, DeliverDoes DEF Deliver
<1>4. /\ th' \in [Threads -> ThreadType] /\ \A u \in Threads \ {w} : th'[u] = th[u]
      /\ Gets(th[w], th'[w], sched.wait[w] = "BLOCKED", o)
  <2> DEFINE x == th[w]
  <2>1. x \in ThreadType /\ o \in Outcome
    BY <1>1 DEF Shape, Outcome
  <2>2. CASE sched.wait[w] = "BLOCKED"
    <3> DEFINE y == [x EXCEPT !.ret = o]
    <3>1. y \in ThreadType /\ Gets(x, y, TRUE, o)
      BY <2>1 DEF ThreadType, Gets
    <3>2. th' = [th EXCEPT ![w] = y]
      BY <2>2 DEF Signalled
    <3> QED BY <1>1, <2>2, <3>1, <3>2, OneThread DEF Shape
  <2>3. CASE sched.wait[w] # "BLOCKED"
    <3> DEFINE y == [x EXCEPT !.pendReturn = o]
    <3>1. y \in ThreadType /\ Gets(x, y, FALSE, o)
      BY <2>1 DEF ThreadType, Gets
    <3>2. th' = [th EXCEPT ![w] = y]
      BY <2>3 DEF Signalled
    <3> QED BY <1>1, <2>3, <3>1, <3>2, OneThread DEF Shape
  <2> QED BY <2>2, <2>3
<1>5. ThreadOK(sched', w, th'[w], pc[w], arg[w], now)
  BY <1>1, <1>3, <1>4, MarkedOK
<1>6. CrabOK(sched', w, th'[w].pendWakeup)
  <2>1. CrabKept(sched, sched', w)
    BY <1>3 DEF Marked, CrabsKept
  <2> QED BY <1>1, <1>4, <2>1, CrabStaysOK DEF Gets
<1> QED BY <1>3, <1>4, <1>5, <1>6

\* The KCall that signals.
Wakes(t, w, o, wakes, done) ==
  /\ sched' = Deliver(sched, w) /\ th' = Signalled(w, o) /\ now' = now
  /\ wakes \in DOMAIN AfterRun /\ done \in OutPCs
  /\ pc' = [pc EXCEPT ![t] = IF ToWake(w) = NoThread THEN done ELSE wakes]
  /\ stub' \in [Threads -> Seq(Threads)] /\ obj' \in [Objects -> ObjectShape] /\ OwnersNext
  /\ ~sched'.live[w] => QueuesKept
  /\ arg' \in [Threads -> ArgType] /\ \A u \in Threads \ {t} : arg'[u] = arg[u]
  /\ arg[t].tgt = NoThread /\ arg'[t].tgt = ToWake(w)
  /\ CallOK(pc'[t], arg'[t]) /\ Ends(th[t], pc'[t], arg'[t].call, now)

\* The KCall that signals keeps the invariant: its waiter is woken or marked.
LEMMA WakeStep ==
  ASSUME Inv, NEW t \in Threads, NEW p, Runs(t, p), ~sched.live[t], NEW w \in Threads, sched.live[w],
         NEW o \in Objects, NEW wakes, NEW done, Wakes(t, w, o, wakes, done)
  PROVE  Inv'
<1>1. t # w
  OBVIOUS
<1>2. /\ Marked(sched, sched', w) /\ th' \in [Threads -> ThreadType]
      /\ Gets(th[w], th'[w], sched.wait[w] = "BLOCKED", o)
      /\ \A u \in Threads \ {w} : th'[u] = th[u]
      /\ ThreadOK(sched', w, th'[w], pc[w], arg[w], now)
      /\ CrabOK(sched', w, th'[w].pendWakeup)
  BY Delivered DEF Wakes
<1>3. /\ SleepOK(sched') /\ CrabsKept(sched, sched') /\ ~sched'.live[w]
      /\ \A u \in Threads \ {w} : ExactSame(sched, sched', u)
      /\ sched.wait[w] # "BLOCKED" => sched'.rs[w] = sched.rs[w]
  BY <1>2 DEF Marked
<1>4. Shape /\ BedsOK(sched) /\ DueOK(sched, now)
  BY OKFields DEF Inv
<1>5. DueOK(sched', now)
  BY <1>2, <1>4 DEF Marked
<1> DEFINE next == IF ToWake(w) = NoThread THEN done ELSE wakes
<1>6. /\ next \in PCs /\ next \notin InWait \union {"w_config", "z_woken", "w_boost"}
      /\ pc'[t] = next /\ pc' \in [Threads -> PCs] /\ \A u \in Threads \ {t} : pc'[u] = pc[u]
  <2>1. /\ done \in PCs /\ done \notin InWait \union {"w_config", "z_woken", "w_boost"}
        /\ wakes \in PCs /\ wakes \notin InWait \union {"w_config", "z_woken", "w_boost"}
    BY RunPCs DEF Wakes, OutPCs, InWait, PCs, SignalPCs, MutexPCs, SemPCs
  <2>2. pc' = [pc EXCEPT ![t] = next]
    BY DEF Wakes
  <2> QED BY <1>4, <2>1, <2>2 DEF Shape
<1> HIDE DEF next
<1>7. ShapeNext /\ TargetsKept
  BY <1>2, <1>4, <1>6 DEF Wakes, ShapeNext, TargetsKept, Shape
<1>8. World
  BY <1>3, <1>4, <1>5, <1>7 DEF World, Wakes, Shape
<1>9. Good(t)
  <2>1. ExactSame(sched, sched', t) /\ CrabKept(sched, sched', t)
    BY <1>1, <1>3 DEF CrabsKept
  <2>2. /\ sched'.rs[t] = "RUNNING" /\ ~Queued(sched', t) /\ ~Hangs(sched', t) /\ ~sched'.live[t]
    BY <2>1 DEF ExactSame, SameThread, Runs
  <2>3. ThreadOK(sched', t, th'[t], pc'[t], arg'[t], now')
    BY <1>1, <1>2, <1>6, <2>2, UpOK DEF Wakes
  <2>4. CrabOK(sched', t, th'[t].pendWakeup)
    BY <1>1, <1>2, <1>4, <2>1, CrabStaysOK DEF Runs
  <2> QED BY <1>6, <2>2, <2>3, <2>4 DEF Good
<1>10. Good(w)
  <2>1. pc'[w] = pc[w] /\ arg'[w] = arg[w] /\ now' = now
    BY <1>1, <1>6 DEF Wakes
  <2>2. sched.wait[w] = "BLOCKED" => arg'[t].tgt = w
    BY DEF Wakes, ToWake
  <2> QED BY <1>2, <1>3, <2>1, <2>2 DEF Good
<1>11. ASSUME NEW u \in Threads \ {t, w}
       PROVE  Apart(u)
  BY <1>2, <1>3, <1>6 DEF Apart, Wakes, Passes, ExactSame, CrabsKept
<1> QED BY <1>8, <1>9, <1>10, <1>11, Assemble

\* A queue loses its first.
LEMMA QueueHead ==
  ASSUME NEW q \in Seq(Threads), q # << >>
  PROVE  /\ Head(q) \in Threads /\ Tail(q) \in Seq(Threads)
         /\ \A u \in ToSet(q) : u # Head(q) => u \in ToSet(Tail(q))
<1>1. /\ Head(q) = q[1] /\ Head(q) \in Threads /\ Tail(q) \in Seq(Threads)
      /\ Len(Tail(q)) = Len(q) - 1 /\ Len(q) \in Nat /\ \A i \in 1 .. Len(q) - 1 : Tail(q)[i] = q[i + 1]
  BY HeadTailProperties, LenProperties
<1>2. ASSUME NEW u \in ToSet(q), u # Head(q)
      PROVE  u \in ToSet(Tail(q))
  <2>1. PICK i \in 1 .. Len(q) : u = q[i]
    BY Members
  <2>2. i # 1 /\ i - 1 \in 1 .. Len(Tail(q)) /\ Tail(q)[i - 1] = u
    BY <1>1, <1>2, <2>1
  <2> QED BY <1>1, <2>2, Members
<1> QED BY <1>1, <1>2

\* An object's first waiter leaves, and its wait is over.
LEMMA PopKeeps ==
  ASSUME Inv, NEW o \in Objects, obj[o].q # << >>, NEW y \in ObjectShape,
         y.q = Tail(obj[o].q), y.owner = obj[o].owner \/ y.owner \in Threads,
         obj' = [obj EXCEPT ![o] = y], ~sched'.live[Head(obj[o].q)]
  PROVE  obj' \in [Objects -> ObjectShape] /\ QueuesKept /\ OwnersNext
<1>1. obj \in [Objects -> ObjectShape] /\ obj[o].q \in Seq(Threads)
  BY ObjectFields DEF Inv, Shape
<1>3. obj' \in [Objects -> ObjectShape] /\ obj'[o] = y /\ \A m \in Objects \ {o} : obj'[m] = obj[m]
  BY <1>1
<1>4. QueuesKept
  BY <1>1, <1>3, QueueHead DEF QueuesKept
<1>5. \A u \in Threads : u # NoThread
  BY NoThreadAssumption
<1>6. OwnersNext
  <2> SUFFICES ASSUME NEW m \in Objects, Kind[m] = "mutex", obj'[m].q # << >>
               PROVE  obj'[m].owner # NoThread
    BY DEF OwnersNext
  <2>1. obj[m].q # << >> => obj[m].owner # NoThread
    BY DEF Inv, Owners
  <2> QED BY <1>3, <1>5, <2>1
<1> QED BY <1>3, <1>4, <1>6

\* The target of a call is set.
LEMMA TargetSet ==
  ASSUME Shape, NEW t \in Threads, NEW v \in Threads \union {NoThread},
         arg' = [arg EXCEPT ![t].tgt = v]
  PROVE  /\ arg' \in [Threads -> ArgType] /\ \A u \in Threads \ {t} : arg'[u] = arg[u]
         /\ arg'[t].tgt = v /\ arg'[t].call = arg[t].call /\ arg'[t].remain = arg[t].remain
         /\ arg'[t].crit = arg[t].crit
<1>1. arg[t] \in ArgType
  BY DEF Shape
<1>2. /\ [arg[t] EXCEPT !.tgt = v] \in ArgType /\ [arg[t] EXCEPT !.tgt = v].tgt = v
      /\ [arg[t] EXCEPT !.tgt = v].call = arg[t].call
      /\ [arg[t] EXCEPT !.tgt = v].remain = arg[t].remain
      /\ [arg[t] EXCEPT !.tgt = v].crit = arg[t].crit
  BY <1>1 DEF ArgType
<1> QED BY <1>2 DEF Shape

\* Where a call goes on: it has somebody to wake exactly at MakeRunIfNeeded.
LEMMA NextOK ==
  ASSUME NEW a, NEW p, CallAt(p, a.call), p \notin {"user", "w_link", "w_boost", "w_reprio"},
         a.tgt # NoThread <=> p \in DOMAIN AfterRun,
         p \in {"m_prio", "m_boost", "m_wake", "m_run", "m_clear", "m_adjust"} => a.remain \in Priority
  PROVE  CallOK(p, a)
BY DEF CallOK

\* A proxy of a wait that is over is dropped.
LEMMA DropStep ==
  ASSUME Inv, NEW t \in Threads, NEW p \in OutPCs, Runs(t, p), ~sched.live[t],
         NEW o \in Objects, obj[o].q # << >>, ~sched.live[Head(obj[o].q)],
         obj' = [obj EXCEPT ![o].q = Tail(@)], sched' = sched, th' = th, pc' = pc, arg' = arg,
         stub' = stub, now' = now
  PROVE  Inv'
<1>1. Shape
  BY DEF Inv
<1> DEFINE x == obj[o]
           q == Tail(x.q)
           y == [x EXCEPT !.q = q]
<1>2. x \in ObjectShape /\ q \in Seq(Threads)
  BY <1>1, ObjectFields, QueueHead DEF Shape
<1> HIDE DEF q
<1>3. Changed(x, y, q, x.owner)
  BY <1>2, ObjectChanges, ObjectFields
<1>4. obj' = [obj EXCEPT ![o] = y]
  BY DEF q
<1> HIDE DEF y
<1>5. obj' \in [Objects -> ObjectShape] /\ QueuesKept /\ OwnersNext
  <2>1. y.q = Tail(obj[o].q) /\ y.owner = obj[o].owner /\ y \in ObjectShape
    BY <1>3 DEF Changed, q
  <2> QED BY <1>4, <2>1, PopKeeps
<1>6. CallOK(p, arg[t]) /\ Ends(th[t], p, arg[t].call, now) /\ pc[t] = p
  BY DEF Runs, ThreadOK, TimesOK
<1>7. OwnStep(t, p)
  BY <1>1, <1>5, <1>6 DEF OwnStep, Shape
<1> QED BY <1>7, PlainStep

\* EventModAuto.
LEMMA EventModAutoInv ==
  ASSUME Inv, NEW t \in Threads, EventModAuto(t)
  PROVE  Inv'
<1> DEFINE o == Obj(t)
           x == obj[o]
           w == Head(x.q)
<1>1. Runs(t, "s_auto")
  BY RunsNow DEF EventModAuto
<1>2. /\ Op(t).call \in {"set", "pulse", "reset"} /\ o \in Objects /\ arg[t].tgt = NoThread
      /\ ~sched.live[t] /\ arg[t].call = Op(t) /\ CallAt("s_auto", arg[t].call)
  BY <1>1, CallIs, RunPCs DEF Runs, InWait, SignalPCs
<1>3. Shape /\ x \in ObjectShape /\ x.q \in Seq(Threads)
  BY <1>2, ObjectFields DEF Inv, Shape
<1>4. CallAt("k_return", arg[t].call) /\ CallAt("s_run", arg[t].call)
  BY <1>2 DEF CallAt, WaitPCs, SignalPCs, MutexPCs, SemPCs
<1>5. \A h : Ends(h, "k_return", arg[t].call, now) /\ Ends(h, "s_run", arg[t].call, now)
  BY <1>2, EndsOther
<1>6. now' = now /\ stub' = stub
  BY DEF EventModAuto
<1>7. CASE x.q = << >>
  <2> DEFINE b == (Op(t).call = "set")
             y == [x EXCEPT !.state = b]
  <2>1. /\ obj' = [obj EXCEPT ![o] = y] /\ pc' = [pc EXCEPT ![t] = "k_return"]
        /\ sched' = sched /\ th' = th /\ arg' = arg
    BY <1>7 DEF EventModAuto, Goto
  <2>2. b \in BOOLEAN
    OBVIOUS
  <2> HIDE DEF b
  <2>3. Changed(x, y, x.q, x.owner)
    BY <1>3, <2>2, ObjectChanges
  <2> HIDE DEF y
  <2>4. /\ obj' \in [Objects -> ObjectShape]
        /\ \A m \in Objects : obj'[m].q = obj[m].q /\ obj'[m].owner = obj[m].owner
    BY <1>2, <1>3, <2>1, <2>3, OneObjectSame DEF Shape
  <2>5. CallOK("k_return", arg[t])
    BY <1>2, <1>4, RunPCs, NextOK
  <2>6. OwnStep(t, "k_return")
    BY <1>3, <1>5, <1>6, <2>1, <2>4, <2>5, SameQueues, Outs DEF OwnStep, Shape
  <2> QED BY <1>1, <1>2, <2>1, <2>6, PlainStep
<1>8. CASE x.q # << >> /\ ~sched.live[w]
  <2>1. obj' = [obj EXCEPT ![o].q = Tail(@)] /\ sched' = sched /\ th' = th /\ pc' = pc /\ arg' = arg
    BY <1>8 DEF EventModAuto
  <2> QED BY <1>1, <1>2, <1>6, <1>8, <2>1, DropStep, Outs
<1>9. CASE x.q # << >> /\ sched.live[w]
  <2> DEFINE b == FALSE
             q == Tail(x.q)
             y == [x EXCEPT !.q = q, !.state = b]
  <2>1. /\ obj' = [obj EXCEPT ![o] = y] /\ Wake(t, w, o, "s_run", "k_return")
    BY <1>9 DEF EventModAuto
  <2>2. b \in BOOLEAN /\ q \in Seq(Threads) /\ w \in Threads
    BY <1>3, <1>9, QueueHead
  <2> HIDE DEF b, q
  <2>3. Changed(x, y, q, x.owner)
    BY <1>3, <2>2, ObjectFields, ObjectChanges
  <2> HIDE DEF y
  <2>4. y.q = Tail(obj[o].q) /\ y.owner = obj[o].owner /\ y \in ObjectShape
    BY <2>3 DEF Changed, q
  <2> HIDE DEF w
  <2>5. /\ sched' = Deliver(sched, w) /\ th' = Signalled(w, o)
        /\ arg' = [arg EXCEPT ![t].tgt = ToWake(w)]
        /\ pc' = [pc EXCEPT ![t] = IF ToWake(w) = NoThread THEN "k_return" ELSE "s_run"]
    BY <2>1 DEF Wake, Goto
  <2>6. Marked(sched, sched', w)
    BY <1>2, <1>9, <2>2, <2>5, Delivered
  <2>7. obj' \in [Objects -> ObjectShape] /\ QueuesKept /\ OwnersNext
    BY <1>2, <1>9, <2>1, <2>4, <2>6, PopKeeps DEF Marked, w
  <2>12. ToWake(w) \in Threads \union {NoThread}
    BY <2>2 DEF ToWake
  <2>8. /\ arg' \in [Threads -> ArgType] /\ \A u \in Threads \ {t} : arg'[u] = arg[u]
        /\ arg'[t].tgt = ToWake(w) /\ arg'[t].call = arg[t].call
    BY <1>3, <2>5, <2>12, TargetSet
  <2>9. pc'[t] = (IF ToWake(w) = NoThread THEN "k_return" ELSE "s_run")
    BY <1>3, <2>5 DEF Shape
  <2>10. CallOK(pc'[t], arg'[t]) /\ Ends(th[t], pc'[t], arg'[t].call, now)
    BY <1>4, <1>5, <2>8, <2>9, RunPCs, NextOK
  <2>11. Wakes(t, w, o, "s_run", "k_return")
    BY <1>2, <1>3, <1>6, <2>5, <2>7, <2>8, <2>10, RunPCs, Outs DEF Wakes, Shape
  <2> QED BY <1>1, <1>2, <1>9, <2>2, <2>11, WakeStep
<1> QED BY <1>7, <1>8, <1>9

\* A KCall that signals and calls nothing but Wake for it.
LEMMA SignalStep ==
  ASSUME Inv, NEW t \in Threads, NEW p, Runs(t, p), ~sched.live[t], arg[t].tgt = NoThread,
         NEW w \in Threads, sched.live[w], NEW o \in Objects,
         NEW wakes \in DOMAIN AfterRun, NEW done \in OutPCs \ {"user", "w_link", "w_reprio"},
         Wake(t, w, o, wakes, done), now' = now, stub' \in [Threads -> Seq(Threads)],
         CallAt(wakes, arg[t].call), CallAt(done, arg[t].call),
         \A h : Ends(h, wakes, arg[t].call, now) /\ Ends(h, done, arg[t].call, now),
         {wakes, done} \intersect {"m_prio", "m_boost", "m_wake", "m_run", "m_clear", "m_adjust"} # {} =>
           arg[t].remain \in Priority,
         ~sched'.live[w] => obj' \in [Objects -> ObjectShape] /\ QueuesKept /\ OwnersNext
  PROVE  Inv'
<1>1. Shape
  BY DEF Inv
<1>2. /\ sched' = Deliver(sched, w) /\ th' = Signalled(w, o)
      /\ arg' = [arg EXCEPT ![t].tgt = ToWake(w)]
      /\ pc' = [pc EXCEPT ![t] = IF ToWake(w) = NoThread THEN done ELSE wakes]
  BY DEF Wake, Goto
<1>3. obj' \in [Objects -> ObjectShape] /\ QueuesKept /\ OwnersNext
  BY <1>2, Delivered DEF Marked
<1>4. ToWake(w) \in Threads \union {NoThread}
  BY DEF ToWake
<1>5. /\ arg' \in [Threads -> ArgType] /\ \A u \in Threads \ {t} : arg'[u] = arg[u]
      /\ arg'[t].tgt = ToWake(w) /\ arg'[t].call = arg[t].call /\ arg'[t].remain = arg[t].remain
  BY <1>1, <1>2, <1>4, TargetSet
<1>6. pc'[t] = (IF ToWake(w) = NoThread THEN done ELSE wakes)
  BY <1>1, <1>2 DEF Shape
<1>7. Ends(th[t], pc'[t], arg'[t].call, now)
  BY <1>5, <1>6
<1>8. CallOK(pc'[t], arg'[t])
  <2>1. wakes \notin {"user", "w_link", "w_boost", "w_reprio"}
    BY RunPCs
  <2>2. done \notin {"user", "w_link", "w_boost", "w_reprio"} /\ done \notin DOMAIN AfterRun
    BY DEF OutPCs
  <2>3. CallAt(pc'[t], arg'[t].call)
    BY <1>5, <1>6
  <2> QED BY <1>5, <1>6, <2>1, <2>2, <2>3, NextOK
<1>9. Wakes(t, w, o, wakes, done)
  BY <1>1, <1>2, <1>3, <1>5, <1>7, <1>8 DEF Wakes
<1> QED BY <1>9, WakeStep

\* Who waits for an interrupt event.
LEMMA IntrWaiterIs ==
  ASSUME NEW o, NEW w \in IntrWaiter(o)
  PROVE  w \in Threads /\ sched.live[w] /\ th[w].queued = <<o>>
BY DEF IntrWaiter, HasProxy

\* EventModIntr.
LEMMA EventModIntrInv ==
  ASSUME Inv, NEW t \in Threads, EventModIntr(t)
  PROVE  Inv'
<1> DEFINE o == Obj(t)
           x == obj[o]
<1>1. Runs(t, "s_intr")
  BY RunsNow DEF EventModIntr
<1>2. /\ Op(t).call \in {"set", "pulse", "reset"} /\ o \in Objects /\ arg[t].tgt = NoThread
      /\ ~sched.live[t] /\ arg[t].call = Op(t) /\ CallAt("s_intr", arg[t].call)
  BY <1>1, CallIs, RunPCs DEF Runs, InWait, SignalPCs
<1>3. Shape /\ x \in ObjectShape
  BY <1>2 DEF Inv, Shape
<1>4. CallAt("k_return", arg[t].call) /\ CallAt("s_run", arg[t].call)
  BY <1>2 DEF CallAt, WaitPCs, SignalPCs, MutexPCs, SemPCs
<1>5. \A h : Ends(h, "k_return", arg[t].call, now) /\ Ends(h, "s_run", arg[t].call, now)
  BY <1>2, EndsOther
<1> DEFINE b == IF IntrWaiter(o) = {} THEN (Op(t).call = "set") ELSE FALSE
           y == [x EXCEPT !.state = b]
<1>6. now' = now /\ stub' = stub /\ obj' = [obj EXCEPT ![o] = y]
  BY DEF EventModIntr
<1>7. /\ obj' \in [Objects -> ObjectShape]
      /\ \A m \in Objects : obj'[m].q = obj[m].q /\ obj'[m].owner = obj[m].owner
  <2>1. b \in BOOLEAN
    OBVIOUS
  <2> HIDE DEF b
  <2>2. Changed(x, y, x.q, x.owner)
    BY <1>3, <2>1, ObjectChanges
  <2> HIDE DEF y
  <2> QED BY <1>2, <1>3, <1>6, <2>2, OneObjectSame DEF Shape
<1>8. QueuesKept /\ OwnersNext
  BY <1>7, SameQueues
<1> HIDE DEF y, b
<1>9. CASE IntrWaiter(o) = {}
  <2>1. pc' = [pc EXCEPT ![t] = "k_return"] /\ sched' = sched /\ th' = th /\ arg' = arg
    BY <1>9 DEF EventModIntr, Goto
  <2>2. CallOK("k_return", arg[t])
    BY <1>2, <1>4, RunPCs, NextOK
  <2>3. OwnStep(t, "k_return")
    BY <1>3, <1>5, <1>6, <1>7, <1>8, <2>1, <2>2, Outs DEF OwnStep, Shape
  <2> QED BY <1>1, <1>2, <2>1, <2>3, PlainStep
<1>10. CASE IntrWaiter(o) # {}
  <2>1. PICK w \in IntrWaiter(o) : Wake(t, w, o, "s_run", "k_return")
    BY <1>10 DEF EventModIntr
  <2>2. w \in Threads /\ sched.live[w]
    BY IntrWaiterIs
  <2>3. "s_run" \in DOMAIN AfterRun /\ "k_return" \in OutPCs
    BY RunPCs, Outs
  <2>4. stub' \in [Threads -> Seq(Threads)]
    BY <1>3, <1>6 DEF Shape
  <2> QED BY <1>1, <1>2, <1>4, <1>5, <1>6, <1>7, <1>8, <2>1, <2>2, <2>3, <2>4, SignalStep
<1> QED BY <1>9, <1>10

\* WakeOneThreadFlat: the first of the detached waiters.
LEMMA WakeOneInv ==
  ASSUME Inv, NEW t \in Threads, WakeOneThreadFlat(t)
  PROVE  Inv'
<1> DEFINE w == Head(stub[t])
<1>1. Runs(t, "m_wake")
  BY RunsNow DEF WakeOneThreadFlat
<1>2. /\ ~sched.live[t] /\ arg[t].tgt = NoThread /\ Obj(t) \in Objects /\ arg[t].remain \in Priority
      /\ \A q \in Setting : CallAt(q, arg[t].call) /\ CallAt("m_run", arg[t].call)
      /\ \A h, q : q \in Setting \union {"m_run"} => Ends(h, q, arg[t].call, now)
  BY <1>1, SettingFacts DEF Setting
<1>3. now' = now /\ obj' = obj
  BY DEF WakeOneThreadFlat
<1>4. Shape /\ stub[t] \in Seq(Threads)
  BY DEF Inv, Shape
<1>5. QueuesKept /\ OwnersNext
  BY <1>3, SameQueues
<1>6. CASE stub[t] = << >>
  <2>1. /\ pc' = [pc EXCEPT ![t] = "m_clear"] /\ sched' = sched /\ th' = th /\ arg' = arg
        /\ stub' = stub
    BY <1>6 DEF WakeOneThreadFlat, Goto
  <2>2. CallOK("m_clear", arg[t]) /\ "m_clear" \in OutPCs
    BY <1>2, SettingOK DEF Setting
  <2>3. OwnStep(t, "m_clear")
    BY <1>2, <1>3, <1>4, <1>5, <2>1, <2>2 DEF OwnStep, Shape, Setting
  <2> QED BY <1>1, <1>2, <2>1, <2>3, PlainStep
<1>7. CASE stub[t] # << >>
  <2>1. stub' = [stub EXCEPT ![t] = Tail(stub[t])] /\ w \in Threads
    BY <1>4, <1>7, QueueHead DEF WakeOneThreadFlat
  <2>2. stub' \in [Threads -> Seq(Threads)]
    BY <1>4, <1>7, <2>1, QueueHead DEF Shape
  <2>3. CASE ~sched.live[w]
    <3>1. sched' = sched /\ th' = th /\ pc' = pc /\ arg' = arg
      BY <1>7, <2>3 DEF WakeOneThreadFlat
    <3>2. CallOK("m_wake", arg[t]) /\ "m_wake" \in OutPCs
      BY <1>2, SettingOK DEF Setting
    <3>3. pc' = [pc EXCEPT ![t] = "m_wake"]
      BY <1>1, <1>4, <3>1 DEF Runs, Shape
    <3>4. OwnStep(t, "m_wake")
      BY <1>2, <1>3, <1>4, <1>5, <2>2, <3>1, <3>2, <3>3 DEF OwnStep, Shape, Setting
    <3> QED BY <1>1, <1>2, <3>1, <3>4, PlainStep
  <2>4. CASE sched.live[w]
    <3>1. Wake(t, w, Obj(t), "m_run", "m_wake")
      BY <1>7, <2>4 DEF WakeOneThreadFlat
    <3>2. "m_run" \in DOMAIN AfterRun /\ "m_wake" \in OutPCs
      BY RunPCs, Outs
    <3>3. CallAt("m_run", arg[t].call) /\ CallAt("m_wake", arg[t].call)
          /\ \A h : Ends(h, "m_run", arg[t].call, now) /\ Ends(h, "m_wake", arg[t].call, now)
      BY <1>2 DEF Setting
    <3>4. obj' \in [Objects -> ObjectShape]
      BY <1>3, <1>4 DEF Shape
    <3> HIDE DEF w
    <3> QED BY <1>1, <1>2, <1>3, <1>5, <2>1, <2>2, <2>4, <3>1, <3>2, <3>3, <3>4, SignalStep
  <2> QED BY <2>3, <2>4
<1> QED BY <1>6, <1>7

\* MakeRunIfNeeded: whoever was marked gets up.
LEMMA MakeRunNeededInv ==
  ASSUME Inv, NEW t \in Threads, MakeRunNeeded(t)
  PROVE  Inv'
<1> DEFINE p == pc[t]
           w == arg[t].tgt
           next == AfterRun[p]
<1>1. Runs(t, p) /\ p \in DOMAIN AfterRun
  BY RunsNow DEF MakeRunNeeded
<1>2. Shape /\ SleepOK(sched) /\ BedsOK(sched) /\ DueOK(sched, now)
  BY OKFields DEF Inv
<1>3. CallOK(p, arg[t]) /\ ~sched.live[t]
  BY <1>1, RunPCs DEF Runs, ThreadOK, InWait
<1>4. w \in Threads /\ w # NoThread
  BY <1>1, <1>2, <1>3 DEF CallOK, Shape, ArgType
<1>5. /\ next \in {"k_return", "m_wake", "r_post", "p_pop"} /\ next \in OutPCs /\ next \in PCs
      /\ next \notin InWait \union {"w_config", "z_woken", "w_boost", "user", "w_link", "w_reprio"}
      /\ next \notin DOMAIN AfterRun
  <2>1. next \in {"k_return", "m_wake", "r_post", "p_pop"}
    BY <1>1, RunPCs
  <2> HIDE DEF next
  <2> QED BY <2>1, Outs DEF OutPCs
<1>6. CallAt(next, arg[t].call)
  <2>1. CallAt(p, arg[t].call)
    BY <1>1, <1>3, RunPCs DEF CallOK
  <2>2. p \in {"s_run", "m_run", "r_run", "p_run"} /\ (p = "s_run" => next = "k_return")
        /\ (p = "m_run" => next = "m_wake") /\ (p = "r_run" => next = "r_post")
        /\ (p = "p_run" => next = "p_pop")
    BY <1>1, RunPCs
  <2> HIDE DEF next, p
  <2> QED BY <2>1, <2>2 DEF CallAt, WaitPCs, SignalPCs, MutexPCs, SemPCs
<1>7. arg[t].remain \in Priority \/ next # "m_wake"
  <2>1. next = "m_wake" => p = "m_run"
    BY <1>1, RunPCs
  <2> QED BY <1>3, <2>1 DEF CallOK
<1>8. \A h : Ends(h, next, arg[t].call, now)
  <2>1. arg[t].call.call \notin {"wait", "sleep"}
    <3>1. CallAt(p, arg[t].call)
      BY <1>1, <1>3, RunPCs DEF CallOK
    <3>2. p \in {"s_run", "m_run", "r_run", "p_run"}
      BY <1>1, RunPCs
    <3> HIDE DEF p
    <3> QED BY <3>1, <3>2 DEF CallAt, SignalPCs, MutexPCs, SemPCs
  <2> QED BY <1>5, <2>1, EndsOther
<1> HIDE DEF next, p
<1>9. /\ sched' = WakeIfNeeded(sched, w) /\ arg' = [arg EXCEPT ![t].tgt = NoThread]
      /\ pc' = [pc EXCEPT ![t] = next] /\ obj' = obj /\ stub' = stub /\ th' = th /\ now' = now
  BY DEF MakeRunNeeded, Goto, next, p
<1>10. /\ arg' \in [Threads -> ArgType] /\ \A u \in Threads \ {t} : arg'[u] = arg[u]
       /\ arg'[t].tgt = NoThread /\ arg'[t].call = arg[t].call /\ arg'[t].remain = arg[t].remain
  BY <1>2, <1>9, TargetSet
<1>11. CallOK(next, arg'[t])
  BY <1>5, <1>6, <1>7, <1>10, NextOK
<1>12. ShapeNext /\ pc'[t] = next /\ \A u \in Threads \ {t} : pc'[u] = pc[u]
  BY <1>2, <1>5, <1>9, <1>10 DEF ShapeNext, Shape
<1>13. QueuesKept /\ OwnersNext
  BY <1>9, SameQueues
<1>14. /\ SleepOK(sched') /\ DueOK(sched', now) /\ CrabsKept(sched, sched')
       /\ sched'.rs[w] # "NEEDSRUN"
       /\ \A u \in Threads \ {w} : ExactSame(sched, sched', u)
       /\ ThreadOK(sched', w, th[w], pc[w], arg[w], now) \/ w = t
       /\ w = t => ExactSame(sched, sched', t)
  <2>1. ThreadOK(sched, w, th[w], pc[w], arg[w], now)
    BY <1>4 DEF Inv
  <2>2. CASE sched.rs[w] = "NEEDSRUN"
    <3>1. WokenUp(sched, sched', w, now)
      BY <1>2, <1>4, <1>9, <2>2, WakeIfNeededDoes
    <3>2. Woken(sched, sched', w)
      BY <3>1 DEF WokenUp
    <3>3. ThreadOK(sched', w, th[w], pc[w], arg[w], now)
      BY <1>2, <1>4, <2>1, <2>2, <3>2, WokenOK
    <3>4. w # t
      BY <1>1, <2>2 DEF Runs
    <3> QED BY <3>1, <3>2, <3>3, <3>4 DEF WokenUp, Lawful, Woken
  <2>3. CASE sched.rs[w] # "NEEDSRUN"
    <3>1. sched' = sched
      BY <1>2, <1>4, <1>9, <2>3, WakeIfNeededDoes
    <3>2. CrabsKept(sched, sched')
      BY <3>1, NothingPasses DEF CrabsKept
    <3> QED BY <1>2, <2>1, <2>3, <3>1, <3>2 DEF ExactSame, SameThread
  <2> QED BY <2>2, <2>3
<1>15. TargetsKept
  BY <1>10, <1>14 DEF TargetsKept
<1>16. World
  BY <1>2, <1>9, <1>12, <1>13, <1>14, <1>15 DEF World, Shape
<1>17. ASSUME NEW u \in Threads
       PROVE  CrabOK(sched', u, th'[u].pendWakeup)
  <2>1. CrabOK(sched, u, th[u].pendWakeup) /\ CrabKept(sched, sched', u)
    BY <1>14 DEF Inv, CrabsKept
  <2> QED BY <1>2, <1>9, <2>1, CrabStaysOK
<1>18. Good(t)
  <2>1. ExactSame(sched, sched', t)
    BY <1>14
  <2>2. /\ sched'.rs[t] = "RUNNING" /\ ~Queued(sched', t) /\ ~Hangs(sched', t) /\ ~sched'.live[t]
    BY <1>1, <1>3, <2>1 DEF ExactSame, SameThread, Runs
  <2>3. ThreadOK(sched', t, th'[t], pc'[t], arg'[t], now')
    <3>1. pc'[t] = next /\ now' = now /\ arg'[t].call = arg[t].call
      BY <1>9, <1>10, <1>12
    <3>2. CallOK(next, arg'[t]) /\ Ends(th'[t], next, arg'[t].call, now)
          /\ next \notin InWait \union {"w_config", "z_woken"}
      BY <1>5, <1>8, <1>11, <3>1
    <3>3. ThreadOK(sched', t, th'[t], next, arg'[t], now)
      BY <2>2, <3>1, <3>2, UpOK
    <3> QED BY <3>1, <3>3
  <2> QED BY <1>5, <1>12, <1>17, <2>2, <2>3 DEF Good
<1>19. w = t \/ Good(w)
  <2> SUFFICES ASSUME w # t PROVE Good(w)
    OBVIOUS
  <2>1. pc'[w] = pc[w] /\ arg'[w] = arg[w] /\ th'[w] = th[w] /\ now' = now
    BY <1>4, <1>9, <1>10, <1>12
  <2>2. pc'[w] = "w_boost" /\ sched'.live[w] => w \in ToSet(obj'[arg'[w].crit].q)
    <3>1. sched'.live[w] => sched.live[w]
      <4>1. CASE sched.rs[w] = "NEEDSRUN"
        BY <1>2, <1>4, <1>9, <4>1, WakeIfNeededDoes DEF WokenUp, Woken
      <4>2. CASE sched.rs[w] # "NEEDSRUN"
        BY <1>2, <1>4, <1>9, <4>2, WakeIfNeededDoes
      <4> QED BY <4>1, <4>2
    <3> QED BY <1>4, <1>9, <2>1, <3>1 DEF Inv, Boosters
  <2> QED BY <1>4, <1>14, <1>17, <2>1, <2>2 DEF Good
<1>20. ASSUME NEW u \in Threads \ {t, w}
       PROVE  Apart(u)
  BY <1>9, <1>10, <1>12, <1>14 DEF Apart, Passes, ExactSame, CrabsKept
<1> QED BY <1>16, <1>18, <1>19, <1>20, Assemble

\* LeaveMutex: the first waiter whose wait goes on becomes the owner.
LEMMA LeaveMutexInv ==
  ASSUME Inv, NEW t \in Threads, LeaveMutex(t)
  PROVE  Inv'
<1> DEFINE m == Obj(t)
           x == obj[m]
           w == Head(x.q)
<1>1. Runs(t, "r_leave")
  BY RunsNow DEF LeaveMutex
<1>2. /\ Op(t).call = "releaseMutex" /\ m \in Objects /\ arg[t].tgt = NoThread
      /\ ~sched.live[t] /\ arg[t].call = Op(t) /\ CallAt("r_leave", arg[t].call)
  BY <1>1, CallIs, RunPCs DEF Runs, InWait, MutexPCs
<1>3. Shape /\ x \in ObjectShape /\ x.q \in Seq(Threads)
  BY <1>2, ObjectFields DEF Inv, Shape
<1>4. CallAt("r_post", arg[t].call) /\ CallAt("r_run", arg[t].call)
  BY <1>2 DEF CallAt, WaitPCs, SignalPCs, MutexPCs, SemPCs
<1>5. \A h : Ends(h, "r_post", arg[t].call, now) /\ Ends(h, "r_run", arg[t].call, now)
  BY <1>2, EndsOther
<1>6. now' = now /\ stub' = stub
  BY DEF LeaveMutex
<1>7. CASE x.q = << >>
  <2> DEFINE y == [x EXCEPT !.owner = NoThread]
  <2>1. /\ obj' = [obj EXCEPT ![m] = y] /\ pc' = [pc EXCEPT ![t] = "r_post"]
        /\ sched' = sched /\ th' = th /\ arg' = arg
    BY <1>7 DEF LeaveMutex, Goto
  <2>2. Changed(x, y, x.q, NoThread)
    BY <1>3, ObjectChanges
  <2> HIDE DEF y
  <2>3. /\ obj' \in [Objects -> ObjectShape] /\ obj'[m].q = x.q
        /\ \A o \in Objects \ {m} : obj'[o] = obj[o]
    BY <1>2, <1>3, <2>1, <2>2, OneObject DEF Shape
  <2>4. QueuesKept
    BY <2>3 DEF QueuesKept
  <2>5. OwnersNext
    BY <1>7, <2>3 DEF OwnersNext, Inv, Owners
  <2>6. CallOK("r_post", arg[t])
    BY <1>2, <1>4, RunPCs, NextOK
  <2>7. OwnStep(t, "r_post")
    BY <1>3, <1>5, <1>6, <2>1, <2>3, <2>4, <2>5, <2>6, Outs DEF OwnStep, Shape
  <2> QED BY <1>1, <1>2, <2>1, <2>7, PlainStep
<1>8. CASE x.q # << >> /\ ~sched.live[w]
  <2>1. obj' = [obj EXCEPT ![m].q = Tail(@)] /\ sched' = sched /\ th' = th /\ pc' = pc /\ arg' = arg
    BY <1>8 DEF LeaveMutex
  <2> QED BY <1>1, <1>2, <1>6, <1>8, <2>1, DropStep, Outs
<1>9. CASE x.q # << >> /\ sched.live[w]
  <2> DEFINE q == Tail(x.q)
             n == 1
             z == [x EXCEPT !.q = q, !.owner = w, !.lockCount = n]
             y == Linked(z)
  <2>1. /\ obj' = [obj EXCEPT ![m] = y] /\ Wake(t, w, m, "r_run", "r_post")
    BY <1>9 DEF LeaveMutex
  <2>2. q \in Seq(Threads) /\ w \in Threads /\ n \in Int
    BY <1>3, <1>9, QueueHead
  <2> HIDE DEF w, q, n
  <2>3. Changed(x, z, q, w)
    BY <1>3, <2>2, ObjectChanges
  <2> HIDE DEF z
  <2>4. Changed(z, y, z.q, z.owner)
    BY <1>3, <2>3, LinkedIs DEF Changed
  <2> HIDE DEF y
  <2>5. y.q = Tail(obj[m].q) /\ y.owner \in Threads /\ y \in ObjectShape
    BY <2>2, <2>3, <2>4 DEF Changed, q
  <2>6. ~sched'.live[w] => obj' \in [Objects -> ObjectShape] /\ QueuesKept /\ OwnersNext
    BY <1>2, <1>9, <2>1, <2>5, PopKeeps DEF w
  <2>7. "r_run" \in DOMAIN AfterRun /\ "r_post" \in OutPCs
    BY RunPCs, Outs
  <2>8. stub' \in [Threads -> Seq(Threads)]
    BY <1>3, <1>6 DEF Shape
  <2> QED BY <1>1, <1>2, <1>4, <1>5, <1>6, <1>9, <2>1, <2>2, <2>6, <2>7, <2>8, SignalStep
<1> QED BY <1>7, <1>8, <1>9

\* The amount that is left to a call, and its target.
LEMMA RemainSet ==
  ASSUME Shape, NEW t \in Threads, NEW v \in Threads \union {NoThread}, NEW n \in Int,
         arg' = [arg EXCEPT ![t].tgt = v, ![t].remain = n]
  PROVE  /\ arg' \in [Threads -> ArgType] /\ \A u \in Threads \ {t} : arg'[u] = arg[u]
         /\ arg'[t].tgt = v /\ arg'[t].call = arg[t].call
<1>1. arg \in [Threads -> ArgType] /\ arg[t] \in ArgType
  BY DEF Shape
<1>2. [arg[t] EXCEPT !.tgt = v, !.remain = n] \in ArgType
  BY <1>1 DEF ArgType
<1>3. arg' = [arg EXCEPT ![t] = [arg[t] EXCEPT !.tgt = v, !.remain = n]]
  BY <1>1
<1>4. /\ [arg[t] EXCEPT !.tgt = v, !.remain = n].tgt = v
      /\ [arg[t] EXCEPT !.tgt = v, !.remain = n].call = arg[t].call
  BY <1>1 DEF ArgType
<1> QED BY <1>1, <1>2, <1>3, <1>4

\* SemPop: a unit goes to the first waiter, or what is left to the count.
LEMMA SemPopInv ==
  ASSUME Inv, NEW t \in Threads, SemPop(t)
  PROVE  Inv'
<1> DEFINE p == Obj(t)
           x == obj[p]
           w == Head(x.q)
           n == arg[t].remain
<1>1. Runs(t, "p_pop")
  BY RunsNow DEF SemPop
<1>2. /\ Op(t).call = "releaseSemaphore" /\ p \in Objects /\ arg[t].tgt = NoThread
      /\ ~sched.live[t] /\ arg[t].call = Op(t) /\ CallAt("p_pop", arg[t].call)
  BY <1>1, CallIs, RunPCs DEF Runs, InWait, SemPCs
<1>3. Shape /\ x \in ObjectShape /\ x.q \in Seq(Threads) /\ n \in Int
  BY <1>2, ObjectFields DEF Inv, Shape, ArgType
<1>4. CallAt("k_return", arg[t].call) /\ CallAt("p_run", arg[t].call)
  BY <1>2 DEF CallAt, WaitPCs, SignalPCs, MutexPCs, SemPCs
<1>5. \A h : /\ Ends(h, "k_return", arg[t].call, now) /\ Ends(h, "p_run", arg[t].call, now)
             /\ Ends(h, "p_pop", arg[t].call, now)
  BY <1>2, EndsOther
<1>6. now' = now /\ stub' = stub
  BY DEF SemPop
<1>7. CASE n = 0 \/ x.q = << >>
  <2> DEFINE a == x.count + n
             b == x.pending - n
             y == [x EXCEPT !.count = a, !.pending = b]
  <2>1. /\ obj' = [obj EXCEPT ![p] = y] /\ pc' = [pc EXCEPT ![t] = "k_return"]
        /\ sched' = sched /\ th' = th /\ arg' = arg
    <3>1. /\ obj' = [obj EXCEPT ![p].count = @ + n, ![p].pending = @ - n]
          /\ pc' = [pc EXCEPT ![t] = "k_return"] /\ sched' = sched /\ th' = th /\ arg' = arg
      BY <1>7 DEF SemPop, Goto
    <3> HIDE DEF n, p
    <3>2. obj' = [obj EXCEPT ![p] = y]
      BY <1>2, <1>3, <3>1 DEF Shape, ObjectShape
    <3> QED BY <3>1, <3>2
  <2>2. a \in Int /\ b \in Int
    BY <1>3, ObjectFields
  <2> HIDE DEF a, b
  <2>3. Changed(x, y, x.q, x.owner)
    BY <1>3, <2>2, ObjectChanges
  <2> HIDE DEF y
  <2>4. /\ obj' \in [Objects -> ObjectShape]
        /\ \A m \in Objects : obj'[m].q = obj[m].q /\ obj'[m].owner = obj[m].owner
    BY <1>2, <1>3, <2>1, <2>3, OneObjectSame DEF Shape
  <2>5. QueuesKept /\ OwnersNext
    BY <2>4, SameQueues
  <2>6. CallOK("k_return", arg[t])
    BY <1>2, <1>4, RunPCs, NextOK
  <2>7. OwnStep(t, "k_return")
    BY <1>3, <1>5, <1>6, <2>1, <2>4, <2>5, <2>6, Outs DEF OwnStep, Shape
  <2> QED BY <1>1, <1>2, <2>1, <2>7, PlainStep
<1>8. CASE n # 0 /\ x.q # << >> /\ ~sched.live[w]
  <2>1. obj' = [obj EXCEPT ![p].q = Tail(@)] /\ sched' = sched /\ th' = th /\ pc' = pc /\ arg' = arg
    BY <1>8 DEF SemPop
  <2> QED BY <1>1, <1>2, <1>6, <1>8, <2>1, DropStep, Outs
<1>9. CASE n # 0 /\ x.q # << >> /\ sched.live[w]
  <2> DEFINE q == Tail(x.q)
             b == x.pending - 1
             k == n - 1
             v == ToWake(w)
             y == [x EXCEPT !.q = q, !.pending = b]
  <2>1. /\ obj' = [obj EXCEPT ![p].q = Tail(@), ![p].pending = @ - 1]
        /\ sched' = Deliver(sched, w) /\ th' = Signalled(w, p)
        /\ arg' = [arg EXCEPT ![t].tgt = v, ![t].remain = @ - 1]
        /\ pc' = [pc EXCEPT ![t] = IF v = NoThread THEN "p_pop" ELSE "p_run"]
    BY <1>9 DEF SemPop, Goto
  <2>2. q \in Seq(Threads) /\ w \in Threads /\ b \in Int /\ k \in Int /\ v \in Threads \union {NoThread}
    BY <1>3, <1>9, QueueHead, ObjectFields DEF ToWake
  <2>3. obj' = [obj EXCEPT ![p] = y] /\ arg' = [arg EXCEPT ![t].tgt = v, ![t].remain = k]
    <3> HIDE DEF p, v, w
    <3> QED BY <1>2, <1>3, <2>1 DEF Shape, ObjectShape, ArgType
  <2> HIDE DEF w, q, b, k, v
  <2>4. Changed(x, y, q, x.owner)
    BY <1>3, <2>2, ObjectChanges
  <2> HIDE DEF y
  <2>5. y.q = Tail(obj[p].q) /\ y.owner = obj[p].owner /\ y \in ObjectShape
    BY <2>4 DEF Changed, q
  <2>6. ~sched'.live[w] => obj' \in [Objects -> ObjectShape] /\ QueuesKept /\ OwnersNext
    BY <1>2, <1>9, <2>3, <2>5, PopKeeps DEF w
  <2>7. "p_run" \in DOMAIN AfterRun /\ "p_pop" \in OutPCs /\ "p_pop" \notin DOMAIN AfterRun
    BY RunPCs, Outs
  <2>8. /\ arg' \in [Threads -> ArgType] /\ \A u \in Threads \ {t} : arg'[u] = arg[u]
        /\ arg'[t].tgt = v /\ arg'[t].call = arg[t].call
    BY <1>3, <2>2, <2>3, RemainSet
  <2>9. Marked(sched, sched', w)
    BY <1>2, <1>9, <2>1, <2>2, Delivered
  <2>10. obj' \in [Objects -> ObjectShape] /\ QueuesKept /\ OwnersNext
    BY <2>6, <2>9 DEF Marked
  <2>11. pc'[t] = IF v = NoThread THEN "p_pop" ELSE "p_run"
    BY <1>3, <2>1 DEF Shape
  <2>12. CallOK(pc'[t], arg'[t])
    <3>1. CASE v = NoThread
      BY <1>2, <2>7, <2>8, <2>11, <3>1, NextOK
    <3>2. CASE v # NoThread
      BY <1>4, <2>7, <2>8, <2>11, <3>2, NextOK
    <3> QED BY <3>1, <3>2
  <2>13. Wakes(t, w, p, "p_run", "p_pop")
    BY <1>2, <1>3, <1>5, <1>6, <2>1, <2>7, <2>8, <2>10, <2>11, <2>12 DEF Wakes, Shape, v
  <2> QED BY <1>1, <1>2, <1>9, <2>2, <2>13, WakeStep DEF w
<1> QED BY <1>7, <1>8, <1>9

(***************************************************************************)
(* Waits.                                                                  *)
(***************************************************************************)
\* A step that is about the running thread alone.
LEMMA SelfStep ==
  ASSUME Inv, NEW t \in Threads, SleepOK(sched'), DueOK(sched', now), now' = now,
         \A u \in Threads \ {t} : ExactSame(sched, sched', u) /\ CrabKept(sched, sched', u),
         ShapeNext, OwnersNext, QueuesKept,
         \A u \in Threads \ {t} : th'[u] = th[u] /\ pc'[u] = pc[u] /\ arg'[u] = arg[u],
         arg'[t].tgt = arg[t].tgt, Good(t)
  PROVE  Inv'
<1>1. TargetsKept
  BY DEF TargetsKept
<1>2. now <= now'
  BY DEF Inv, Shape
<1>3. World
  BY <1>1, <1>2 DEF World
<1>4. ASSUME NEW u \in Threads \ {t}
      PROVE  Apart(u)
  BY <1>4 DEF Apart, Passes, ExactSame
<1> QED BY <1>3, <1>4, Assemble

\* The running thread, its wait in progress.
LEMMA Processing ==
  ASSUME Inv, NEW t \in Threads, NEW p \in {"w_one", "w_boost"}, Runs(t, p)
  PROVE  /\ sched.wait[t] = IF sched.live[t] THEN "PROCESSING" ELSE "SIGNALLED"
         /\ sched.live[t] \/ th[t].pendReturn # TimeOut
         /\ ProxiesOK(sched, t, p, th[t], arg[t].call) /\ arg[t].tgt = NoThread
         /\ arg[t].call.call = "wait" /\ CallAt(p, arg[t].call) /\ CallOK(p, arg[t])
<1>1. /\ OpenOK(sched, t, p) /\ OverOK(sched, t, p, th[t]) /\ CallOK(p, arg[t])
      /\ ProxiesOK(sched, t, p, th[t], arg[t].call) /\ p \in InWait
  BY DEF Runs, ThreadOK, InWait
<1>2. sched.wait[t] \in WaitState
  BY OKFields DEF Inv
<1>3. sched.wait[t] # "BLOCKED"
  BY <1>1 DEF ProxiesOK
<1>4. sched.wait[t] = IF sched.live[t] THEN "PROCESSING" ELSE "SIGNALLED"
  BY <1>1, <1>2, <1>3 DEF WaitState, OpenOK, OverOK
<1>5. sched.live[t] \/ th[t].pendReturn # TimeOut
  BY <1>1, <1>4 DEF OverOK
<1>6. arg[t].tgt = NoThread
  BY RunPCs DEF Runs
<1>7. arg[t].call.call = "wait" /\ CallAt(p, arg[t].call)
  BY CallIs DEF Runs, CallAt, WaitPCs
<1> QED BY <1>1, <1>4, <1>5, <1>6, <1>7

\* ... and such a thread is in order.
LEMMA ProcessingOK ==
  ASSUME NEW s, NEW t, NEW h, NEW p \in {"w_one", "w_boost"}, NEW a, NEW n, s.rs[t] = "RUNNING",
         ~Queued(s, t), ~Hangs(s, t),
         s.wait[t] = IF s.live[t] THEN "PROCESSING" ELSE "SIGNALLED",
         CallOK(p, a), ProxiesOK(s, t, p, h, a.call), s.live[t] \/ h.pendReturn # TimeOut
  PROVE  ThreadOK(s, t, h, p, a, n)
<1>1. StandsOK(s, t, p)
  BY DEF StandsOK
<1>2. OpenOK(s, t, p) /\ OverOK(s, t, p, h)
  BY DEF OpenOK, OverOK, InWait
<1>3. TimesOK(s, t, p, h, a.call, n)
  BY DEF TimesOK, Ends
<1> QED BY <1>1, <1>2, <1>3 DEF ThreadOK

\* What WaitOneMore and the calls around it write of the scheduler.
Forgets(s, t) == [s EXCEPT !.needsleep = @ \ {t}]
Ended(s, t)   == [EndWait(Forgets(s, t), t) EXCEPT !.wait[t] = "SIGNALLED"]
Opened(s, t, b) ==
  [s EXCEPT !.wait[t] = "PROCESSING", !.live[t] = TRUE, !.crab[t] = NoPlace, !.lpce[t] = b]
Cleaned(s, t) == [s EXCEPT !.wakeup[t] = 0, !.crab[t] = NoPlace, !.wait[t] = "SIGNALLED"]

\* The same places.
SamePlaces(s, r) ==
  r.running = s.running /\ r.resched = s.resched /\ r.runq = s.runq /\ r.rs = s.rs /\
  r.cprio = s.cprio /\ r.sleepq = s.sleepq /\ r.hang = s.hang /\ r.susp = s.susp

\* NEEDSLEEP is cleared;
LEMMA ForgetsSets ==
  ASSUME NEW s \in SleepType, NEW t \in Threads, NEW r, r = Forgets(s, t)
  PROVE  /\ r \in SleepType /\ SamePlaces(s, r) /\ r.wakeup = s.wakeup /\ r.crab = s.crab
         /\ r.live = s.live /\ r.wait = s.wait /\ r.lpce = s.lpce
         /\ r.needsleep = s.needsleep \ {t}
BY DEF Forgets, SleepType, SamePlaces

EndedTo(s, t, r) ==
  /\ r \in SleepType /\ SamePlaces(s, r) /\ r.wakeup = s.wakeup /\ r.crab = s.crab
  /\ r.live = [s.live EXCEPT ![t] = FALSE] /\ r.wait = [s.wait EXCEPT ![t] = "SIGNALLED"]
  /\ r.lpce = s.lpce /\ r.needsleep = s.needsleep \ {t}

\* ... the wait is over;
LEMMA EndedSets ==
  ASSUME NEW s \in SleepType, NEW t \in Threads
  PROVE  EndedTo(s, t, Ended(s, t))
BY DEF Forgets, Ended, EndWait, SleepType, SamePlaces, WaitState, EndedTo

OpenedTo(s, t, b, r) ==
  /\ r \in SleepType /\ SamePlaces(s, r) /\ r.wakeup = s.wakeup
  /\ r.crab = [s.crab EXCEPT ![t] = NoPlace]
  /\ r.live = [s.live EXCEPT ![t] = TRUE] /\ r.wait = [s.wait EXCEPT ![t] = "PROCESSING"]
  /\ r.lpce = [s.lpce EXCEPT ![t] = b] /\ r.needsleep = s.needsleep

\* ... it begins;
LEMMA OpenedSets ==
  ASSUME NEW s \in SleepType, NEW t \in Threads, NEW b \in BOOLEAN
  PROVE  OpenedTo(s, t, b, Opened(s, t, b))
BY DEF Opened, SleepType, SamePlaces, WaitState, NoPlace, Place, OpenedTo

CleanedTo(s, t, r) ==
  /\ r \in SleepType /\ SamePlaces(s, r) /\ r.wakeup = [s.wakeup EXCEPT ![t] = 0]
  /\ r.crab = [s.crab EXCEPT ![t] = NoPlace]
  /\ r.live = s.live /\ r.wait = [s.wait EXCEPT ![t] = "SIGNALLED"]
  /\ r.lpce = s.lpce /\ r.needsleep = s.needsleep

\* ... it is forgotten, on the return to the client.
LEMMA CleanedSets ==
  ASSUME NEW s \in SleepType, NEW t \in Threads
  PROVE  CleanedTo(s, t, Cleaned(s, t))
BY DEF Cleaned, SleepType, SamePlaces, WaitState, NoPlace, Place, Times, CleanedTo

\* A running thread whose wait changes.
OwnWait(s, r, t) ==
  /\ r \in SleepType /\ SamePlaces(s, r) /\ t \in Threads
  /\ \A u \in Threads \ {t} :
       /\ r.wakeup[u] = s.wakeup[u] /\ r.crab[u] = s.crab[u]
       /\ r.live[u] = s.live[u] /\ r.wait[u] = s.wait[u] /\ r.lpce[u] = s.lpce[u]
       /\ (u \in r.needsleep <=> u \in s.needsleep)
  /\ r.crab[t] = NoPlace \/ (r.crab[t] = s.crab[t] /\ r.wakeup = s.wakeup)

\* The steps with which a running thread opens, ends or cleans up its wait.
LEMMA OwnWaitIs ==
  ASSUME NEW s \in SleepType, NEW t \in Threads
  PROVE  /\ OwnWait(s, Forgets(s, t), t) /\ OwnWait(s, Ended(s, t), t)
         /\ \A b \in BOOLEAN : OwnWait(s, Opened(s, t, b), t)
         /\ OwnWait(s, Cleaned(s, t), t)
         /\ OwnWait(s, [s EXCEPT !.lpce[t] = FALSE], t)
         /\ OwnWait(s, [s EXCEPT !.crab[t] = NoPlace], t)
<1>1. OwnWait(s, Forgets(s, t), t)
  BY ForgetsSets, SleepFields DEF OwnWait
<1>2. ASSUME NEW r, r = Ended(s, t)
      PROVE  OwnWait(s, r, t)
  <2>1. EndedTo(s, t, r)
    BY <1>2, EndedSets
  <2> QED BY <2>1, SleepFields DEF OwnWait, EndedTo
<1>3. ASSUME NEW b \in BOOLEAN, NEW r, r = Opened(s, t, b)
      PROVE  OwnWait(s, r, t)
  <2>1. OpenedTo(s, t, b, r)
    BY <1>3, OpenedSets
  <2> QED BY <2>1, SleepFields DEF OwnWait, OpenedTo
<1>4. ASSUME NEW r, r = Cleaned(s, t)
      PROVE  OwnWait(s, r, t)
  <2>1. CleanedTo(s, t, r)
    BY <1>4, CleanedSets
  <2> QED BY <2>1, SleepFields DEF OwnWait, CleanedTo
<1>5. OwnWait(s, [s EXCEPT !.lpce[t] = FALSE], t)
  BY DEF OwnWait, SleepType, SamePlaces
<1>6. OwnWait(s, [s EXCEPT !.crab[t] = NoPlace], t)
  BY DEF OwnWait, SleepType, SamePlaces, NoPlace, Place
<1> QED BY <1>1, <1>2, <1>3, <1>4, <1>5, <1>6

\* NoPlace is no place.
LEMMA NoPlaceOK ==
  ASSUME NEW s, NEW t, s.crab[t] = NoPlace, NEW time
  PROVE  CrabOK(s, t, time)
BY DEF CrabOK, NoPlace

\* Its place in the search remains one.
PlaceKept(s, r, t) == \A time : CrabOK(s, t, time) => CrabOK(r, t, time)

\* ... it goes on running.
LEMMA OwnWaitDoes ==
  ASSUME NEW s, SleepOK(s), NEW t \in Threads, s.running = t, NEW r, OwnWait(s, r, t)
  PROVE  /\ OwnChange(s, r, t) /\ r.running = t /\ r.rs[t] = "RUNNING" /\ ~Queued(r, t) /\ ~Hangs(r, t)
         /\ PlaceKept(s, r, t)
<1>1. /\ s.rs[t] = "RUNNING" /\ s.susp[t] = 0 /\ ~Queued(s, t) /\ ~Hangs(s, t)
  BY RunningIsUp
<1>2. OwnOnly(s, r, t) /\ SameRun(s, r) /\ r.susp[t] = 0
  BY <1>1 DEF OwnWait, OwnOnly, SamePlaces, SameRun
<1>3. OwnChange(s, r, t) /\ r.running = t
  BY <1>2, RunningChangeDoes
<1>4. r.rs[t] = "RUNNING" /\ ~Queued(r, t) /\ ~Hangs(r, t)
  BY <1>1, <1>2, <1>3 DEF OwnChange, SameRun
<1>5. ASSUME NEW time, CrabOK(s, t, time)
      PROVE  CrabOK(r, t, time)
  <2>1. CASE r.crab[t] = NoPlace
    BY <2>1, NoPlaceOK
  <2>2. CASE r.crab[t] = s.crab[t] /\ r.wakeup = s.wakeup
    BY <1>3, <1>5, <2>2 DEF CrabOK, OwnChange, OwnWait, SamePlaces
  <2> QED BY <2>1, <2>2 DEF OwnWait
<1> QED BY <1>3, <1>4, <1>5 DEF PlaceKept

\* A step of a running thread that changes its wait.
LEMMA OwnWaitStep ==
  ASSUME Inv, NEW t \in Threads, NEW p, Runs(t, p), OwnWait(sched, sched', t), now' = now,
         ShapeNext, OwnersNext, QueuesKept,
         \A u \in Threads \ {t} : th'[u] = th[u] /\ pc'[u] = pc[u] /\ arg'[u] = arg[u],
         arg'[t].tgt = arg[t].tgt, ThreadOK(sched', t, th'[t], pc'[t], arg'[t], now),
         th'[t].pendWakeup = th[t].pendWakeup \/ sched'.crab[t] = NoPlace,
         pc'[t] = "w_boost" /\ sched'.live[t] => t \in ToSet(obj'[arg'[t].crit].q)
  PROVE  Inv'
<1>1. SleepOK(sched) /\ DueOK(sched, now) /\ sched.running = t
  BY DEF Inv, Runs
<1>2. /\ OwnChange(sched, sched', t) /\ sched'.rs[t] = "RUNNING"
      /\ PlaceKept(sched, sched', t)
  BY <1>1, OwnWaitDoes
<1>3. CrabOK(sched', t, th'[t].pendWakeup)
  BY <1>2, NoPlaceOK DEF Runs, PlaceKept
<1>4. Good(t)
  BY <1>2, <1>3 DEF Good
<1>5. /\ SleepOK(sched') /\ DueOK(sched', now)
      /\ \A u \in Threads \ {t} : ExactSame(sched, sched', u) /\ CrabKept(sched, sched', u)
  BY <1>1, <1>2 DEF OwnChange
<1> QED BY <1>4, <1>5, SelfStep

\* SC_WaitForMultiple opens the wait.
LEMMA WaitConfigInv ==
  ASSUME Inv, NEW t \in Threads, WaitConfig(t)
  PROVE  Inv'
<1> DEFINE op == arg[t].call
           b == Kind[Head(th[t].pend)] # "intr"
<1>1. Runs(t, "w_config")
  BY RunsNow DEF WaitConfig
<1>2. /\ op.call = "wait" /\ op \in CallType /\ CallAt("w_config", op) /\ arg[t].tgt = NoThread
      /\ ProxiesOK(sched, t, "w_config", th[t], op)
  BY <1>1, CallIs, RunPCs DEF Runs, ThreadOK, WaitPCs
<1>3. /\ op.objs # << >> /\ th[t].pend = op.objs
      /\ th[t].pendTime = PendTime(op.time)
  BY <1>2, CallFacts DEF ProxiesOK
<1>4. /\ sched' = Opened(sched, t, b) /\ pc' = [pc EXCEPT ![t] = "w_one"]
      /\ obj' = obj /\ stub' = stub /\ th' = th /\ arg' = arg /\ now' = now
  BY DEF WaitConfig, Opened, Goto
<1>5. Shape /\ sched \in SleepType /\ SleepOK(sched)
  BY OKFields DEF Inv
<1>6. OwnWait(sched, sched', t)
  BY <1>4, <1>5, OwnWaitIs
<1>7. sched'.rs[t] = "RUNNING" /\ ~Queued(sched', t) /\ ~Hangs(sched', t)
  BY <1>1, <1>5, <1>6, OwnWaitDoes DEF Runs
<1>8. sched'.live[t] /\ sched'.wait[t] = "PROCESSING" /\ (sched'.lpce[t] <=> b)
  <2> HIDE DEF b
  <2>1. b \in BOOLEAN
    BY DEF b
  <2>2. OpenedTo(sched, t, b, sched')
    BY <1>4, <1>5, <2>1, OpenedSets
  <2> QED BY <1>5, <2>2, SleepFields DEF OpenedTo
<1>9. ProxiesOK(sched', t, "w_one", th[t], op)
  BY <1>3, <1>8 DEF ProxiesOK
<1>10. CallOK("w_one", arg[t])
  <2>1. CallAt("w_one", op)
    BY <1>2 DEF CallAt, WaitPCs, SignalPCs, MutexPCs, SemPCs
  <2> QED BY <1>2, <2>1, RunPCs, NextOK
<1>11. ThreadOK(sched', t, th[t], "w_one", arg[t], now)
  BY <1>7, <1>8, <1>9, <1>10, ProcessingOK
<1>12. ShapeNext /\ pc'[t] = "w_one"
  BY <1>4, <1>5 DEF ShapeNext, Shape, PCs, WaitPCs
<1>13. OwnersNext /\ QueuesKept
  BY <1>4, SameQueues
<1>14. \A u \in Threads \ {t} : th'[u] = th[u] /\ pc'[u] = pc[u] /\ arg'[u] = arg[u]
  BY <1>4, <1>5 DEF Shape
<1> QED BY <1>1, <1>4, <1>6, <1>11, <1>12, <1>13, <1>14, OwnWaitStep

\* A wait is over with result r.
LeavesWait(t, r, next) ==
  /\ OwnWait(sched, sched', t) /\ ~sched'.live[t] /\ next \in {"w_dequeue", "w_link"}
  /\ th' = [th EXCEPT ![t].ret = r] /\ r \in Outcome /\ (r = TimeOut => TimedOut(th[t], now))
  /\ pc' = [pc EXCEPT ![t] = next] /\ stub' = stub /\ now' = now
  /\ obj' \in [Objects -> ObjectShape] /\ OwnersNext /\ QueuesKept
  /\ arg' \in [Threads -> ArgType] /\ \A u \in Threads \ {t} : arg'[u] = arg[u]
  /\ arg'[t].tgt = arg[t].tgt /\ arg'[t].call = arg[t].call
  /\ next = "w_link" => arg'[t].crit \in OfKind({"mutex"})

\* Leaving a wait with a result keeps the invariant.
LEMMA LeaveWaitStep ==
  ASSUME Inv, NEW t \in Threads, Runs(t, "w_one"), NEW r, NEW next, LeavesWait(t, r, next)
  PROVE  Inv'
<1>1. Shape /\ sched \in SleepType /\ SleepOK(sched)
  BY OKFields DEF Inv
<1>2. sched'.rs[t] = "RUNNING" /\ ~Queued(sched', t) /\ ~Hangs(sched', t)
  BY <1>1, OwnWaitDoes DEF Runs, LeavesWait
<1>3. CallAt("w_one", arg[t].call) /\ arg[t].tgt = NoThread
  BY CallIs, RunPCs DEF Runs
<1>4. CallAt(next, arg[t].call)
  BY <1>3 DEF LeavesWait, CallAt, WaitPCs, SignalPCs, MutexPCs, SemPCs
<1>5. CallOK(next, arg'[t])
  BY <1>3, <1>4, RunPCs DEF LeavesWait, CallOK
<1>6. /\ th' \in [Threads -> ThreadType] /\ \A u \in Threads \ {t} : th'[u] = th[u]
      /\ th'[t].ret = r /\ th'[t].pendTime = th[t].pendTime /\ th'[t].pendWakeup = th[t].pendWakeup
  BY <1>1, ZenonT(30) DEF LeavesWait, Shape, ThreadType
<1>7. /\ pc' \in [Threads -> PCs] /\ pc'[t] = next /\ \A u \in Threads \ {t} : pc'[u] = pc[u]
  BY <1>1 DEF LeavesWait, Shape, PCs, WaitPCs
<1>8. Ends(th'[t], next, arg'[t].call, now)
  BY <1>6 DEF LeavesWait, Ends, TimedOut
<1>9. ThreadOK(sched', t, th'[t], next, arg'[t], now)
  <2>1. next \notin InWait \union {"w_config", "z_woken"} /\ ~sched'.live[t]
    BY DEF LeavesWait, InWait
  <2> QED BY <1>2, <1>5, <1>8, <2>1, UpOK
<1>10. ShapeNext
  BY <1>1, <1>6, <1>7 DEF ShapeNext, LeavesWait, Shape
<1>11. pc'[t] # "w_boost" /\ now' = now
  BY <1>7 DEF LeavesWait
<1>12. ThreadOK(sched', t, th'[t], pc'[t], arg'[t], now)
  BY <1>7, <1>9
<1> QED BY <1>6, <1>7, <1>10, <1>11, <1>12, OwnWaitStep DEF LeavesWait

\* ... since it was signalled.
LEMMA WaitSignalledInv ==
  ASSUME Inv, NEW t \in Threads, WaitSignalled(t)
  PROVE  Inv'
<1>1. Runs(t, "w_one")
  BY RunsNow DEF WaitSignalled
<1>2. ~sched.live[t] /\ th[t].pendReturn # TimeOut
  BY <1>1, Processing DEF WaitSignalled
<1>3. Shape /\ sched \in SleepType
  BY OKFields DEF Inv
<1>4. /\ sched' = Forgets(sched, t) /\ th' = [th EXCEPT ![t].ret = th[t].pendReturn]
      /\ pc' = [pc EXCEPT ![t] = "w_dequeue"]
      /\ obj' = obj /\ stub' = stub /\ arg' = arg /\ now' = now
  BY DEF WaitSignalled, Awake, Forgets, Goto
<1>5. OwnWait(sched, sched', t) /\ sched'.live = sched.live
  BY <1>3, <1>4, OwnWaitIs, ForgetsSets, ZenonT(30)
<1>6. OwnersNext /\ QueuesKept
  BY <1>4, SameQueues
<1>7. th[t].pendReturn \in Outcome
  BY <1>3, ThreadFields DEF Shape
<1>8. LeavesWait(t, th[t].pendReturn, "w_dequeue")
  BY <1>2, <1>3, <1>4, <1>5, <1>6, <1>7 DEF LeavesWait, Shape
<1> QED BY <1>1, <1>8, LeaveWaitStep

\* WaitOneMore ends the wait itself.
LEMMA FinishStep ==
  ASSUME Inv, NEW t \in Threads, Runs(t, "w_one"), NEW r \in Outcome,
         NEW next \in {"w_dequeue", "w_link"}, Finish(t, r, next),
         r = TimeOut => TimedOut(th[t], now), stub' = stub, now' = now,
         obj' \in [Objects -> ObjectShape], OwnersNext, QueuesKept,
         arg' \in [Threads -> ArgType], \A u \in Threads \ {t} : arg'[u] = arg[u],
         arg'[t].tgt = arg[t].tgt, arg'[t].call = arg[t].call,
         next = "w_link" => arg'[t].crit \in OfKind({"mutex"})
  PROVE  Inv'
<1>1. sched \in SleepType
  BY OKFields DEF Inv
<1>2. /\ sched' = Ended(sched, t) /\ th' = [th EXCEPT ![t].ret = r] /\ pc' = [pc EXCEPT ![t] = next]
  BY DEF Finish, Ended, Awake, Forgets, Goto
<1>3. EndedTo(sched, t, sched')
  BY <1>1, <1>2, EndedSets
<1>4. ~sched'.live[t]
  BY <1>1, <1>3, SleepFields DEF EndedTo
<1>5. OwnWait(sched, sched', t)
  BY <1>1, <1>2, OwnWaitIs
<1>6. LeavesWait(t, r, next)
  BY <1>2, <1>4, <1>5 DEF LeavesWait
<1> QED BY <1>6, LeaveWaitStep

\* A poll finds nothing.
LEMMA WaitPollsInv ==
  ASSUME Inv, NEW t \in Threads, NEW o \in Objects, WaitPolls(t, o)
  PROVE  Inv'
<1>1. Runs(t, "w_one")
  BY RunsNow DEF WaitPolls, NextObject
<1>2. th[t].pendTime = 0
  BY DEF WaitPolls, NoEnqueue
<1>3. TimedOut(th[t], now)
  BY <1>2 DEF TimedOut, INFINITE
<1>4. /\ Finish(t, TimeOut, "w_dequeue") /\ obj' = obj /\ stub' = stub /\ arg' = arg /\ now' = now
  BY DEF WaitPolls
<1>5. OwnersNext /\ QueuesKept
  BY <1>4, SameQueues
<1>6. Shape /\ TimeOut \in Outcome
  BY DEF Inv, Outcome
<1> QED BY <1>1, <1>3, <1>4, <1>5, <1>6, FinishStep DEF Shape

\* The time of a wait is over.
LEMMA WaitTimesOutInv ==
  ASSUME Inv, NEW t \in Threads, WaitTimesOut(t)
  PROVE  Inv'
<1>1. Runs(t, "w_one")
  BY RunsNow DEF WaitTimesOut, AllQueued
<1>2. TimedOut(th[t], now)
  BY DEF WaitTimesOut, TimedOut
<1>3. /\ Finish(t, TimeOut, "w_dequeue") /\ obj' = obj /\ stub' = stub /\ arg' = arg /\ now' = now
  BY DEF WaitTimesOut
<1>4. OwnersNext /\ QueuesKept
  BY <1>3, SameQueues
<1>5. Shape /\ TimeOut \in Outcome
  BY DEF Inv, Outcome
<1> QED BY <1>1, <1>2, <1>3, <1>4, <1>5, FinishStep DEF Shape

\* What taking an object changes.
LEMMA TakenIs ==
  ASSUME Shape, NEW t \in Threads, NEW o \in Objects, Available(o, t)
  PROVE  \E w : /\ Changed(obj[o], Taken(o, t), obj[o].q, w)
                /\ w = obj[o].owner \/ w = t
<1> DEFINE x == obj[o]
<1>1. x \in ObjectShape
  BY DEF Shape
<1>2. CASE Kind[o] = "sem"
  <2> DEFINE n == x.count - 1
  <2>1. Taken(o, t) = [x EXCEPT !.count = n]
    BY <1>1, <1>2 DEF Taken, ObjectShape
  <2>2. n \in Int
    BY <1>1, ObjectFields
  <2> HIDE DEF n
  <2> QED BY <1>1, <2>1, <2>2, ObjectChanges
<1>3. CASE Kind[o] = "mutex" /\ x.owner = t
  <2> DEFINE n == x.lockCount + 1
  <2>1. Taken(o, t) = [x EXCEPT !.lockCount = n]
    BY <1>1, <1>3 DEF Taken, ObjectShape
  <2>2. n \in Int
    BY <1>1, ObjectFields
  <2> HIDE DEF n
  <2> QED BY <1>1, <2>1, <2>2, ObjectChanges
<1>4. CASE Kind[o] = "mutex" /\ x.owner # t
  <2> DEFINE n == 1
             w == t
  <2>1. Taken(o, t) = [x EXCEPT !.owner = w, !.lockCount = n]
    BY <1>1, <1>4 DEF Taken, ObjectShape
  <2>2. n \in Int /\ w \in Threads
    OBVIOUS
  <2> HIDE DEF n
  <2>3. Changed(x, Taken(o, t), x.q, w)
    BY <1>1, <2>1, <2>2, ObjectChanges
  <2> QED BY <2>3
<1>5. CASE Kind[o] = "manual"
  <2>1. Taken(o, t) = x
    BY <1>5 DEF Taken
  <2> QED BY <1>1, <2>1 DEF Changed
<1>6. CASE Kind[o] \notin {"sem", "mutex", "manual"}
  <2> DEFINE b == FALSE
  <2>1. Taken(o, t) = [x EXCEPT !.state = b]
    BY <1>6 DEF Taken
  <2>2. b \in BOOLEAN
    OBVIOUS
  <2> HIDE DEF b
  <2> QED BY <1>1, <2>1, <2>2, ObjectChanges
<1> QED BY <1>2, <1>3, <1>4, <1>5, <1>6

\* The thread takes an object that is there.
LEMMA WaitTakesInv ==
  ASSUME Inv, NEW t \in Threads, NEW o \in Objects, WaitTakes(t, o)
  PROVE  Inv'
<1> DEFINE newOwner == Kind[o] = "mutex" /\ obj[o].owner = NoThread
           next == IF newOwner THEN "w_link" ELSE "w_dequeue"
           c == IF newOwner THEN o ELSE NoObject
           y == Taken(o, t)
<1>1. Runs(t, "w_one")
  BY RunsNow DEF WaitTakes, NextObject
<1>2. Shape /\ Available(o, t) /\ o \in Outcome /\ o # TimeOut
  BY TimeOutAssumption DEF Inv, WaitTakes, Outcome
<1>3. /\ Finish(t, o, next) /\ arg' = [arg EXCEPT ![t].crit = c]
      /\ obj' = [obj EXCEPT ![o] = y] /\ stub' = stub /\ now' = now
  BY DEF WaitTakes
<1>4. PICK w : Changed(obj[o], y, obj[o].q, w) /\ (w = obj[o].owner \/ w = t)
  BY <1>2, TakenIs
<1>5. next \in {"w_dequeue", "w_link"} /\ (next = "w_link" => c \in OfKind({"mutex"}))
      /\ c \in Objects \union {NoObject}
  BY DEF OfKind
<1> HIDE DEF y, c, next
<1>6. /\ obj' \in [Objects -> ObjectShape] /\ obj'[o].q = obj[o].q /\ obj'[o].owner = w
      /\ \A m \in Objects \ {o} : obj'[m] = obj[m]
  <2> DEFINE q == obj[o].q
  <2>1. Changed(obj[o], y, q, w) /\ obj \in [Objects -> ObjectShape]
    BY <1>2, <1>4 DEF Shape
  <2> HIDE DEF q
  <2>2. /\ obj' \in [Objects -> ObjectShape] /\ obj'[o].q = q /\ obj'[o].owner = w
        /\ \A m \in Objects \ {o} : obj'[m] = obj[m]
    BY <1>3, <2>1, SMTT(30) DEF Changed
  <2> QED BY <2>2 DEF q
<1>7. QueuesKept
  BY <1>6 DEF QueuesKept
<1>8. OwnersNext
  <2>1. t # NoThread /\ Owners
    BY <1>1 DEF Runs, Inv
  <2> QED BY <1>4, <1>6, <2>1 DEF OwnersNext, Owners
<1>9. /\ arg' \in [Threads -> ArgType] /\ \A u \in Threads \ {t} : arg'[u] = arg[u]
      /\ arg'[t].tgt = arg[t].tgt /\ arg'[t].call = arg[t].call /\ arg'[t].crit = c
  BY <1>2, <1>3, <1>5 DEF Shape, ArgType
<1> QED BY <1>1, <1>2, <1>3, <1>5, <1>6, <1>7, <1>8, <1>9, FinishStep

\* A thread joins a queue.
LEMMA InsertMembers ==
  ASSUME NEW q \in Seq(Threads), NEW prio, NEW t \in Threads, NEW r, r = InsertBehind(q, prio, t)
  PROVE  r \in Seq(Threads) /\ t \in ToSet(r) /\ ToSet(q) \subseteq ToSet(r)
<1> DEFINE I == {i \in DOMAIN q : prio[q[i]] <= prio[t]}
           k == 1 + Cardinality(I)
<1>1. Cardinality(I) \in 0 .. Len(q)
  BY CountWithin
<1>2. k \in 1 .. Len(q) + 1 /\ r = InsertAt(q, k, t)
  <2>1. Len(q) \in Nat
    BY Members
  <2>2. r = InsertAt(q, k, t)
    BY DEF InsertBehind
  <2> QED BY <1>1, <2>1, <2>2
<1> HIDE DEF k
<1>3. /\ r \in Seq(Threads) /\ Len(r) = Len(q) + 1 /\ r[k] = t
      /\ \A j \in 1 .. Len(q) : j < k => r[j] = q[j]
      /\ \A j \in 1 .. Len(q) : j >= k => r[j + 1] = q[j]
  BY <1>2, InsertAtEffect
<1>4. /\ Len(q) \in Nat /\ ToSet(q) = {q[j] : j \in 1 .. Len(q)}
      /\ ToSet(r) = {r[j] : j \in 1 .. Len(r)}
  BY <1>3, Members
<1>5. t \in ToSet(r)
  BY <1>2, <1>3, <1>4
<1>6. ASSUME NEW j \in 1 .. Len(q)
      PROVE  q[j] \in ToSet(r)
  <2>1. CASE j < k
    BY <1>2, <1>3, <1>4, <2>1
  <2>2. CASE j >= k
    BY <1>2, <1>3, <1>4, <2>2
  <2> QED BY <1>2, <2>1, <2>2
<1> QED BY <1>3, <1>4, <1>5, <1>6

\* ... at its end.
LEMMA AppendMembers ==
  ASSUME NEW q \in Seq(Threads), NEW t \in Threads, NEW r, r = Append(q, t)
  PROVE  r \in Seq(Threads) /\ t \in ToSet(r) /\ ToSet(q) \subseteq ToSet(r)
<1>1. /\ r \in Seq(Threads) /\ Len(r) = Len(q) + 1 /\ r[Len(r)] = t
      /\ \A j \in 1 .. Len(q) : r[j] = q[j]
  OBVIOUS
<1>2. /\ Len(q) \in Nat /\ ToSet(q) = {q[j] : j \in 1 .. Len(q)}
      /\ ToSet(r) = {r[j] : j \in 1 .. Len(r)}
  BY <1>1, Members
<1> QED BY <1>1, <1>2

\* A thread leaves a queue.
LEMMA WithoutMembers ==
  ASSUME NEW q \in Seq(Threads), NEW t, NEW r, r = Without(q, t)
  PROVE  r \in Seq(Threads) /\ \A u \in ToSet(q) : u # t => u \in ToSet(r)
<1>1. CASE t \notin ToSet(q)
  BY <1>1 DEF Without
<1>2. CASE t \in ToSet(q)
  <2> DEFINE i == IndexOf(q, t)
  <2>1. Len(q) \in Nat /\ DOMAIN q = 1 .. Len(q) /\ ToSet(q) = {q[j] : j \in 1 .. Len(q)}
    BY Members
  <2>2. i \in 1 .. Len(q) /\ q[i] = t
    BY <1>2, <2>1 DEF IndexOf
  <2>3. r = RemoveAt(q, i)
    BY <1>2 DEF Without
  <2> HIDE DEF i
  <2>4. /\ r \in Seq(Threads) /\ Len(r) = Len(q) - 1
        /\ \A j \in 1 .. Len(r) : r[j] = IF j < i THEN q[j] ELSE q[j + 1]
    BY <2>2, <2>3, RemoveAtEffect, SMTT(30)
  <2>5. ToSet(r) = {r[j] : j \in 1 .. Len(r)}
    BY <2>4, Members
  <2>6. ASSUME NEW j \in 1 .. Len(q), q[j] # t
        PROVE  q[j] \in ToSet(r)
    <3>1. CASE j < i
      BY <2>1, <2>2, <2>4, <2>5, <3>1
    <3>2. CASE j > i
      <4>1. j - 1 \in 1 .. Len(r) /\ ~(j - 1 < i) /\ (j - 1) + 1 = j
        BY <2>1, <2>2, <2>4, <3>2
      <4>2. r[j - 1] = q[(j - 1) + 1]
        BY <2>4, <4>1
      <4> QED BY <2>5, <4>1, <4>2
    <3> QED BY <2>2, <2>6, <3>1, <3>2
  <2> QED BY <2>1, <2>4, <2>6
<1> QED BY <1>1, <1>2

\* PrioEnqueue and FlatEnqueue add a waiter.
LEMMA EnqueuedIs ==
  ASSUME Shape, NEW t \in Threads, NEW o \in Objects
  PROVE  \E q : /\ Changed(obj[o], Enqueued(o, t), q, obj[o].owner)
                /\ \A u \in ToSet(obj[o].q) : u \in ToSet(q)
                /\ Kind[o] = "mutex" => t \in ToSet(q)
<1> DEFINE x == obj[o]
<1>1. x \in ObjectShape /\ x.q \in Seq(Threads) /\ x.maxPrio \in Priority /\ th[t].proxPrio \in Priority
  BY ObjectFields, ThreadFields DEF Shape
<1>2. CASE Kind[o] \in {"auto", "sem", "mutex"}
  <2> DEFINE q == InsertBehind(x.q, ProxPrio, t)
  <2>1. Enqueued(o, t) = [x EXCEPT !.q = q]
    BY <1>1, <1>2 DEF Enqueued, ObjectShape
  <2>2. q \in Seq(Threads) /\ t \in ToSet(q) /\ ToSet(x.q) \subseteq ToSet(q)
    BY <1>1, InsertMembers
  <2> HIDE DEF q
  <2>3. Changed(x, Enqueued(o, t), q, x.owner)
    BY <1>1, <2>1, <2>2, ObjectChanges
  <2> QED BY <2>2, <2>3
<1>3. CASE Kind[o] = "manual"
  <2> DEFINE q == Append(x.q, t)
             S == {x.maxPrio, th[t].proxPrio}
             p == Min(S)
  <2>1. Enqueued(o, t) = [x EXCEPT !.q = q, !.maxPrio = p]
    <3> HIDE DEF Min
    <3> QED BY <1>1, <1>3 DEF Enqueued, ObjectShape
  <2>2. q \in Seq(Threads) /\ ToSet(x.q) \subseteq ToSet(q)
    <3>1. \A r : r = Append(x.q, t) => r \in Seq(Threads) /\ ToSet(x.q) \subseteq ToSet(r)
      <4> HIDE DEF x
      <4> QED BY <1>1, AppendMembers
    <3> QED BY <3>1
  <2>3. p \in Priority
    <3>1. S \in SUBSET Priority /\ S # {}
      BY <1>1
    <3> HIDE DEF S
    <3> QED BY <3>1, MinPriority
  <2> HIDE DEF q, p
  <2>4. Changed(x, Enqueued(o, t), q, x.owner)
    BY <1>1, <2>1, <2>2, <2>3 DEF Changed, ObjectShape
  <2> QED BY <1>3, <2>2, <2>4
<1>4. CASE Kind[o] \notin {"auto", "sem", "mutex", "manual"}
  <2>1. Enqueued(o, t) = x
    BY <1>4 DEF Enqueued
  <2>2. Changed(x, Enqueued(o, t), x.q, x.owner)
    BY <1>1, <2>1 DEF Changed
  <2> QED BY <1>4, <2>2
<1> QED BY <1>2, <1>3, <1>4

\* WaitOneMore queues one more proxy.
LEMMA WaitEnqueuesInv ==
  ASSUME Inv, NEW t \in Threads, NEW o \in Objects, WaitEnqueues(t, o)
  PROVE  Inv'
<1> DEFINE boosts == Kind[o] = "mutex" /\ (obj[o].q = << >> \/ th[t].proxPrio < HeadPrio(obj[o].q))
           next == IF boosts THEN "w_boost" ELSE "w_one"
           y == Enqueued(o, t)
<1>1. Runs(t, "w_one") /\ pc[t] = "w_one"
  BY RunsNow DEF WaitEnqueues, NextObject, At
<1>2. Shape /\ sched \in SleepType /\ SleepOK(sched)
  BY OKFields DEF Inv
<1>3. /\ sched.live[t] /\ sched.wait[t] = "PROCESSING"
      /\ ProxiesOK(sched, t, "w_one", th[t], arg[t].call) /\ arg[t].tgt = NoThread
      /\ CallAt("w_one", arg[t].call)
  BY <1>1, Processing DEF WaitEnqueues, NextObject
<1>4. /\ ~Available(o, t) /\ obj' = [obj EXCEPT ![o] = y]
      /\ th' = [th EXCEPT ![t].pend = Tail(@), ![t].queued = <<o>> \o @]
      /\ sched' = Forgets(sched, t) /\ stub' = stub /\ now' = now /\ th[t].pend # << >>
  BY DEF WaitEnqueues, NextObject, Awake, Forgets
<1>5. /\ boosts => pc' = [pc EXCEPT ![t] = "w_boost"] /\ arg' = [arg EXCEPT ![t].crit = o]
      /\ ~boosts => pc' = pc /\ arg' = arg
  BY DEF WaitEnqueues, Goto
<1>6. boosts => Kind[o] = "mutex"
  OBVIOUS
<1> HIDE DEF boosts
<1>7. /\ pc' \in [Threads -> PCs] /\ pc'[t] = next /\ \A u \in Threads \ {t} : pc'[u] = pc[u]
  BY <1>1, <1>2, <1>5 DEF Shape, PCs, WaitPCs
<1>8. /\ arg' \in [Threads -> ArgType] /\ \A u \in Threads \ {t} : arg'[u] = arg[u]
      /\ arg'[t].tgt = arg[t].tgt /\ arg'[t].call = arg[t].call
      /\ boosts => arg'[t].crit = o
  <2>1. CASE boosts
    <3>1. arg' = [arg EXCEPT ![t].crit = o]
      BY <1>5, <2>1
    <3> QED BY <1>2, <3>1 DEF Shape, ArgType
  <2>2. CASE ~boosts
    <3>1. arg' = arg
      BY <1>5, <2>2
    <3> QED BY <1>2, <2>2, <3>1 DEF Shape
  <2> QED BY <2>1, <2>2
<1>9. /\ th' \in [Threads -> ThreadType] /\ \A u \in Threads \ {t} : th'[u] = th[u]
      /\ th'[t].pendTime = th[t].pendTime /\ th'[t].pendWakeup = th[t].pendWakeup
      /\ th'[t].queued # << >>
  <2> DEFINE x == th[t]
             p == Tail(x.pend)
             q == <<o>> \o x.queued
  <2>1. x \in ThreadType /\ x.pend \in Seq(Objects) /\ x.queued \in Seq(Objects)
    BY <1>2, ThreadFields DEF Shape
  <2>2. p \in Seq(Objects) /\ q \in Seq(Objects) /\ q # << >>
    BY <1>4, <2>1, HeadTailProperties
  <2>3. th' = [th EXCEPT ![t] = [x EXCEPT !.pend = p, !.queued = q]]
    BY <1>2, <1>4 DEF Shape, ThreadType
  <2> HIDE DEF p, q
  <2> DEFINE z == [x EXCEPT !.pend = p, !.queued = q]
  <2>4. /\ z \in ThreadType /\ z.pendTime = x.pendTime /\ z.pendWakeup = x.pendWakeup
        /\ z.queued = q
    BY <2>1, <2>2 DEF ThreadType
  <2> HIDE DEF z
  <2> QED BY <1>2, <2>2, <2>3, <2>4 DEF Shape, z
<1>10. OwnWait(sched, sched', t)
  BY <1>2, <1>4, OwnWaitIs
<1>11. /\ sched'.live = sched.live /\ sched'.wait = sched.wait /\ sched'.lpce = sched.lpce
  BY <1>2, <1>4, ForgetsSets
<1>12. sched'.rs[t] = "RUNNING" /\ ~Queued(sched', t) /\ ~Hangs(sched', t)
  BY <1>1, <1>2, <1>10, OwnWaitDoes DEF Runs
<1>13. next \in {"w_one", "w_boost"} /\ next \notin DOMAIN AfterRun
  BY RunPCs
<1> HIDE DEF y
<1>14. PICK q : /\ Changed(obj[o], y, q, obj[o].owner)
                /\ \A u \in ToSet(obj[o].q) : u \in ToSet(q)
                /\ Kind[o] = "mutex" => t \in ToSet(q)
  BY <1>2, EnqueuedIs DEF y
<1>15. /\ obj' \in [Objects -> ObjectShape] /\ obj'[o].q = q /\ obj'[o].owner = obj[o].owner
       /\ \A m \in Objects \ {o} : obj'[m] = obj[m]
  BY <1>2, <1>4, <1>14 DEF Shape, Changed
<1>16. QueuesKept
  BY <1>14, <1>15 DEF QueuesKept
<1>17. OwnersNext
  <2>1. Kind[o] = "mutex" => obj[o].owner # NoThread
    BY <1>4 DEF Available
  <2> QED BY <1>15, <2>1 DEF OwnersNext, Inv, Owners
<1>18. pc'[t] = "w_boost" => boosts
  BY <1>7
<1>19. CallOK(next, arg'[t])
  <2>1. CallAt(next, arg[t].call)
    BY <1>3, <1>13 DEF CallAt, WaitPCs, SignalPCs, MutexPCs, SemPCs
  <2> QED BY <1>3, <1>6, <1>8, <1>13, <2>1 DEF CallOK, OfKind
<1>20. ProxiesOK(sched', t, next, th'[t], arg'[t].call)
  BY <1>3, <1>8, <1>9, <1>11, <1>13 DEF ProxiesOK, InWait
<1> HIDE DEF next
<1>21. ThreadOK(sched', t, th'[t], next, arg'[t], now)
  BY <1>3, <1>11, <1>12, <1>13, <1>19, <1>20, ProcessingOK
<1>22. ShapeNext
  BY <1>2, <1>4, <1>7, <1>8, <1>9, <1>15 DEF ShapeNext, Shape
<1>23. pc'[t] = "w_boost" /\ sched'.live[t] => t \in ToSet(obj'[arg'[t].crit].q)
  BY <1>6, <1>8, <1>14, <1>15, <1>18
<1>24. ThreadOK(sched', t, th'[t], pc'[t], arg'[t], now) /\ now' = now
  BY <1>4, <1>7, <1>21
<1> QED BY <1>1, <1>7, <1>8, <1>9, <1>10, <1>16, <1>17, <1>22, <1>23, <1>24, OwnWaitStep

\* The wait is cleaned up and the call returns.
LEMMA WaitReturnsInv ==
  ASSUME Inv, NEW t \in Threads, WaitReturns(t)
  PROVE  Inv'
<1>1. Runs(t, "w_dequeue")
  BY RunsNow DEF WaitReturns
<1>2. Shape /\ sched \in SleepType /\ SleepOK(sched)
  BY OKFields DEF Inv
<1>3. /\ ~sched.live[t] /\ arg[t].tgt = NoThread /\ CallAt("w_dequeue", arg[t].call)
      /\ arg[t].call.call = "wait" /\ (th[t].ret = TimeOut => TimedOut(th[t], now))
  BY <1>1, CallIs, RunPCs DEF Runs, InWait, ThreadOK, TimesOK, Ends, WaitPCs
<1>4. /\ sched' = [sched EXCEPT !.lpce[t] = FALSE]
      /\ th' = [th EXCEPT ![t].pend = << >>, ![t].queued = << >>]
      /\ pc' = [pc EXCEPT ![t] = "k_return"]
      /\ obj' = obj /\ stub' = stub /\ arg' = arg /\ now' = now
  BY DEF WaitReturns, Goto
<1>5. OwnWait(sched, sched', t)
  BY <1>2, <1>4, OwnWaitIs
<1>6. sched'.rs[t] = "RUNNING" /\ ~Queued(sched', t) /\ ~Hangs(sched', t) /\ ~sched'.live[t]
  <2>1. sched'.live = sched.live
    BY <1>2, <1>4 DEF SleepType
  <2> QED BY <1>1, <1>2, <1>3, <1>5, <2>1, OwnWaitDoes DEF Runs
<1>7. /\ th' \in [Threads -> ThreadType] /\ \A u \in Threads \ {t} : th'[u] = th[u]
      /\ th'[t].ret = th[t].ret /\ th'[t].pendTime = th[t].pendTime
      /\ th'[t].pendWakeup = th[t].pendWakeup
  <2> DEFINE x == th[t]
             z == [x EXCEPT !.pend = << >>, !.queued = << >>]
  <2>1. x \in ThreadType
    BY <1>2 DEF Shape
  <2>2. th' = [th EXCEPT ![t] = z]
    BY <1>2, <1>4 DEF Shape, ThreadType
  <2>3. /\ z \in ThreadType /\ z.ret = x.ret /\ z.pendTime = x.pendTime
        /\ z.pendWakeup = x.pendWakeup
    <3> DEFINE e == << >>
    <3>1. e \in Seq(Objects) /\ z = [x EXCEPT !.pend = e, !.queued = e]
      OBVIOUS
    <3> HIDE DEF e, z, x
    <3> QED BY <2>1, <3>1 DEF ThreadType
  <2> HIDE DEF z
  <2> QED BY <1>2, <2>2, <2>3 DEF Shape
<1>8. CallAt("k_return", arg[t].call) /\ CallOK("k_return", arg[t])
  <2>1. CallAt("k_return", arg[t].call)
    BY <1>3 DEF CallAt, WaitPCs, SignalPCs, MutexPCs, SemPCs
  <2> QED BY <1>3, <2>1, RunPCs, NextOK
<1>9. Ends(th'[t], "k_return", arg[t].call, now)
  BY <1>3, <1>7 DEF Ends, TimedOut
<1>10. ThreadOK(sched', t, th'[t], "k_return", arg[t], now)
  BY <1>6, <1>8, <1>9, UpOK DEF InWait
<1>11. ShapeNext /\ pc'[t] = "k_return" /\ \A u \in Threads \ {t} : pc'[u] = pc[u]
  BY <1>2, <1>4, <1>7 DEF ShapeNext, Shape, PCs, OtherPCs
<1>12. OwnersNext /\ QueuesKept
  BY <1>4, SameQueues
<1> QED BY <1>1, <1>4, <1>5, <1>7, <1>10, <1>11, <1>12, OwnWaitStep

\* The thread wakes: it goes on looking, or its wait is over.
LEMMA WaitWokenInv ==
  ASSUME Inv, NEW t \in Threads, WaitWoken(t)
  PROVE  Inv'
<1> DEFINE next == IF t \in sched.needsleep THEN "w_one" ELSE "w_dequeue"
           op == arg[t].call
<1>1. Runs(t, "w_woken")
  BY RunsNow DEF WaitWoken
<1>2. /\ Shape /\ sched' = sched /\ obj' = obj /\ stub' = stub /\ th' = th /\ arg' = arg /\ now' = now
      /\ pc' = [pc EXCEPT ![t] = next]
  BY DEF Inv, WaitWoken, Goto
<1>3. /\ OpenOK(sched, t, "w_woken") /\ OverOK(sched, t, "w_woken", th[t])
      /\ ProxiesOK(sched, t, "w_woken", th[t], op) /\ TimesOK(sched, t, "w_woken", th[t], op, now)
      /\ sched.rs[t] = "RUNNING" /\ ~Queued(sched, t) /\ ~Hangs(sched, t)
  BY <1>1 DEF Runs, ThreadOK
<1>4. CallAt("w_woken", op) /\ arg[t].tgt = NoThread
  BY <1>1, CallIs, RunPCs DEF Runs
<1>5. sched.wait[t] \in WaitState
  BY OKFields DEF Inv
<1>6. CallAt(next, op) /\ CallOK(next, arg[t])
  <2>1. CallAt(next, op)
    BY <1>4 DEF CallAt, WaitPCs, SignalPCs, MutexPCs, SemPCs
  <2>2. next \notin DOMAIN AfterRun
    BY RunPCs
  <2> QED BY <1>4, <2>1, <2>2, NextOK
<1>7. ThreadOK(sched, t, th[t], next, arg[t], now)
  <2>1. CASE t \in sched.needsleep
    <3>1. sched.wait[t] = IF sched.live[t] THEN "PROCESSING" ELSE "SIGNALLED"
      BY <1>3, <1>5, <2>1 DEF OpenOK, OverOK, InWait, WaitState
    <3>2. sched.live[t] \/ th[t].pendReturn # TimeOut
      BY <1>3, <2>1, <3>1 DEF OverOK, InWait
    <3>3. ProxiesOK(sched, t, "w_one", th[t], op)
      BY <1>3, <3>1 DEF ProxiesOK, InWait
    <3>4. next = "w_one"
      BY <2>1
    <3> HIDE DEF next
    <3> QED BY <1>3, <1>6, <3>1, <3>2, <3>3, <3>4, ProcessingOK
  <2>2. CASE t \notin sched.needsleep
    <3>1. ~sched.live[t]
      BY <1>3, <2>2 DEF OpenOK
    <3>2. next = "w_dequeue" /\ Ends(th[t], "w_dequeue", op, now)
      BY <1>3, <2>2, <3>1 DEF TimesOK, Ends
    <3> HIDE DEF next
    <3> QED BY <1>3, <1>6, <3>1, <3>2, UpOK DEF InWait
  <2> QED BY <2>1, <2>2
<1>8. ShapeNext /\ pc'[t] = next /\ \A u \in Threads \ {t} : pc'[u] = pc[u]
  BY <1>2 DEF ShapeNext, Shape, PCs, WaitPCs
<1>9. OwnersNext /\ QueuesKept
  BY <1>2, SameQueues
<1>10. TargetsKept
  BY <1>2 DEF TargetsKept
<1>11. next # "w_boost"
  OBVIOUS
<1> HIDE DEF next
<1>12. ThreadOK(sched, t, th'[t], pc'[t], arg'[t], now)
  BY <1>2, <1>7, <1>8
<1> QED BY <1>2, <1>8, <1>9, <1>10, <1>11, <1>12, QuietStep

\* A proxy of a wait that is over is taken off its object.
LEMMA DequeueProxyInv ==
  ASSUME Inv, NEW t \in Threads, DequeueProxy(t)
  PROVE  Inv'
<1> DEFINE o == Head(th[t].queued)
           x == obj[o]
           alone == \A i \in DOMAIN x.q : x.q[i] # t => th[x.q[i]].proxPrio > th[t].proxPrio
           last == Kind[o] = "mutex" /\ t \in ToSet(x.q) /\ alone
           next == IF last THEN "w_reprio" ELSE "w_dequeue"
           r == Without(x.q, t)
<1>1. Runs(t, "w_dequeue") /\ pc[t] = "w_dequeue" /\ th[t].queued # << >>
  BY RunsNow DEF DequeueProxy, At
<1>2. Shape
  BY DEF Inv
<1>3. /\ ~sched.live[t] /\ arg[t].tgt = NoThread /\ CallAt("w_dequeue", arg[t].call)
      /\ (th[t].ret = TimeOut => TimedOut(th[t], now))
  BY <1>1, CallIs, RunPCs DEF Runs, InWait, ThreadOK, TimesOK, Ends
<1>4. /\ obj' = [obj EXCEPT ![o].q = Without(@, t)]
      /\ stub' = [u \in Threads |-> IF Detaching(u, o) THEN Without(stub[u], t) ELSE stub[u]]
      /\ th' = [th EXCEPT ![t].queued = Tail(@)] /\ sched' = sched /\ now' = now
  BY DEF DequeueProxy
<1>5. /\ last => pc' = [pc EXCEPT ![t] = "w_reprio"] /\ arg' = [arg EXCEPT ![t].crit = o]
      /\ ~last => pc' = pc /\ arg' = arg
  BY DEF DequeueProxy, Goto
<1>6. last => Kind[o] = "mutex"
  OBVIOUS
<1> HIDE DEF alone, last
<1>7. o \in Objects /\ Tail(th[t].queued) \in Seq(Objects) /\ th[t] \in ThreadType
  <2>1. th[t] \in ThreadType /\ th[t].queued \in Seq(Objects)
    BY <1>2, ThreadFields DEF Shape
  <2> QED BY <1>1, <2>1, HeadTailProperties
<1>8. x \in ObjectShape /\ x.q \in Seq(Threads)
  BY <1>2, <1>7, ObjectFields DEF Shape
<1>9. r \in Seq(Threads) /\ \A u \in ToSet(x.q) : u # t => u \in ToSet(r)
  BY <1>8, WithoutMembers
<1>10. x.q = << >> => r = << >>
  BY DEF Without, ToSet
<1> HIDE DEF r
<1>11. obj' = [obj EXCEPT ![o] = [x EXCEPT !.q = r]]
  BY <1>2, <1>4, <1>7 DEF r, Shape, ObjectShape
<1>12. Changed(x, [x EXCEPT !.q = r], r, x.owner)
  BY <1>8, <1>9, ObjectChanges
<1>13. /\ obj' \in [Objects -> ObjectShape] /\ obj'[o].q = r /\ obj'[o].owner = x.owner
       /\ \A m \in Objects \ {o} : obj'[m] = obj[m]
  BY <1>2, <1>7, <1>11, <1>12 DEF Changed, Shape
<1>14. QueuesKept
  BY <1>3, <1>4, <1>9, <1>13 DEF QueuesKept
<1>15. OwnersNext
  BY <1>10, <1>13 DEF OwnersNext, Inv, Owners
<1>16. stub' \in [Threads -> Seq(Threads)]
  <2>1. \A u \in Threads : Without(stub[u], t) \in Seq(Threads)
    BY <1>2, WithoutType DEF Shape
  <2> QED BY <1>2, <1>4, <2>1 DEF Shape
<1>17. /\ th' \in [Threads -> ThreadType] /\ \A u \in Threads \ {t} : th'[u] = th[u]
       /\ th'[t].ret = th[t].ret /\ th'[t].pendTime = th[t].pendTime
       /\ th'[t].pendWakeup = th[t].pendWakeup
  <2> DEFINE q == Tail(th[t].queued)
             z == [th[t] EXCEPT !.queued = q]
  <2>1. th' = [th EXCEPT ![t] = z]
    BY <1>2, <1>4, <1>7 DEF Shape, ThreadType
  <2>2. q \in Seq(Objects)
    BY <1>7
  <2> HIDE DEF q
  <2>3. /\ z \in ThreadType /\ z.ret = th[t].ret /\ z.pendTime = th[t].pendTime
        /\ z.pendWakeup = th[t].pendWakeup
    BY <1>7, <2>2 DEF ThreadType
  <2> HIDE DEF z
  <2> QED BY <1>2, <2>1, <2>3 DEF Shape
<1>18. /\ arg' \in [Threads -> ArgType] /\ \A u \in Threads \ {t} : arg'[u] = arg[u]
       /\ arg'[t].tgt = arg[t].tgt /\ arg'[t].call = arg[t].call
       /\ last => arg'[t].crit = o
  <2> HIDE DEF o
  <2>1. CASE last
    <3>1. arg' = [arg EXCEPT ![t].crit = o]
      BY <1>5, <2>1
    <3> QED BY <1>2, <1>7, <3>1 DEF Shape, ArgType
  <2>2. CASE ~last
    <3>1. arg' = arg
      BY <1>5, <2>2
    <3> QED BY <1>2, <2>2, <3>1 DEF Shape
  <2> QED BY <2>1, <2>2
<1>19. pc' = [pc EXCEPT ![t] = next]
  BY <1>1, <1>2, <1>5 DEF Shape
<1>20. next \in {"w_reprio", "w_dequeue"} /\ next \in OutPCs
  BY Outs
<1>21. CallOK(next, arg'[t])
  <2>1. CallAt(next, arg[t].call)
    BY <1>3, <1>20 DEF CallAt, WaitPCs, SignalPCs, MutexPCs, SemPCs
  <2>2. next = "w_reprio" => last
    OBVIOUS
  <2> HIDE DEF next
  <2> QED BY <1>3, <1>6, <1>7, <1>18, <1>20, <2>1, <2>2, RunPCs DEF CallOK, OfKind
<1> HIDE DEF next
<1>22. Ends(th'[t], next, arg'[t].call, now)
  BY <1>3, <1>17, <1>20 DEF Ends, TimedOut
<1>23. OwnStep(t, next)
  BY <1>4, <1>13, <1>14, <1>15, <1>16, <1>17, <1>18, <1>19, <1>20, <1>21, <1>22 DEF OwnStep
<1> QED BY <1>1, <1>3, <1>4, <1>23, PlainStep

\* A boost, if there is one.
LEMMA Boosted ==
  ASSUME Inv, NEW u \in Threads, NEW prio \in Priority,
         sched' = sched \/ sched' = BoostSleeper(sched, u, prio)
  PROVE  /\ Lawful(sched, sched', now) /\ sched'.running = sched.running
         /\ \A v \in Threads \ {u} : Passes(sched, sched', v, now)
         /\ \/ Passes(sched, sched', u, now)
            \/ Requeued(sched, sched', u) /\ sched'.rs[u] = "RUNNABLE" /\ sched'.susp[u] = 0
<1>1. SleepOK(sched) /\ DueOK(sched, now)
  BY DEF Inv
<1>2. CASE sched' = sched
  BY <1>1, <1>2, NothingPasses DEF Lawful, CrabsKept
<1>3. CASE sched' = BoostSleeper(sched, u, prio)
  <2>1. /\ Lawful(sched, sched', now) /\ sched'.running = sched.running
        /\ \A v \in Threads \ {u} : Passes(sched, sched', v, now)
        /\ ExactSame(sched, sched', u)
           \/ (Requeued(sched, sched', u) /\ sched'.rs[u] = "RUNNABLE" /\ sched'.susp[u] = 0)
    BY <1>1, <1>3, BoostSleeperDoes
  <2> QED BY <2>1 DEF ExactSame, Passes
<1> QED BY <1>2, <1>3

\* A step that passes the running thread by leaves it running.
LEMMA RunnerStays ==
  ASSUME Inv, NEW t \in Threads, NEW p, Runs(t, p), SleepOK(sched'), sched'.running = sched.running,
         NEW n, Passes(sched, sched', t, n)
  PROVE  /\ SameThread(sched, sched', t) /\ sched'.rs[t] = "RUNNING"
         /\ ~Queued(sched', t) /\ ~Hangs(sched', t)
<1>1. SameThread(sched, sched', t)
  BY DEF Passes, Expires, Slips, Runs
<1>2. sched'.rs[t] = "RUNNING"
  BY OKFields DEF RunningMarked, Runs
<1> QED BY <1>1, <1>2 DEF SameThread, Runs

\* A thread that is passed by while what is outside its wait changes.
LEMMA PassesGood ==
  ASSUME Inv, NEW u \in Threads, Passes(sched, sched', u, now), CrabKept(sched, sched', u),
         SameWait(th[u], th'[u]), pc'[u] = pc[u], arg'[u] = arg[u], now' = now, QueuesKept
  PROVE  Good(u)
<1>1. /\ SleepOK(sched) /\ BedsOK(sched) /\ ThreadOK(sched, u, th[u], pc[u], arg[u], now)
      /\ CrabOK(sched, u, th[u].pendWakeup) /\ Shape /\ th[u].pendWakeup \in Int /\ now \in Nat
  BY OKFields, ThreadFields DEF Inv, Shape
<1>2. ThreadOK(sched', u, th[u], pc[u], arg[u], now)
  BY <1>1, OthersStayOK
<1>3. ThreadOK(sched', u, th'[u], pc'[u], arg'[u], now')
  BY <1>2, SameWaitOK
<1>4. CrabOK(sched', u, th'[u].pendWakeup)
  BY <1>1, CrabStaysOK DEF SameWait
<1>5. sched'.rs[u] = "NEEDSRUN" => sched.rs[u] = "NEEDSRUN"
  BY DEF Passes, SameThread, Expires, Slips
<1>6. ASSUME pc'[u] = "w_boost", sched'.live[u]
      PROVE  u \in ToSet(obj'[arg'[u].crit].q)
  <2>1. sched.live[u]
    BY <1>6 DEF Passes, SameThread, Expires, Slips
  <2>2. u \in ToSet(obj[arg[u].crit].q)
    BY <1>6, <2>1 DEF Inv, Boosters
  <2>3. arg[u].crit \in Objects /\ Kind[arg[u].crit] = "mutex"
    BY <1>1, <1>6 DEF ThreadOK, CallOK, OfKind
  <2> QED BY <1>6, <2>2, <2>3 DEF QueuesKept
<1> QED BY <1>3, <1>4, <1>5, <1>6 DEF Good

\* A thread that a boost requeues goes on waiting.
LEMMA RequeuedGood ==
  ASSUME Inv, NEW u \in Threads, Requeued(sched, sched', u), sched'.rs[u] = "RUNNABLE",
         sched'.susp[u] = 0, CrabKept(sched, sched', u), SameWait(th[u], th'[u]),
         pc'[u] = pc[u], arg'[u] = arg[u], now' = now, QueuesKept
  PROVE  Good(u)
<1>1. SleepOK(sched) /\ BedsOK(sched) /\ ThreadOK(sched, u, th[u], pc[u], arg[u], now)
      /\ CrabOK(sched, u, th[u].pendWakeup)
  BY OKFields DEF Inv
<1>2. ThreadOK(sched', u, th[u], pc[u], arg[u], now)
  BY <1>1, RequeuedOK
<1>3. ThreadOK(sched', u, th'[u], pc'[u], arg'[u], now')
  BY <1>2, SameWaitOK
<1>4. CrabOK(sched', u, th'[u].pendWakeup)
  BY <1>1, CrabStaysOK DEF SameWait
<1>5. pc'[u] # "w_boost"
  BY <1>1, SleeperIsOpen DEF Requeued
<1> QED BY <1>3, <1>4, <1>5 DEF Good

\* PostBoostMut lends the owner the priority of its first waiter.
LEMMA PostBoostMutInv ==
  ASSUME Inv, NEW t \in Threads, PostBoostMut(t)
  PROVE  Inv'
<1> DEFINE m == arg[t].crit
           u == obj[m].owner
<1>1. Runs(t, "w_boost")
  BY RunsNow DEF PostBoostMut
<1>2. /\ sched.wait[t] = (IF sched.live[t] THEN "PROCESSING" ELSE "SIGNALLED")
      /\ sched.live[t] \/ th[t].pendReturn # TimeOut
      /\ ProxiesOK(sched, t, "w_boost", th[t], arg[t].call) /\ arg[t].tgt = NoThread
      /\ CallAt("w_boost", arg[t].call) /\ CallOK("w_boost", arg[t])
  BY <1>1, Processing
<1>3. Shape /\ sched \in SleepType /\ SleepOK(sched) /\ BedsOK(sched)
  BY OKFields DEF Inv
<1>4. m \in Objects /\ Kind[m] = "mutex" /\ obj[m] \in ObjectShape
  BY <1>2, <1>3 DEF CallOK, OfKind, Shape
<1>5. /\ pc' = [pc EXCEPT ![t] = "w_one"] /\ stub' = stub /\ th' = th /\ arg' = arg /\ now' = now
  BY DEF PostBoostMut, Goto
<1>6. /\ obj' \in [Objects -> ObjectShape]
      /\ \A k \in Objects : obj'[k].q = obj[k].q /\ obj'[k].owner = obj[k].owner
  <2> DEFINE link == ~th[u].noPrioCalc /\ ~obj[m].bListed
             y == IF link THEN Linked(obj[m]) ELSE ReprioCritMut(obj[m])
  <2>1. obj' = obj \/ obj' = [obj EXCEPT ![m] = y]
    BY <1>3, <1>4 DEF PostBoostMut, Shape
  <2>2. Changed(obj[m], y, obj[m].q, obj[m].owner)
    BY <1>3, <1>4, LinkedIs
  <2> HIDE DEF y
  <2> QED BY <1>3, <1>4, <2>1, <2>2, OneObjectSame DEF Shape
<1>7. OwnersNext /\ QueuesKept
  BY <1>6, SameQueues
<1>8. /\ Lawful(sched, sched', now) /\ sched'.running = sched.running
      /\ Passes(sched, sched', t, now)
      /\ \A v \in Threads : \/ Passes(sched, sched', v, now)
                            \/ Requeued(sched, sched', v) /\ sched'.rs[v] = "RUNNABLE"
                               /\ sched'.susp[v] = 0
  <2>1. CASE sched' = sched
    <3>1. \A v \in Threads : Passes(sched, sched', v, now) /\ CrabKept(sched, sched', v)
      BY <2>1, NothingPasses
    <3> QED BY <1>3, <2>1, <3>1 DEF Lawful, CrabsKept, Inv
  <2>2. CASE sched' # sched
    <3> DEFINE prio == sched.cprio[t]
    <3>1. /\ sched.wait[t] = "PROCESSING" /\ prio < sched.cprio[u]
          /\ sched' = BoostSleeper(sched, u, prio)
      BY <2>2 DEF PostBoostMut
    <3>2. sched.live[t]
      BY <1>2, <3>1
    <3>3. obj[m].q # << >>
      <4>1. t \in ToSet(obj[m].q)
        BY <1>1, <3>2 DEF Inv, Boosters, Runs
      <4> QED BY <4>1 DEF ToSet
    <3>4. u \in Threads
      BY <1>4, <3>3, ObjectFields DEF Inv, Owners
    <3>5. prio \in Priority /\ prio \in Int
      BY <1>3, SleepFields DEF Priorities
    <3>6. u # t
      BY <3>1, <3>5
    <3> HIDE DEF u, prio
    <3>7. /\ Lawful(sched, sched', now) /\ sched'.running = sched.running
          /\ \A v \in Threads \ {u} : Passes(sched, sched', v, now)
          /\ \/ Passes(sched, sched', u, now)
             \/ Requeued(sched, sched', u) /\ sched'.rs[u] = "RUNNABLE" /\ sched'.susp[u] = 0
      BY <3>1, <3>4, <3>5, Boosted
    <3> QED BY <3>4, <3>6, <3>7
  <2> QED BY <2>1, <2>2
<1>9. SleepOK(sched') /\ CrabsKept(sched, sched') /\ DueOK(sched', now)
  BY <1>8 DEF Lawful
<1>10. /\ SameThread(sched, sched', t) /\ sched'.rs[t] = "RUNNING"
       /\ ~Queued(sched', t) /\ ~Hangs(sched', t)
  BY <1>1, <1>8, <1>9, RunnerStays
<1>11. Good(t)
  <2>1. CallOK("w_one", arg[t])
    <3>1. CallAt("w_one", arg[t].call)
      BY <1>2 DEF CallAt, WaitPCs, SignalPCs, MutexPCs, SemPCs
    <3> QED BY <1>2, <3>1, RunPCs, NextOK
  <2>2. ProxiesOK(sched', t, "w_one", th[t], arg[t].call)
    BY <1>2, <1>10 DEF ProxiesOK, SameThread, InWait
  <2>3. sched'.wait[t] = (IF sched'.live[t] THEN "PROCESSING" ELSE "SIGNALLED")
        /\ (sched'.live[t] \/ th[t].pendReturn # TimeOut)
    BY <1>2, <1>10 DEF SameThread
  <2>4. ThreadOK(sched', t, th[t], "w_one", arg[t], now)
    BY <1>10, <2>1, <2>2, <2>3, ProcessingOK
  <2>5. CrabOK(sched', t, th[t].pendWakeup)
    BY <1>1, <1>3, <1>9, CrabStaysOK DEF Runs, CrabsKept
  <2>6. pc'[t] = "w_one" /\ th'[t] = th[t] /\ arg'[t] = arg[t] /\ now' = now
    BY <1>3, <1>5 DEF Shape
  <2> QED BY <1>10, <2>4, <2>5, <2>6 DEF Good
<1>12. ASSUME NEW v \in Threads \ {t}
       PROVE  Apart(v) \/ Good(v)
  <2>1. pc'[v] = pc[v] /\ th'[v] = th[v] /\ arg'[v] = arg[v] /\ now' = now
    BY <1>3, <1>5 DEF Shape
  <2>2. CASE Passes(sched, sched', v, now)
    BY <1>9, <2>1, <2>2 DEF Apart, CrabsKept
  <2>3. CASE Requeued(sched, sched', v) /\ sched'.rs[v] = "RUNNABLE" /\ sched'.susp[v] = 0
    <3>1. SameWait(th[v], th'[v]) /\ CrabKept(sched, sched', v)
      BY <1>9, <2>1 DEF SameWait, CrabsKept
    <3> QED BY <1>7, <2>1, <2>3, <3>1, RequeuedGood
  <2> QED BY <1>8, <2>2, <2>3
<1>13. ShapeNext
  BY <1>3, <1>5, <1>6 DEF ShapeNext, Shape, PCs, WaitPCs
<1>14. World
  <2>1. TargetsKept
    BY <1>5 DEF TargetsKept
  <2>2. now <= now'
    BY <1>3, <1>5 DEF Shape
  <2> QED BY <1>5, <1>7, <1>9, <1>13, <2>1, <2>2 DEF World
<1> QED BY <1>11, <1>12, <1>14, Assemble

\* A thread whose open wait has blocked.
LEMMA BlockedOK ==
  ASSUME NEW s, NEW t, NEW h, NEW a, NEW n, s.rs[t] = "BLOCKED", s.wait[t] = "BLOCKED", s.live[t],
         t \notin s.needsleep, s.susp[t] = 0, CallOK("w_woken", a),
         ProxiesOK(s, t, "w_woken", h, a.call),
         Queued(s, t) \/ Hangs(s, t) =>
           s.wakeup[t] = h.pendWakeup /\ h.pendTime \notin {0, INFINITE} /\ s.lpce[t]
  PROVE  ThreadOK(s, t, h, "w_woken", a, n)
<1>1. StandsOK(s, t, "w_woken")
  BY DEF StandsOK
<1>2. OpenOK(s, t, "w_woken") /\ OverOK(s, t, "w_woken", h)
  BY DEF OpenOK, OverOK, InWait
<1>3. TimesOK(s, t, "w_woken", h, a.call, n)
  BY DEF TimesOK, Ends
<1> QED BY <1>1, <1>2, <1>3 DEF ThreadOK

\* The wait has all its proxies queued.
LEMMA AllQueuedFacts ==
  ASSUME Inv, NEW t \in Threads, AllQueued(t)
  PROVE  /\ Runs(t, "w_one") /\ sched.live[t] /\ sched.wait[t] = "PROCESSING" /\ arg[t].tgt = NoThread
         /\ CallOK("w_one", arg[t]) /\ CallOK("w_woken", arg[t]) /\ CallAt("w_one", arg[t].call)
         /\ \A r : r.lpce[t] = sched.lpce[t] /\ r.live[t] =>
              ProxiesOK(r, t, "w_woken", th[t], arg[t].call)
         /\ ProxiesOK(sched, t, "w_one", th[t], arg[t].call)
<1>1. Runs(t, "w_one")
  BY RunsNow DEF AllQueued
<1>2. /\ sched.wait[t] = (IF sched.live[t] THEN "PROCESSING" ELSE "SIGNALLED")
      /\ ProxiesOK(sched, t, "w_one", th[t], arg[t].call) /\ arg[t].tgt = NoThread
      /\ CallAt("w_one", arg[t].call) /\ CallOK("w_one", arg[t])
  BY <1>1, Processing
<1>3. sched.live[t] /\ th[t].pend = << >>
  BY <1>2 DEF AllQueued
<1>4. CallOK("w_woken", arg[t])
  <2>1. CallAt("w_woken", arg[t].call)
    BY <1>2 DEF CallAt, WaitPCs, SignalPCs, MutexPCs, SemPCs
  <2> QED BY <1>2, <2>1, RunPCs, NextOK
<1>5. ASSUME NEW r, r.lpce[t] = sched.lpce[t], r.live[t]
      PROVE  ProxiesOK(r, t, "w_woken", th[t], arg[t].call)
  BY <1>2, <1>3, <1>5 DEF ProxiesOK, InWait
<1> QED BY <1>1, <1>2, <1>3, <1>4, <1>5

\* A wait without a time-out blocks.
LEMMA WaitBlocksInv ==
  ASSUME Inv, NEW t \in Threads, WaitBlocks(t)
  PROVE  Inv'
<1>1. /\ Runs(t, "w_one") /\ sched.live[t] /\ sched.wait[t] = "PROCESSING" /\ arg[t].tgt = NoThread
      /\ CallOK("w_woken", arg[t])
      /\ \A r : r.lpce[t] = sched.lpce[t] /\ r.live[t] =>
           ProxiesOK(r, t, "w_woken", th[t], arg[t].call)
  BY AllQueuedFacts DEF WaitBlocks
<1>2. Shape /\ sched \in SleepType /\ SleepOK(sched) /\ DueOK(sched, now) /\ sched.running = t
  BY <1>1, OKFields DEF Inv, Runs
<1>3. /\ sched' = [BlockCurrent(Awake(t)) EXCEPT !.wait[t] = "BLOCKED"]
      /\ pc' = [pc EXCEPT ![t] = "w_woken"]
      /\ obj' = obj /\ stub' = stub /\ th' = th /\ arg' = arg /\ now' = now
  BY DEF WaitBlocks, Goto
<1>4. /\ sched' \in SleepType /\ sched'.needsleep = sched.needsleep \ {t}
      /\ sched'.wait = [sched.wait EXCEPT ![t] = "BLOCKED"]
      /\ sched'.rs = [sched.rs EXCEPT ![t] = "BLOCKED"] /\ sched'.running = NoThread
      /\ sched'.runq = sched.runq /\ sched'.cprio = sched.cprio /\ sched'.sleepq = sched.sleepq
      /\ sched'.hang = sched.hang /\ sched'.wakeup = sched.wakeup /\ sched'.crab = sched.crab
      /\ sched'.susp = sched.susp /\ sched'.live = sched.live /\ sched'.lpce = sched.lpce
  <2> DEFINE q == Forgets(sched, t)
             b == BlockCurrent(q)
  <2>1. /\ q \in SleepType /\ SamePlaces(sched, q) /\ q.wakeup = sched.wakeup /\ q.crab = sched.crab
        /\ q.live = sched.live /\ q.wait = sched.wait /\ q.lpce = sched.lpce
        /\ q.needsleep = sched.needsleep \ {t}
    BY <1>2, ForgetsSets
  <2>2. sched' = [b EXCEPT !.wait[t] = "BLOCKED"]
    BY <1>3 DEF Awake, Forgets
  <2> HIDE DEF q
  <2>3. /\ b \in SleepType /\ b.rs = [q.rs EXCEPT ![t] = "BLOCKED"] /\ b.running = NoThread
        /\ b.runq = q.runq /\ b.cprio = q.cprio /\ b.sleepq = q.sleepq /\ b.hang = q.hang
        /\ b.wakeup = q.wakeup /\ b.crab = q.crab /\ b.susp = q.susp /\ b.live = q.live
        /\ b.lpce = q.lpce /\ b.wait = q.wait /\ b.needsleep = q.needsleep
    BY <1>2, <2>1 DEF BlockCurrent, SleepType, RunState, SamePlaces
  <2> HIDE DEF b
  <2>4. /\ sched' \in SleepType /\ sched'.wait = [b.wait EXCEPT ![t] = "BLOCKED"]
        /\ sched'.rs = b.rs /\ sched'.running = b.running
        /\ sched'.runq = b.runq /\ sched'.cprio = b.cprio /\ sched'.sleepq = b.sleepq
        /\ sched'.hang = b.hang /\ sched'.wakeup = b.wakeup /\ sched'.crab = b.crab
        /\ sched'.susp = b.susp /\ sched'.live = b.live /\ sched'.lpce = b.lpce
        /\ sched'.needsleep = b.needsleep
    BY <2>2, <2>3 DEF SleepType, WaitState
  <2> QED BY <2>1, <2>3, <2>4 DEF SamePlaces
<1>5. /\ sched'.wait[t] = "BLOCKED" /\ sched'.rs[t] = "BLOCKED" /\ t \notin sched'.needsleep
      /\ \A u \in Threads \ {t} : sched'.wait[u] = sched.wait[u] /\ sched'.rs[u] = sched.rs[u]
  BY <1>2, <1>4, SleepFields
<1>6. OwnOnly(sched, sched', t)
  BY <1>4, <1>5 DEF OwnOnly
<1>7. OwnChange(sched, sched', t)
  BY <1>2, <1>4, <1>5, <1>6, RunningBlocksDoes
<1>8. ~Queued(sched', t) /\ ~Hangs(sched', t)
  BY <1>1, <1>7 DEF OwnChange, Runs
<1>9. ThreadOK(sched', t, th[t], "w_woken", arg[t], now)
  <2>1. sched'.susp[t] = 0 /\ sched'.live[t]
    BY <1>1, <1>4 DEF Runs
  <2>2. ProxiesOK(sched', t, "w_woken", th[t], arg[t].call)
    BY <1>1, <1>4, <2>1
  <2> QED BY <1>1, <1>5, <1>8, <2>1, <2>2, BlockedOK
<1>10. CrabOK(sched', t, th[t].pendWakeup)
  BY <1>1, <1>4, <1>7 DEF CrabOK, OwnChange, Runs
<1>11. Good(t)
  <2>1. pc'[t] = "w_woken" /\ th'[t] = th[t] /\ arg'[t] = arg[t] /\ now' = now
    BY <1>2, <1>3 DEF Shape
  <2> QED BY <1>5, <1>9, <1>10, <2>1 DEF Good
<1>12. ShapeNext /\ \A u \in Threads \ {t} : pc'[u] = pc[u] /\ th'[u] = th[u] /\ arg'[u] = arg[u]
  BY <1>2, <1>3 DEF ShapeNext, Shape, PCs, WaitPCs
<1>13. OwnersNext /\ QueuesKept
  BY <1>3, SameQueues
<1> QED BY <1>2, <1>3, <1>7, <1>11, <1>12, <1>13, SelfStep DEF OwnChange

\* A step of the running thread's search for its place in the sleep queue.
SearchStep(t, r) ==
  /\ SleepOK(r) /\ DueOK(r, now)
  /\ \A u \in Threads \ {t} : ExactSame(sched, r, u) /\ CrabKept(sched, r, u)
  /\ r.susp[t] = 0 /\ r.live[t] = sched.live[t] /\ r.wait[t] = sched.wait[t]
  /\ r.lpce[t] = sched.lpce[t] /\ t \notin r.needsleep
  /\ CrabOK(r, t, th[t].pendWakeup) /\ ~Hangs(r, t)
  /\ \/ r.running = t /\ r.rs[t] = "RUNNING" /\ ~Queued(r, t)
     \/ r.running = NoThread /\ r.rs[t] = "BLOCKED" /\ Queued(r, t)
        /\ r.wakeup[t] = th[t].pendWakeup

\* SleepOneMore finds a place, goes on searching, or blocks the thread in its bed.
LEMMA SearchStepDoes ==
  ASSUME Inv, NEW t \in Threads, NEW p, Runs(t, p), now < th[t].pendWakeup,
         NEW r, r = SleepOneMore(Awake(t), t, th[t].pendWakeup)
  PROVE  SearchStep(t, r)
<1> DEFINE q == Forgets(sched, t)
           time == th[t].pendWakeup
<1>1. /\ SleepOK(sched) /\ sched \in SleepType /\ DueOK(sched, now) /\ sched.running = t /\ now \in Nat
      /\ sched.susp[t] = 0 /\ CrabOK(sched, t, time)
  BY OKFields DEF Inv, Shape, Runs
<1>2. /\ q \in SleepType /\ SamePlaces(sched, q) /\ q.wakeup = sched.wakeup /\ q.crab = sched.crab
      /\ q.live = sched.live /\ q.wait = sched.wait /\ q.lpce = sched.lpce
      /\ q.needsleep = sched.needsleep \ {t}
  BY <1>1, ForgetsSets
<1>3. OwnWait(sched, q, t)
  BY <1>1, OwnWaitIs
<1>4. r = SleepOneMore(q, t, time)
  BY DEF Awake, Forgets
<1> HIDE DEF q
<1>5. OwnChange(sched, q, t) /\ PlaceKept(sched, q, t) /\ q.running = t
  BY <1>1, <1>3, OwnWaitDoes
<1>6. time \in Nat
  BY <1>1, ThreadFields DEF Runs
<1> HIDE DEF time
<1>7. Searching(q, t, time, now)
  BY <1>1, <1>2, <1>5, <1>6 DEF Searching, OwnChange, PlaceKept, time
<1>8. Searched(q, r, t, time)
  BY <1>4, <1>7, SleepOneMoreDoes
<1>9. SleepOK(r) /\ DueOK(r, now)
  BY <1>1, <1>5, <1>8 DEF Searched, OwnChange
<1>10. ASSUME NEW u \in Threads \ {t}
       PROVE  ExactSame(sched, r, u) /\ CrabKept(sched, r, u)
  <2>1. ExactSame(q, r, u) /\ CrabKept(q, r, u)
    BY <1>8 DEF Searched
  <2>2. ExactSame(sched, r, u)
    BY <1>2, <2>1 DEF ExactSame, SameThread, SamePlaces, Queued, Hangs
  <2>3. CrabKept(sched, r, u)
    BY <1>2, <2>1 DEF CrabKept, SamePlaces, Queued, Hangs
  <2> QED BY <2>2, <2>3
<1>11. /\ r.susp[t] = 0 /\ r.live[t] = sched.live[t] /\ r.wait[t] = sched.wait[t]
       /\ r.lpce[t] = sched.lpce[t] /\ t \notin r.needsleep
  BY <1>1, <1>2, <1>8 DEF Searched, SamePlaces
<1> QED BY <1>8, <1>9, <1>10, <1>11 DEF Searched, SearchStep, time

\* A wait with a time-out looks for its place, and blocks when it has it.
LEMMA WaitSleepsInv ==
  ASSUME Inv, NEW t \in Threads, WaitSleeps(t)
  PROVE  Inv'
<1> DEFINE r == SleepOneMore(Awake(t), t, th[t].pendWakeup)
           op == arg[t].call
<1>1. /\ Runs(t, "w_one") /\ sched.live[t] /\ sched.wait[t] = "PROCESSING" /\ arg[t].tgt = NoThread
      /\ CallOK("w_one", arg[t]) /\ CallOK("w_woken", arg[t]) /\ CallAt("w_one", op)
      /\ \A q : q.lpce[t] = sched.lpce[t] /\ q.live[t] => ProxiesOK(q, t, "w_woken", th[t], op)
      /\ ProxiesOK(sched, t, "w_one", th[t], op)
  BY AllQueuedFacts DEF WaitSleeps
<1>2. Shape /\ sched \in SleepType /\ SleepOK(sched) /\ DueOK(sched, now) /\ t # NoThread
  BY <1>1, OKFields DEF Inv, Runs
<1>3. /\ now < th[t].pendWakeup /\ th[t].pendTime \notin {0, INFINITE}
      /\ obj' = obj /\ stub' = stub /\ arg' = arg /\ now' = now
      /\ IF r.running = t THEN sched' = r /\ th' = th /\ pc' = pc
         ELSE /\ sched' = [r EXCEPT !.wait[t] = "BLOCKED"] /\ th' = [th EXCEPT ![t].ret = TimeOut]
              /\ pc' = [pc EXCEPT ![t] = "w_woken"]
  BY DEF WaitSleeps, Goto
<1>4. SearchStep(t, r)
  BY <1>1, <1>3, SearchStepDoes
<1> HIDE DEF r
<1>5. OwnersNext /\ QueuesKept
  BY <1>3, SameQueues
<1>6. CASE r.running = t
  <2>1. sched' = r /\ th' = th /\ pc' = pc
    BY <1>3, <1>6
  <2>2. r.rs[t] = "RUNNING" /\ ~Queued(r, t) /\ ~Hangs(r, t)
    BY <1>2, <1>4, <1>6 DEF SearchStep
  <2>3. r.wait[t] = (IF r.live[t] THEN "PROCESSING" ELSE "SIGNALLED") /\ r.live[t]
    BY <1>1, <1>4 DEF SearchStep
  <2>4. ProxiesOK(r, t, "w_one", th[t], op)
    BY <1>1, <1>4 DEF ProxiesOK, SearchStep
  <2>5. ThreadOK(r, t, th[t], "w_one", arg[t], now)
    BY <1>1, <2>2, <2>3, <2>4, ProcessingOK
  <2>6. pc[t] = "w_one"
    BY <1>1 DEF Runs
  <2>7. Good(t)
    BY <1>3, <1>4, <2>1, <2>2, <2>5, <2>6 DEF Good, SearchStep
  <2>8. ShapeNext /\ \A u \in Threads \ {t} : pc'[u] = pc[u] /\ th'[u] = th[u] /\ arg'[u] = arg[u]
    BY <1>2, <1>3, <2>1 DEF ShapeNext, Shape
  <2> QED BY <1>3, <1>4, <1>5, <2>1, <2>7, <2>8, SelfStep DEF SearchStep
<1>7. CASE r.running # t
  <2>1. /\ sched' = [r EXCEPT !.wait[t] = "BLOCKED"] /\ th' = [th EXCEPT ![t].ret = TimeOut]
        /\ pc' = [pc EXCEPT ![t] = "w_woken"]
    BY <1>3, <1>7
  <2>2. SleepOK(r) /\ DueOK(r, now) /\ r \in SleepType
    BY <1>4, OKFields DEF SearchStep
  <2>3. /\ r.rs[t] = "BLOCKED" /\ Queued(r, t) /\ r.wakeup[t] = th[t].pendWakeup /\ ~Hangs(r, t)
        /\ r.susp[t] = 0 /\ t \notin r.needsleep /\ r.live[t] /\ r.lpce[t] = sched.lpce[t]
    BY <1>1, <1>4, <1>7 DEF SearchStep
  <2>4. /\ sched' \in SleepType /\ SameRun(r, sched') /\ sched'.sleepq = r.sleepq
        /\ sched'.hang = r.hang /\ sched'.wakeup = r.wakeup /\ sched'.susp = r.susp
        /\ sched'.crab = r.crab /\ sched'.needsleep = r.needsleep /\ sched'.live = r.live
        /\ sched'.lpce = r.lpce /\ sched'.wait = [r.wait EXCEPT ![t] = "BLOCKED"]
    BY <2>1, <2>2 DEF SleepType, SameRun, WaitState
  <2>5. sched'.wait[t] = "BLOCKED" /\ \A u \in Threads \ {t} : sched'.wait[u] = r.wait[u]
    BY <2>2, <2>4, SleepFields
  <2>6. /\ SleepOK(sched') /\ DueOK(sched', now)
        /\ \A u : (Queued(sched', u) <=> Queued(r, u)) /\ (Hangs(sched', u) <=> Hangs(r, u))
    BY <2>2, <2>4, SameCore
  <2>7. ASSUME NEW u \in Threads \ {t}
        PROVE  ExactSame(sched, sched', u) /\ CrabKept(sched, sched', u)
    <3>1. ExactSame(sched, r, u) /\ CrabKept(sched, r, u)
      BY <1>4 DEF SearchStep
    <3>2. ExactSame(sched, sched', u)
      BY <2>4, <2>5, <3>1 DEF ExactSame, SameThread, SameRun, Queued, Hangs
    <3>3. CrabKept(sched, sched', u)
      BY <2>4, <3>1 DEF CrabKept, Queued, Hangs
    <3> QED BY <3>2, <3>3
  <2>8. /\ th' \in [Threads -> ThreadType] /\ \A u \in Threads \ {t} : th'[u] = th[u]
        /\ th'[t].pendTime = th[t].pendTime /\ th'[t].pendWakeup = th[t].pendWakeup
        /\ th'[t].queued = th[t].queued /\ th'[t].pend = th[t].pend
    <3>1. TimeOut \in Outcome
      BY DEF Outcome
    <3> QED BY <1>2, <2>1, <3>1 DEF Shape, ThreadType
  <2>9. sched'.lpce[t]
    <3>1. CallAt("w_one", op) /\ op.call = "wait" /\ op \in CallType /\ Untimed(op)
      BY <1>1 DEF CallAt, WaitPCs
    <3>2. Kind[Head(op.objs)] # "intr"
      <4>1. op.time \in {0, INFINITE} => PendTime(op.time) \in {0, INFINITE}
        BY <3>1, PendTimes
      <4> QED BY <1>1, <1>3, <3>1, <4>1 DEF Untimed, ProxiesOK, InWait
    <3> QED BY <1>1, <2>3, <2>4, <3>2 DEF ProxiesOK, InWait
  <2>10. ProxiesOK(sched', t, "w_woken", th'[t], op)
    <3>1. ProxiesOK(sched', t, "w_woken", th[t], op)
      BY <1>1, <2>3, <2>4
    <3> QED BY <2>8, <3>1 DEF ProxiesOK
  <2>11. ThreadOK(sched', t, th'[t], "w_woken", arg[t], now)
    <3>1. /\ sched'.rs[t] = "BLOCKED" /\ sched'.live[t] /\ t \notin sched'.needsleep
          /\ sched'.susp[t] = 0 /\ sched'.wakeup[t] = th'[t].pendWakeup
          /\ th'[t].pendTime \notin {0, INFINITE}
      BY <1>3, <2>3, <2>4, <2>8 DEF SameRun
    <3> QED BY <1>1, <2>5, <2>9, <2>10, <3>1, BlockedOK
  <2>12. CrabOK(sched', t, th'[t].pendWakeup)
    BY <1>4, <2>4, <2>8 DEF CrabOK, SearchStep, Queued, Hangs
  <2>13. pc'[t] = "w_woken" /\ arg'[t] = arg[t]
         /\ \A u \in Threads \ {t} : pc'[u] = pc[u] /\ arg'[u] = arg[u]
    BY <1>2, <1>3, <2>1 DEF Shape
  <2>14. Good(t)
    BY <1>3, <2>3, <2>4, <2>11, <2>12, <2>13 DEF Good, SameRun
  <2>15. ShapeNext
    BY <1>2, <1>3, <2>1, <2>8 DEF ShapeNext, Shape, PCs, WaitPCs
  <2> QED BY <1>3, <1>5, <2>6, <2>7, <2>8, <2>13, <2>14, <2>15, SelfStep
<1> QED BY <1>6, <1>7

(***************************************************************************)
(* Sleep, priorities and suspension.                                       *)
(***************************************************************************)
\* A sleep looks for its place, or is over.
LEMMA PutToSleepInv ==
  ASSUME Inv, NEW t \in Threads, PutThreadToSleep(t)
  PROVE  Inv'
<1> DEFINE r == SleepOneMore(Awake(t), t, th[t].pendWakeup)
           op == arg[t].call
<1>1. Runs(t, "z_put")
  BY RunsNow DEF PutThreadToSleep
<1>2. Shape /\ sched \in SleepType /\ SleepOK(sched) /\ DueOK(sched, now) /\ t # NoThread
  BY <1>1, OKFields DEF Inv, Runs
<1>3. /\ CallAt("z_put", op) /\ CallOK("z_put", arg[t]) /\ op.call = "sleep" /\ ~sched.live[t]
      /\ arg[t].tgt = NoThread
  BY <1>1, RunPCs DEF Runs, ThreadOK, CallAt, InWait
<1>4. CallOK("k_return", arg[t]) /\ CallOK("z_woken", arg[t])
  <2>1. CallOK("k_return", arg[t])
    BY <1>3, CallStays, Outs DEF OtherPCs
  <2>2. CallAt("z_woken", op)
    BY <1>3 DEF CallAt, WaitPCs, SignalPCs, MutexPCs, SemPCs
  <2> QED BY <1>3, <2>1, <2>2, RunPCs, NextOK
<1>5. obj' = obj /\ stub' = stub /\ th' = th /\ arg' = arg /\ now' = now
  BY DEF PutThreadToSleep
<1>6. OwnersNext /\ QueuesKept
  BY <1>5, SameQueues
<1>7. pc' \in [Threads -> PCs] => ShapeNext
  BY <1>2, <1>5 DEF ShapeNext, Shape
<1>8. CASE now >= th[t].pendWakeup
  <2>1. sched' = Forgets(sched, t) /\ pc' = [pc EXCEPT ![t] = "k_return"]
    <3>1. ~(now < th[t].pendWakeup)
      BY <1>1, <1>2, <1>8, ThreadFields DEF Shape, Runs
    <3> QED BY <1>8, <3>1 DEF PutThreadToSleep, Goto, Awake, Forgets
  <2>2. OwnWait(sched, sched', t)
    BY <1>2, <2>1, OwnWaitIs
  <2>3. sched'.rs[t] = "RUNNING" /\ ~Queued(sched', t) /\ ~Hangs(sched', t)
    BY <1>1, <1>2, <2>2, OwnWaitDoes DEF Runs
  <2>4. ~sched'.live[t]
    BY <1>2, <1>3, <2>1, ForgetsSets
  <2>5. Ends(th[t], "k_return", op, now)
    BY <1>3, <1>8 DEF Ends
  <2>6. ThreadOK(sched', t, th[t], "k_return", arg[t], now)
    BY <1>4, <2>3, <2>4, <2>5, UpOK DEF InWait
  <2>7. pc'[t] = "k_return" /\ pc' \in [Threads -> PCs] /\ \A u \in Threads \ {t} : pc'[u] = pc[u]
    BY <1>2, <2>1 DEF Shape, PCs, OtherPCs
  <2> QED BY <1>1, <1>5, <1>6, <1>7, <2>2, <2>6, <2>7, OwnWaitStep
<1>9. CASE now < th[t].pendWakeup
  <2> DEFINE p == IF r.running = t THEN "z_put" ELSE "z_woken"
  <2>1. sched' = r /\ pc' = [pc EXCEPT ![t] = p]
    <3>1. ~(now >= th[t].pendWakeup)
      BY <1>1, <1>2, <1>9, ThreadFields DEF Shape, Runs
    <3> QED BY <1>9, <3>1 DEF PutThreadToSleep, Goto
  <2>2. SearchStep(t, r)
    BY <1>1, <1>9, SearchStepDoes
  <2> HIDE DEF r
  <2>3. pc'[t] = p /\ pc' \in [Threads -> PCs] /\ \A u \in Threads \ {t} : pc'[u] = pc[u]
    BY <1>2, <2>1 DEF Shape, PCs, OtherPCs
  <2>4. ~r.live[t]
    BY <1>3, <2>2 DEF SearchStep
  <2>5. ThreadOK(r, t, th[t], p, arg[t], now)
    <3>1. CASE r.running = t
      <4>1. r.rs[t] = "RUNNING" /\ ~Queued(r, t) /\ ~Hangs(r, t)
        BY <1>2, <2>2, <3>1 DEF SearchStep
      <4>2. Ends(th[t], "z_put", op, now)
        BY DEF Ends
      <4> QED BY <1>3, <2>4, <3>1, <4>1, <4>2, UpOK DEF InWait
    <3>2. CASE r.running # t
      <4>1. /\ r.rs[t] = "BLOCKED" /\ Queued(r, t) /\ r.wakeup[t] = th[t].pendWakeup
            /\ t \notin r.needsleep
        BY <2>2, <3>2 DEF SearchStep
      <4>2. StandsOK(r, t, "z_woken")
        BY <4>1 DEF StandsOK
      <4>3. OpenOK(r, t, "z_woken") /\ OverOK(r, t, "z_woken", th[t])
            /\ ProxiesOK(r, t, "z_woken", th[t], op)
        BY <2>4 DEF OpenOK, OverOK, ProxiesOK, InWait
      <4>4. TimesOK(r, t, "z_woken", th[t], op, now)
        BY <4>1 DEF TimesOK, Ends
      <4> QED BY <1>4, <3>2, <4>2, <4>3, <4>4 DEF ThreadOK
    <3> QED BY <3>1, <3>2
  <2>6. r.rs[t] # "NEEDSRUN" /\ p # "w_boost" /\ CrabOK(r, t, th[t].pendWakeup)
    BY <2>2 DEF SearchStep
  <2> HIDE DEF p
  <2>7. Good(t)
    BY <1>5, <2>1, <2>3, <2>5, <2>6 DEF Good
  <2> QED BY <1>5, <1>6, <1>7, <2>1, <2>2, <2>3, <2>7, SelfStep DEF SearchStep
<1>10. now >= th[t].pendWakeup \/ now < th[t].pendWakeup
  BY <1>1, <1>2, ThreadFields DEF Shape, Runs
<1> QED BY <1>8, <1>9, <1>10

\* Whose base priority is set.
LEMMA BasePrioInv ==
  ASSUME Inv, NEW t \in Threads, SetThreadBasePrio(t)
  PROVE  Inv'
<1> DEFINE u == Op(t).thread
           p == Op(t).prio
           own == Min({p} \union ListedPrios(t))
<1>1. Runs(t, "basePrio")
  BY RunsNow DEF SetThreadBasePrio
<1>2. Shape /\ sched \in SleepType /\ SleepOK(sched) /\ DueOK(sched, now) /\ BedsOK(sched)
  BY OKFields DEF Inv
<1>3. /\ CallOK("basePrio", arg[t]) /\ CallAt("basePrio", arg[t].call) /\ ~sched.live[t]
      /\ arg[t].call = Op(t) /\ arg[t].tgt = NoThread /\ Op(t) \in CallType /\ Op(t).call = "basePrio"
  BY <1>1, RunPCs DEF Runs, ThreadOK, CallAt, InWait, Op
<1>4. u \in Threads /\ p \in Priority
  BY <1>3, CallFacts
<1>5. own \in Priority
  BY <1>2, <1>4, PrioFacts
<1>6. CallOK("k_return", arg[t]) /\ \A h : Ends(h, "k_return", arg[t].call, now)
  BY <1>3, CallStays, Outs, EndsOther DEF OtherPCs
<1>7. /\ obj' = obj /\ stub' = stub /\ arg' = arg /\ now' = now
      /\ pc' = [pc EXCEPT ![t] = "k_return"] /\ th' = [th EXCEPT ![u].bprio = p]
      /\ sched' = IF th[u].bprio = p THEN sched
                  ELSE IF u = t
                  THEN IF own # sched.cprio[t] THEN SetRunningPrio(sched, own) ELSE sched
                  ELSE IF p < sched.cprio[u] THEN BoostSleeper(sched, u, p)
                  ELSE sched
  BY DEF SetThreadBasePrio, Goto
<1> HIDE DEF u, p, own
<1>8. /\ th' \in [Threads -> ThreadType] /\ SameWait(th[u], th'[u])
      /\ \A v \in Threads \ {u} : th'[v] = th[v]
  <2> DEFINE y == [th[u] EXCEPT !.bprio = p]
  <2>1. y \in ThreadType /\ SameWait(th[u], y)
    BY <1>2, <1>4, ThreadChanges DEF Shape
  <2>2. th' = [th EXCEPT ![u] = y]
    BY <1>7
  <2> HIDE DEF y
  <2> QED BY <1>2, <1>4, <2>1, <2>2, OneThread DEF Shape
<1>9. /\ pc'[t] = "k_return" /\ pc' \in [Threads -> PCs]
      /\ \A v \in Threads \ {t} : pc'[v] = pc[v]
  BY <1>2, <1>7 DEF Shape, PCs, OtherPCs
<1>10. OwnersNext /\ QueuesKept
  BY <1>7, SameQueues
<1>11. ShapeNext
  BY <1>2, <1>7, <1>8, <1>9 DEF ShapeNext, Shape
<1>12. CASE u = t
  <2>1. sched' = sched \/ sched' = SetRunningPrio(sched, own)
    BY <1>7, <1>12
  <2>2. OwnStep(t, "k_return")
    BY <1>2, <1>6, <1>7, <1>8, <1>10, <1>11, <1>12, Outs DEF OwnStep, ShapeNext, SameWait
  <2>3. CASE sched' = sched
    BY <1>1, <1>3, <2>2, <2>3, PlainStep
  <2>4. CASE sched' = SetRunningPrio(sched, own)
    <3>1. sched.running = t /\ sched.rs[t] = "RUNNING"
      BY <1>1 DEF Runs
    <3>2. RunChange(sched, sched', t) /\ sched'.rs = sched.rs
      BY <1>2, <1>5, <2>4, <3>1, SetRunningPrioDoes
    <3> QED BY <1>1, <1>3, <2>2, <3>1, <3>2, RunStep
  <2> QED BY <2>1, <2>3, <2>4
<1>13. CASE u # t
  <2>1. sched' = sched \/ sched' = BoostSleeper(sched, u, p)
    BY <1>7, <1>13
  <2>2. /\ Lawful(sched, sched', now) /\ sched'.running = sched.running
        /\ \A v \in Threads \ {u} : Passes(sched, sched', v, now)
        /\ \/ Passes(sched, sched', u, now)
           \/ Requeued(sched, sched', u) /\ sched'.rs[u] = "RUNNABLE" /\ sched'.susp[u] = 0
    BY <1>4, <2>1, Boosted
  <2>3. SleepOK(sched') /\ CrabsKept(sched, sched') /\ DueOK(sched', now)
    BY <2>2 DEF Lawful
  <2>4. /\ SameThread(sched, sched', t) /\ sched'.rs[t] = "RUNNING"
        /\ ~Queued(sched', t) /\ ~Hangs(sched', t)
    BY <1>1, <1>13, <2>2, <2>3, RunnerStays
  <2>5. Good(t)
    <3>1. ~sched'.live[t]
      BY <1>3, <2>4 DEF SameThread
    <3>2. ThreadOK(sched', t, th[t], "k_return", arg[t], now)
      BY <1>6, <2>4, <3>1, UpOK DEF InWait
    <3>3. CrabOK(sched', t, th[t].pendWakeup)
      BY <1>1, <1>2, <2>3, CrabStaysOK DEF Runs, CrabsKept
    <3> QED BY <1>7, <1>8, <1>9, <1>13, <2>4, <3>2, <3>3 DEF Good
  <2>6. ASSUME NEW v \in Threads \ {t, u}
        PROVE  Apart(v)
    BY <1>7, <1>8, <1>9, <2>2, <2>3 DEF Apart, CrabsKept
  <2>7. Good(u)
    <3>1. /\ pc'[u] = pc[u] /\ arg'[u] = arg[u] /\ now' = now /\ CrabKept(sched, sched', u)
      BY <1>4, <1>7, <1>9, <1>13, <2>3 DEF CrabsKept
    <3>2. CASE Requeued(sched, sched', u) /\ sched'.rs[u] = "RUNNABLE" /\ sched'.susp[u] = 0
      BY <1>4, <1>8, <1>10, <3>1, <3>2, RequeuedGood
    <3>3. CASE Passes(sched, sched', u, now)
      BY <1>4, <1>8, <1>10, <3>1, <3>3, <2>3, PassesGood
    <3> QED BY <2>2, <3>2, <3>3
  <2>8. World
    <3>1. TargetsKept
      BY <1>7 DEF TargetsKept
    <3>2. now <= now'
      BY <1>2, <1>7 DEF Shape
    <3> QED BY <1>7, <1>10, <1>11, <2>3, <3>1, <3>2 DEF World
  <2> QED BY <2>5, <2>6, <2>7, <2>8, Assemble
<1> QED BY <1>12, <1>13

\* Who is about to boost the owner of a mutex stays on that mutex.
LEMMA BoosterStays ==
  ASSUME Inv, NEW u \in Threads, pc'[u] = pc[u], arg'[u] = arg[u], QueuesKept,
         sched'.live[u] => sched.live[u]
  PROVE  pc'[u] = "w_boost" /\ sched'.live[u] => u \in ToSet(obj'[arg'[u].crit].q)
<1> SUFFICES ASSUME pc[u] = "w_boost", sched'.live[u]
             PROVE  u \in ToSet(obj'[arg[u].crit].q)
  OBVIOUS
<1>1. u \in ToSet(obj[arg[u].crit].q)
  BY DEF Inv, Boosters
<1>2. arg[u].crit \in Objects /\ Kind[arg[u].crit] = "mutex"
  BY DEF Inv, ThreadOK, CallOK, OfKind
<1> QED BY <1>1, <1>2 DEF QueuesKept

\* A step of t, not in a wait, that does something to another thread.
ToOther(t, u, next) ==
  /\ next \in OutPCs /\ pc' = [pc EXCEPT ![t] = next] /\ now' = now
  /\ obj' = obj /\ stub' = stub /\ arg' = arg
  /\ th' \in [Threads -> ThreadType] /\ \A v \in Threads \ {u} : th'[v] = th[v]
  /\ CallOK(next, arg[t]) /\ Ends(th[t], next, arg[t].call, now)
  /\ SleepOK(sched') /\ DueOK(sched', now) /\ sched'.running = sched.running
  /\ \A v \in Threads \ {u} : Passes(sched, sched', v, now) /\ CrabKept(sched, sched', v)

\* Suspending or resuming another thread keeps the invariant, if that one is good.
LEMMA OtherStep ==
  ASSUME Inv, NEW t \in Threads, NEW p, Runs(t, p), ~sched.live[t], NEW u \in Threads \ {t}, NEW next,
         ToOther(t, u, next), Good(u)
  PROVE  Inv'
<1>1. Shape /\ SleepOK(sched) /\ BedsOK(sched) /\ now \in Nat
  BY OKFields DEF Inv, Shape
<1>2. /\ SameThread(sched, sched', t) /\ sched'.rs[t] = "RUNNING"
      /\ ~Queued(sched', t) /\ ~Hangs(sched', t)
  BY RunnerStays DEF ToOther
<1>3. /\ pc'[t] = next /\ pc' \in [Threads -> PCs] /\ next # "w_boost"
      /\ \A v \in Threads \ {t} : pc'[v] = pc[v]
  BY <1>1 DEF Shape, ToOther, OutPCs
<1>4. Good(t)
  <2>1. ~sched'.live[t]
    BY <1>2 DEF SameThread
  <2>2. ThreadOK(sched', t, th[t], next, arg[t], now)
    BY <1>2, <2>1, UpOK DEF InWait, ToOther, OutPCs
  <2>3. CrabOK(sched', t, th[t].pendWakeup)
    BY <1>1, CrabStaysOK DEF Runs, ToOther
  <2> QED BY <1>2, <1>3, <2>2, <2>3 DEF Good, ToOther
<1>5. ASSUME NEW v \in Threads \ {t, u}
      PROVE  Apart(v)
  BY <1>3 DEF Apart, ToOther
<1>6. World
  <2>1. OwnersNext /\ QueuesKept
    BY SameQueues DEF ToOther
  <2>2. TargetsKept
    BY DEF TargetsKept, ToOther
  <2>3. ShapeNext
    BY <1>1, <1>3 DEF ShapeNext, Shape, ToOther
  <2>4. now <= now'
    BY <1>1 DEF ToOther
  <2> QED BY <2>1, <2>2, <2>3, <2>4 DEF World, ToOther
<1> QED BY <1>4, <1>5, <1>6, Assemble

\* A thread suspends itself, on its way back to its client or there.
LEMMA SuspendItself ==
  ASSUME Inv, NEW t \in Threads, NEW p, Runs(t, p), NEW next \in {"user", "k_return"},
         ThreadOK(sched, t, th[t], next, arg[t], now), sched' = SuspendNow(sched, t),
         pc' = [pc EXCEPT ![t] = next], obj' = obj, stub' = stub, th' = th, arg' = arg, now' = now
  PROVE  Inv'
<1>1. Shape /\ SleepOK(sched) /\ BedsOK(sched) /\ DueOK(sched, now) /\ now \in Nat
  BY OKFields DEF Inv, Shape
<1>2. Suspended(sched, sched', t, now)
  BY <1>1, SuspendNowDoes DEF Runs
<1>3. ThreadOK(sched', t, th[t], next, arg[t], now)
  BY <1>1, <1>2, SuspendedOK DEF Runs
<1>4. CrabOK(sched', t, th[t].pendWakeup)
  BY <1>1, <1>2, CrabStaysOK DEF Runs, Suspended
<1>5. pc'[t] = next /\ pc' \in [Threads -> PCs] /\ \A v \in Threads \ {t} : pc'[v] = pc[v]
  BY <1>1 DEF Shape, PCs, OtherPCs
<1>6. Good(t)
  BY <1>2, <1>3, <1>4, <1>5 DEF Good, Suspended
<1>7. ASSUME NEW v \in Threads \ {t}
      PROVE  Apart(v)
  BY <1>2, <1>5 DEF Apart, Suspended
<1>8. World
  <2>1. OwnersNext /\ QueuesKept
    BY SameQueues
  <2>2. TargetsKept
    BY DEF TargetsKept
  <2>3. ShapeNext
    BY <1>1, <1>5 DEF ShapeNext, Shape
  <2> QED BY <1>1, <1>2, <2>1, <2>2, <2>3 DEF World, Suspended
<1> QED BY <1>6, <1>7, <1>8, Assemble

\* Sleep(INFINITE).
LEMMA SuspendSelfInv ==
  ASSUME Inv, NEW t \in Threads, SuspendSelf(t)
  PROVE  Inv'
<1>1. Runs(t, "suspendSelf")
  BY RunsNow DEF SuspendSelf
<1>2. /\ CallOK("suspendSelf", arg[t]) /\ CallAt("suspendSelf", arg[t].call) /\ ~sched.live[t]
      /\ arg[t].tgt = NoThread
  BY <1>1, RunPCs DEF Runs, ThreadOK, CallAt, InWait
<1>3. CallOK("k_return", arg[t])
  BY <1>2, CallStays, Outs DEF OtherPCs
<1>4. Ends(th[t], "k_return", arg[t].call, now)
  <2>1. arg[t].call.call = "sleep" /\ arg[t].call.time \in {0, -1}
    BY <1>2 DEF CallAt, INFINITE
  <2> QED BY <2>1 DEF Ends
<1>5. ThreadOK(sched, t, th[t], "k_return", arg[t], now)
  BY <1>1, <1>2, <1>3, <1>4, UpOK DEF InWait, Runs
<1> QED BY <1>1, <1>5, SuspendItself DEF SuspendSelf, Goto

\* A client retires.
LEMMA RetireInv ==
  ASSUME Inv, NEW t \in Threads, Retire(t)
  PROVE  Inv'
<1>1. Runs(t, "user")
  BY RunsNow DEF Retire
<1>2. pc' = [pc EXCEPT ![t] = "user"]
  BY <1>1 DEF Retire, Runs, Inv, Shape
<1>3. ThreadOK(sched, t, th[t], "user", arg[t], now)
  BY <1>1 DEF Runs
<1> QED BY <1>1, <1>2, <1>3, SuspendItself DEF Retire

\* Calls about another thread.
LEMMA ControlFacts ==
  ASSUME NEW t \in Threads, NEW p \in {"suspend", "resume", "c_suspend", "c_resume"}, Runs(t, p)
  PROVE  /\ Op(t).thread \in Threads /\ ~sched.live[t] /\ CallOK("k_return", arg[t])
         /\ p = "c_suspend" => CallOK("c_resume", arg[t])
         /\ \A h : Ends(h, "k_return", arg[t].call, now) /\ Ends(h, "c_resume", arg[t].call, now)
<1>1. /\ CallOK(p, arg[t]) /\ CallAt(p, arg[t].call) /\ ~sched.live[t]
      /\ arg[t].call = Op(t) /\ arg[t].tgt = NoThread /\ Op(t) \in CallType
      /\ Op(t).call \in {"suspend", "resume", "scavenge"}
  BY RunPCs DEF Runs, ThreadOK, CallAt, InWait, Op
<1>2. Op(t).thread \in Threads
  BY <1>1, CallFacts
<1>3. CallOK("k_return", arg[t])
  BY <1>1, CallStays, Outs DEF OtherPCs
<1>4. p = "c_suspend" => CallOK("c_resume", arg[t])
  <2>1. p = "c_suspend" => CallAt("c_resume", arg[t].call)
    BY <1>1 DEF CallAt, WaitPCs, SignalPCs, MutexPCs, SemPCs
  <2> QED BY <1>1, <2>1, RunPCs, NextOK
<1> QED BY <1>1, <1>2, <1>3, <1>4, EndsOther

\* The late suspensions of a thread are counted.
LEMMA PendSuspStep ==
  ASSUME Inv, NEW t \in Threads, NEW p \in {"suspend", "resume", "c_resume"}, Runs(t, p),
         NEW n \in Nat, th' = th \/ th' = [th EXCEPT ![Op(t).thread].pendSusp = n],
         sched' = sched, pc' = [pc EXCEPT ![t] = "k_return"], obj' = obj, stub' = stub, arg' = arg,
         now' = now
  PROVE  Inv'
<1> DEFINE u == Op(t).thread
<1>1. /\ u \in Threads /\ ~sched.live[t] /\ CallOK("k_return", arg[t])
      /\ \A h : Ends(h, "k_return", arg[t].call, now)
  BY ControlFacts
<1>2. th' = th \/ th' = [th EXCEPT ![u].pendSusp = n]
  OBVIOUS
<1> HIDE DEF u
<1>3. Shape /\ SleepOK(sched) /\ DueOK(sched, now)
  BY DEF Inv
<1>4. /\ th' \in [Threads -> ThreadType] /\ SameWait(th[u], th'[u])
      /\ \A v \in Threads \ {u} : th'[v] = th[v]
  <2> DEFINE y == [th[u] EXCEPT !.pendSusp = n]
  <2>1. y \in ThreadType /\ SameWait(th[u], y)
    <3>1. MAX_PRIORITY_LEVELS - 1 \in Priority /\ TRUE \in BOOLEAN
      BY <1>3, PrioFacts
    <3> QED BY <1>1, <1>3, <3>1, ThreadChanges DEF Shape
  <2>2. th' = th \/ th' = [th EXCEPT ![u] = y]
    BY <1>2
  <2> HIDE DEF y
  <2>3. CASE th' = th
    BY <1>3, <2>3 DEF Shape, SameWait
  <2>4. CASE th' = [th EXCEPT ![u] = y]
    BY <1>1, <1>3, <2>1, <2>4, OneThread DEF Shape
  <2> QED BY <2>2, <2>3, <2>4
<1>5. OwnersNext /\ QueuesKept
  BY SameQueues
<1>6. /\ \A v \in Threads : Passes(sched, sched', v, now) /\ CrabKept(sched, sched', v)
  BY NothingPasses
<1>7. CASE u = t
  <2>1. OwnStep(t, "k_return")
    BY <1>1, <1>3, <1>4, <1>5, <1>7, Outs DEF OwnStep, Shape, SameWait
  <2> QED BY <1>1, <2>1, PlainStep
<1>8. CASE u # t
  <2>1. ToOther(t, u, "k_return")
    BY <1>1, <1>3, <1>4, <1>6, Outs DEF ToOther
  <2>2. pc'[u] = pc[u]
    BY <1>1, <1>3, <1>8 DEF Shape
  <2>3. Good(u)
    BY <1>1, <1>4, <1>5, <1>6, <2>2, PassesGood
  <2> QED BY <1>1, <1>8, <2>1, <2>3, OtherStep
<1> QED BY <1>7, <1>8

\* A thread suspends another on the spot.
LEMMA SuspendOther ==
  ASSUME Inv, NEW t \in Threads, NEW p, Runs(t, p), ~sched.live[t], NEW u \in Threads \ {t},
         sched.rs[u] = "BLOCKED" \/ pc[u] = "user", NEW next \in OutPCs,
         CallOK(next, arg[t]), Ends(th[t], next, arg[t].call, now),
         sched' = SuspendNow(sched, u), pc' = [pc EXCEPT ![t] = next],
         obj' = obj, stub' = stub, th' = th, arg' = arg, now' = now
  PROVE  Inv'
<1>1. /\ Shape /\ SleepOK(sched) /\ BedsOK(sched) /\ DueOK(sched, now)
      /\ ThreadOK(sched, u, th[u], pc[u], arg[u], now) /\ CrabOK(sched, u, th[u].pendWakeup)
  BY OKFields DEF Inv
<1>2. sched.rs[u] # "NEEDSRUN"
  BY <1>1 DEF ThreadOK, StandsOK
<1>3. Suspended(sched, sched', u, now)
  BY <1>1, <1>2, SuspendNowDoes
<1>4. ThreadOK(sched', u, th[u], pc[u], arg[u], now)
  BY <1>1, <1>2, <1>3, SuspendedOK
<1>5. CrabOK(sched', u, th[u].pendWakeup)
  BY <1>1, <1>3, CrabStaysOK DEF Suspended
<1>6. pc'[u] = pc[u]
  BY <1>1 DEF Shape
<1>7. Good(u)
  <2>1. pc'[u] = "w_boost" /\ sched'.live[u] => u \in ToSet(obj'[arg'[u].crit].q)
    BY <1>3, <1>6, SameQueues, BoosterStays DEF Suspended
  <2> QED BY <1>3, <1>4, <1>5, <1>6, <2>1 DEF Good, Suspended
<1>8. ToOther(t, u, next)
  BY <1>1, <1>3 DEF ToOther, Suspended, Runs, Shape
<1> QED BY <1>7, <1>8, OtherStep

\* ThreadSuspend.
LEMMA SuspendInv ==
  ASSUME Inv, NEW t \in Threads, Suspend(t)
  PROVE  Inv'
<1> DEFINE u == Op(t).thread
<1>1. Runs(t, "suspend")
  BY RunsNow DEF Suspend
<1>2. /\ u \in Threads /\ ~sched.live[t] /\ CallOK("k_return", arg[t])
      /\ \A h : Ends(h, "k_return", arg[t].call, now)
  BY <1>1, ControlFacts
<1>3. /\ pc' = [pc EXCEPT ![t] = "k_return"] /\ obj' = obj /\ stub' = stub /\ arg' = arg
      /\ now' = now
  BY DEF Suspend, Goto
<1>4. CASE u # t /\ InKernel(u)
  <2> DEFINE n == th[u].pendSusp + 1
  <2>1. th' = [th EXCEPT ![u].pendSusp = n] /\ sched' = sched
    BY <1>4 DEF Suspend
  <2>2. n \in Nat
    BY <1>2, ThreadFields DEF Inv, Shape
  <2> HIDE DEF n
  <2> QED BY <1>1, <1>3, <2>1, <2>2, PendSuspStep
<1>5. CASE u # t /\ ~InKernel(u)
  <2>1. sched' = SuspendNow(sched, u) /\ th' = th
    BY <1>5 DEF Suspend
  <2>2. pc[u] = "user"
    BY <1>5 DEF InKernel
  <2> HIDE DEF u
  <2> QED BY <1>1, <1>2, <1>3, <1>5, <2>1, <2>2, Outs, SuspendOther
<1>6. CASE u = t
  <2>1. sched' = SuspendNow(sched, t) /\ th' = th
    BY <1>6 DEF Suspend
  <2>2. arg[t].tgt = NoThread
    BY <1>1, RunPCs DEF Runs
  <2>3. ThreadOK(sched, t, th[t], "k_return", arg[t], now)
    BY <1>1, <1>2, <2>2, UpOK DEF InWait, Runs
  <2> HIDE DEF u
  <2> QED BY <1>1, <1>3, <2>1, <2>3, SuspendItself
<1> QED BY <1>4, <1>5, <1>6

\* ScavengeStacks, up to the suspension.
LEMMA ScavengeInv ==
  ASSUME Inv, NEW t \in Threads, Scavenge(t)
  PROVE  Inv'
<1> DEFINE u == Op(t).thread
           refused == InKernel(u) /\ sched.rs[u] # "BLOCKED"
<1>1. Runs(t, "c_suspend")
  BY RunsNow DEF Scavenge
<1>2. /\ u \in Threads /\ ~sched.live[t] /\ CallOK("k_return", arg[t]) /\ CallOK("c_resume", arg[t])
      /\ \A h : Ends(h, "k_return", arg[t].call, now) /\ Ends(h, "c_resume", arg[t].call, now)
  BY <1>1, ControlFacts
<1>3. /\ obj' = obj /\ stub' = stub /\ arg' = arg /\ now' = now /\ th' = th
      /\ pc' = [pc EXCEPT ![t] = IF refused THEN "k_return" ELSE "c_resume"]
      /\ sched' = IF refused THEN sched ELSE SuspendNow(sched, u)
  BY DEF Scavenge, Goto
<1>4. CASE refused
  <2>1. OwnStep(t, "k_return")
    BY <1>2, <1>3, <1>4, SameQueues, Outs DEF OwnStep, Inv, Shape
  <2> QED BY <1>1, <1>2, <1>3, <1>4, <2>1, PlainStep
<1>5. CASE ~refused
  <2>1. sched.rs[u] = "BLOCKED" \/ pc[u] = "user"
    BY <1>5 DEF InKernel
  <2>2. u # t
    BY <1>1, <2>1 DEF Runs
  <2>3. sched' = SuspendNow(sched, u) /\ pc' = [pc EXCEPT ![t] = "c_resume"]
    BY <1>3, <1>5
  <2> HIDE DEF u
  <2> QED BY <1>1, <1>2, <1>3, <2>1, <2>2, <2>3, Outs, SuspendOther
<1> QED BY <1>4, <1>5

\* ThreadResume.
LEMMA ResumeInv ==
  ASSUME Inv, NEW t \in Threads, Resume(t)
  PROVE  Inv'
<1> DEFINE u == Op(t).thread
<1>1. pc[t] \in {"resume", "c_resume"} /\ Runs(t, pc[t])
  BY RunsNow DEF Resume
<1>2. /\ u \in Threads /\ ~sched.live[t] /\ CallOK("k_return", arg[t])
      /\ \A h : Ends(h, "k_return", arg[t].call, now)
  BY <1>1, ControlFacts
<1>3. /\ pc' = [pc EXCEPT ![t] = "k_return"] /\ obj' = obj /\ stub' = stub /\ arg' = arg
      /\ now' = now
      /\ sched' = IF sched.susp[u] > 0 THEN ResumeNow(sched, u, HasProxy(u)) ELSE sched
      /\ th' = IF sched.susp[u] = 0 /\ th[u].pendSusp > 0
               THEN [th EXCEPT ![u].pendSusp = th[u].pendSusp - 1] ELSE th
  BY DEF Resume, ThreadResume, Goto
<1>4. Shape /\ SleepOK(sched) /\ BedsOK(sched) /\ DueOK(sched, now) /\ sched.susp[u] \in Nat
      /\ ThreadOK(sched, u, th[u], pc[u], arg[u], now) /\ CrabOK(sched, u, th[u].pendWakeup)
  BY <1>2, OKFields DEF Inv
<1>5. CASE sched.susp[u] > 0
  <2> DEFINE b == HasProxy(u)
  <2>1. sched' = ResumeNow(sched, u, b) /\ th' = th /\ u # t
    BY <1>1, <1>3, <1>4, <1>5 DEF Runs
  <2>2. b \in BOOLEAN /\ (b <=> sched.live[u] /\ th[u].queued # << >>)
    BY <1>2, <1>4, OKFields DEF HasProxy
  <2> HIDE DEF u, b
  <2>3. Resumed(sched, sched', u, b)
    BY <1>2, <1>4, <1>5, <2>1, <2>2, ResumeNowDoes
  <2>4. ThreadOK(sched', u, th[u], pc[u], arg[u], now)
    BY <1>2, <1>4, <1>5, <2>2, <2>3, ResumedOK
  <2>5. CrabOK(sched', u, th[u].pendWakeup)
    BY <1>2, <1>4, <2>3, CrabStaysOK DEF Resumed, CrabsKept
  <2>6. pc'[u] = pc[u]
    BY <1>2, <1>3, <1>4, <2>1 DEF Shape
  <2>7. Good(u)
    <3>1. pc'[u] = "w_boost" /\ sched'.live[u] => u \in ToSet(obj'[arg'[u].crit].q)
      BY <1>2, <1>3, <2>3, <2>6, SameQueues, BoosterStays DEF Resumed
    <3>2. sched'.rs[u] = "NEEDSRUN" => sched.rs[u] = "NEEDSRUN"
      BY <2>3 DEF Resumed
    <3> QED BY <1>3, <2>1, <2>4, <2>5, <2>6, <3>1, <3>2 DEF Good
  <2>8. ToOther(t, u, "k_return")
    <3>1. \A v \in Threads \ {u} : Passes(sched, sched', v, now) /\ CrabKept(sched, sched', v)
      BY <2>3 DEF Resumed, ExactSame, Passes, CrabsKept
    <3> QED BY <1>2, <1>3, <1>4, <2>1, <2>3, <3>1, Outs DEF ToOther, Resumed, Shape
  <2> QED BY <1>1, <1>2, <2>1, <2>7, <2>8, OtherStep
<1>6. CASE ~(sched.susp[u] > 0)
  <2>1. sched' = sched /\ sched.susp[u] = 0
    BY <1>3, <1>4, <1>6
  <2> DEFINE n == IF th[u].pendSusp > 0 THEN th[u].pendSusp - 1 ELSE 0
  <2>2. n \in Nat
    BY <1>2, <1>4, ThreadFields DEF Shape
  <2>3. th' = th \/ th' = [th EXCEPT ![u].pendSusp = n]
    BY <1>3
  <2> HIDE DEF n
  <2> QED BY <1>1, <1>3, <2>1, <2>2, <2>3, PendSuspStep
<1> QED BY <1>5, <1>6

(***************************************************************************)
(* Calls begin and return.                                                 *)
(***************************************************************************)
\* Where a call begins.
LEMMA EntryIs ==
  ASSUME NEW op \in CallType, Untimed(op)
  PROVE  /\ CallAt(Entry(op), op) /\ Entry(op) \in PCs
         /\ Entry(op) \notin InWait \union {"user", "k_return", "w_link", "w_dequeue", "w_reprio", "z_woken"}
                             \union DOMAIN AfterRun \union {"m_prio", "m_boost", "m_wake", "m_run", "m_clear", "m_adjust"}
         /\ Entry(op) = "w_config" => op.call = "wait"
<1>1. /\ op.call \in {"wait", "set", "pulse", "reset", "releaseMutex", "releaseSemaphore", "sleep",
                      "basePrio", "suspend", "resume", "scavenge"}
      /\ op.call \in {"set", "pulse"} => Kind[op.obj] \in {"auto", "manual", "intr"}
  BY CallFacts
<1> DEFINE e == Entry(op)
<1>2. CASE op.call = "wait"
  <2>1. e = "w_config"
    BY <1>2 DEF Entry
  <2> QED BY <1>2, <2>1, RunPCs
          DEF CallAt, PCs, InWait, WaitPCs, SignalPCs, MutexPCs, SemPCs, OtherPCs
<1>3. CASE op.call \in {"set", "pulse"} /\ Kind[op.obj] = "auto"
  <2>1. e = "s_auto"
    BY <1>3 DEF Entry
  <2> QED BY <1>3, <2>1, RunPCs
          DEF CallAt, PCs, InWait, WaitPCs, SignalPCs, MutexPCs, SemPCs, OtherPCs
<1>4. CASE op.call \in {"set", "pulse"} /\ Kind[op.obj] = "intr"
  <2>1. e = "s_intr"
    BY <1>4 DEF Entry
  <2> QED BY <1>4, <2>1, RunPCs
          DEF CallAt, PCs, InWait, WaitPCs, SignalPCs, MutexPCs, SemPCs, OtherPCs
<1>5. CASE op.call \in {"set", "pulse"} /\ Kind[op.obj] = "manual"
  <2>1. e = "m_mod"
    BY <1>5 DEF Entry
  <2> QED BY <1>5, <2>1, RunPCs
          DEF CallAt, PCs, InWait, WaitPCs, SignalPCs, MutexPCs, SemPCs, OtherPCs
<1>6. CASE op.call = "reset"
  <2>1. e = "s_reset"
    BY <1>6 DEF Entry
  <2> QED BY <1>6, <2>1, RunPCs
          DEF CallAt, PCs, InWait, WaitPCs, SignalPCs, MutexPCs, SemPCs, OtherPCs
<1>7. CASE op.call = "releaseMutex"
  <2>1. e = "r_test"
    BY <1>7 DEF Entry
  <2> QED BY <1>7, <2>1, RunPCs
          DEF CallAt, PCs, InWait, WaitPCs, SignalPCs, MutexPCs, SemPCs, OtherPCs
<1>8. CASE op.call = "releaseSemaphore"
  <2>1. e = "p_add"
    BY <1>8 DEF Entry
  <2> QED BY <1>8, <2>1, RunPCs
          DEF CallAt, PCs, InWait, WaitPCs, SignalPCs, MutexPCs, SemPCs, OtherPCs
<1>9. CASE op.call = "sleep"
  <2>1. e = IF op.time = INFINITE THEN "suspendSelf" ELSE IF op.time = 0 THEN "yield" ELSE "z_put"
    BY <1>9 DEF Entry
  <2>2. CASE op.time = INFINITE
    <3>1. e = "suspendSelf"
      BY <2>1, <2>2
    <3> QED BY <1>9, <2>2, <3>1, RunPCs
            DEF CallAt, PCs, InWait, WaitPCs, SignalPCs, MutexPCs, SemPCs, OtherPCs
  <2>3. CASE op.time = 0
    <3>1. e = "yield"
      BY <2>1, <2>3 DEF INFINITE
    <3> QED BY <1>9, <2>3, <3>1, RunPCs
            DEF CallAt, PCs, InWait, WaitPCs, SignalPCs, MutexPCs, SemPCs, OtherPCs
  <2>4. CASE op.time \notin {0, INFINITE}
    <3>1. e = "z_put"
      BY <2>1, <2>4
    <3> QED BY <1>9, <3>1, RunPCs
            DEF CallAt, PCs, InWait, WaitPCs, SignalPCs, MutexPCs, SemPCs, OtherPCs
  <2> QED BY <2>2, <2>3, <2>4
<1>10. CASE op.call = "scavenge"
  <2>1. e = "c_suspend"
    BY <1>10 DEF Entry
  <2> QED BY <1>10, <2>1, RunPCs
          DEF CallAt, PCs, InWait, WaitPCs, SignalPCs, MutexPCs, SemPCs, OtherPCs
<1>11. CASE op.call \in {"basePrio", "suspend", "resume"}
  <2>1. e = op.call
    BY <1>11 DEF Entry
  <2> QED BY <1>11, <2>1, RunPCs
          DEF CallAt, PCs, InWait, WaitPCs, SignalPCs, MutexPCs, SemPCs, OtherPCs
<1> QED BY <1>1, <1>2, <1>3, <1>4, <1>5, <1>6, <1>7, <1>8, <1>9, <1>10, <1>11

\* What a call prepares.
LEMMA PreparedIs ==
  ASSUME Shape, sched \in SleepType, NEW t \in Threads, NEW op \in CallType
  PROVE  /\ Prepared(t, op) \in ThreadType
         /\ op.call = "wait" => /\ Prepared(t, op).pend = op.objs
                                /\ Prepared(t, op).pendTime = PendTime(op.time)
<1>1. th[t] \in ThreadType /\ now \in Nat /\ sched.cprio[t] \in Priority
  BY SleepFields DEF Shape, Priorities
<1>2. CASE op.call = "wait"
  <2> DEFINE p == sched.cprio[t]
             q == op.objs
             n == PendTime(op.time)
             w == now + n
             y == [th[t] EXCEPT !.proxPrio = p, !.pend = q, !.pendTime = n, !.pendWakeup = w]
  <2>1. Prepared(t, op) = y
    BY <1>2 DEF Prepared
  <2>2. q \in Seq(Objects) /\ n \in {INFINITE} \union Nat
    BY <1>2, CallFacts, PendTimes
  <2>3. w \in Int
    BY <1>1, <2>2 DEF INFINITE
  <2> HIDE DEF p, q, n, w
  <2>4. y \in ThreadType /\ y.pend = q /\ y.pendTime = n
    BY <1>1, <2>2, <2>3 DEF ThreadType, p
  <2> QED BY <2>1, <2>4 DEF q, n
<1>3. CASE op.call = "sleep"
  <2> DEFINE w == now + PendTime(op.time)
             y == [th[t] EXCEPT !.pendWakeup = w]
  <2>1. Prepared(t, op) = y
    BY <1>3 DEF Prepared
  <2>2. w \in Int
    BY <1>1, <1>3, PendTimes DEF INFINITE
  <2> HIDE DEF w
  <2>3. y \in ThreadType
    BY <1>1, <2>2 DEF ThreadType
  <2> QED BY <1>3, <2>1, <2>3
<1>4. CASE op.call \notin {"wait", "sleep"}
  <2>1. Prepared(t, op) = th[t]
    BY <1>4 DEF Prepared
  <2> QED BY <1>1, <1>4, <2>1
<1> QED BY <1>2, <1>3, <1>4

\* A call begins.
LEMMA BeginCallInv ==
  ASSUME UntimedInterrupts, Inv, NEW t \in Threads, NEW op \in Ops[t], BeginCall(t, op)
  PROVE  Inv'
<1> DEFINE h == Prepared(t, op)
           e == Entry(op)
           x == th[t].bprio
           a == [arg[t] EXCEPT !.call = op, !.oldPrio = x]
<1>1. Runs(t, "user")
  BY RunsNow DEF BeginCall
<1>2. Shape /\ sched \in SleepType /\ SleepOK(sched)
  BY OKFields DEF Inv
<1>3. op \in CallType /\ Untimed(op)
  BY OpsAssumption DEF UntimedInterrupts
<1>4. /\ CallAt(e, op) /\ e \in PCs /\ (e = "w_config" => op.call = "wait")
      /\ e \notin InWait \union {"user", "k_return", "w_link", "w_dequeue", "w_reprio", "z_woken"}
                  \union DOMAIN AfterRun \union {"m_prio", "m_boost", "m_wake", "m_run", "m_clear", "m_adjust"}
  BY <1>3, EntryIs
<1>5. /\ h \in ThreadType
      /\ op.call = "wait" => h.pend = op.objs /\ h.pendTime = PendTime(op.time)
  BY <1>2, <1>3, PreparedIs
<1>6. /\ sched' = [sched EXCEPT !.crab[t] = NoPlace] /\ th' = [th EXCEPT ![t] = h]
      /\ arg' = [arg EXCEPT ![t] = a] /\ pc' = [pc EXCEPT ![t] = e]
      /\ obj' = obj /\ stub' = stub /\ now' = now
  BY DEF BeginCall, Goto
<1>7. x \in Priority /\ arg[t].tgt = NoThread /\ arg[t] \in ArgType /\ ~sched.live[t]
  BY <1>1, RunPCs, ThreadFields DEF Runs, InWait
<1> HIDE DEF h, e, x
<1>8. a \in ArgType /\ a.call = op /\ a.tgt = NoThread
  BY <1>3, <1>7 DEF ArgType
<1> HIDE DEF a
<1>9. OwnWait(sched, sched', t)
  BY <1>2, <1>6, OwnWaitIs
<1>10. /\ sched'.rs[t] = "RUNNING" /\ ~Queued(sched', t) /\ ~Hangs(sched', t)
       /\ sched'.running = t
  BY <1>1, <1>2, <1>9, OwnWaitDoes DEF Runs
<1>11. sched'.crab[t] = NoPlace /\ ~sched'.live[t]
  BY <1>2, <1>6, <1>7, SleepFields
<1>12. CallOK(e, a)
  BY <1>4, <1>8, NextOK DEF InWait
<1>13. ThreadOK(sched', t, h, e, a, now)
  <2>1. Ends(h, e, a.call, now)
    BY <1>4 DEF Ends
  <2>2. CASE e # "w_config"
    BY <1>4, <1>10, <1>11, <1>12, <2>1, <2>2, UpOK
  <2>3. CASE e = "w_config"
    <3>1. StandsOK(sched', t, "w_config")
      BY <1>10 DEF StandsOK
    <3>2. OpenOK(sched', t, "w_config") /\ OverOK(sched', t, "w_config", h)
      BY <1>11 DEF OpenOK, OverOK, InWait
    <3>3. ProxiesOK(sched', t, "w_config", h, op)
      BY <1>4, <1>5, <2>3 DEF ProxiesOK, InWait
    <3>4. TimesOK(sched', t, "w_config", h, op, now)
      BY <1>10 DEF TimesOK, Ends
    <3> QED BY <1>8, <1>12, <2>3, <3>1, <3>2, <3>3, <3>4 DEF ThreadOK
  <2> QED BY <2>2, <2>3
<1>14. /\ th'[t] = h /\ arg'[t] = a /\ pc'[t] = e
       /\ \A u \in Threads \ {t} : th'[u] = th[u] /\ pc'[u] = pc[u] /\ arg'[u] = arg[u]
  BY <1>2, <1>6 DEF Shape
<1>15. ShapeNext
  BY <1>2, <1>4, <1>5, <1>6, <1>8 DEF ShapeNext, Shape
<1>16. OwnersNext /\ QueuesKept
  BY <1>6, SameQueues
<1>17. e # "w_boost"
  BY <1>4 DEF InWait
<1> QED BY <1>1, <1>6, <1>7, <1>8, <1>9, <1>11, <1>13, <1>14, <1>15, <1>16, <1>17, OwnWaitStep

\* A call returns to its client: a late suspension takes effect.
LEMMA ReturnInv ==
  ASSUME Inv, NEW t \in Threads, ReturnToUser(t)
  PROVE  Inv'
<1> DEFINE intr == Op(t).call = "wait" /\ Kind[Head(Op(t).objs)] = "intr"
           suspend == th[t].pendSusp > 0 /\ ~intr
           n == IF suspend THEN 0 ELSE th[t].pendSusp
           q == Cleaned(sched, t)
           h == [th[t] EXCEPT !.proxPrio = 0, !.ret = TimeOut, !.pendReturn = TimeOut,
                              !.pendTime = 0, !.pendWakeup = 0, !.pendSusp = n]
<1>1. Runs(t, "k_return")
  BY RunsNow DEF ReturnToUser
<1>2. Shape /\ sched \in SleepType /\ SleepOK(sched) /\ DueOK(sched, now)
  BY OKFields DEF Inv
<1>3. /\ sched' = IF suspend THEN [BlockCurrent(q) EXCEPT !.susp[t] = th[t].pendSusp] ELSE q
      /\ th' = [th EXCEPT ![t] = h] /\ arg' = [arg EXCEPT ![t] = NoArg]
      /\ pc' = [pc EXCEPT ![t] = "user"] /\ obj' = obj /\ stub' = stub /\ now' = now
  BY DEF ReturnToUser, Cleaned, Goto
<1>4. ~sched.live[t] /\ arg[t].tgt = NoThread /\ th[t] \in ThreadType
  BY <1>1, RunPCs DEF Runs, InWait
<1>5. th[t].pendSusp \in Nat /\ n \in Nat
  BY <1>4, ThreadFields
<1>6. NoArg \in ArgType /\ NoArg.tgt = NoThread
  <2>1. 0 \in Priority
    BY <1>2, PrioFacts DEF Priority
  <2> QED BY <2>1 DEF NoArg, ArgType
<1>7. CallOK("user", NoArg)
  BY <1>6, RunPCs DEF CallOK
<1>8. suspend => th[t].pendSusp > 0
  OBVIOUS
<1> HIDE DEF suspend, n, q
<1>9. h \in ThreadType
  <2>1. 0 \in Priority /\ TimeOut \in Outcome
    BY <1>2, PrioFacts DEF Priority, Outcome
  <2>2. ASSUME NEW x \in ThreadType, NEW p \in Priority, NEW r \in Outcome, NEW time \in Nat,
               NEW w \in Int, NEW k \in Nat
        PROVE  [x EXCEPT !.proxPrio = p, !.ret = r, !.pendReturn = r, !.pendTime = time,
                         !.pendWakeup = w, !.pendSusp = k] \in ThreadType
    BY <2>2 DEF ThreadType
  <2>3. 0 \in Nat /\ 0 \in Int
    OBVIOUS
  <2> QED BY <1>4, <1>5, <2>1, <2>2, <2>3, Zenon
<1> HIDE DEF h
<1>10. CleanedTo(sched, t, q)
  BY <1>2, CleanedSets DEF q
<1>11. OwnWait(sched, q, t)
  BY <1>2, OwnWaitIs DEF q
<1>12. q.rs[t] = "RUNNING" /\ ~Queued(q, t) /\ ~Hangs(q, t)
  BY <1>1, <1>2, <1>11, OwnWaitDoes DEF Runs
<1>13. /\ th'[t] = h /\ arg'[t] = NoArg /\ pc'[t] = "user"
       /\ \A u \in Threads \ {t} : th'[u] = th[u] /\ pc'[u] = pc[u] /\ arg'[u] = arg[u]
  BY <1>2, <1>3 DEF Shape
<1>14. ShapeNext
  BY <1>2, <1>3, <1>6, <1>9 DEF ShapeNext, Shape, PCs, OtherPCs
<1>15. OwnersNext /\ QueuesKept
  BY <1>3, SameQueues
<1>16. CASE ~suspend
  <2>1. sched' = q
    BY <1>3, <1>16
  <2>2. ~q.live[t] /\ q.crab[t] = NoPlace
    BY <1>2, <1>4, <1>10, SleepFields DEF CleanedTo
  <2>3. ThreadOK(q, t, h, "user", NoArg, now)
    <3>1. Ends(h, "user", NoArg.call, now)
      BY DEF Ends
    <3> QED BY <1>7, <1>12, <2>2, <3>1, UpOK DEF InWait
  <2> QED BY <1>1, <1>3, <1>4, <1>6, <1>11, <1>13, <1>14, <1>15, <2>1, <2>2, <2>3, OwnWaitStep
<1>17. CASE suspend
  <2> DEFINE b == BlockCurrent(q)
             m == th[t].pendSusp
  <2>1. sched' = [b EXCEPT !.susp[t] = m] /\ m \in Nat /\ m > 0
    BY <1>3, <1>5, <1>8, <1>17
  <2>2. q \in SleepType /\ q.running = t
    BY <1>1, <1>10 DEF CleanedTo, SamePlaces, Runs
  <2>3. /\ b \in SleepType /\ b.rs = [q.rs EXCEPT ![t] = "BLOCKED"] /\ b.running = NoThread
        /\ b.runq = q.runq /\ b.cprio = q.cprio /\ b.sleepq = q.sleepq /\ b.hang = q.hang
        /\ b.wakeup = q.wakeup /\ b.crab = q.crab /\ b.susp = q.susp /\ b.live = q.live
        /\ b.lpce = q.lpce /\ b.wait = q.wait /\ b.needsleep = q.needsleep
    BY <2>2 DEF BlockCurrent, SleepType, RunState
  <2> HIDE DEF b, m
  <2>4. /\ sched' \in SleepType /\ sched'.susp = [b.susp EXCEPT ![t] = m]
        /\ sched'.rs = b.rs /\ sched'.running = b.running /\ sched'.wait = b.wait
        /\ sched'.runq = b.runq /\ sched'.cprio = b.cprio /\ sched'.sleepq = b.sleepq
        /\ sched'.hang = b.hang /\ sched'.wakeup = b.wakeup /\ sched'.crab = b.crab
        /\ sched'.live = b.live /\ sched'.lpce = b.lpce /\ sched'.needsleep = b.needsleep
    BY <2>1, <2>3 DEF SleepType
  <2>5. /\ sched'.running = NoThread /\ sched'.runq = sched.runq /\ sched'.cprio = sched.cprio
        /\ sched'.sleepq = sched.sleepq /\ sched'.hang = sched.hang
        /\ sched'.rs = [sched.rs EXCEPT ![t] = "BLOCKED"]
        /\ sched'.susp = [sched.susp EXCEPT ![t] = m]
        /\ sched'.wakeup = [sched.wakeup EXCEPT ![t] = 0]
        /\ sched'.crab = [sched.crab EXCEPT ![t] = NoPlace]
        /\ sched'.wait = [sched.wait EXCEPT ![t] = "SIGNALLED"]
        /\ sched'.live = sched.live /\ sched'.lpce = sched.lpce
        /\ sched'.needsleep = sched.needsleep
    BY <1>10, <2>3, <2>4 DEF CleanedTo, SamePlaces
  <2>6. /\ sched'.rs[t] = "BLOCKED" /\ sched'.susp[t] = m /\ sched'.crab[t] = NoPlace /\ ~sched'.live[t]
        /\ \A u \in Threads \ {t} :
             /\ sched'.rs[u] = sched.rs[u] /\ sched'.susp[u] = sched.susp[u]
             /\ sched'.wakeup[u] = sched.wakeup[u] /\ sched'.crab[u] = sched.crab[u]
             /\ sched'.wait[u] = sched.wait[u]
    BY <1>2, <1>4, <2>5, SleepFields
  <2>7. OwnOnly(sched, sched', t)
    BY <2>4, <2>5, <2>6 DEF OwnOnly
  <2>8. OwnChange(sched, sched', t)
    BY <1>1, <1>2, <2>5, <2>6, <2>7, RunningBlocksDoes DEF Runs
  <2>9. ~Queued(sched', t) /\ ~Hangs(sched', t)
    BY <1>1, <2>8 DEF OwnChange, Runs
  <2>10. ThreadOK(sched', t, h, "user", NoArg, now)
    <3>1. StandsOK(sched', t, "user")
      BY <2>1, <2>6, <2>9 DEF StandsOK
    <3>2. OpenOK(sched', t, "user") /\ OverOK(sched', t, "user", h)
          /\ ProxiesOK(sched', t, "user", h, NoArg.call)
      BY <2>6 DEF OpenOK, OverOK, ProxiesOK, InWait
    <3>3. TimesOK(sched', t, "user", h, NoArg.call, now)
      BY <2>9 DEF TimesOK, Ends
    <3> QED BY <1>7, <3>1, <3>2, <3>3 DEF ThreadOK
  <2>11. CrabOK(sched', t, h.pendWakeup)
    BY <2>6, NoPlaceOK
  <2>12. Good(t)
    BY <1>3, <1>13, <2>6, <2>10, <2>11 DEF Good
  <2> QED BY <1>2, <1>3, <1>4, <1>6, <1>13, <1>14, <1>15, <2>8, <2>12, SelfStep DEF OwnChange
<1> QED BY <1>16, <1>17

(***************************************************************************)
(* Interrupts, the clock and the dispatcher.                               *)
(***************************************************************************)
\* A step that passes everybody by.
LEMMA PassesAll ==
  ASSUME Inv, SleepOK(sched'), DueOK(sched', now'), now' \in Nat, now <= now',
         \A u \in Threads : Passes(sched, sched', u, now'), CrabsKept(sched, sched'),
         th' = th, pc' = pc, arg' = arg, stub' = stub, obj' \in [Objects -> ObjectShape],
         \A o \in Objects : obj'[o].q = obj[o].q /\ obj'[o].owner = obj[o].owner
  PROVE  Inv'
<1>1. \A u \in Threads : Apart(u)
  BY DEF Apart, CrabsKept
<1>2. World
  <2>1. OwnersNext /\ QueuesKept
    BY SameQueues
  <2>2. TargetsKept
    BY DEF TargetsKept
  <2>3. ShapeNext
    BY DEF ShapeNext, Shape, Inv
  <2> QED BY <2>1, <2>2, <2>3 DEF World
<1> QED BY <1>1, <1>2, Assemble

\* Nothing happens.
LEMMA StutterInv ==
  ASSUME Inv, UNCHANGED vars
  PROVE  Inv'
<1>1. /\ sched' = sched /\ obj' = obj /\ stub' = stub /\ th' = th /\ pc' = pc /\ arg' = arg
      /\ now' = now
  BY DEF vars
<1>2. SleepOK(sched) /\ DueOK(sched, now) /\ Shape
  BY DEF Inv
<1>3. \A u \in Threads : Passes(sched, sched', u, now) /\ CrabKept(sched, sched', u)
  BY <1>1, NothingPasses
<1> QED BY <1>1, <1>2, <1>3, PassesAll DEF CrabsKept, Shape

\* An interrupt's waiter is woken, or its event set.
LEMMA InterruptInv ==
  ASSUME Inv, NEW o \in Objects, Interrupt(o)
  PROVE  Inv'
<1>1. Shape /\ SleepOK(sched) /\ BedsOK(sched) /\ DueOK(sched, now) /\ now \in Nat
  BY OKFields DEF Inv, Shape
<1>2. stub' = stub /\ pc' = pc /\ arg' = arg /\ now' = now
  BY DEF Interrupt
<1>3. CASE IntrWaiter(o) = {}
  <2>1. obj' = [obj EXCEPT ![o].state = TRUE] /\ sched' = sched /\ th' = th
    BY <1>3 DEF Interrupt
  <2> DEFINE y == [obj[o] EXCEPT !.state = TRUE]
  <2>2. Changed(obj[o], y, obj[o].q, obj[o].owner)
    BY <1>1, ObjectChanges DEF Shape
  <2>3. obj' = [obj EXCEPT ![o] = y]
    BY <2>1
  <2> HIDE DEF y
  <2>4. /\ obj' \in [Objects -> ObjectShape]
        /\ \A m \in Objects : obj'[m].q = obj[m].q /\ obj'[m].owner = obj[m].owner
    BY <1>1, <2>2, <2>3, OneObjectSame DEF Shape
  <2>5. \A u \in Threads : Passes(sched, sched', u, now) /\ CrabKept(sched, sched', u)
    BY <2>1, NothingPasses
  <2> QED BY <1>1, <1>2, <2>1, <2>4, <2>5, PassesAll DEF CrabsKept
<1>4. CASE IntrWaiter(o) # {}
  <2>1. PICK w \in IntrWaiter(o) :
          /\ sched' = IF sched.wait[w] = "BLOCKED" THEN IntrWakes(sched, w) ELSE Deliver(sched, w)
          /\ th' = Signalled(w, o) /\ obj' = obj
    BY <1>4 DEF Interrupt, IntrWakes
  <2>2. w \in Threads /\ sched.live[w]
    BY IntrWaiterIs
  <2>3. ThreadOK(sched, w, th[w], pc[w], arg[w], now) /\ CrabOK(sched, w, th[w].pendWakeup)
    BY <2>2 DEF Inv
  <2>4. OwnersNext /\ QueuesKept
    BY <2>1, SameQueues
  <2>5. /\ SleepOK(sched') /\ DueOK(sched', now) /\ CrabsKept(sched, sched')
        /\ \A u \in Threads \ {w} : ExactSame(sched, sched', u) /\ th'[u] = th[u]
        /\ th' \in [Threads -> ThreadType] /\ ThreadOK(sched', w, th'[w], pc[w], arg[w], now)
        /\ th'[w].pendWakeup = th[w].pendWakeup
        /\ ~sched'.live[w] /\ sched'.rs[w] # "NEEDSRUN"
    <3>1. CASE sched.wait[w] = "BLOCKED"
      <4>1. sched.rs[w] = "BLOCKED"
        BY <2>2, <2>3, <3>1 DEF ThreadOK, OpenOK
      <4>2. /\ Lawful(sched, sched', now) /\ \A u \in Threads \ {w} : ExactSame(sched, sched', u)
            /\ Woken(EndWait(sched, w), sched', w) /\ EndedWait(sched, EndWait(sched, w), w)
        BY <1>1, <2>1, <2>2, <3>1, <4>1, IntrWakesDoes
      <4>3. th' = [th EXCEPT ![w].ret = o]
        BY <2>1, <3>1 DEF Signalled
      <4>4. /\ th' \in [Threads -> ThreadType] /\ Gets(th[w], th'[w], TRUE, o)
            /\ \A u \in Threads \ {w} : th'[u] = th[u]
        <5>1. o \in Outcome
          BY DEF Outcome
        <5> QED BY <1>1, <2>2, <4>3, <5>1 DEF Shape, ThreadType, Gets
      <4>5. ThreadOK(sched', w, th'[w], pc[w], arg[w], now)
        BY <1>1, <2>2, <2>3, <3>1, <4>2, <4>4, IntrOK
      <4>6. ~sched'.live[w] /\ sched'.rs[w] # "NEEDSRUN"
        BY <4>2 DEF Woken, EndedWait
      <4> QED BY <4>2, <4>4, <4>5, <4>6 DEF Lawful, Gets
    <3>2. CASE sched.wait[w] # "BLOCKED"
      <4>1. /\ Marked(sched, sched', w) /\ th' \in [Threads -> ThreadType]
            /\ Gets(th[w], th'[w], sched.wait[w] = "BLOCKED", o)
            /\ \A u \in Threads \ {w} : th'[u] = th[u]
            /\ ThreadOK(sched', w, th'[w], pc[w], arg[w], now)
        BY <2>1, <2>2, <3>2, Delivered
      <4>2. sched.rs[w] # "NEEDSRUN"
        BY <2>2, <2>3, <3>2 DEF ThreadOK, StandsOK, OpenOK
      <4> QED BY <1>1, <3>2, <4>1, <4>2 DEF Marked, Gets
    <3> QED BY <3>1, <3>2
  <2>6. Good(w)
    <3>1. CrabOK(sched', w, th'[w].pendWakeup)
      BY <1>1, <2>2, <2>3, <2>5, CrabStaysOK DEF CrabsKept
    <3> QED BY <1>2, <2>5, <3>1 DEF Good
  <2>7. ASSUME NEW u \in Threads \ {w}
        PROVE  Apart(u)
    BY <1>2, <2>5 DEF Apart, ExactSame, Passes, CrabsKept
  <2>8. World
    <3>1. TargetsKept
      BY <1>2 DEF TargetsKept
    <3>2. ShapeNext
      BY <1>1, <1>2, <2>1, <2>5 DEF ShapeNext, Shape
    <3> QED BY <1>1, <1>2, <2>4, <2>5, <3>1, <3>2 DEF World
  <2> QED BY <2>6, <2>7, <2>8, Assemble
<1> QED BY <1>3, <1>4

\* The clock ticks, and whose time it is wakes.
LEMMA TickInv ==
  ASSUME Inv, Tick
  PROVE  Inv'
<1> DEFINE n == now + 1
<1>1. Shape /\ SleepOK(sched) /\ BedsOK(sched) /\ DueOK(sched, now) /\ now \in Nat /\ n \in Nat /\ now <= n
  BY OKFields DEF Inv, Shape
<1>2. /\ now' = n /\ obj' = obj /\ stub' = stub /\ th' = th /\ pc' = pc /\ arg' = arg
      /\ sched' = IF RingDue(sched, n) THEN SetReschedule(TimerWakes(sched)) ELSE sched
  BY DEF Tick
<1>3. DueOK(sched, n)
  <2>1. \A u : Hangs(sched, u) => sched.wakeup[u] \in Nat
    BY <1>1, BedFacts, OKFields DEF Times
  <2> QED BY <1>1, <2>1 DEF DueOK
<1> HIDE DEF n
<1>4. /\ SleepOK(sched') /\ DueOK(sched', n) /\ CrabsKept(sched, sched')
      /\ \A u \in Threads : Passes(sched, sched', u, n)
  <2>1. CASE RingDue(sched, n)
    <3> DEFINE r == TimerWakes(sched)
    <3>1. sched' = SetReschedule(r)
      BY <1>2, <2>1
    <3>2. Lawful(sched, r, n) /\ \A u \in Threads : Passes(sched, r, u, n)
      BY <1>1, <1>3, <2>1, TimerWakesDoes
    <3> HIDE DEF r
    <3>3. SleepOK(r) /\ DueOK(r, n) /\ CrabsKept(sched, r) /\ r \in SleepType
      BY <3>2, OKFields DEF Lawful
    <3>4. /\ sched' \in SleepType /\ SameSleep(r, sched') /\ sched'.rs = r.rs
          /\ sched'.running = r.running /\ sched'.runq = r.runq /\ sched'.cprio = r.cprio
      BY <3>1, <3>3 DEF SetReschedule, SleepType, SameSleep
    <3>5. QueueHolds(sched') /\ RunningMarked(sched')
      BY <3>3, <3>4, OKFields, ZenonT(30) DEF QueueHolds, RunningMarked, Runnable
    <3>6. RunChange(r, sched', NoThread)
      BY <3>3, <3>4, <3>5, RunChangeDoes, NoThreadAssumption
    <3>7. CrabsKept(sched, sched')
      BY <1>1, <3>3, <3>6, CrabsKeptTwice DEF RunChange
    <3>8. \A u \in Threads : Passes(sched, sched', u, n)
      <4>1. \A u \in Threads : ExactSame(r, sched', u)
        BY <3>6, NoThreadAssumption DEF RunChange
      <4> QED BY <3>2, <4>1, PassesThenSame
    <3> QED BY <3>3, <3>6, <3>7, <3>8 DEF RunChange
  <2>2. CASE ~RingDue(sched, n)
    <3>1. sched' = sched
      BY <1>2, <2>2
    <3>2. \A u \in Threads : Passes(sched, sched', u, n) /\ CrabKept(sched, sched', u)
      BY <3>1, NothingPasses
    <3> QED BY <1>1, <1>3, <3>1, <3>2 DEF CrabsKept
  <2> QED BY <2>1, <2>2
<1> QED BY <1>1, <1>2, <1>4, PassesAll DEF Shape

\* The dispatcher.
LEMMA NextThreadInv ==
  ASSUME Inv, KCNextThread
  PROVE  Inv'
<1> DEFINE prioCalc == [t \in Threads |-> IF th[t].noPrioCalc THEN 0 ELSE OwnedPrio(t)]
<1>1. Shape /\ SleepOK(sched) /\ DueOK(sched, now) /\ now \in Nat
  BY DEF Inv, Shape
<1>2. /\ sched' = NextThread(sched, prioCalc)
      /\ now' = now /\ obj' = obj /\ stub' = stub /\ th' = th /\ pc' = pc /\ arg' = arg
  BY DEF KCNextThread, NextThread
<1>3. prioCalc \in Priorities
  <2>1. 0 \in Priority
    BY <1>1, PrioFacts DEF Priority
  <2> QED BY <1>1, <2>1, PrioFacts DEF Priorities
<1> HIDE DEF prioCalc
<1>4. Lawful(sched, sched', now) /\ \A u \in Threads : Passes(sched, sched', u, now)
  BY <1>1, <1>2, <1>3, NextThreadDoes
<1> QED BY <1>1, <1>2, <1>4, PassesAll DEF Lawful, Shape

(***************************************************************************)
(* The theorems.                                                           *)
(***************************************************************************)
\* The scheduler record a queue of all threads makes, before anything runs.
FirstSched(q) ==
  [running |-> NoThread, resched |-> TRUE, runq |-> q,
   rs |-> [t \in Threads |-> "RUNNABLE"], cprio |-> BasePriority,
   sleepq |-> << >>, hang |-> [t \in Threads |-> << >>],
   wakeup |-> [t \in Threads |-> 0], needsleep |-> {},
   crab |-> [t \in Threads |-> NoPlace], susp |-> [t \in Threads |-> 0],
   live |-> [t \in Threads |-> FALSE], wait |-> [t \in Threads |-> "SIGNALLED"],
   lpce |-> [t \in Threads |-> FALSE]]

\* It is in order.
LEMMA FirstSchedOK ==
  ASSUME NEW q \in Seq(Threads), InPriorityOrder(q), NEW s, s = FirstSched(q)
  PROVE  SleepOK(s) /\ \A n : DueOK(s, n)
<1>1. /\ s.running = NoThread /\ s.resched = TRUE /\ s.runq = q /\ s.rs = [t \in Threads |-> "RUNNABLE"]
      /\ s.cprio = BasePriority /\ s.sleepq = << >> /\ s.hang = [t \in Threads |-> << >>]
      /\ s.susp = [t \in Threads |-> 0]
  BY DEF FirstSched
<1>2. s \in SleepType
  BY BasePriorityAssumption DEF FirstSched, SleepType, Priorities, Times, Ring, Place, NoPlace,
                                RunState, WaitState
<1>3. Sleepers(s.sleepq) = {} /\ \A t : ~Queued(s, t)
  BY <1>1 DEF Sleepers, Queued
<1>4. \A t \in Threads : s.hang[t] = << >>
  BY <1>1
<1>5. \A t : ~Hangs(s, t)
  BY <1>4 DEF Hangs, ToSet
<1>6. BedsOK(s)
  <2>1. QueueOK(s.sleepq, s.wakeup)
    BY <1>1 DEF QueueOK
  <2>2. \A t \in Threads : HangsOK(s, t)
    BY <1>4 DEF HangsOK, NoDuplicates, ToSet
  <2> QED BY <1>2, <2>1, <2>2 DEF BedsOK
<1>7. QueueHolds(s)
  <2>1. Runnable(s) = Threads
    BY <1>1 DEF Runnable
  <2> QED BY <1>1, <2>1 DEF QueueHolds, Stands, InPriorityOrder
<1>8. RunningMarked(s)
  BY <1>1, NoThreadAssumption DEF RunningMarked
<1>9. \A t \in Threads : StateOK(s, t)
  BY <1>1, <1>3, <1>5 DEF StateOK
<1> QED BY <1>5, <1>6, <1>7, <1>8, <1>9 DEF SleepOK, DueOK

\* At first every thread is in user mode.
LEMMA InitInv ==
  ASSUME Init
  PROVE  Inv
<1>1. PICK q \in [1 .. Cardinality(Threads) -> Threads] :
        InPriorityOrder(q) /\ sched = FirstSched(q)
  BY DEF Init, FirstSched
<1>2. q \in Seq(Threads)
  BY ThreadsAssumption, FS_CardinalityType
<1>3. SleepOK(sched) /\ DueOK(sched, now)
  BY <1>1, <1>2, FirstSchedOK
<1>4. \A t \in Threads : /\ sched.rs[t] = "RUNNABLE" /\ sched.crab[t] = NoPlace /\ ~sched.live[t]
  BY <1>1 DEF FirstSched
<1>5. \A t \in Threads : ~Queued(sched, t) /\ ~Hangs(sched, t)
  BY <1>3, <1>4, OKFields DEF StateOK
<1>6. \A t \in Threads : pc[t] = "user" /\ arg[t] = NoArg
  BY DEF Init
<1>7. \A o \in Objects : obj[o].q = << >>
  BY DEF Init
<1>8. 0 \in Priority /\ MAX_PRIORITY_LEVELS - 1 \in Priority
  BY DEF MAX_PRIORITY_LEVELS, Priority
<1>9. NoArg \in ArgType /\ NoArg.tgt = NoThread
  BY <1>8 DEF NoArg, ArgType
<1>10. Shape
  <2>1. obj \in [Objects -> ObjectShape]
    BY <1>8 DEF Init, ObjectShape
  <2>2. th \in [Threads -> ThreadType]
    <3>1. TimeOut \in Outcome
      BY DEF Outcome
    <3> QED BY <1>8, <3>1, BasePriorityAssumption DEF Init, ThreadType
  <2>3. pc \in [Threads -> PCs] /\ stub \in [Threads -> Seq(Threads)] /\ now \in Nat
    BY DEF Init, PCs, OtherPCs
  <2>4. arg \in [Threads -> ArgType]
    BY <1>9 DEF Init
  <2> QED BY <2>1, <2>2, <2>3, <2>4 DEF Shape
<1>11. ASSUME NEW t \in Threads
       PROVE  /\ CrabOK(sched, t, th[t].pendWakeup) /\ ThreadOK(sched, t, th[t], pc[t], arg[t], now)
  <2>1. CallOK("user", NoArg)
    BY <1>9, RunPCs DEF CallOK
  <2>2. Ends(th[t], "user", NoArg.call, now)
    BY DEF Ends
  <2>3. ThreadOK(sched, t, th[t], "user", NoArg, now)
    BY <1>4, <1>5, <2>1, <2>2, UpOK DEF InWait
  <2> QED BY <1>4, <1>6, <2>3, NoPlaceOK
<1>12. Wakers /\ Owners /\ Boosters
  BY <1>4, <1>6, <1>7 DEF Wakers, Owners, Boosters
<1> QED BY <1>3, <1>10, <1>11, <1>12 DEF Inv

\* A step of a wait.
LEMMA WaitInv ==
  ASSUME Inv, NEW t \in Threads, Wait(t)
  PROVE  Inv'
BY WaitConfigInv, WaitSignalledInv, WaitBlocksInv, WaitTimesOutInv, WaitSleepsInv, WaitWokenInv,
   LaterLinkInv, PostBoostMutInv, DequeueProxyInv, DoReprioInv, WaitReturnsInv, WaitTakesInv,
   WaitPollsInv, WaitEnqueuesInv
   DEF Wait

\* A step of a call that signals.
LEMMA SignalInv ==
  ASSUME Inv, NEW t \in Threads, Signal(t)
  PROVE  Inv'
BY EventModAutoInv, EventModIntrInv, ResetEventInv, EventModManInv, SetNoPrioCalcInv, BoostSelfInv,
   WakeOneInv,
   ClearNoPrioCalcInv, AdjustPrioDownInv, ReleaseMutexInv, PreUnlinkInv, LeaveMutexInv,
   PostUnlinkInv, SemAddInv, SemPopInv, MakeRunNeededInv
   DEF Signal

\* A step of a call about threads.
LEMMA ControlInv ==
  ASSUME Inv, NEW t \in Threads, Control(t)
  PROVE  Inv'
BY YieldInv, PutToSleepInv, SleepWokenInv, BasePrioInv, SuspendSelfInv, SuspendInv, ResumeInv,
   ScavengeInv
   DEF Control

\* Any step.
LEMMA StepInv ==
  ASSUME UntimedInterrupts, Inv, [Next]_vars
  PROVE  Inv'
<1>1. CASE UNCHANGED vars
  BY <1>1, StutterInv
<1>2. CASE Next
  <2>1. ASSUME NEW t \in Threads, KernelStep(t)
        PROVE  Inv'
    BY <2>1, WaitInv, SignalInv, ControlInv, ReturnInv DEF KernelStep
  <2>2. ASSUME NEW t \in Threads, ClientStep(t)
        PROVE  Inv'
    BY <2>2, RetireInv, BeginCallInv DEF ClientStep
  <2>3. CASE \E o \in Objects : Interrupt(o)
    BY <2>3, InterruptInv
  <2>4. CASE Tick
    BY <2>4, TickInv
  <2>5. CASE KCNextThread
    BY <2>5, NextThreadInv
  <2>6. CASE Idle
    BY <2>6, StutterInv DEF Idle
  <2> QED BY <1>2, <2>1, <2>2, <2>3, <2>4, <2>5, <2>6 DEF Next
<1> QED BY <1>1, <1>2

\* The invariant holds in every state.
LEMMA InvAlways ==
  ASSUME UntimedInterrupts
  PROVE  Spec => []Inv
<1>1. Init => Inv
  BY InitInv
<1>2. Inv /\ [Next]_vars => Inv'
  BY StepInv
<1> QED BY <1>1, <1>2, PTL DEF Spec

\* ListsConsistent, whatever the calls, boosts, suspensions, time-outs and
\* interrupts: the run queue is sorted and holds the runnable threads, the sleep
\* queue has its rings in the order of wake-up times and nobody in it who runs,
\* and who hangs on a woken thread is off the queue.
THEOREM ListsStayConsistent ==
  ASSUME UntimedInterrupts
  PROVE  Spec => []ListsConsistent
<1>1. Inv => ListsConsistent
  <2> SUFFICES ASSUME Inv
               PROVE  ListsConsistent
    OBVIOUS
  <2>1. /\ SleepOK(sched) /\ BedsOK(sched) /\ QueueHolds(sched) /\ RunningMarked(sched)
        /\ sched \in SleepType /\ sched.wakeup \in Times
    BY OKFields DEF Inv
  <2>2. RunListConsistent(sched)
    BY <2>1 DEF RunListConsistent, QueueHolds, Stands, Runnable, RunningMarked
  <2> DEFINE q == sched.sleepq
             w == sched.wakeup
  <2>3. QueueOK(q, w) /\ DOMAIN q = 1 .. Len(q)
    BY <2>1, QueueSets DEF BedsOK
  <2>4. \A t : /\ t \in AllSleepers(sched) <=> Queued(sched, t)
               /\ t \in Hanging(sched) <=> Hangs(sched, t)
    BY <2>1, SleepingIs
  <2>5. ASSUME NEW i \in DOMAIN q
        PROVE  /\ NoDuplicates(q[i]) /\ \A t \in ToSet(q[i]) : w[t] = w[Head(q[i])]
               /\ \A j \in DOMAIN q : i < j => /\ w[Head(q[i])] < w[Head(q[j])]
                                               /\ ToSet(q[i]) \intersect ToSet(q[j]) = {}
    <3>1. \A j \in 1 .. Len(q) : \A t \in ToSet(q[i]) : t \in ToSet(q[j]) => i = j
      BY <2>1, <2>3, QueuePlaces
    <3>2. Len(q) \in Nat
      BY <2>3, QueueSets
    <3> QED BY <2>3, <3>1, <3>2 DEF QueueOK
  <2>6. \A t \in AllSleepers(sched) \union Hanging(sched) : sched.rs[t] \in {"BLOCKED", "NEEDSRUN"}
    BY <2>1, <2>4, BedFacts, OKFields DEF StateOK, Queued
  <2>7. ASSUME NEW t \in Threads, sched.hang[t] # << >>
        PROVE  /\ t \notin AllSleepers(sched) \union Hanging(sched)
               /\ ToSet(sched.hang[t]) \intersect AllSleepers(sched) = {}
    <3>1. ~Queued(sched, t) /\ ~Hangs(sched, t)
      BY <2>1, <2>7, BedFacts DEF BedsOK, HangsOK
    <3>2. \A u \in ToSet(sched.hang[t]) : ~Queued(sched, u)
      BY <2>1, BedFacts
    <3> QED BY <2>4, <3>1, <3>2
  <2>8. SleepListConsistent(sched)
    BY <2>5, <2>6, <2>7 DEF SleepListConsistent
  <2> QED BY <2>2, <2>8 DEF ListsConsistent
<1> QED BY <1>1, InvAlways, PTL

\* EveryoneReachable: a blocked thread is suspended, waits with live proxies, or
\* lies on the sleep queue or hangs on a thread that was woken; a thread that is
\* marked has somebody about to make it run; who has to return to sleep can.
THEOREM NobodyIsStranded ==
  ASSUME UntimedInterrupts
  PROVE  Spec => []EveryoneReachable
<1>1. Inv => EveryoneReachable
  <2> SUFFICES ASSUME Inv, NEW t \in Threads
               PROVE  /\ sched.rs[t] = "BLOCKED" /\ sched.susp[t] = 0 =>
                           HasProxy(t) \/ Sleeping(sched, t)
                      /\ sched.rs[t] = "NEEDSRUN" => \E u \in Threads : arg[u].tgt = t
                      /\ t \in sched.needsleep =>
                           sched.rs[t] \in {"RUNNABLE", "RUNNING"} \/ sched.susp[t] > 0
    BY DEF EveryoneReachable
  <2>1. ThreadOK(sched, t, th[t], pc[t], arg[t], now) /\ sched \in SleepType
    BY OKFields DEF Inv
  <2>2. ASSUME sched.rs[t] = "BLOCKED", sched.susp[t] = 0
        PROVE  HasProxy(t) \/ Sleeping(sched, t)
    <3>1. sched.live[t] \/ Queued(sched, t) \/ Hangs(sched, t)
      BY <2>1, <2>2 DEF ThreadOK, StandsOK
    <3>2. sched.live[t] => th[t].queued # << >>
      BY <2>1, <2>2 DEF ThreadOK, StandsOK, OpenOK, ProxiesOK, InWait
    <3> QED BY <2>1, <3>1, <3>2, SleepingIs DEF HasProxy
  <2> QED BY <2>1, <2>2 DEF Inv, Wakers, ThreadOK, StandsOK
<1> QED BY <1>1, InvAlways, PTL

\* NoEarlyTimeout: although boosts and suspensions take threads off the sleep
\* queue, no wait returns WAIT_TIMEOUT and no Sleep returns before its time.
THEOREM TimeoutsComeInTime ==
  ASSUME UntimedInterrupts
  PROVE  Spec => []NoEarlyTimeout
<1>1. Inv => NoEarlyTimeout
  BY DEF Inv, ThreadOK, TimesOK, Ends, TimedOut, NoEarlyTimeout, Op
<1> QED BY <1>1, InvAlways, PTL
=============================================================================
