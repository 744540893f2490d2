------------------------------- MODULE KSched -------------------------------
(***************************************************************************)
(* The run queue of the Windows CE kernel (NK/KERNEL/schedule.c), as pure  *)
(* operators on a scheduler record s, so that a component can compose the  *)
(* scheduler calls one kernel call (KCall) makes into one atomic step.     *)
(*                                                                         *)
(*   s.running  RunList.pth, the running thread, or NoThread               *)
(*   s.resched  KCResched, set by SetReschedule()                          *)
(*   s.runq     the runnable threads, best priority first and first come   *)
(*              first served within one priority.  The code keeps the same *)
(*              order as a list (pNextSleepRun) of rings (pUpRun, pDownRun)*)
(*              with a hash table of entry points (pHashThread).           *)
(*   s.rs       GET_RUNSTATE of every thread                               *)
(*   s.cprio    GET_CPRIO of every thread; 0 is the best priority          *)
(*                                                                         *)
(* Left out: suspension (bSuspendCnt is 0), the sleep queue and its        *)
(* hanging tails, the out-of-memory owner (currmaxprio), time accounting,  *)
(* event logging.                                                          *)
(***************************************************************************)
EXTENDS Integers, FiniteSets, SequencesExt

CONSTANTS Threads,   \* thread objects
          NoThread   \* the null PTHREAD

ASSUME NoThreadAssumption == NoThread \notin Threads

\* MAX_PRIORITY_LEVELS: priorities are 0..255.
MAX_PRIORITY_LEVELS == 256
Priority == 0 .. MAX_PRIORITY_LEVELS - 1

RunState == {"RUNNING", "RUNNABLE", "BLOCKED", "NEEDSRUN"}

SchedType == [running : Threads \union {NoThread}, resched : BOOLEAN,
              runq : Seq(Threads), rs : [Threads -> RunState],
              cprio : [Threads -> Priority]]

-----------------------------------------------------------------------------
\* Priority-ordered queues of threads, shared by the run queue and the
\* waiter queues: insert t behind its equals, or in front of them.
\* Variant of the first: first come, first served whatever the priority.
InsertLast(q, prio, t) == Append(q, t)

InsertBehind(q, prio, t) ==
  InsertAt(q, 1 + Cardinality({i \in DOMAIN q : prio[q[i]] <= prio[t]}), t)

InsertAhead(q, prio, t) ==
  InsertAt(q, 1 + Cardinality({i \in DOMAIN q : prio[q[i]] < prio[t]}), t)

IndexOf(q, t) == CHOOSE i \in DOMAIN q : q[i] = t

Without(q, t) == IF t \in ToSet(q) THEN RemoveAt(q, IndexOf(q, t)) ELSE q

SortedBy(q, prio) == \A i, j \in DOMAIN q : i < j => prio[q[i]] <= prio[q[j]]

NoDuplicates(q) == \A i, j \in DOMAIN q : i # j => q[i] # q[j]

-----------------------------------------------------------------------------
SetReschedule(s) == [s EXCEPT !.resched = TRUE]

\* t becomes runnable behind its equals; the running thread is preempted when
\* t is the new head and better than it.
MakeRun(s, t) ==
  LET p       == s.cprio[t]
      newHead == s.runq = << >> \/ p < s.cprio[Head(s.runq)]
      better  == s.running = NoThread \/ p < s.cprio[s.running]
  IN  [s EXCEPT !.rs[t] = "RUNNABLE",
                !.runq = InsertBehind(s.runq, s.cprio, t),
                !.resched = @ \/ (newHead /\ better)]

RunqDequeue(s, t) == [s EXCEPT !.runq = Without(@, t)]

\* The current thread gives up the processor and blocks.
BlockCurrent(s) ==
  [s EXCEPT !.rs[s.running] = "BLOCKED", !.running = NoThread, !.resched = TRUE]

\* The running thread goes behind its equals and the best thread runs next.
ThreadYield(s) ==
  LET idle == SetReschedule([s EXCEPT !.running = NoThread])
  IN  MakeRun(idle, s.running)

\* Variant: a runnable thread keeps its place.
BoostCPrioInPlace(s, t, prio) == [s EXCEPT !.cprio[t] = prio]

\* Change the current priority of t; a runnable t is queued again.
BoostCPrio(s, t, prio) ==
  LET boosted == [s EXCEPT !.cprio[t] = prio]
  IN  IF s.rs[t] = "RUNNABLE" THEN MakeRun(RunqDequeue(boosted, t), t) ELSE boosted

\* The running thread's priority becomes prio; it is preempted when a runnable
\* thread is now better.
SetRunningPrio(s, prio) ==
  LET set == [s EXCEPT !.cprio[s.running] = prio]
  IN  IF s.runq # << >> /\ prio > s.cprio[Head(s.runq)] THEN SetReschedule(set) ELSE set

\* MakeRunIfNeeded: the second half of a wake-up, for a thread an earlier KCall
\* took off its wait and marked NEEDSRUN.
MakeRunIfNeeded(s, t) == IF s.rs[t] = "NEEDSRUN" THEN MakeRun(s, t) ELSE s

-----------------------------------------------------------------------------
\* KCNextThread, first half: the running thread goes back to the run queue when
\* a better thread is runnable, or an equal one and its quantum has expired.
\* With quantum left it goes ahead of its equals, otherwise behind them.
PutBackCurrent(s, bQuantExpired) ==
  LET t     == s.running
      best  == s.cprio[Head(s.runq)]
      queued(q) == [s EXCEPT !.running = NoThread, !.rs[t] = "RUNNABLE", !.runq = q]
  IN  IF t = NoThread \/ s.runq = << >> THEN s
      ELSE IF bQuantExpired /\ s.cprio[t] >= best THEN queued(InsertBehind(s.runq, s.cprio, t))
      ELSE IF s.cprio[t] > best THEN queued(InsertAhead(s.runq, s.cprio, t))
      ELSE s

\* KCNextThread, second half: the head of the run queue becomes the running
\* thread.  prioCalc[t] is the priority the dispatch recomputes for t (its base
\* priority, or better when it owns something a better thread waits for); the
\* dispatch only ever lowers t to it.
Dispatches(s) == s.running = NoThread /\ s.runq # << >>

Dispatch(s, prioCalc) ==
  LET t   == Head(s.runq)
      run == [s EXCEPT !.running = t, !.rs[t] = "RUNNING", !.runq = Tail(@)]
  IN  IF prioCalc[t] > s.cprio[t] THEN SetRunningPrio(run, prioCalc[t]) ELSE run

\* What the kernel's scheduler promises about its own data: the run queue is
\* sorted and holds exactly the runnable threads, once each, and the thread
\* marked running is the one RunList.pth names.
RunListConsistent(s) ==
  /\ SortedBy(s.runq, s.cprio)
  /\ NoDuplicates(s.runq)
  /\ ToSet(s.runq) = {t \in Threads : s.rs[t] = "RUNNABLE"}
  /\ \A t \in Threads : s.rs[t] = "RUNNING" <=> s.running = t

\* Unless a reschedule is pending, nothing runnable is better than the running
\* thread, and the processor idles only when nothing is runnable.
BestThreadRuns(s) ==
  ~s.resched /\ s.runq # << >> =>
    s.running # NoThread /\ s.cprio[s.running] <= s.cprio[Head(s.runq)]
=============================================================================
