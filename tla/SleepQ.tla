------------------------------- MODULE SleepQ -------------------------------
(***************************************************************************)
(* The sleep queue of the Windows CE kernel (NK/KERNEL/schedule.c), as     *)
(* operators on the scheduler record of KSched with these fields added:    *)
(*                                                                         *)
(*   s.sleepq     SleepList: by wake-up time, rings of threads that wake   *)
(*                together, each ring best priority first (pDownSleep)     *)
(*   s.hang[t]    the rest of t's ring, left hanging on t when the timer   *)
(*                woke t; they are woken when t leaves the run queue       *)
(*   s.wakeup[t]  dwWakeupTime                                             *)
(*   s.needsleep  the threads with NEEDSLEEP: taken off the sleep queue    *)
(*                before their time, they have to go back to it            *)
(*   s.crab[t]    where t's stepwise search for its place stands: a thread *)
(*                on the queue, the direction, and whether that thread has *)
(*                moved since (its wCount2 differs from the one noted)     *)
(*   s.susp[t]    bSuspendCnt                                              *)
(*   s.live[t]    the proxies of t's wait carry its current wCount         *)
(*   s.wait[t]    bWaitState                                               *)
(*   s.lpce[t]    t has a clean-up record: it waits on objects other than  *)
(*                an interrupt event                                       *)
(*                                                                         *)
(* Left out: sleeps of more than 2^31 ms, variable tick scheduling.        *)
(***************************************************************************)
EXTENDS KSched

WaitState == {"SIGNALLED", "PROCESSING", "BLOCKED"}

NoPlace == [at |-> NoThread, down |-> FALSE, stale |-> FALSE]

AllSleepers(s) == UNION {ToSet(s.sleepq[i]) : i \in DOMAIN s.sleepq}
Hanging(s)     == UNION {ToSet(s.hang[t]) : t \in Threads}

\* GET_SLEEPING: on the queue or hanging on a woken thread.
Sleeping(s, t) == t \in AllSleepers(s) \union Hanging(s)

\* pUpSleep: somebody of the same wake-up time is above t.
HasAbove(s, t) == t \in Hanging(s) \/ \E i \in DOMAIN s.sleepq :
                                         t \in ToSet(s.sleepq[i]) /\ Head(s.sleepq[i]) # t

\* wCount2++: whoever noted t as its place in the search has to start again.
Moved(s, t) ==
  [s EXCEPT !.crab = [u \in Threads |->
                        [s.crab[u] EXCEPT !.stale = s.crab[u].stale \/ s.crab[u].at = t]]]

\* wCount++: no proxy of t's wait is live any more.
EndWait(s, t) == [s EXCEPT !.live[t] = FALSE]

\* MakeRun: a suspended thread blocks instead.
MakeRunnable(s, t) ==
  IF s.susp[t] = 0 THEN MakeRun(s, t) ELSE [s EXCEPT !.rs[t] = "BLOCKED"]

-----------------------------------------------------------------------------
RingOf(s, t) == CHOOSE i \in DOMAIN s.sleepq : t \in ToSet(s.sleepq[i])

\* The sleep queue without t; a ring of nobody else goes with it.
SleepqWithout(s, t) ==
  LET i == RingOf(s, t) IN
  IF t \notin AllSleepers(s) THEN s.sleepq
  ELSE IF s.sleepq[i] = <<t>> THEN RemoveAt(s.sleepq, i)
  ELSE [s.sleepq EXCEPT ![i] = Without(@, t)]

SleepqDequeue(s, t) ==
  [Moved(s, t) EXCEPT !.sleepq = SleepqWithout(s, t),
                      !.hang = [u \in Threads |-> Without(@[u], t)]]

\* Variant: the threads hanging on t stay where they are.
RunqDequeueTailStays(s, t, prio) == RunqDequeue(s, t)

\* RunqDequeue: the first of the threads hanging on t times out and runs, in
\* t's place when it has the priority t was queued with; the others now hang on
\* it.  A thread already marked NEEDSRUN is left to whoever marked it.  The run
\* queue still holds t when MakeRun looks whether d is its new head.
RunqDequeueTail(s, t, prio) ==
  IF s.hang[t] = << >> THEN RunqDequeue(s, t)
  ELSE LET d == Head(s.hang[t])
           q == EndWait(Moved([s EXCEPT !.hang[d] = Tail(s.hang[t]), !.hang[t] = << >>], d), d)
       IN  IF q.rs[d] = "NEEDSRUN" THEN RunqDequeue(q, t)
           ELSE IF q.cprio[d] = prio
           THEN [q EXCEPT !.rs[d] = "RUNNABLE", !.runq[IndexOf(q.runq, t)] = d]
           ELSE [MakeRunnable(q, d) EXCEPT !.runq = MakeRunnable(RunqDequeue(q, t), d).runq]

\* Variant: the sleeper is not told to go back to the queue.
RequeueSleeperForgets(s, t) == MakeRun(SleepqDequeue(s, t), t)

\* A sleeper below others got a better priority: it runs to find its new place.
RequeueSleeper(s, t) ==
  MakeRun([SleepqDequeue(s, t) EXCEPT !.needsleep = @ \union {t},
                                      !.wait[t] = IF s.lpce[t] THEN "PROCESSING" ELSE @], t)

\* BoostCPrio, for a thread that may sleep.
BoostSleeper(s, t, prio) ==
  LET boosted == [s EXCEPT !.cprio[t] = prio]
  IN  IF s.rs[t] = "RUNNABLE" THEN MakeRun(RunqDequeueTail(boosted, t, s.cprio[t]), t)
      ELSE IF HasAbove(s, t) /\ s.rs[t] # "NEEDSRUN" THEN RequeueSleeper(boosted, t)
      ELSE boosted

\* MakeRunIfNeeded, for a thread that may still be on the sleep queue.
WakeIfNeeded(s, t) ==
  IF s.rs[t] # "NEEDSRUN" THEN s
  ELSE MakeRunnable(IF Sleeping(s, t) THEN SleepqDequeue(s, t) ELSE s, t)

-----------------------------------------------------------------------------
\* SleepOneMore: one step of the running thread's search for its place, across
\* the rings by wake-up time and then down a ring by priority.  It ends with
\* the thread asleep, or further along, or back at the start.
Restarts(s, t) == s.crab[t].at # NoThread /\ s.crab[t].stale

Asleep(s, t, time, queue) ==
  [s EXCEPT !.sleepq = queue, !.wakeup[t] = time, !.crab[t] = NoPlace,
            !.running = NoThread, !.resched = TRUE, !.rs[t] = "BLOCKED"]

SearchDown(s, t, time) ==
  LET at    == s.crab[t].at
      i     == RingOf(s, at)
      ring  == s.sleepq[i]
      below == 1 + IndexOf(ring, at)
  IN  IF s.cprio[t] < s.cprio[at] THEN [s EXCEPT !.crab[t] = NoPlace]
      ELSE IF below <= Len(ring) /\ s.cprio[t] >= s.cprio[ring[below]]
      THEN [s EXCEPT !.crab[t].at = ring[below]]
      ELSE Asleep(s, t, time, [s.sleepq EXCEPT ![i] = InsertAt(ring, below, t)])

\* Variant: a thread that wakes at the same time as others gets a ring of its own.
SearchAcrossApart(s, t, time) ==
  LET at   == s.crab[t].at
      i    == 1 + (IF at = NoThread THEN 0 ELSE RingOf(s, at))
      head == Head(s.sleepq[i])
  IN  IF i > Len(s.sleepq) \/ s.wakeup[head] >= time
      THEN Asleep(s, t, time, InsertAt(s.sleepq, i, <<t>>))
      ELSE [s EXCEPT !.crab[t] = [at |-> head, down |-> FALSE, stale |-> FALSE]]

SearchAcross(s, t, time) ==
  LET at   == s.crab[t].at
      i    == 1 + (IF at = NoThread THEN 0 ELSE RingOf(s, at))
      head == Head(s.sleepq[i])
      goOn(down) == [s EXCEPT !.crab[t] = [at |-> head, down |-> down, stale |-> FALSE]]
  IN  IF i > Len(s.sleepq) \/ s.wakeup[head] > time
      THEN Asleep(s, t, time, InsertAt(s.sleepq, i, <<t>>))
      ELSE IF s.wakeup[head] < time THEN goOn(FALSE)
      ELSE IF s.cprio[t] >= s.cprio[head] THEN goOn(TRUE)
      ELSE Asleep(Moved(s, head), t, time, [s.sleepq EXCEPT ![i] = <<t>> \o @])

SleepOneMore(s, t, time) ==
  IF Restarts(s, t) THEN [s EXCEPT !.crab[t] = NoPlace]
  ELSE IF s.crab[t].down THEN SearchDown(s, t, time)
  ELSE SearchAcross(s, t, time)

\* NextThread, timeouts: the first ring is due; its head wakes, the rest hangs
\* on it.  A thread already marked NEEDSRUN is left to whoever marked it.
RingDue(s, now) == s.sleepq # << >> /\ now >= s.wakeup[Head(Head(s.sleepq))]

TimerWakes(s) ==
  LET t == Head(Head(s.sleepq))
      q == EndWait(Moved([s EXCEPT !.sleepq = Tail(@), !.hang[t] = Tail(Head(s.sleepq))], t), t)
  IN  IF s.rs[t] = "NEEDSRUN" THEN q ELSE MakeRunnable(q, t)

-----------------------------------------------------------------------------
\* ThreadSuspend on the spot.
SuspendNow(s, t) ==
  LET stopped    == [s EXCEPT !.susp[t] = @ + 1]
      blocked(q) == [q EXCEPT !.rs[t] = "BLOCKED"]
  IN  IF s.susp[t] > 0 THEN stopped
      ELSE CASE s.rs[t] = "RUNNING" ->
                  blocked([stopped EXCEPT !.running = NoThread, !.resched = TRUE])
             [] s.rs[t] = "RUNNABLE" -> blocked(RunqDequeueTail(stopped, t, s.cprio[t]))
             [] s.rs[t] = "BLOCKED" /\ Sleeping(s, t) ->
                  [SleepqDequeue(stopped, t) EXCEPT
                     !.needsleep = @ \union {t},
                     !.wait[t] = IF s.lpce[t] THEN "PROCESSING" ELSE @]
             [] s.rs[t] = "NEEDSRUN" /\ Sleeping(s, t) ->
                  EndWait(blocked(SleepqDequeue(stopped, t)), t)
             [] OTHER -> blocked(stopped)

\* Variant: a thread that waits on an object stays blocked in any case.
ResumeNowUnlessWaiting(s, t, hasProxy) ==
  LET resumed == [s EXCEPT !.susp[t] = @ - 1]
  IN  IF s.susp[t] = 1 /\ s.rs[t] = "BLOCKED" /\ ~hasProxy THEN MakeRun(resumed, t) ELSE resumed

\* ThreadResume, once the last suspension is taken back: a thread that waits on
\* an object (hasProxy) stays blocked, unless it has to go back to sleep.
ResumeNow(s, t, hasProxy) ==
  LET resumed == [s EXCEPT !.susp[t] = @ - 1]
  IN  IF s.susp[t] = 1 /\ s.rs[t] = "BLOCKED" /\ (~hasProxy \/ t \in s.needsleep)
      THEN MakeRun(resumed, t) ELSE resumed

\* KCNextThread, second half: the head of the run queue leaves it, and whoever
\* hangs on it runs; then the priority is recomputed as in KSched.
DispatchTail(s, prioCalc) ==
  LET t   == Head(s.runq)
      run == RunqDequeueTail([s EXCEPT !.running = t, !.rs[t] = "RUNNING"], t, s.cprio[t])
  IN  IF prioCalc[t] > s.cprio[t] THEN SetRunningPrio(run, prioCalc[t]) ELSE run

-----------------------------------------------------------------------------
\* What the sleep queue promises about its data: rings in order of wake-up
\* time, one time in a ring, nobody in it twice, sleepers blocked or about to
\* be woken, and whoever hangs does so on a thread that is off the queue.
SleepListConsistent(s) ==
  LET sleepq == s.sleepq IN
  /\ \A i \in DOMAIN sleepq :
       /\ NoDuplicates(sleepq[i])
       /\ \A j \in DOMAIN sleepq : i < j =>
            /\ s.wakeup[Head(sleepq[i])] < s.wakeup[Head(sleepq[j])]
            /\ ToSet(sleepq[i]) \intersect ToSet(sleepq[j]) = {}
       /\ \A t \in ToSet(sleepq[i]) : s.wakeup[t] = s.wakeup[Head(sleepq[i])]
  /\ \A t \in AllSleepers(s) \union Hanging(s) : s.rs[t] \in {"BLOCKED", "NEEDSRUN"}
  /\ \A t \in Threads : s.hang[t] # << >> =>
       /\ t \notin AllSleepers(s) \union Hanging(s)
       /\ ToSet(s.hang[t]) \intersect AllSleepers(s) = {}
=============================================================================
