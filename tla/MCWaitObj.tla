----------------------------- MODULE MCWaitObj -----------------------------
(***************************************************************************)
(* Instances of WaitObj for TLC: three threads, hi better than mid better  *)
(* than lo, a fourth where one is needed, and the calls each may make.  The*)
(* threads have different calls and priorities, so there is no symmetry to *)
(* use.                                                                    *)
(***************************************************************************)
EXTENDS WaitObj, TLC

CONSTANTS hi, mid, lo, boss, ev, man, irq, sem, mtx

Kinds == [o \in Objects |-> CASE o = ev -> "auto" [] o = man -> "manual" [] o = irq -> "intr"
                              [] o = sem -> "sem" [] o = mtx -> "mutex"]

Distinct == hi :> 1 @@ mid :> 2 @@ lo :> 3

WaitFor(objs, time) == [call |-> "wait", objs |-> objs, time |-> time]
SleepFor(time)      == [call |-> "sleep", time |-> time]
Call(name, o)       == [call |-> name, obj |-> o]
Units(n)            == [call |-> "releaseSemaphore", obj |-> sem, n |-> n]
BasePrio(t, p)      == [call |-> "basePrio", thread |-> t, prio |-> p]
Do(name, t)         == [call |-> name, thread |-> t]

\* Time-outs against signals: hi wakes and signals while mid and lo are on
\* their way into a wait, in one, or on their way out.
SignalOps ==
  hi :> {SleepFor(1), WaitFor(<<sem>>, INFINITE), Call("set", ev), Call("set", man), Units(2)} @@
  mid :> {WaitFor(<<man, ev>>, 1), Call("reset", man), Units(1)} @@
  lo :> {WaitFor(<<ev, sem>>, 1), WaitFor(<<sem, man>>, INFINITE), Call("pulse", man),
         Call("pulse", ev), SleepFor(0)}

\* A mutex and an interrupt event, with boosts and suspensions of threads that
\* may share a wake-up time.
MutexOps ==
  hi :> {SleepFor(1), WaitFor(<<mtx>>, 1), Call("releaseMutex", mtx), WaitFor(<<irq>>, INFINITE),
         WaitFor(<<irq>>, 0)} @@
  mid :> {SleepFor(1), WaitFor(<<mtx>>, 1), Call("set", irq)} @@
  lo :> {WaitFor(<<mtx>>, INFINITE), Call("releaseMutex", mtx), BasePrio(mid, 0),
         Do("suspend", hi), Do("resume", hi), Do("scavenge", mid), SleepFor(INFINITE)}

\* An interrupt wait with a time-out shares its wake-up time with a better
\* thread's sleep when the waiter's priority is raised.
BoostOps ==
  hi :> {SleepFor(1)} @@ mid :> {WaitFor(<<irq>>, 1)} @@ lo :> {BasePrio(mid, 0), SleepFor(0)}

\* A waiter is boosted after it was signalled and before its signaller wakes it,
\* while it shares the wake-up time of a sleeper above it.
FourPrios == hi :> 1 @@ boss :> 2 @@ mid :> 5 @@ lo :> 6
RingOps ==
  hi :> {SleepFor(2)} @@ boss :> {SleepFor(1), BasePrio(mid, 0)} @@
  mid :> {WaitFor(<<ev>>, 2)} @@ lo :> {Call("set", ev)}
FourCalls == hi :> 1 @@ boss :> 2 @@ mid :> 1 @@ lo :> 1

MidCalls1 == hi :> 2 @@ mid :> 1 @@ lo :> 2
=============================================================================
