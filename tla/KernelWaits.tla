---------------------------- MODULE KernelWaits ----------------------------
(***************************************************************************)
(* What waiting for kernel objects promises to clients, without proxies,   *)
(* priorities or time: a wait is decided once, by one of its objects or by *)
(* its time-out; a signal ends a wait whenever a thread has joined the     *)
(* waiters of the object, and stays on the object only when nobody has; a  *)
(* semaphore's units and an auto-reset event's signal each end one wait at *)
(* most, and units on their way are there for nobody to take; setting a    *)
(* manual-reset event is owed to everybody who was waiting, whatever       *)
(* happens to the event next; a mutex has one holder, who holds it as often*)
(* as his waits ended with it.                                             *)
(***************************************************************************)
EXTENDS Integers, FiniteSets

CONSTANTS Threads, NoThread, Objects, Kind, MaxCount

VARIABLES
  avail,  \* permits at hand: a semaphore's count, 1 for a signalled event
  coming, \* units of a semaphore released and not yet at hand
  owed,   \* the waiters a manual-reset event has been set for
  holder, \* who holds a mutex
  holds,  \* and how many times
  wait,   \* each thread's wait: none, open, or over
  calls   \* the SetEvent, PulseEvent or ResetEvent a thread is making

avars == <<avail, coming, owed, holder, holds, wait, calls>>

\* A wait is open on the objects it asks for; it has joined some of them.
NoWait       == [is |-> "none"]
Open(S, J)   == [is |-> "open", on |-> S, joined |-> J]
Over(r)      == [is |-> "over", result |-> r]
NoSignal     == [name |-> "none"]

Init ==
  /\ avail = [o \in Objects |-> 0] /\ coming = [o \in Objects |-> 0]
  /\ owed = [o \in Objects |-> {}]
  /\ holder = [o \in Objects |-> NoThread] /\ holds = [o \in Objects |-> 0]
  /\ wait = [t \in Threads |-> NoWait] /\ calls = [t \in Threads |-> NoSignal]

IsOpen(t)    == wait[t].is = "open"
Asks(t, o)   == IsOpen(t) /\ o \in wait[t].on
Joined(o)    == {t \in Threads : IsOpen(t) /\ o \in wait[t].joined}

\* t's wait is over with result r, and nothing is owed to it any more.
End(t, r) ==
  /\ wait' = [wait EXCEPT ![t] = Over(r)]
  /\ owed' = [o \in Objects |-> owed[o] \ {t}]

Begin(t) ==
  /\ wait[t] = NoWait
  /\ \E S \in SUBSET Objects \ {{}} : wait' = [wait EXCEPT ![t] = Open(S, {})]
  /\ UNCHANGED <<avail, coming, owed, holder, holds, calls>>

Return(t) ==
  /\ wait[t].is = "over"
  /\ wait' = [wait EXCEPT ![t] = NoWait]
  /\ UNCHANGED <<avail, coming, owed, holder, holds, calls>>

TimesOut(t) ==
  /\ IsOpen(t) /\ End(t, "timeout")
  /\ UNCHANGED <<avail, coming, holder, holds, calls>>

IsFree(o, t) == IF Kind[o] = "mutex" THEN holder[o] \in {NoThread, t} ELSE avail[o] > 0

Joins(t, o) ==
  /\ Asks(t, o) /\ ~IsFree(o, t)
  /\ wait' = [wait EXCEPT ![t].joined = @ \union {o}]
  /\ UNCHANGED <<avail, coming, owed, holder, holds, calls>>

\* A wait ends with an event or a semaphore that has a permit; the permit is
\* gone, but for a manual-reset event.
Takes(t, o) ==
  /\ Asks(t, o) /\ Kind[o] # "mutex" /\ avail[o] > 0 /\ End(t, o)
  /\ avail' = IF Kind[o] = "manual" THEN avail ELSE [avail EXCEPT ![o] = @ - 1]
  /\ UNCHANGED <<coming, holder, holds, calls>>

\* ... or with a manual-reset event that was set while it waited,
IsGiven(t, o) ==
  /\ t \in owed[o] /\ Asks(t, o) /\ End(t, o)
  /\ UNCHANGED <<avail, coming, holder, holds, calls>>

\* ... or with a mutex that is free or its own.
Acquires(t, m) ==
  /\ Asks(t, m) /\ Kind[m] = "mutex" /\ IsFree(m, t) /\ End(t, m)
  /\ holder' = [holder EXCEPT ![m] = t]
  /\ holds' = [holds EXCEPT ![m] = @ + 1]
  /\ UNCHANGED <<avail, coming, calls>>

StartSignal(t) ==
  /\ calls[t] = NoSignal
  /\ \E o \in Objects, name \in {"set", "pulse", "reset"} :
       calls' = [calls EXCEPT ![t] = [name |-> name, obj |-> o]]
  /\ UNCHANGED <<avail, coming, owed, holder, holds, wait>>

\* What a signal does to an event: one waiter, or all, or the event keeps it.
Signal(o, name) ==
  LET kept == [avail EXCEPT ![o] = IF name = "set" THEN 1 ELSE 0] IN
  CASE name = "reset" -> avail' = kept /\ UNCHANGED <<owed, wait>>
    [] name # "reset" /\ Kind[o] = "manual" ->
         /\ owed' = [owed EXCEPT ![o] = @ \union Joined(o)]
         /\ avail' = kept /\ UNCHANGED wait
    [] OTHER -> IF Joined(o) = {} THEN avail' = kept /\ UNCHANGED <<owed, wait>>
                ELSE (\E w \in Joined(o) : End(w, o)) /\ UNCHANGED avail

Signals(t) ==
  /\ calls[t] # NoSignal
  /\ Signal(calls[t].obj, calls[t].name)
  /\ calls' = [calls EXCEPT ![t] = NoSignal]
  /\ UNCHANGED <<coming, holder, holds>>

InterruptSignals(o) ==
  /\ Kind[o] = "intr" /\ Signal(o, "set")
  /\ UNCHANGED <<coming, holder, holds, calls>>

\* Units are released; one goes to a thread that has joined, or they are at
\* hand if nobody has.
ReleasesUnits(o) ==
  /\ Kind[o] = "sem"
  /\ \E n \in 1 .. MaxCount - (avail[o] + coming[o]) : coming' = [coming EXCEPT ![o] = @ + n]
  /\ UNCHANGED <<avail, owed, holder, holds, wait, calls>>

Delivers(o) ==
  /\ coming[o] > 0 /\ \E w \in Joined(o) : End(w, o)
  /\ coming' = [coming EXCEPT ![o] = @ - 1]
  /\ UNCHANGED <<avail, holder, holds, calls>>

Arrive(o) ==
  /\ Joined(o) = {}
  /\ \E n \in 1 .. coming[o] : /\ coming' = [coming EXCEPT ![o] = @ - n]
                               /\ avail' = [avail EXCEPT ![o] = @ + n]
  /\ UNCHANGED <<owed, holder, holds, wait, calls>>

\* The holder gives a mutex back, once; to a thread that has joined, if any.
Releases(t, m) ==
  /\ Kind[m] = "mutex" /\ holder[m] = t
  /\ IF holds[m] > 1
     THEN holds' = [holds EXCEPT ![m] = @ - 1] /\ UNCHANGED <<owed, holder, wait>>
     ELSE IF Joined(m) = {}
     THEN /\ holder' = [holder EXCEPT ![m] = NoThread]
          /\ holds' = [holds EXCEPT ![m] = 0]
          /\ UNCHANGED <<owed, wait>>
     ELSE \E w \in Joined(m) : /\ End(w, m)
                               /\ holder' = [holder EXCEPT ![m] = w]
                               /\ UNCHANGED holds
  /\ UNCHANGED <<avail, coming, calls>>

Next ==
  \/ \E t \in Threads : Begin(t) \/ Return(t) \/ TimesOut(t) \/ StartSignal(t) \/ Signals(t)
  \/ \E t \in Threads, o \in Objects :
       Joins(t, o) \/ Takes(t, o) \/ IsGiven(t, o) \/ Acquires(t, o) \/ Releases(t, o)
  \/ \E o \in Objects : InterruptSignals(o) \/ ReleasesUnits(o) \/ Delivers(o) \/ Arrive(o)

Spec == Init /\ [][Next]_avars
=============================================================================
