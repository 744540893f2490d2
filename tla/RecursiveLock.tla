--------------------------- MODULE RecursiveLock ---------------------------
(***************************************************************************)
(* What EnterCriticalSection, LeaveCriticalSection and thread termination  *)
(* promise their caller: locks one thread at a time holds, any number of   *)
(* times, and that termination gives up.                                   *)
(***************************************************************************)
EXTENDS Naturals

CONSTANTS Threads, Locks

VARIABLE entered   \* entered[t][l]: entries minus leaves of t on l

Unheld == [l \in Locks |-> 0]

Init == entered = [t \in Threads |-> Unheld]

\* The first entry needs the lock free of every other thread, the next ones do not wait.
Enter(t, l) ==
  /\ \A u \in Threads \ {t} : entered[u][l] = 0
  /\ entered' = [entered EXCEPT ![t][l] = @ + 1]

Leave(t, l) ==
  /\ entered[t][l] > 0
  /\ entered' = [entered EXCEPT ![t][l] = @ - 1]

\* Termination, with or without locks held.
Exit(t) == entered' = [entered EXCEPT ![t] = Unheld]

Next == \E t \in Threads : Exit(t) \/ \E l \in Locks : Enter(t, l) \/ Leave(t, l)

Spec == Init /\ [][Next]_entered

\* At most one thread is inside a lock.
MutualExclusion ==
  \A l \in Locks, t, u \in Threads : entered[t][l] > 0 /\ entered[u][l] > 0 => t = u
=============================================================================
