------------------------------ MODULE MCCritSec ------------------------------
(***************************************************************************)
(* Instances of CritSec for TLC: two or three threads, hi better than mid  *)
(* better than lo unless a configuration says otherwise.  The threads have *)
(* different priorities, so there is no symmetry to use.                   *)
(***************************************************************************)
EXTENDS CritSec

CONSTANTS hi, mid, lo

\* Priorities: three different ones, two equals below a better one, two threads.
Distinct == hi :> 1 @@ mid :> 2 @@ lo :> 3
Equals   == hi :> 1 @@ mid :> 2 @@ lo :> 2
TwoOnly  == hi :> 1 @@ lo :> 2

\* Client operations per thread.
Each2   == [t \in Threads |-> 2]
HiMore  == hi :> 4 @@ lo :> 3
LowMore == hi :> 1 @@ mid :> 1 @@ lo :> 2

\* Who may terminate whom, and who may exit while owning.
Nobody      == {}
HiKillsLo   == {<<hi, lo>>}
OnlyHi      == {hi}
OnlyLo      == {lo}
=============================================================================
