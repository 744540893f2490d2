---------------------------- MODULE KitlChannel ----------------------------
(***************************************************************************)
(* What a KITL service promises its two ends: the messages that were       *)
(* accepted for sending arrive once each, in the order they were accepted, *)
(* and no more of them than the window are under way.                      *)
(***************************************************************************)
EXTENDS Naturals

CONSTANT WindowSize

VARIABLES
  sent, \* the number of messages accepted; the n-th one is message n
  last  \* the message handed out last

cvars == <<sent, last>>

Init == sent = 0 /\ last = 0

Send == sent - last < WindowSize /\ sent' = sent + 1 /\ UNCHANGED last
Recv == last < sent /\ last' = last + 1 /\ UNCHANGED sent

Next == Send \/ Recv
Spec == Init /\ [][Next]_cvars
=============================================================================
