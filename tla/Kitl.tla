-------------------------------- MODULE Kitl --------------------------------
(***************************************************************************)
(* The KITL transport (NK/KITL/edbgprot.c, timer.c): messages of one       *)
(* service, from one end to the other, over a link that loses, duplicates  *)
(* and reorders frames.                                                    *)
(*                                                                         *)
(* The sending end is KITLSend, the retransmission timers and what         *)
(* ProcessRecvFrame does with ACKs and NACKs; the receiving end is KITLRecv*)
(* and what ProcessRecvFrame does with data.  Both ends run this protocol, *)
(* and both are modelled by this code, in the mode in which it uses system *)
(* calls and interrupts are enabled.  Everything done under one holding of *)
(* ClientCS is one action; threads can interleave elsewhere.               *)
(*                                                                         *)
(* WindowSize should divide SeqNums, as the powers of two in use do: the   *)
(* slot of a number is the number modulo WindowSize, but NextRxIndex just  *)
(* counts, and at the wrap of the numbers the two would part.              *)
(*                                                                         *)
(* Left out: polling, the exchange of configurations, deregistration and   *)
(* ResetClientState, messages of length 0, the NOACKS flag, failure of     *)
(* AllocMem in TimerStart, the times of timers.                            *)
(***************************************************************************)
EXTENDS Naturals, FiniteSets, SequencesExt

CONSTANTS Senders, Readers,
          WindowSize, \* slots in each buffer pool, at most KITL_MAX_WINDOW_SIZE
          SeqNums,     \* number of sequence numbers; 256, those of a UCHAR
          Modes,      \* is the client one with KITL_CFGFL_STOP_AND_WAIT?
          First,      \* the messages exchanged before
          Messages,   \* bound on the messages sent
          LinkCap,    \* bound on the frames under way in each direction
          Faults      \* bound on the frames that KitlSendFrame fails to send, that the
                      \* link duplicates, and that overtake another

ASSUME WindowAssumption == WindowSize \in Nat \ {0} /\ SeqNums \in Nat /\ 2 * WindowSize <= SeqNums
ASSUME ModeAssumption == Modes \subseteq BOOLEAN
ASSUME BoundAssumption == {First, Messages, LinkCap, Faults} \subseteq Nat

VARIABLES
  tx,      \* the sender's KITL_CLIENT: TxSeqNum, AckExpected, CfgFlags and buffers
  timers,  \* TimerList: how many entries each slot has
  timerPc, \* TimerThread: the entry it has taken off the list, and its progress
  evTxFull, evRecv,
  sendPc,  \* where each thread in KITLSend is
  rx,      \* the receiver's KITL_CLIENT: RxSeqNum, RxWinEnd, NextRxIndex, buffers
  readPc,  \* where each thread in KITLRecv is
  toRx,    \* frames on the link to the receiver
  toTx,    \* ACKs and NACKs on the link back
  sent,    \* messages accepted, as the senders see it
  last,    \* the message KITLRecv returned last
  faults   \* faults left

vars == <<tx, timers, timerPc, evTxFull, evRecv, sendPc, rx, readPc, toRx, toTx, sent, last, faults>>

Slots    == 0 .. WindowSize - 1
SeqNum   == 0 .. SeqNums - 1
NoMsg    == 0 \* an empty slot: TxFrameLen or RxFrameLen 0
Response == [ack : BOOLEAN, seq : SeqNum]

\* Variant: the arithmetic is not that of a UCHAR.
SEQ_ADDWide(a, n) == a + n

SEQ_DELTA(a, b)      == (b + SeqNums - a) % SeqNums
SEQ_ADD(a, n)        == (a + n) % SeqNums
SEQ_BETWEEN(a, x, b) == SEQ_DELTA(a, x) < SEQ_DELTA(a, b)
Slot(seq)            == seq % WindowSize

SendPCs == {"user", "full", "full_wait", "retry", "ack", "ack_wait"}
ReadPCs == {"user", "empty", "empty_wait"}

TypeOK ==
  /\ tx \in [seq : SeqNum, ack : SeqNum, stopAndWait : BOOLEAN,
             buf : [Slots -> [seq : SeqNum, msg : Nat]]]
  /\ timers \in [Slots -> 0 .. 2]
  /\ timerPc \in [slot : Slots, at : {"idle", "expired", "again", "free"}]
  /\ evTxFull \in BOOLEAN /\ evRecv \in BOOLEAN
  /\ sendPc \in [Senders -> SendPCs] /\ readPc \in [Readers -> ReadPCs]
  /\ rx \in [seq : SeqNum, winEnd : SeqNum, next : Slots, nackSent : BOOLEAN, buf : [Slots -> Nat]]
  /\ toRx \in Seq([seq : SeqNum, msg : Nat]) /\ toTx \in Seq(Response)
  /\ sent \in Nat /\ last \in Nat

\* Both ends as ResetClientState leaves them, or later, when First messages were
\* exchanged and nothing is under way.
Init ==
  /\ \E stopAndWait \in Modes :
       tx = [seq |-> First % SeqNums, ack |-> First % SeqNums, stopAndWait |-> stopAndWait,
             buf |-> [i \in Slots |-> [seq |-> i, msg |-> NoMsg]]]
  /\ rx = [seq |-> First % SeqNums, winEnd |-> SEQ_ADD(First, WindowSize),
           next |-> First % WindowSize, nackSent |-> FALSE, buf |-> [i \in Slots |-> NoMsg]]
  /\ timers = [i \in Slots |-> 0] /\ timerPc = [slot |-> 0, at |-> "idle"]
  /\ evTxFull = TRUE /\ evRecv = FALSE
  /\ sendPc = [s \in Senders |-> "user"] /\ readPc = [r \in Readers |-> "user"]
  /\ toRx = << >> /\ toTx = << >> /\ sent = 0 /\ last = 0
  /\ faults = Faults

-----------------------------------------------------------------------------
(* The link. *)

\* What sending frame f can do to a link: it is lost, arrives, or arrives twice.
\* n is the number of copies.
Sends(link, link2, f, n) ==
  /\ Len(link) + n <= LinkCap
  /\ link2 = link \o [i \in 1 .. n |-> f]

Outcomes  == IF faults > 0 THEN 0 .. 2 ELSE 0 .. 1
Spent(n)  == faults' = IF n = 2 THEN faults - 1 ELSE faults

\* A frame overtakes the one before it.
Swap(link, link2) ==
  \E i \in 1 .. Len(link) - 1 :
    link2 = [link EXCEPT ![i] = link[i + 1], ![i + 1] = link[i]]

Reorder ==
  /\ faults > 0
  /\ \/ Swap(toRx, toRx') /\ UNCHANGED toTx
     \/ Swap(toTx, toTx') /\ UNCHANGED toRx
  /\ faults' = faults - 1
  /\ UNCHANGED <<tx, timers, timerPc, evTxFull, evRecv, sendPc, rx, readPc, sent, last>>

-----------------------------------------------------------------------------
(* KITLSend. *)

Outstanding == SEQ_DELTA(tx.ack, tx.seq)
WindowFull  == Outstanding >= WindowSize

\* The thread holds ClientCS: for the first time, or after its wait.
InSend(s) == sendPc[s] = "retry" \/ (sendPc[s] = "user" /\ sent < Messages)

\* The window is full: reset the event, leave ClientCS and wait.
SendBlocks(s) ==
  /\ InSend(s) /\ WindowFull
  /\ evTxFull' = FALSE
  /\ sendPc' = [sendPc EXCEPT ![s] = "full"]
  /\ UNCHANGED <<tx, timers, timerPc, evRecv, rx, readPc, toRx, toTx, sent, last, faults>>

\* Format the frame and send it; start its timer.  In stop-and-wait mode, wait
\* for its ACK.
SendFrame(s, n) ==
  LET slot  == Slot(tx.seq)
      frame == [seq |-> tx.seq, msg |-> sent + 1]
  IN  /\ InSend(s) /\ ~WindowFull
      /\ Sends(toRx, toRx', frame, n) /\ Spent(n)
      /\ tx' = [tx EXCEPT !.seq = SEQ_ADD(@, 1), !.buf[slot] = frame]
      /\ timers' = [timers EXCEPT ![slot] = @ + 1]
      /\ sent' = sent + 1
      /\ evTxFull' = (evTxFull /\ ~tx.stopAndWait)
      /\ sendPc' = [sendPc EXCEPT ![s] = IF tx.stopAndWait THEN "ack" ELSE "user"]
      /\ UNCHANGED <<timerPc, evRecv, rx, readPc, toTx, last>>

\* KitlSendFrame fails: the sequence number is taken back, KITLSend returns FALSE.
SendFails(s) ==
  /\ InSend(s) /\ ~WindowFull /\ faults > 0
  /\ faults' = faults - 1
  /\ tx' = [tx EXCEPT !.buf[Slot(tx.seq)] = [seq |-> tx.seq, msg |-> NoMsg]]
  /\ sendPc' = [sendPc EXCEPT ![s] = "user"]
  /\ UNCHANGED <<timers, timerPc, evTxFull, evRecv, rx, readPc, toRx, toTx, sent, last>>

\* SC_WaitForMultiple on evTxFull.
AfterTxFull(p) == IF p \in {"full", "full_wait"} THEN "retry" ELSE "user"

SendWaits(s) ==
  /\ sendPc[s] \in {"full", "ack"}
  /\ sendPc' = [sendPc EXCEPT ![s] = IF evTxFull THEN AfterTxFull(@)
                                     ELSE IF @ = "full" THEN "full_wait" ELSE "ack_wait"]
  /\ UNCHANGED <<tx, timers, timerPc, evTxFull, evRecv, rx, readPc, toRx, toTx, sent, last, faults>>

\* It times out: a default service, and whoever waits for an ACK, waits again;
\* others give up.
SendTimesOut(s) ==
  /\ \/ sendPc[s] = "full_wait" /\ \E p \in {"full", "user"} : sendPc' = [sendPc EXCEPT ![s] = p]
     \/ sendPc[s] = "ack_wait" /\ sendPc' = [sendPc EXCEPT ![s] = "ack"]
  /\ UNCHANGED <<tx, timers, timerPc, evTxFull, evRecv, rx, readPc, toRx, toTx, sent, last, faults>>

-----------------------------------------------------------------------------
(* TimerThread. *)

TimerStop(slot) == [timers EXCEPT ![slot] = IF @ = 0 THEN 0 ELSE @ - 1]

\* An entry expires and leaves the list,
TimerExpires(slot) ==
  /\ timerPc.at = "idle" /\ timers[slot] > 0
  /\ timers' = TimerStop(slot)
  /\ timerPc' = [slot |-> slot, at |-> "expired"]
  /\ UNCHANGED <<tx, evTxFull, evRecv, sendPc, rx, readPc, toRx, toTx, sent, last, faults>>

InTxWindow(seq) == SEQ_BETWEEN(tx.ack, seq, tx.seq)

\* ... RetransmitFrame sends what is in the slot, if that is in the window.  It
\* waits for room on the link: LinkCap bounds the model, and is not to count as
\* a link that loses the frame again and again.
RetransmitFrame(n) ==
  LET frame == tx.buf[timerPc.slot] IN
  /\ timerPc.at = "expired"
  /\ IF InTxWindow(frame.seq)
     THEN /\ Len(toRx) < LinkCap
          /\ Sends(toRx, toRx', frame, n) /\ Spent(n)
          /\ timerPc' = [timerPc EXCEPT !.at = "again"]
     ELSE /\ n = 0
          /\ timerPc' = [timerPc EXCEPT !.at = "free"] /\ UNCHANGED <<toRx, faults>>
  /\ UNCHANGED <<tx, timers, evTxFull, evRecv, sendPc, rx, readPc, toTx, sent, last>>

\* Then the entry goes back to the list, or is freed.
TimerReinserts ==
  /\ timerPc.at \in {"again", "free"}
  /\ timers' = IF timerPc.at = "again" THEN [timers EXCEPT ![timerPc.slot] = @ + 1] ELSE timers
  /\ timerPc' = [slot |-> 0, at |-> "idle"]
  /\ UNCHANGED <<tx, evTxFull, evRecv, sendPc, rx, readPc, toRx, toTx, sent, last, faults>>

-----------------------------------------------------------------------------
(* ProcessRecvFrame: ACKs and NACKs. *)

\* Variant: only an ACK that finds the window one short of full tells senders.
MakesRoomOnce(outstanding) == outstanding = WindowSize - 1

\* Senders are told when the window was full, or nearly.
MakesRoom(outstanding) == tx.stopAndWait \/ outstanding >= WindowSize - 1

\* An ACK acknowledges all frames up to its number.
ReceiveAck ==
  /\ toTx # << >> /\ Head(toTx).ack
  /\ toTx' = Tail(toTx)
  /\ LET seq   == Head(toTx).seq
         acked == IF InTxWindow(seq) THEN SEQ_DELTA(tx.ack, seq) + 1 ELSE 0
         slots == {Slot(SEQ_ADD(tx.ack, k)) : k \in 0 .. acked - 1}
         told  == \E k \in 0 .. acked - 1 : MakesRoom(Outstanding - k)
     IN  /\ tx' = [tx EXCEPT !.ack = SEQ_ADD(@, acked)]
         /\ timers' = [i \in Slots |-> IF i \in slots THEN TimerStop(i)[i] ELSE timers[i]]
         /\ evTxFull' = (evTxFull \/ told)
         /\ sendPc' = [s \in Senders |-> IF told /\ sendPc[s] \in {"full_wait", "ack_wait"}
                                         THEN AfterTxFull(sendPc[s]) ELSE sendPc[s]]
  /\ UNCHANGED <<timerPc, evRecv, rx, readPc, toRx, sent, last, faults>>

\* Variant: the timer that runs is not stopped.
NackStartsTimer(slot) == [timers EXCEPT ![slot] = @ + 1]

\* Variant: the timer is stopped for good.
NackStopsTimer(slot) == TimerStop(slot)

\* TimerStop, RetransmitFrame, TimerStart.
NackRestartsTimer(slot) == [TimerStop(slot) EXCEPT ![slot] = @ + 1]

\* A NACK asks for one frame.
ReceiveNack(n) ==
  /\ toTx # << >> /\ ~Head(toTx).ack
  /\ toTx' = Tail(toTx)
  /\ LET seq == Head(toTx).seq IN
     IF InTxWindow(seq) /\ tx.buf[Slot(seq)].msg # NoMsg
     THEN /\ timers' = NackRestartsTimer(Slot(seq))
          /\ Sends(toRx, toRx', tx.buf[Slot(seq)], n) /\ Spent(n)
     ELSE n = 0 /\ UNCHANGED <<timers, toRx, faults>>
  /\ UNCHANGED <<tx, timerPc, evTxFull, evRecv, sendPc, rx, readPc, sent, last>>

-----------------------------------------------------------------------------
(* ProcessRecvFrame: data. *)

InRxWindow(seq) == SEQ_BETWEEN(rx.seq, seq, rx.winEnd)

\* Variant: off by one.
LastAckNext == SEQ_ADD(rx.winEnd, 2 * SeqNums - WindowSize)

LastAck == SEQ_ADD(rx.winEnd, 2 * SeqNums - WindowSize - 1)

Arrives(f) == toRx # << >> /\ f = Head(toRx) /\ toRx' = Tail(toRx)

\* Variant: a frame read before is not acknowledged again.
RepeatsAckNever(seq) == FALSE

\* The frame last acknowledged comes again: its ACK was lost.
RepeatsAck(seq) == seq = LastAck

\* A frame outside the window; the ACK of the last one read is repeated.
ReceiveOutside(f, n) ==
  /\ Arrives(f) /\ ~InRxWindow(f.seq)
  /\ IF RepeatsAck(f.seq)
     THEN Sends(toTx, toTx', [ack |-> TRUE, seq |-> LastAck], n) /\ Spent(n)
     ELSE n = 0 /\ UNCHANGED <<toTx, faults>>
  /\ UNCHANGED <<tx, timers, timerPc, evTxFull, evRecv, sendPc, rx, readPc, sent, last>>

\* A frame whose slot is full is tossed.
ReceiveDuplicate(f) ==
  /\ Arrives(f) /\ InRxWindow(f.seq) /\ rx.buf[Slot(f.seq)] # NoMsg
  /\ UNCHANGED <<tx, timers, timerPc, evTxFull, evRecv, sendPc, rx, readPc, toTx, sent, last, faults>>

\* The receive window closes over the frames that are there.
CloseWindow(r) ==
  LET open == SEQ_DELTA(r.seq, r.winEnd)
      k == CHOOSE k \in 0 .. open :
             /\ \A j \in 0 .. k - 1 : r.buf[Slot(SEQ_ADD(r.seq, j))] # NoMsg
             /\ k = open \/ r.buf[Slot(SEQ_ADD(r.seq, k))] = NoMsg
  IN  [r EXCEPT !.seq = SEQ_ADD(@, k)]

\* SetEvent on the auto-reset event evRecv: one waiter goes on, or it is kept.
SetRecv ==
  LET waiting == {r \in Readers : readPc[r] = "empty_wait"} IN
  IF waiting = {} THEN evRecv' = TRUE /\ UNCHANGED readPc
  ELSE \E r \in waiting : readPc' = [readPc EXCEPT ![r] = "user"] /\ UNCHANGED evRecv

\* The frame goes to its slot.  If one before it is missing that is asked for,
\* once.
ReceiveData(f, n) ==
  /\ Arrives(f) /\ InRxWindow(f.seq) /\ rx.buf[Slot(f.seq)] = NoMsg
  /\ LET nack == f.seq # rx.seq /\ ~rx.nackSent IN
     /\ IF nack THEN Sends(toTx, toTx', [ack |-> FALSE, seq |-> rx.seq], n) /\ Spent(n)
        ELSE n = 0 /\ UNCHANGED <<toTx, faults>>
     /\ rx' = CloseWindow([rx EXCEPT !.nackSent = f.seq # rx.seq, !.buf[Slot(f.seq)] = f.msg])
  /\ SetRecv
  /\ UNCHANGED <<tx, timers, timerPc, evTxFull, sendPc, sent, last>>

-----------------------------------------------------------------------------
(* KITLRecv. *)

\* The thread holds ClientCS: at its call, or after its wait.
InRecv(r) == readPc[r] = "user"

RecvBlocks(r) ==
  /\ InRecv(r) /\ rx.buf[rx.next] = NoMsg
  /\ readPc' = [readPc EXCEPT ![r] = "empty"]
  /\ UNCHANGED <<tx, timers, timerPc, evTxFull, evRecv, sendPc, rx, toRx, toTx, sent, last, faults>>

RecvWaits(r) ==
  /\ readPc[r] = "empty"
  /\ readPc' = [readPc EXCEPT ![r] = IF evRecv THEN "user" ELSE "empty_wait"]
  /\ evRecv' = FALSE
  /\ UNCHANGED <<tx, timers, timerPc, evTxFull, sendPc, rx, toRx, toTx, sent, last, faults>>

RecvTimesOut(r) ==
  /\ readPc[r] = "empty_wait"
  /\ readPc' = [readPc EXCEPT ![r] = "user"]
  /\ UNCHANGED <<tx, timers, timerPc, evTxFull, evRecv, sendPc, rx, toRx, toTx, sent, last, faults>>

\* The message in the next slot is handed out and acknowledged, and the window
\* opens by one.
RecvMessage(r, n) ==
  /\ InRecv(r) /\ rx.buf[rx.next] # NoMsg
  /\ last' = rx.buf[rx.next]
  /\ rx' = [rx EXCEPT !.buf[rx.next] = NoMsg, !.next = (@ + 1) % WindowSize,
                      !.winEnd = SEQ_ADD(@, 1)]
  /\ Sends(toTx, toTx', [ack |-> TRUE, seq |-> SEQ_ADD(LastAck, 1)], n) /\ Spent(n)
  /\ readPc' = [readPc EXCEPT ![r] = "user"]
  /\ UNCHANGED <<tx, timers, timerPc, evTxFull, evRecv, sendPc, toRx, sent>>

-----------------------------------------------------------------------------
SendStep(s) == SendBlocks(s) \/ SendFails(s) \/ SendWaits(s) \/ \E n \in Outcomes : SendFrame(s, n)
RecvStep(r) == RecvBlocks(r) \/ RecvWaits(r) \/ \E n \in Outcomes : RecvMessage(r, n)
TimerStep   == TimerReinserts \/ \E n \in Outcomes : RetransmitFrame(n)
FromRx      == ReceiveAck \/ \E n \in Outcomes : ReceiveNack(n)
FromTx      == \E f \in ToSet(toRx), n \in Outcomes :
                 ReceiveOutside(f, n) \/ ReceiveDuplicate(f) \/ ReceiveData(f, n)

Next ==
  \/ \E s \in Senders : SendStep(s) \/ SendTimesOut(s)
  \/ \E r \in Readers : RecvStep(r) \/ RecvTimesOut(r)
  \/ \E i \in Slots : TimerExpires(i)
  \/ TimerStep \/ FromRx \/ FromTx \/ Reorder

Spec == Init /\ [][Next]_vars

\* Threads that can run do, and clients read on.  Frames that arrived are
\* processed.  Every timer expires: the list is sorted and the interval bounded.
\* A frame sent again and again is not lost for ever, and neither is an ACK.
FairSpec ==
  /\ Spec
  /\ \A s \in Senders : WF_vars(SendStep(s))
  /\ \A r \in Readers : WF_vars(RecvStep(r))
  /\ WF_vars(TimerStep) /\ WF_vars(FromRx) /\ WF_vars(FromTx)
  /\ \A i \in Slots : SF_vars(TimerExpires(i)) /\ SF_vars(timerPc.slot = i /\ RetransmitFrame(1))
  /\ SF_vars(\E f \in ToSet(toRx) : ReceiveOutside(f, 1))

-----------------------------------------------------------------------------
\* What arrives is what was sent, once each and in order, although frames are
\* lost, copied, reordered and sent again, sends fail, and numbers wrap.
Channel == INSTANCE KitlChannel
ImplementsChannel == Channel!Spec

\* "Once sent, the message will be retried by the KITL subsystem until it is
\* acknowledged by other side" (KITLSend): every unacknowledged frame has an
\* entry on the list, or the timer thread is about to put one there.
FramesHaveTimers ==
  \A k \in 0 .. Outstanding - 1 :
    LET slot == Slot(SEQ_ADD(tx.ack, k)) IN
    timers[slot] > 0 \/ (timerPc.slot = slot /\ timerPc.at \in {"expired", "again"})

\* And never more than two, although the entry the timer thread has in hand
\* escapes TimerStop: retransmissions do not multiply.
TimersBounded ==
  \A slot \in Slots :
    timers[slot] + (IF timerPc.at # "idle" /\ timerPc.slot = slot THEN 1 ELSE 0) <= 2

\* A thread waits in KITLSend only for a reason: there is an unacknowledged
\* frame whose ACK will set evTxFull, and, but in stop-and-wait mode, the
\* window is full.
SenderIsWoken ==
  \A s \in Senders :
    sendPc[s] \in {"full_wait", "ack_wait"} \/ (sendPc[s] \in {"full", "ack"} /\ ~evTxFull) =>
      Outstanding > 0 /\ (WindowFull \/ tx.stopAndWait)

\* All that KITLSend accepted arrives in the end, and who called KITLSend gets
\* out of it.  (Messages are bounded, so there is an end.)
EveryMessageArrives == []<>(last = sent)
EverySendReturns == \A s \in Senders : []<>(sendPc[s] = "user")
=============================================================================
