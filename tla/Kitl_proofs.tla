---------------------------- MODULE Kitl_proofs ----------------------------
(***************************************************************************)
(* Kitl, for every number of threads, window size, count of sequence       *)
(* numbers and behaviour of the link.  The sending end: types, the bounds  *)
(* on retransmission timers, that every unacknowledged frame has one, and  *)
(* that nobody waits in KITLSend for nothing.  Both ends together: what    *)
(* arrives is what was sent, once each and in order (KitlChannel), within  *)
(* the faults that the numbers can tell apart.                             *)
(*                                                                         *)
(* Sequence numbers wrap; what they stand for does not.  The invariants    *)
(* speak of message m + 1, whose number is NumberOf(m) and whose slot is   *)
(* SlotOf(m), and the first lemmas translate.                              *)
(***************************************************************************)
EXTENDS Kitl, Integers, SequenceTheorems, WellFoundedInduction, TLAPS

(***************************************************************************)
(* The slot of a number stays what it counts as when numbers wrap.  The    *)
(* window sizes in use are powers of two; DoRegisterClient (ethdbg.c:316)  *)
(* takes others, and for those the theorems do not hold.                   *)
(***************************************************************************)
SlotsWrapWithNumbers == SeqNums % WindowSize = 0

NumberOf(m) == (First + m) % SeqNums
SlotOf(m)   == (First + m) % WindowSize

-----------------------------------------------------------------------------
(* Division with a remainder. *)

\* The quotient and the remainder of x.
LEMMA Division ==
  ASSUME NEW M \in Nat \ {0}, NEW x \in Int
  PROVE  x % M \in 0 .. M - 1 /\ \E q \in Int : x = (M * q) + (x % M)
<1>1. x % M \in 0 .. M - 1 /\ x \div M \in Int /\ x = (M * (x \div M)) + (x % M)
  OBVIOUS
<1> QED BY <1>1

\* They are determined by x.
LEMMA RemainderUnique ==
  ASSUME NEW M \in Nat \ {0}, NEW q \in Int, NEW p \in Int,
         NEW r \in 0 .. M - 1, NEW s \in 0 .. M - 1, (M * q) + r = (M * p) + s
  PROVE  r = s
<1>1. CASE p = q
  BY <1>1
<1>2. CASE p < q
  <2>1. M * q >= (M * p) + M
    BY <1>2
  <2> QED BY <2>1
<1>3. CASE p > q
  <2>1. M * p >= (M * q) + M
    BY <1>3
  <2> QED BY <2>1
<1> QED BY <1>1, <1>2, <1>3

\* So what has the form of a division is one.
LEMMA RemainderIs ==
  ASSUME NEW M \in Nat \ {0}, NEW x \in Int, NEW q \in Int, NEW r \in 0 .. M - 1,
         x = (M * q) + r
  PROVE  x % M = r
<1>1. x % M \in 0 .. M - 1 /\ \E p \in Int : x = (M * p) + (x % M)
  BY Division
<1> QED BY <1>1, RemainderUnique

\* Numbers a multiple of M apart have the same remainder.
LEMMA RemainderShift ==
  ASSUME NEW M \in Nat \ {0}, NEW x \in Int, NEW y \in Int, NEW k \in Int, y = x + (M * k)
  PROVE  y % M = x % M
<1> DEFINE r == x % M
<1>1. PICK q \in Int : x = (M * q) + r
  BY Division
<1>2. r \in 0 .. M - 1
  BY Division
<1> HIDE DEF r
<1>3. y = (M * (k + q)) + r /\ k + q \in Int
  BY <1>1, <1>2
<1>4. y % M = r
  BY <1>2, <1>3, RemainderIs
<1> QED BY <1>4 DEF r

\* Numbers less than M apart have different ones.
LEMMA RemainderInjective ==
  ASSUME NEW M \in Nat \ {0}, NEW x \in Int, NEW y \in Int, x % M = y % M,
         -M < x - y, x - y < M
  PROVE  x = y
<1> DEFINE r == x % M
<1>1. PICK a \in Int : x = (M * a) + r
  BY Division
<1>2. PICK b \in Int : y = (M * b) + r
  BY Division
<1>3. r \in Int
  BY Division
<1> HIDE DEF r
<1>4. CASE a < b
   <2>1. M * b >= (M * a) + M
     BY <1>4
   <2> QED BY <2>1, <1>1, <1>2, <1>3
<1>5. CASE a > b
   <2>1. M * a >= (M * b) + M
     BY <1>5
   <2> QED BY <2>1, <1>1, <1>2, <1>3
<1>6. CASE a = b
  BY <1>1, <1>2, <1>6
<1> QED BY <1>4, <1>5, <1>6

\* A sum may be reduced early.
LEMMA RemainderOfSum ==
  ASSUME NEW M \in Nat \ {0}, NEW x \in Int, NEW y \in Int
  PROVE  ((x % M) + y) % M = (x + y) % M
<1> DEFINE r == x % M
<1>1. PICK q \in Int : x = (M * q) + r
  BY Division
<1>2. r \in Int
  BY Division
<1> HIDE DEF r
<1> DEFINE u == r + y
           v == x + y
<1>3. u \in Int /\ v \in Int /\ v = u + (M * q)
  BY <1>1, <1>2
<1>4. u % M = v % M
  BY ONLY <1>3, RemainderShift, M \in Nat \ {0}, q \in Int
<1> QED BY <1>4 DEF r

\* A remainder of a remainder, when one divisor divides the other.
LEMMA RemainderOfRemainder ==
  ASSUME NEW M \in Nat \ {0}, NEW S \in Nat \ {0}, S % M = 0, NEW x \in Int
  PROVE  (x % S) % M = x % M
<1> DEFINE r == x % S
<1>1. PICK k \in Int : S = (M * k) + (S % M)
  <2>1. S \in Int
    OBVIOUS
  <2> QED BY ONLY <2>1, Division, M \in Nat \ {0}
<1>2. PICK q \in Int : x = (S * q) + r
  BY Division
<1>3. r \in Int
  BY Division
<1>4. S = M * k
  BY <1>1
<1> HIDE DEF r
<1>5. S * q = M * (k * q) /\ k * q \in Int
  BY <1>4
<1>6. x = r + (M * (k * q))
  BY <1>2, <1>3, <1>5
<1>7. x % M = r % M
  BY <1>3, <1>5, <1>6, RemainderShift
<1> QED BY <1>7 DEF r

\* Every nonempty set of natural numbers has a least member.
LEMMA LeastNat ==
  ASSUME NEW T \in SUBSET Nat, T # {}
  PROVE  \E m \in T : \A y \in T : m <= y
<1> DEFINE R == OpToRel(<, Nat)
<1>1. IsWellFoundedOn(R, Nat)
  BY NatLessThanWellFounded
<1>2. \A x, y \in Nat : <<y, x>> \in R <=> y < x
  BY DEF OpToRel
<1> HIDE DEF R
<1>3. PICK m \in T : \A y \in T : ~ (<<y, m>> \in R)
  BY <1>1, WFMin
<1>4. \A y \in T : ~ (y < m)
  BY <1>2, <1>3
<1> QED BY <1>4

-----------------------------------------------------------------------------
(* Sequence numbers and slots. *)

\* What the constants are.
LEMMA Sizes ==
  /\ WindowSize \in Nat \ {0} /\ SeqNums \in Nat \ {0} /\ 2 * WindowSize <= SeqNums /\ First \in Nat
  /\ Slots = 0 .. WindowSize - 1 /\ SeqNum = 0 .. SeqNums - 1
BY WindowAssumption, BoundAssumption DEF Slots, SeqNum

\* Numbers are numbers and slots are slots, before the first message too.
LEMMA NumberType ==
  ASSUME NEW m \in Int
  PROVE  NumberOf(m) \in SeqNum /\ SlotOf(m) \in Slots
<1>1. First + m \in Int
  BY Sizes
<1> QED BY <1>1, Sizes, Division DEF NumberOf, SlotOf

\* The next number is the number of the next message, and so is the next slot.
LEMMA NumberAdd ==
  ASSUME NEW m \in Int, NEW n \in Int
  PROVE  SEQ_ADD(NumberOf(m), n) = NumberOf(m + n) /\ (SlotOf(m) + n) % WindowSize = SlotOf(m + n)
<1> DEFINE x == First + m
<1>1. x \in Int /\ First + (m + n) = x + n
  BY Sizes
<1>2. WindowSize \in Nat \ {0} /\ SeqNums \in Nat \ {0}
  BY Sizes
<1> HIDE DEF x
<1>3. ((x % SeqNums) + n) % SeqNums = (x + n) % SeqNums
  BY <1>1, <1>2, RemainderOfSum
<1>4. ((x % WindowSize) + n) % WindowSize = (x + n) % WindowSize
  BY <1>1, <1>2, RemainderOfSum
<1>5. /\ NumberOf(m) = x % SeqNums /\ NumberOf(m + n) = (x + n) % SeqNums
      /\ SlotOf(m) = x % WindowSize /\ SlotOf(m + n) = (x + n) % WindowSize
  BY <1>1 DEF NumberOf, SlotOf, x
<1> QED BY <1>3, <1>4, <1>5 DEF SEQ_ADD

\* The slot computed from a number is the slot of its message, through the wrap.
LEMMA SlotOfNumber ==
  ASSUME SlotsWrapWithNumbers, NEW m \in Int
  PROVE  Slot(NumberOf(m)) = SlotOf(m)
<1>1. First + m \in Int
  BY Sizes
<1> QED BY <1>1, Sizes, RemainderOfRemainder DEF NumberOf, SlotOf, Slot, SlotsWrapWithNumbers

\* Within a window slots are used once.
LEMMA SlotInjective ==
  ASSUME NEW a \in Int, NEW b \in Int, SlotOf(a) = SlotOf(b), -WindowSize < a - b, a - b < WindowSize
  PROVE  a = b
<1> DEFINE x == First + a
           y == First + b
<1>1. x \in Int /\ y \in Int /\ x - y = a - b
  BY Sizes
<1>2. x % WindowSize = y % WindowSize
  BY DEF SlotOf
<1> HIDE DEF x, y
<1>3. x = y
  BY <1>1, <1>2, Sizes, RemainderInjective
<1> QED BY <1>1, <1>3

\* The distance of two numbers is that of their messages, modulo SeqNums.
LEMMA DeltaMod ==
  ASSUME NEW a \in Int, NEW b \in Int
  PROVE  SEQ_DELTA(NumberOf(a), NumberOf(b)) = (b - a) % SeqNums
<1> DEFINE x == First + a
           y == First + b
           r == x % SeqNums
           s == y % SeqNums
<1>1. x \in Int /\ y \in Int /\ y - x = b - a
  BY Sizes
<1>2. PICK p \in Int : x = (SeqNums * p) + r
  BY <1>1, Sizes, Division
<1>3. PICK q \in Int : y = (SeqNums * q) + s
  BY <1>1, Sizes, Division
<1>4. r \in Int /\ s \in Int
  BY <1>1, Sizes, Division
<1>5. SEQ_DELTA(NumberOf(a), NumberOf(b)) = (s + SeqNums - r) % SeqNums
  BY DEF SEQ_DELTA, NumberOf
<1> HIDE DEF x, y, r, s
<1> DEFINE u == s + SeqNums - r
           v == b - a
           k == (1 + p) - q
<1>6. u \in Int /\ v \in Int /\ k \in Int
  BY <1>4, Sizes
<1>7. SeqNums * k = (SeqNums + (SeqNums * p)) - (SeqNums * q)
  BY Sizes
<1>8. u = v + (SeqNums * k)
  BY <1>1, <1>2, <1>3, <1>4, <1>6, <1>7, Sizes
<1> HIDE DEF u, v, k
<1>9. u % SeqNums = v % SeqNums
  BY <1>6, <1>8, Sizes, RemainderShift
<1> QED BY <1>5, <1>9 DEF u, v

\* SEQ_DELTA of two messages less than all the numbers apart is how far apart they are,
LEMMA DeltaAhead ==
  ASSUME NEW a \in Int, NEW b \in Int, 0 <= b - a, b - a < SeqNums
  PROVE  SEQ_DELTA(NumberOf(a), NumberOf(b)) = b - a
<1>1. b - a = (SeqNums * 0) + (b - a) /\ b - a \in 0 .. SeqNums - 1 /\ b - a \in Int
  BY Sizes
<1>2. (b - a) % SeqNums = b - a
  BY <1>1, Sizes, RemainderIs
<1> QED BY <1>2, DeltaMod

\* or, for one that lies behind, what is left of the numbers.
LEMMA DeltaBehind ==
  ASSUME NEW a \in Int, NEW b \in Int, -SeqNums <= b - a, b - a < 0
  PROVE  SEQ_DELTA(NumberOf(a), NumberOf(b)) = (b - a) + SeqNums
<1> DEFINE v == b - a
           r == (b - a) + SeqNums
<1>1. v = (SeqNums * (-1)) + r /\ r \in 0 .. SeqNums - 1 /\ v \in Int
  BY Sizes
<1> HIDE DEF r, v
<1>2. v % SeqNums = r
  BY <1>1, Sizes, RemainderIs
<1> QED BY <1>2, DeltaMod DEF r, v

\* A number is that of the message as far ahead as it is.
LEMMA NumberAt ==
  ASSUME NEW a \in Int, NEW seq \in SeqNum
  PROVE  /\ SEQ_DELTA(NumberOf(a), seq) \in 0 .. SeqNums - 1
         /\ seq = NumberOf(a + SEQ_DELTA(NumberOf(a), seq))
<1> DEFINE r == NumberOf(a)
           d == SEQ_DELTA(r, seq)
           u == seq + SeqNums - r
<1>1. r \in SeqNum /\ seq \in SeqNum
  BY NumberType
<1>2. d = u % SeqNums
  BY DEF SEQ_DELTA
<1> HIDE DEF r, d
<1>3. r \in Int /\ seq \in Int /\ SeqNums \in Int /\ seq \in 0 .. SeqNums - 1
  BY <1>1, Sizes
<1>4. u \in Int
  BY <1>3
<1> HIDE DEF u
<1>5. d \in 0 .. SeqNums - 1 /\ d \in Int
  BY <1>4, <1>2, Sizes, Division
<1>6. NumberOf(a + d) = SEQ_ADD(r, d)
  BY <1>5, NumberAdd DEF r
<1>7. r + d = d + r /\ SEQ_ADD(r, d) = (r + d) % SeqNums
  BY <1>3, <1>5 DEF SEQ_ADD
<1>8. ((u % SeqNums) + r) % SeqNums = (u + r) % SeqNums
  BY <1>4, <1>3, Sizes, RemainderOfSum
<1>9. (u + r) % SeqNums = seq
  <2>1. u + r = (SeqNums * 1) + seq
    BY <1>3 DEF u
  <2>2. u + r \in Int
    BY <1>4, <1>3
  <2> DEFINE v == u + r
  <2>3. v = (SeqNums * 1) + seq /\ v \in Int
    BY <2>1, <2>2
  <2> HIDE DEF v
  <2>4. v % SeqNums = seq
    BY <2>3, <1>3, Sizes, RemainderIs
  <2> QED BY <2>4 DEF v
<1>10. NumberOf(a + d) = seq
  BY <1>2, <1>6, <1>7, <1>8, <1>9
<1> QED BY <1>5, <1>10 DEF d, r

-----------------------------------------------------------------------------
(* The link. *)

\* A link to which a frame was sent: what was on it, and the copies.
LEMMA SendsKeeps ==
  ASSUME NEW T, NEW link \in Seq(T), NEW link2, NEW f \in T, NEW n \in Outcomes,
         Sends(link, link2, f, n)
  PROVE  /\ link2 \in Seq(T) /\ Len(link2) = Len(link) + n
         /\ \A i \in 1 .. Len(link2) : link2[i] = IF i <= Len(link) THEN link[i] ELSE f
<1> DEFINE c == [i \in 1 .. n |-> f]
<1>1. n \in Nat
  BY DEF Outcomes
<1>2. c \in Seq(T) /\ Len(c) = n /\ \A i \in 1 .. n : c[i] = f
  <2>1. \A i \in 1 .. n : f \in T
    OBVIOUS
  <2>2. c \in Seq(T)
    BY ONLY <1>1, <2>1, SeqDef
  <2>3. DOMAIN c = 1 .. n
    OBVIOUS
  <2>4. Len(c) = n
    BY <1>1, <2>2, <2>3, LenProperties
  <2> QED BY <2>2, <2>4
<1>3. link2 = link \o c
  BY DEF Sends
<1> HIDE DEF c
<1>4. link2 \in Seq(T) /\ Len(link2) = Len(link) + n
      /\ \A i \in 1 .. Len(link) + n : link2[i] = IF i <= Len(link) THEN link[i] ELSE c[i - Len(link)]
  BY <1>2, <1>3, ConcatProperties
<1>5. Len(link) \in Nat
  BY LenProperties
<1> QED BY <1>1, <1>2, <1>4, <1>5

\* A frame that is sent leaves a link what it was: a sequence of such frames.
LEMMA SendsStays ==
  ASSUME NEW T, NEW link, NEW link2, NEW f, NEW n,
         link \in Seq(T), f \in T, n \in Outcomes, Sends(link, link2, f, n)
  PROVE  link2 \in Seq(T)
BY ONLY SendsKeeps, link \in Seq(T), f \in T, n \in Outcomes, Sends(link, link2, f, n)

\* A link on which a frame overtook: the two changed places.
LEMMA SwapKeeps ==
  ASSUME NEW T, NEW link \in Seq(T), NEW link2, Swap(link, link2)
  PROVE  /\ link2 \in Seq(T) /\ Len(link2) = Len(link)
         /\ \E k \in 1 .. Len(link) - 1 : \A i \in 1 .. Len(link) :
              link2[i] = IF i = k THEN link[k + 1] ELSE IF i = k + 1 THEN link[k] ELSE link[i]
<1>1. PICK k \in 1 .. Len(link) - 1 : link2 = [link EXCEPT ![k] = link[k + 1], ![k + 1] = link[k]]
  BY DEF Swap
<1>2. Len(link) \in Nat /\ DOMAIN link = 1 .. Len(link) /\ k \in 1 .. Len(link) /\ k + 1 \in 1 .. Len(link)
  BY LenProperties
<1>3. link[k] \in T /\ link[k + 1] \in T
  BY <1>2, ElementOfSeq
<1> DEFINE mid == [link EXCEPT ![k] = link[k + 1]]
<1>4. mid \in Seq(T) /\ Len(mid) = Len(link) /\ \A i \in 1 .. Len(link) : mid[i] = IF i = k THEN link[k + 1] ELSE link[i]
  BY <1>2, <1>3, ExceptSeq
<1>5. link2 = [mid EXCEPT ![k + 1] = link[k]]
  BY <1>1
<1> HIDE DEF mid
<1>6. link2 \in Seq(T) /\ Len(link2) = Len(link)
      /\ \A i \in 1 .. Len(link) : link2[i] = IF i = k + 1 THEN link[k] ELSE mid[i]
  BY <1>2, <1>3, <1>4, <1>5, ExceptSeq
<1> QED BY <1>2, <1>4, <1>6

-----------------------------------------------------------------------------
(* The sender's invariant. *)

Frame(m) == [seq |-> NumberOf(m), msg |-> m + 1]
Acked    == sent - Outstanding
Unacked  == Acked .. sent - 1

\* TxSeqNum and AckExpected count what was sent and what was acknowledged.
TxNumbers ==
  /\ Outstanding <= WindowSize /\ Acked >= 0
  /\ tx.seq = NumberOf(sent) /\ tx.ack = NumberOf(Acked)

\* The buffers hold the unacknowledged frames, each in its slot.  What else is
\* in a slot has a number of that slot: it is not taken for another frame.
TxBuffers ==
  /\ \A i \in Slots : Slot(tx.buf[i].seq) = i
  /\ \A m \in Unacked : tx.buf[SlotOf(m)] = Frame(m)

\* Only frames of accepted messages are under way.
Accepted     == {Frame(m) : m \in 0 .. sent - 1}
LinkAccepted == toRx \in Seq(Accepted)

\* The entry the timer thread has in hand, and what it may still put back.
InHand(slot)   == IF timerPc.at # "idle" /\ timerPc.slot = slot THEN 1 ELSE 0
Returning(slot) == timerPc.slot = slot /\ timerPc.at \in {"expired", "again"}

\* A slot has two entries at most, and one when its frame is acknowledged: so it
\* may be used again.
Busy(slot)   == \E m \in Unacked : slot = SlotOf(m)
TimersFew    == \A i \in Slots : timers[i] + InHand(i) <= (IF Busy(i) THEN 2 ELSE 1)
TimersEnough == \A m \in Unacked : timers[SlotOf(m)] > 0 \/ Returning(SlotOf(m))

SenderInv == TypeOK /\ TxNumbers /\ TxBuffers /\ LinkAccepted /\ TimersFew /\ TimersEnough /\ SenderIsWoken

-----------------------------------------------------------------------------
(* What the types and the numbers give. *)

\* The sender's variables, one by one.
LEMMA TxFields ==
  ASSUME TypeOK
  PROVE  /\ tx.seq \in SeqNum /\ tx.ack \in SeqNum /\ tx.stopAndWait \in BOOLEAN
         /\ tx.buf \in [Slots -> [seq : SeqNum, msg : Nat]]
         /\ timers \in [Slots -> 0 .. 2]
         /\ timerPc.slot \in Slots /\ timerPc.at \in {"idle", "expired", "again", "free"}
         /\ sent \in Nat /\ Outstanding \in Nat /\ Acked \in Int /\ sent = Acked + Outstanding
<1>1. /\ tx.seq \in SeqNum /\ tx.ack \in SeqNum /\ tx.stopAndWait \in BOOLEAN
      /\ tx.buf \in [Slots -> [seq : SeqNum, msg : Nat]]
      /\ timers \in [Slots -> 0 .. 2]
      /\ timerPc.slot \in Slots /\ timerPc.at \in {"idle", "expired", "again", "free"}
      /\ sent \in Nat
  BY DEF TypeOK
<1> DEFINE u == tx.seq + SeqNums - tx.ack
<1>2. u \in Int
  BY <1>1, Sizes
<1>3. Outstanding = u % SeqNums
  BY DEF Outstanding, SEQ_DELTA
<1> HIDE DEF u
<1>4. Outstanding \in Nat
  BY <1>2, <1>3, Sizes, Division
<1> QED BY <1>1, <1>4 DEF Acked

\* The unacknowledged messages are consecutive, and so many.
LEMMA UnackedIs ==
  ASSUME TypeOK, TxNumbers
  PROVE  \A m : m \in Unacked <=> (m \in Nat /\ Acked <= m /\ m < Acked + Outstanding)
<1>1. Acked \in Int /\ Acked >= 0 /\ sent = Acked + Outstanding /\ Outstanding \in Nat
  BY TxFields DEF TxNumbers
<1> QED BY <1>1 DEF Unacked

\* The numbers in the window are those of the unacknowledged frames.
LEMMA InTxWindowIs ==
  ASSUME TypeOK, TxNumbers, NEW seq \in SeqNum, InTxWindow(seq)
  PROVE  \E m \in Unacked : seq = NumberOf(m) /\ SEQ_DELTA(tx.ack, seq) = m - Acked
<1> DEFINE d == SEQ_DELTA(tx.ack, seq)
<1>1. d < Outstanding
  BY DEF InTxWindow, SEQ_BETWEEN, Outstanding
<1>2. d \in 0 .. SeqNums - 1 /\ seq = NumberOf(Acked + d)
  BY TxFields, NumberAt DEF TxNumbers
<1> HIDE DEF d
<1>3. Acked \in Int /\ Acked >= 0 /\ Outstanding \in Nat /\ d \in Nat
  BY <1>2, TxFields, Sizes DEF TxNumbers
<1>4. Acked + d \in Unacked /\ (Acked + d) - Acked = d
  BY <1>1, <1>3, UnackedIs
<1> QED BY <1>2, <1>4 DEF d

\* And an unacknowledged frame has its number in the window.
LEMMA UnackedInWindow ==
  ASSUME TypeOK, TxNumbers, NEW m \in Unacked
  PROVE  InTxWindow(NumberOf(m)) /\ SEQ_DELTA(tx.ack, NumberOf(m)) = m - Acked /\ m \in Nat
<1>3. m \in Nat /\ Acked <= m /\ m < Acked + Outstanding
  BY UnackedIs
<1>4. Acked \in Int /\ Outstanding \in Nat /\ Outstanding <= WindowSize
  BY TxFields DEF TxNumbers
<1>1. m \in Nat /\ 0 <= m - Acked /\ m - Acked < Outstanding /\ m - Acked < SeqNums
  BY <1>3, <1>4, Sizes
<1>2. SEQ_DELTA(NumberOf(Acked), NumberOf(m)) = m - Acked
  BY <1>1, TxFields, DeltaAhead
<1> QED BY <1>1, <1>2 DEF TxNumbers, InTxWindow, SEQ_BETWEEN, Outstanding

\* Their slots differ.
LEMMA UnackedSlots ==
  ASSUME TypeOK, TxNumbers, NEW m \in Unacked, NEW k \in Int, SlotOf(m) = SlotOf(k),
         Acked <= k, k < Acked + WindowSize
  PROVE  m = k
<1>1. m \in Int /\ Acked \in Int /\ Acked <= m /\ m < Acked + WindowSize
  BY TxFields, UnackedIs, Sizes DEF TxNumbers
<1>2. -WindowSize < m - k /\ m - k < WindowSize
  BY <1>1, Sizes
<1> QED BY <1>1, <1>2, SlotInjective

\* What a slot with a number in the window holds.
LEMMA FrameInWindow ==
  ASSUME SlotsWrapWithNumbers, TypeOK, TxNumbers, TxBuffers, NEW seq \in SeqNum, InTxWindow(seq)
  PROVE  \E m \in Unacked : /\ seq = NumberOf(m) /\ Slot(seq) = SlotOf(m) /\ Slot(seq) \in Slots
                            /\ tx.buf[Slot(seq)] = Frame(m)
<1>1. PICK m \in Unacked : seq = NumberOf(m)
  BY InTxWindowIs
<1>2. m \in Int
  BY UnackedIs
<1>3. Slot(seq) = SlotOf(m) /\ SlotOf(m) \in Slots
  BY <1>1, <1>2, SlotOfNumber, NumberType
<1> QED BY <1>1, <1>3 DEF TxBuffers

-----------------------------------------------------------------------------
(* Initially, and in the steps that leave the sender's buffers alone. *)

\* Both ends agree on First and nothing is under way.
LEMMA SenderInit ==
  ASSUME SlotsWrapWithNumbers, Init
  PROVE  SenderInv
<1>1. /\ First % SeqNums = NumberOf(0) /\ First % WindowSize = SlotOf(0)
      /\ SEQ_ADD(First, WindowSize) = NumberOf(WindowSize)
  BY Sizes DEF NumberOf, SlotOf, SEQ_ADD
<1>2. NumberOf(0) \in SeqNum /\ SlotOf(0) \in Slots /\ NumberOf(WindowSize) \in SeqNum
  <2>1. 0 \in Int /\ WindowSize \in Int
    BY Sizes
  <2> QED BY <2>1, NumberType
<1>3. PICK stopAndWait \in Modes :
        tx = [seq |-> NumberOf(0), ack |-> NumberOf(0), stopAndWait |-> stopAndWait,
              buf |-> [i \in Slots |-> [seq |-> i, msg |-> NoMsg]]]
  BY <1>1 DEF Init
<1>4. /\ tx.seq = NumberOf(0) /\ tx.ack = NumberOf(0) /\ tx.stopAndWait \in BOOLEAN
      /\ \A i \in Slots : tx.buf[i].seq = i
  BY <1>3, ModeAssumption
<1>5. \A i \in Slots : i \in SeqNum /\ Slot(i) = i
  <2> SUFFICES ASSUME NEW i \in Slots PROVE i \in SeqNum /\ Slot(i) = i
    OBVIOUS
  <2>1. i = (WindowSize * 0) + i /\ i \in Int /\ i \in 0 .. WindowSize - 1 /\ i \in SeqNum
    BY Sizes
  <2> QED BY <2>1, Sizes, RemainderIs DEF Slot
<1>6. TypeOK
  <2>1. tx \in [seq : SeqNum, ack : SeqNum, stopAndWait : BOOLEAN,
                buf : [Slots -> [seq : SeqNum, msg : Nat]]]
    BY <1>2, <1>3, <1>5, ModeAssumption DEF NoMsg
  <2>2. rx \in [seq : SeqNum, winEnd : SeqNum, next : Slots, nackSent : BOOLEAN, buf : [Slots -> Nat]]
    BY <1>1, <1>2 DEF Init, NoMsg
  <2>3. timers \in [Slots -> 0 .. 2] /\ 0 \in Slots
    BY Sizes DEF Init
  <2>4. toRx \in Seq([seq : SeqNum, msg : Nat]) /\ toTx \in Seq(Response)
    BY EmptySeq DEF Init
  <2> QED BY <2>1, <2>2, <2>3, <2>4 DEF Init, TypeOK, SendPCs, ReadPCs
<1>7. Outstanding = 0 /\ sent = 0 /\ Acked = 0 /\ Unacked = {}
  <2>1. SEQ_DELTA(NumberOf(0), NumberOf(0)) = 0
    BY Sizes, DeltaAhead
  <2> QED BY <2>1, <1>4 DEF Init, Outstanding, Acked, Unacked
<1>8. TxNumbers
  BY <1>4, <1>7, Sizes DEF TxNumbers
<1>9. TxBuffers
  BY <1>4, <1>5, <1>7 DEF TxBuffers
<1>10. LinkAccepted
  BY EmptySeq DEF LinkAccepted, Init
<1>11. TimersFew /\ TimersEnough
  BY <1>7 DEF Init, TimersFew, TimersEnough, InHand, Busy
<1>12. SenderIsWoken
  BY DEF Init, SenderIsWoken
<1> QED BY <1>6, <1>8, <1>9, <1>10, <1>11, <1>12 DEF SenderInv

\* What the invariant says of buffers and timers, when a step leaves them alone.
LEMMA QuietNumbers ==
  ASSUME UNCHANGED <<tx, sent>>
  PROVE  /\ Outstanding' = Outstanding /\ Acked' = Acked /\ Unacked' = Unacked /\ Accepted' = Accepted
         /\ \A i : Busy(i)' = Busy(i)
         /\ TxNumbers => TxNumbers'
         /\ TxBuffers => TxBuffers'
         /\ LinkAccepted /\ UNCHANGED toRx => LinkAccepted'
BY DEF Outstanding, Acked, Unacked, Accepted, Busy, TxNumbers, TxBuffers, LinkAccepted, NumberOf, SlotOf, Frame

\* The same of the timers.
LEMMA QuietTimers ==
  ASSUME UNCHANGED <<tx, sent, timers, timerPc>>
  PROVE  (TimersFew => TimersFew') /\ (TimersEnough => TimersEnough')
BY QuietNumbers DEF TimersFew, TimersEnough, InHand, Returning, SlotOf

\* A step of the receiver, or of the link, that keeps the types.
LEMMA QuietSender ==
  ASSUME SenderInv, UNCHANGED <<tx, sent, timers, timerPc, sendPc, evTxFull>>, TypeOK', LinkAccepted'
  PROVE  SenderInv'
<1>1. SenderIsWoken'
  BY DEF SenderInv, SenderIsWoken, Outstanding, WindowFull
<1> QED BY <1>1, QuietNumbers, QuietTimers DEF SenderInv

-----------------------------------------------------------------------------
(* The receiver's steps. *)

Window == [seq : SeqNum, winEnd : SeqNum, next : Slots, nackSent : BOOLEAN, buf : [Slots -> Nat]]

\* Remainders are numbers and slots.
LEMMA ModType ==
  ASSUME NEW x \in Int
  PROVE  x % SeqNums \in SeqNum /\ x % WindowSize \in Slots
BY Sizes, Division

\* SEQ_DELTA is a number.
LEMMA DeltaType ==
  ASSUME NEW a \in SeqNum, NEW b \in SeqNum
  PROVE  SEQ_DELTA(a, b) \in SeqNum /\ SEQ_DELTA(a, b) \in Nat
<1> DEFINE u == b + SeqNums - a
<1>1. u \in Int /\ SeqNum \subseteq Nat
  BY Sizes
<1>2. SEQ_DELTA(a, b) = u % SeqNums
  BY DEF SEQ_DELTA
<1> HIDE DEF u
<1> QED BY <1>1, <1>2, ModType

\* The window closes over the frames before the first one that is missing.
LEMMA CloseWindowIs ==
  ASSUME NEW r \in Window
  PROVE  \E k \in 0 .. SEQ_DELTA(r.seq, r.winEnd) :
           /\ \A j \in 0 .. k - 1 : r.buf[Slot(SEQ_ADD(r.seq, j))] # NoMsg
           /\ k = SEQ_DELTA(r.seq, r.winEnd) \/ r.buf[Slot(SEQ_ADD(r.seq, k))] = NoMsg
           /\ CloseWindow(r) = [r EXCEPT !.seq = SEQ_ADD(r.seq, k)]
<1> DEFINE open == SEQ_DELTA(r.seq, r.winEnd)
           Full(j) == r.buf[Slot(SEQ_ADD(r.seq, j))] # NoMsg
           Stops == {k \in 0 .. open : k = open \/ ~Full(k)}
           P(k) == (\A j \in 0 .. k - 1 : Full(j)) /\ (k = open \/ ~Full(k))
<1>1. open \in Nat
  BY DeltaType DEF Window
<1>2. CloseWindow(r) = [r EXCEPT !.seq = SEQ_ADD(r.seq, CHOOSE k \in 0 .. open : P(k))]
  BY DEF CloseWindow
<1> HIDE DEF open, Full
<1>3. Stops \in SUBSET Nat /\ open \in Stops
  BY <1>1
<1>4. PICK k \in Stops : \A y \in Stops : k <= y
  BY <1>3, LeastNat
<1>5. \A j \in 0 .. k - 1 : Full(j)
  BY <1>1, <1>4
<1>6. \E i \in 0 .. open : P(i)
  BY <1>4, <1>5
<1> DEFINE c == CHOOSE i \in 0 .. open : P(i)
<1>7. c \in 0 .. open /\ P(c)
  BY <1>6
<1>8. CloseWindow(r) = [r EXCEPT !.seq = SEQ_ADD(r.seq, c)]
  BY <1>2
<1> HIDE DEF c
<1> QED BY <1>7, <1>8 DEF open, Full

\* It is a window as before.
LEMMA CloseWindowType ==
  ASSUME NEW r \in Window
  PROVE  CloseWindow(r) \in Window
<1>1. PICK k \in 0 .. SEQ_DELTA(r.seq, r.winEnd) : CloseWindow(r) = [r EXCEPT !.seq = SEQ_ADD(r.seq, k)]
  BY CloseWindowIs
<1>2. r.seq + k \in Int
  BY Sizes DEF Window
<1>3. SEQ_ADD(r.seq, k) \in SeqNum
  BY <1>2, ModType DEF SEQ_ADD
<1> QED BY <1>1, <1>3 DEF Window

\* The receiver's variables, one by one.
LEMMA RxFields ==
  ASSUME TypeOK
  PROVE  /\ rx \in Window /\ rx.seq \in SeqNum /\ rx.winEnd \in SeqNum /\ rx.next \in Slots
         /\ rx.buf \in [Slots -> Nat]
         /\ LastAck \in SeqNum /\ SEQ_ADD(LastAck, 1) \in SeqNum
         /\ toRx \in Seq([seq : SeqNum, msg : Nat]) /\ toTx \in Seq(Response)
         /\ last \in Nat
<1>1. /\ rx \in Window /\ rx.seq \in SeqNum /\ rx.winEnd \in SeqNum /\ rx.next \in Slots
      /\ rx.buf \in [Slots -> Nat]
  BY DEF TypeOK, Window
<1> DEFINE u == rx.winEnd + (2 * SeqNums - WindowSize - 1)
<1>2. u \in Int
  BY <1>1, Sizes
<1>6. LastAck = u % SeqNums
  BY DEF LastAck, SEQ_ADD
<1> HIDE DEF u
<1>7. LastAck \in SeqNum
  BY <1>2, <1>6, ModType
<1>3. LastAck \in SeqNum /\ LastAck \in Int
  BY <1>7, Sizes
<1>4. LastAck + 1 \in Int
  BY <1>3
<1>5. SEQ_ADD(LastAck, 1) \in SeqNum
  BY <1>4, ModType DEF SEQ_ADD
<1> QED BY <1>1, <1>3, <1>5 DEF TypeOK

\* An ACK or a NACK joins the responses under way.
LEMMA RespondType ==
  ASSUME TypeOK, NEW seq \in SeqNum, NEW b \in BOOLEAN, NEW n \in Outcomes,
         Sends(toTx, toTx', [ack |-> b, seq |-> seq], n)
  PROVE  toTx' \in Seq(Response)
<1>1. [ack |-> b, seq |-> seq] \in Response
  BY DEF Response
<1>2. toTx \in Seq(Response)
  BY RxFields
<1> QED BY ONLY <1>1, <1>2, SendsStays, n \in Outcomes, Sends(toTx, toTx', [ack |-> b, seq |-> seq], n)

\* What Head(toRx) is, and what is left.
LEMMA Arrival ==
  ASSUME TypeOK, LinkAccepted, NEW f, Arrives(f)
  PROVE  /\ \E m \in 0 .. sent - 1 : f = Frame(m)
         /\ f.seq \in SeqNum /\ f.msg \in Nat /\ f.msg > 0 /\ f.msg <= sent
         /\ toRx' \in Seq([seq : SeqNum, msg : Nat]) /\ toRx' \in Seq(Accepted)
         /\ Len(toRx) \in Nat \ {0} /\ f = toRx[1]
         /\ Len(toRx') = Len(toRx) - 1 /\ \A i \in 1 .. Len(toRx') : toRx'[i] = toRx[i + 1]
<1>1. toRx # << >> /\ f = Head(toRx) /\ toRx' = Tail(toRx)
  BY DEF Arrives
<1>2. f \in Accepted /\ toRx' \in Seq(Accepted)
      /\ Len(toRx') = Len(toRx) - 1 /\ \A i \in 1 .. Len(toRx') : toRx'[i] = toRx[i + 1]
  BY <1>1, HeadTailProperties DEF LinkAccepted
<1>3. toRx' \in Seq([seq : SeqNum, msg : Nat]) /\ Len(toRx) \in Nat \ {0}
  BY <1>1, HeadTailProperties, EmptySeq, RxFields
<1>4. PICK m \in 0 .. sent - 1 : f = Frame(m)
  BY <1>2 DEF Accepted
<1>5. f.seq \in SeqNum /\ f.msg = m + 1
  BY <1>4, NumberType, TxFields DEF Frame
<1> QED BY <1>1, <1>2, <1>3, <1>4, <1>5, TxFields

\* A frame outside the window, and the ACK repeated for it.
LEMMA ReceiveOutsideSender ==
  ASSUME SenderInv, NEW f, NEW n \in Outcomes, ReceiveOutside(f, n)
  PROVE  SenderInv'
<1>1. TypeOK /\ LinkAccepted
  BY DEF SenderInv
<1>2. /\ Arrives(f)
      /\ UNCHANGED <<tx, timers, timerPc, evTxFull, evRecv, sendPc, rx, readPc, sent, last>>
  BY DEF ReceiveOutside
<1>3. toRx' \in Seq([seq : SeqNum, msg : Nat]) /\ toRx' \in Seq(Accepted)
  BY <1>1, <1>2, Arrival
<1>4. toTx' \in Seq(Response)
  BY <1>1, RespondType, RxFields DEF ReceiveOutside
<1>5. TypeOK'
  BY <1>1, <1>2, <1>3, <1>4 DEF TypeOK
<1>6. LinkAccepted'
  BY <1>2, <1>3, QuietNumbers DEF LinkAccepted
<1> QED BY <1>2, <1>5, <1>6, QuietSender

\* A frame that is there already.
LEMMA ReceiveDuplicateSender ==
  ASSUME SenderInv, NEW f, ReceiveDuplicate(f)
  PROVE  SenderInv'
<1>1. TypeOK /\ LinkAccepted
  BY DEF SenderInv
<1>2. /\ Arrives(f)
      /\ UNCHANGED <<tx, timers, timerPc, evTxFull, evRecv, sendPc, rx, readPc, toTx, sent, last>>
  BY DEF ReceiveDuplicate
<1>3. toRx' \in Seq([seq : SeqNum, msg : Nat]) /\ toRx' \in Seq(Accepted)
  BY <1>1, <1>2, Arrival
<1>4. TypeOK'
  BY <1>1, <1>2, <1>3 DEF TypeOK
<1>5. LinkAccepted'
  BY <1>2, <1>3, QuietNumbers DEF LinkAccepted
<1> QED BY <1>2, <1>4, <1>5, QuietSender

\* A new frame, and the NACK of the one before it.
LEMMA ReceiveDataSender ==
  ASSUME SenderInv, NEW f, NEW n \in Outcomes, ReceiveData(f, n)
  PROVE  SenderInv'
<1>1. TypeOK /\ LinkAccepted
  BY DEF SenderInv
<1>2. Arrives(f) /\ UNCHANGED <<tx, timers, timerPc, evTxFull, sendPc, sent, last>>
  BY DEF ReceiveData
<1>3. /\ toRx' \in Seq([seq : SeqNum, msg : Nat]) /\ toRx' \in Seq(Accepted)
      /\ f.seq \in SeqNum /\ f.msg \in Nat
  BY <1>1, <1>2, Arrival
<1>4. toTx' \in Seq(Response)
  <2>1. CASE f.seq # rx.seq /\ ~rx.nackSent
    BY <1>1, <2>1, RespondType, RxFields DEF ReceiveData
  <2>2. CASE ~(f.seq # rx.seq /\ ~rx.nackSent)
    BY <1>1, <2>2, RxFields DEF ReceiveData
  <2> QED BY <2>1, <2>2
<1>5. rx' \in Window
  <2> DEFINE r == [rx EXCEPT !.nackSent = f.seq # rx.seq, !.buf[Slot(f.seq)] = f.msg]
  <2>1. r \in Window
    BY <1>1, <1>3, RxFields DEF Window
  <2>2. rx' = CloseWindow(r)
    BY DEF ReceiveData
  <2> HIDE DEF r
  <2> QED BY <2>1, <2>2, CloseWindowType
<1>6. readPc' \in [Readers -> ReadPCs] /\ evRecv' \in BOOLEAN
  <2>1. readPc \in [Readers -> ReadPCs] /\ evRecv \in BOOLEAN /\ SetRecv
    BY <1>1 DEF ReceiveData, TypeOK
  <2> QED BY ONLY <2>1 DEF SetRecv, ReadPCs
<1>7. TypeOK'
  BY <1>1, <1>2, <1>3, <1>4, <1>5, <1>6 DEF TypeOK, Window
<1>8. LinkAccepted'
  BY <1>2, <1>3, QuietNumbers DEF LinkAccepted
<1> QED BY <1>2, <1>7, <1>8, QuietSender

\* KITLRecv finds nothing, waits, or gives up.
LEMMA ReadSender ==
  ASSUME SenderInv, NEW r \in Readers, RecvBlocks(r) \/ RecvWaits(r) \/ RecvTimesOut(r)
  PROVE  SenderInv'
<1>1. TypeOK /\ LinkAccepted
  BY DEF SenderInv
<1>2. UNCHANGED <<tx, timers, timerPc, evTxFull, sendPc, rx, toRx, toTx, sent, last>>
  BY DEF RecvBlocks, RecvWaits, RecvTimesOut
<1>3. readPc' \in [Readers -> ReadPCs] /\ evRecv' \in BOOLEAN
  BY <1>1 DEF RecvBlocks, RecvWaits, RecvTimesOut, TypeOK, ReadPCs
<1>4. TypeOK'
  BY <1>1, <1>2, <1>3 DEF TypeOK
<1> QED BY <1>1, <1>2, <1>4, QuietNumbers, QuietSender

\* KITLRecv hands out a message and acknowledges it.
LEMMA RecvMessageSender ==
  ASSUME SenderInv, NEW r \in Readers, NEW n \in Outcomes, RecvMessage(r, n)
  PROVE  SenderInv'
<1>1. TypeOK /\ LinkAccepted
  BY DEF SenderInv
<1>2. UNCHANGED <<tx, timers, timerPc, evTxFull, evRecv, sendPc, toRx, sent>>
  BY DEF RecvMessage
<1>3. toTx' \in Seq(Response)
  BY <1>1, RespondType, RxFields DEF RecvMessage
<1>4. rx' \in Window
  <2>1. rx.next + 1 \in Int /\ rx.winEnd + 1 \in Int
    BY <1>1, RxFields, Sizes
  <2>2. (rx.next + 1) % WindowSize \in Slots /\ SEQ_ADD(rx.winEnd, 1) \in SeqNum
    BY <2>1, ModType DEF SEQ_ADD
  <2> QED BY <1>1, <2>2, RxFields DEF RecvMessage, Window, NoMsg
<1>5. readPc' \in [Readers -> ReadPCs] /\ last' \in Nat
  BY <1>1, RxFields DEF RecvMessage, TypeOK, ReadPCs
<1>6. TypeOK'
  BY <1>1, <1>2, <1>3, <1>4, <1>5 DEF TypeOK, Window
<1> QED BY <1>1, <1>2, <1>6, QuietNumbers, QuietSender

\* Overtaking leaves on the link what was there.
LEMMA ReorderSender ==
  ASSUME SenderInv, Reorder
  PROVE  SenderInv'
<1>1. TypeOK /\ LinkAccepted
  BY DEF SenderInv
<1>2. UNCHANGED <<tx, timers, timerPc, evTxFull, evRecv, sendPc, rx, readPc, sent, last>>
  BY DEF Reorder
<1>3. /\ toRx' \in Seq([seq : SeqNum, msg : Nat]) /\ toRx' \in Seq(Accepted)
      /\ toTx' \in Seq(Response)
  <2>1. CASE Swap(toRx, toRx') /\ UNCHANGED toTx
    BY <1>1, <2>1, SwapKeeps, RxFields DEF LinkAccepted
  <2>2. CASE Swap(toTx, toTx') /\ UNCHANGED toRx
    BY <1>1, <2>2, SwapKeeps, RxFields DEF LinkAccepted
  <2> QED BY <2>1, <2>2 DEF Reorder
<1>4. TypeOK'
  BY <1>1, <1>2, <1>3 DEF TypeOK
<1>5. LinkAccepted'
  BY <1>2, <1>3, QuietNumbers DEF LinkAccepted
<1> QED BY <1>2, <1>4, <1>5, QuietSender

-----------------------------------------------------------------------------
(* The steps of KITLSend. *)

\* A step of a thread in KITLSend that sends nothing.
LEMMA QuietCaller ==
  ASSUME SenderInv, UNCHANGED <<tx, timers, timerPc, evRecv, rx, readPc, toRx, toTx, sent, last>>,
         evTxFull' \in BOOLEAN, sendPc' \in [Senders -> SendPCs], SenderIsWoken'
  PROVE  SenderInv'
<1>1. TypeOK'
  BY DEF SenderInv, TypeOK
<1> QED BY <1>1, QuietNumbers, QuietTimers DEF SenderInv

\* evTxFull is reset only when the window was seen full under ClientCS.
LEMMA SendBlocksSender ==
  ASSUME SenderInv, NEW s \in Senders, SendBlocks(s)
  PROVE  SenderInv'
<1>1. /\ sendPc \in [Senders -> SendPCs]
      /\ UNCHANGED <<tx, timers, timerPc, evRecv, rx, readPc, toRx, toTx, sent, last>>
  BY DEF SendBlocks, SenderInv, TypeOK
<1>2. evTxFull' \in BOOLEAN /\ sendPc' \in [Senders -> SendPCs]
  BY <1>1 DEF SendBlocks, SendPCs
<1>3. Outstanding' > 0 /\ WindowFull'
  <2>1. Outstanding >= WindowSize /\ Outstanding \in Nat
    BY TxFields DEF SendBlocks, WindowFull, SenderInv
  <2> QED BY <1>1, <2>1, Sizes, QuietNumbers DEF WindowFull
<1>4. SenderIsWoken'
  BY <1>3 DEF SenderIsWoken
<1> QED BY <1>1, <1>2, <1>4, QuietCaller

\* A wait that is met or times out.
LEMMA SendWaitsSender ==
  ASSUME SenderInv, NEW s \in Senders, SendWaits(s) \/ SendTimesOut(s)
  PROVE  SenderInv'
<1>1. /\ sendPc \in [Senders -> SendPCs] /\ evTxFull \in BOOLEAN
      /\ UNCHANGED <<tx, timers, timerPc, evTxFull, evRecv, rx, readPc, toRx, toTx, sent, last>>
  BY DEF SendWaits, SendTimesOut, SenderInv, TypeOK
<1>2. evTxFull' \in BOOLEAN /\ sendPc' \in [Senders -> SendPCs]
  BY <1>1 DEF SendWaits, SendTimesOut, SendPCs, AfterTxFull
<1>3. ASSUME NEW t \in Senders,
             sendPc'[t] \in {"full_wait", "ack_wait"} \/ (sendPc'[t] \in {"full", "ack"} /\ ~evTxFull')
      PROVE  sendPc[t] \in {"full_wait", "ack_wait"} \/ (sendPc[t] \in {"full", "ack"} /\ ~evTxFull)
  BY <1>1, <1>3 DEF SendWaits, SendTimesOut, SendPCs, AfterTxFull
<1>4. SenderIsWoken'
  <2>1. Outstanding' = Outstanding /\ WindowFull' = WindowFull /\ tx' = tx
    BY <1>1, QuietNumbers DEF WindowFull
  <2> QED BY <1>3, <2>1 DEF SenderInv, SenderIsWoken
<1> QED BY <1>1, <1>2, <1>4, QuietCaller

\* The slot of the next number is free unless the window is full.
LEMMA NextSlotFree ==
  ASSUME SlotsWrapWithNumbers, SenderInv, ~WindowFull
  PROVE  /\ Slot(tx.seq) = SlotOf(sent) /\ SlotOf(sent) \in Slots
         /\ Outstanding < WindowSize
         /\ \A m \in Unacked : SlotOf(m) # SlotOf(sent)
<1>1. TypeOK /\ TxNumbers
  BY DEF SenderInv
<1>2. /\ Outstanding \in Nat /\ Acked \in Int /\ sent = Acked + Outstanding /\ sent \in Int
      /\ Outstanding < WindowSize
  BY <1>1, TxFields, Sizes DEF WindowFull
<1>3. Slot(tx.seq) = SlotOf(sent) /\ SlotOf(sent) \in Slots
  BY <1>1, <1>2, SlotOfNumber, NumberType DEF TxNumbers
<1>4. ASSUME NEW m \in Unacked, SlotOf(m) = SlotOf(sent)
      PROVE  FALSE
  <2>3. Acked <= sent /\ sent < Acked + WindowSize
    BY <1>2, Sizes
  <2>1. m = sent
    BY <1>1, <1>2, <1>4, <2>3, UnackedSlots
  <2>2. m < Acked + Outstanding
    BY <1>1, UnackedIs
  <2> QED BY <1>2, <2>1, <2>2
<1> QED BY <1>2, <1>3, <1>4

\* The frame that failed leaves a slot without a message, of the number to come.
LEMMA SendFailsSender ==
  ASSUME SlotsWrapWithNumbers, SenderInv, NEW s \in Senders, SendFails(s)
  PROVE  SenderInv'
<1> DEFINE slot == Slot(tx.seq)
           old == [seq |-> tx.seq, msg |-> NoMsg]
<1>1. /\ TypeOK /\ TxNumbers /\ TxBuffers
      /\ ~WindowFull
      /\ tx' = [tx EXCEPT !.buf[slot] = old]
      /\ sendPc' = [sendPc EXCEPT ![s] = "user"]
      /\ UNCHANGED <<timers, timerPc, evTxFull, evRecv, rx, readPc, toRx, toTx, sent, last>>
  BY DEF SendFails, SenderInv
<1>2. slot = SlotOf(sent) /\ slot \in Slots /\ \A m \in Unacked : SlotOf(m) # slot
  BY <1>1, NextSlotFree
<1>3. old \in [seq : SeqNum, msg : Nat] /\ old.seq = tx.seq
  BY <1>1, TxFields DEF NoMsg
<1> HIDE DEF slot, old
<1>4. /\ tx' \in [seq : SeqNum, ack : SeqNum, stopAndWait : BOOLEAN,
                  buf : [Slots -> [seq : SeqNum, msg : Nat]]]
      /\ tx'.seq = tx.seq /\ tx'.ack = tx.ack /\ tx'.stopAndWait = tx.stopAndWait
      /\ \A i \in Slots : tx'.buf[i] = IF i = slot THEN old ELSE tx.buf[i]
  BY <1>1, <1>2, <1>3 DEF TypeOK
<1>5. TypeOK'
  BY <1>1, <1>4 DEF TypeOK, SendPCs
<1>6. /\ Outstanding' = Outstanding /\ Acked' = Acked /\ Unacked' = Unacked /\ Accepted' = Accepted
      /\ \A i : Busy(i)' = Busy(i)
  BY <1>1, <1>4 DEF Outstanding, Acked, Unacked, Accepted, Busy, NumberOf, SlotOf, Frame
<1>7. TxNumbers'
  BY <1>1, <1>4, <1>6 DEF TxNumbers, NumberOf
<1>8. TxBuffers'
  <2>1. \A m \in Unacked : SlotOf(m) \in Slots
    BY <1>1, UnackedIs, NumberType
  <2>2. \A i \in Slots : Slot(tx'.buf[i].seq) = i
    BY <1>1, <1>3, <1>4 DEF TxBuffers, slot
  <2>3. \A m \in Unacked : tx'.buf[SlotOf(m)] = Frame(m)
    BY <1>1, <1>2, <1>4, <2>1 DEF TxBuffers
  <2> QED BY <1>6, <2>2, <2>3 DEF TxBuffers, SlotOf, Frame, NumberOf, Slot
<1>9. LinkAccepted' /\ TimersFew' /\ TimersEnough'
  BY <1>1, <1>6 DEF SenderInv, LinkAccepted, TimersFew, TimersEnough, InHand, Returning, SlotOf
<1>10. SenderIsWoken'
  BY <1>1, <1>4, <1>6 DEF SenderInv, SenderIsWoken, WindowFull, TypeOK
<1> QED BY <1>5, <1>7, <1>8, <1>9, <1>10 DEF SenderInv

\* A frame is sent: the window grows by one.
LEMMA WindowGrows ==
  ASSUME TypeOK, TxNumbers, Outstanding < WindowSize,
         tx'.seq = SEQ_ADD(tx.seq, 1), tx'.ack = tx.ack, sent' = sent + 1
  PROVE  /\ TxNumbers' /\ Outstanding' = Outstanding + 1 /\ Acked' = Acked
         /\ Unacked' = Unacked \union {sent} /\ Accepted \subseteq Accepted' /\ Frame(sent) \in Accepted'
         /\ \A i : Busy(i)' <=> Busy(i) \/ i = SlotOf(sent)
<1>1. /\ Acked \in Int /\ Acked >= 0 /\ Outstanding \in Nat /\ sent = Acked + Outstanding /\ sent \in Nat
      /\ tx.seq = NumberOf(sent) /\ tx.ack = NumberOf(Acked)
  BY TxFields DEF TxNumbers
<1>2. tx'.seq = NumberOf(sent + 1)
  BY <1>1, NumberAdd
<1>3. SEQ_DELTA(NumberOf(Acked), NumberOf(sent + 1)) = Outstanding + 1
  <2>1. (sent + 1) - Acked = Outstanding + 1 /\ Outstanding + 1 < SeqNums /\ sent + 1 \in Int
    BY <1>1, Sizes
  <2> QED BY <1>1, <2>1, DeltaAhead
<1>4. Outstanding' = Outstanding + 1
  BY <1>1, <1>2, <1>3 DEF Outstanding
<1>5. Acked' = Acked
  BY <1>1, <1>4 DEF Acked
<1>6. TxNumbers'
  <2>1. Outstanding' <= WindowSize
    BY <1>1, <1>4, Sizes
  <2> QED BY <1>1, <1>2, <1>5, <2>1 DEF TxNumbers, NumberOf
<1>7. Unacked' = Unacked \union {sent}
  BY <1>1, <1>5 DEF Unacked
<1>8. Accepted' = Accepted \union {Frame(sent)}
  BY <1>1 DEF Accepted, Frame, NumberOf
<1>9. \A i : Busy(i)' <=> Busy(i) \/ i = SlotOf(sent)
  BY <1>7 DEF Busy, SlotOf
<1> QED BY <1>4, <1>5, <1>6, <1>7, <1>8, <1>9

\* The slot of the frame sent had at most one timer, and now has one more.
LEMMA SendFrameSender ==
  ASSUME SlotsWrapWithNumbers, SenderInv, NEW s \in Senders, NEW n \in Outcomes, SendFrame(s, n)
  PROVE  SenderInv'
<1> DEFINE slot == Slot(tx.seq)
           frame == [seq |-> tx.seq, msg |-> sent + 1]
<1>1. /\ TypeOK /\ TxNumbers /\ TxBuffers /\ LinkAccepted
      /\ ~WindowFull
      /\ Sends(toRx, toRx', frame, n)
      /\ tx' = [tx EXCEPT !.seq = SEQ_ADD(@, 1), !.buf[slot] = frame]
      /\ timers' = [timers EXCEPT ![slot] = @ + 1]
      /\ sent' = sent + 1
      /\ evTxFull' = (evTxFull /\ ~tx.stopAndWait)
      /\ sendPc' = [sendPc EXCEPT ![s] = IF tx.stopAndWait THEN "ack" ELSE "user"]
      /\ UNCHANGED <<timerPc, evRecv, rx, readPc, toTx, last>>
  BY DEF SendFrame, SenderInv
<1>2. /\ slot = SlotOf(sent) /\ slot \in Slots /\ \A m \in Unacked : SlotOf(m) # slot
      /\ Outstanding < WindowSize
  BY <1>1, NextSlotFree
<1>3. frame = Frame(sent) /\ frame \in [seq : SeqNum, msg : Nat] /\ Slot(frame.seq) = slot
  BY <1>1, TxFields DEF Frame, TxNumbers
<1>4. SEQ_ADD(tx.seq, 1) \in SeqNum
  <2>1. tx.seq + 1 \in Int
    BY <1>1, TxFields, Sizes
  <2> QED BY <2>1, ModType DEF SEQ_ADD
<1> HIDE DEF slot, frame
<1>5. /\ tx' \in [seq : SeqNum, ack : SeqNum, stopAndWait : BOOLEAN,
                  buf : [Slots -> [seq : SeqNum, msg : Nat]]]
      /\ tx'.seq = SEQ_ADD(tx.seq, 1) /\ tx'.ack = tx.ack /\ tx'.stopAndWait = tx.stopAndWait
      /\ \A i \in Slots : tx'.buf[i] = IF i = slot THEN frame ELSE tx.buf[i]
  BY <1>1, <1>2, <1>3, <1>4 DEF TypeOK
<1>6. /\ TxNumbers' /\ Outstanding' = Outstanding + 1
      /\ Unacked' = Unacked \union {sent} /\ Accepted \subseteq Accepted' /\ frame \in Accepted'
      /\ \A i : Busy(i)' <=> Busy(i) \/ i = slot
  BY <1>1, <1>2, <1>3, <1>5, WindowGrows
<1>7. toRx' \in Seq([seq : SeqNum, msg : Nat]) /\ LinkAccepted'
  <2>1. toRx \in Seq(Accepted')
    BY <1>1, <1>6, SeqMonotonic DEF LinkAccepted
  <2>2. toRx' \in Seq(Accepted')
    BY ONLY <1>1, <1>6, <2>1, SendsStays, n \in Outcomes
  <2>3. toRx' \in Seq([seq : SeqNum, msg : Nat])
    <3>1. toRx \in Seq([seq : SeqNum, msg : Nat])
      BY <1>1, RxFields
    <3> QED BY ONLY <1>1, <1>3, <3>1, SendsStays, n \in Outcomes
  <2> QED BY <2>2, <2>3 DEF LinkAccepted
<1>8. /\ \A i \in Slots : timers[i] \in 0 .. 2
      /\ \A i \in Slots : timers'[i] = IF i = slot THEN timers[i] + 1 ELSE timers[i]
      /\ DOMAIN timers' = Slots
  BY <1>1, <1>2, TxFields
<1>9. \A i \in Slots : timers'[i] + InHand(i)' <= (IF Busy(i)' THEN 2 ELSE 1)
  <2> SUFFICES ASSUME NEW i \in Slots
               PROVE  timers'[i] + InHand(i) <= (IF Busy(i) \/ i = slot THEN 2 ELSE 1)
    BY <1>1, <1>6 DEF InHand
  <2>1. timers[i] + InHand(i) <= (IF Busy(i) THEN 2 ELSE 1) /\ InHand(i) \in 0 .. 1
    BY DEF SenderInv, TimersFew, InHand
  <2>2. ~Busy(slot)
    BY <1>2 DEF Busy
  <2>3. CASE i = slot
    BY <1>8, <2>1, <2>2, <2>3
  <2>4. CASE i # slot
    BY <1>8, <2>1, <2>4
  <2> QED BY <2>3, <2>4
<1>10. TimersEnough'
  <2> SUFFICES ASSUME NEW m \in Unacked \union {sent}
               PROVE  timers'[SlotOf(m)] > 0 \/ Returning(SlotOf(m))
    BY <1>1, <1>6 DEF TimersEnough, Returning, SlotOf
  <2>1. CASE m = sent
    BY <1>2, <1>8, <2>1
  <2>2. CASE m \in Unacked
    <3>1. SlotOf(m) \in Slots /\ SlotOf(m) # slot
      BY <1>1, <1>2, <2>2, UnackedIs, NumberType
    <3> QED BY <1>8, <2>2, <3>1 DEF SenderInv, TimersEnough
  <2> QED BY <2>1, <2>2
<1>11. timers' \in [Slots -> 0 .. 2]
  <2>1. \A i \in Slots : timers'[i] \in 0 .. 2
    <3> SUFFICES ASSUME NEW i \in Slots PROVE timers'[i] \in 0 .. 2
      OBVIOUS
    <3>1. InHand(i)' \in 0 .. 1 /\ timers'[i] \in Nat
      BY <1>8 DEF InHand
    <3> QED BY <1>9, <3>1
  <2> QED BY <1>1, <1>8, <2>1
<1>12. TypeOK'
  <2>1. evTxFull' \in BOOLEAN
    BY <1>1 DEF TypeOK
  <2>2. sendPc' \in [Senders -> SendPCs] /\ sent' \in Nat
    BY <1>1 DEF TypeOK, SendPCs
  <2> QED BY <1>1, <1>5, <1>7, <1>11, <2>1, <2>2 DEF TypeOK
<1>13. TxBuffers'
  <2>1. \A m \in Unacked : SlotOf(m) \in Slots
    BY <1>1, UnackedIs, NumberType
  <2>2. \A i \in Slots : Slot(tx'.buf[i].seq) = i
    BY <1>1, <1>3, <1>5 DEF TxBuffers
  <2>3. \A m \in Unacked \union {sent} : tx'.buf[SlotOf(m)] = Frame(m)
    BY <1>1, <1>2, <1>3, <1>5, <2>1 DEF TxBuffers
  <2> QED BY <1>6, <2>2, <2>3 DEF TxBuffers, SlotOf, Frame, NumberOf, Slot
<1>14. SenderIsWoken'
  <2> SUFFICES ASSUME NEW t \in Senders,
                      sendPc'[t] \in {"full_wait", "ack_wait"} \/ (sendPc'[t] \in {"full", "ack"} /\ ~evTxFull')
               PROVE  Outstanding' > 0 /\ (WindowFull' \/ tx'.stopAndWait)
    BY DEF SenderIsWoken
  <2>1. Outstanding' > 0
    BY <1>1, <1>6, TxFields
  <2>2. CASE tx.stopAndWait
    BY <1>5, <2>1, <2>2
  <2>3. CASE ~tx.stopAndWait
    <3>1. sendPc[t] \in {"full_wait", "ack_wait"} \/ (sendPc[t] \in {"full", "ack"} /\ ~evTxFull)
      BY <1>1, <2>3 DEF TypeOK, SendPCs
    <3>2. WindowFull
      BY <2>3, <3>1 DEF SenderInv, SenderIsWoken
    <3> QED BY <1>1, <3>2
  <2> QED BY <2>2, <2>3
<1> QED BY <1>6, <1>7, <1>9, <1>10, <1>12, <1>13, <1>14 DEF SenderInv, TimersFew

-----------------------------------------------------------------------------
(* The steps of TimerThread. *)

\* A step that changes the timers only, or sends a frame again.
LEMMA QuietWindow ==
  ASSUME SenderInv, UNCHANGED <<tx, evTxFull, evRecv, sendPc, rx, readPc, sent, last>>,
         toTx' \in Seq(Response), toRx' \in Seq(Accepted), toRx' \in Seq([seq : SeqNum, msg : Nat]),
         timerPc' \in [slot : Slots, at : {"idle", "expired", "again", "free"}],
         timers' \in [Slots -> 0 .. 2],
         \A i \in Slots : timers'[i] + InHand(i)' <= (IF Busy(i) THEN 2 ELSE 1),
         \A m \in Unacked : timers'[SlotOf(m)] > 0 \/ Returning(SlotOf(m))'
  PROVE  SenderInv'
<1>1. TypeOK'
  BY DEF SenderInv, TypeOK
<1>2. /\ Outstanding' = Outstanding /\ Unacked' = Unacked /\ Accepted' = Accepted
      /\ \A i : Busy(i)' = Busy(i)
      /\ TxNumbers' /\ TxBuffers'
  BY QuietNumbers DEF SenderInv
<1>3. LinkAccepted' /\ TimersFew' /\ TimersEnough'
  BY <1>2 DEF LinkAccepted, TimersFew, TimersEnough, SlotOf, Returning
<1>4. SenderIsWoken'
  BY <1>2 DEF SenderInv, SenderIsWoken, WindowFull
<1> QED BY <1>1, <1>2, <1>3, <1>4 DEF SenderInv

\* Unacknowledged frames have slots.
LEMMA UnackedSlotType ==
  ASSUME SenderInv
  PROVE  \A m \in Unacked : SlotOf(m) \in Slots
BY UnackedIs, NumberType DEF SenderInv

\* The entry is in hand instead of on the list.
LEMMA TimerExpiresSender ==
  ASSUME SenderInv, NEW slot \in Slots, TimerExpires(slot)
  PROVE  SenderInv'
<1>1. /\ TypeOK /\ LinkAccepted /\ TimersFew /\ TimersEnough
      /\ timerPc.at = "idle" /\ timers[slot] > 0
      /\ timers \in [Slots -> 0 .. 2]
      /\ timerPc' = [slot |-> slot, at |-> "expired"]
      /\ UNCHANGED <<tx, evTxFull, evRecv, sendPc, rx, readPc, toRx, toTx, sent, last, faults>>
  BY TxFields DEF TimerExpires, SenderInv
<1>2. /\ \A i \in Slots : timers'[i] = IF i = slot THEN timers[i] - 1 ELSE timers[i]
      /\ timers' = [timers EXCEPT ![slot] = timers'[slot]]
  BY <1>1 DEF TimerExpires, TimerStop
<1>3. timers' \in [Slots -> 0 .. 2]
  BY <1>1, <1>2
<1>4. ASSUME NEW i \in Slots
      PROVE  timers'[i] + InHand(i)' <= (IF Busy(i) THEN 2 ELSE 1)
  BY <1>1, <1>2 DEF InHand, TimersFew
<1>5. ASSUME NEW m \in Unacked
      PROVE  timers'[SlotOf(m)] > 0 \/ Returning(SlotOf(m))'
  BY <1>1, <1>2, UnackedSlotType DEF Returning, TimersEnough, SlotOf
<1>6. /\ toRx' \in Seq(Accepted) /\ toRx' \in Seq([seq : SeqNum, msg : Nat]) /\ toTx' \in Seq(Response)
      /\ timerPc' \in [slot : Slots, at : {"idle", "expired", "again", "free"}]
  BY <1>1, RxFields DEF LinkAccepted
<1> QED BY <1>1, <1>3, <1>4, <1>5, <1>6, QuietWindow

\* An accepted frame is sent again.
LEMMA SendsAgain ==
  ASSUME SenderInv, NEW f \in Accepted, NEW n \in Outcomes, Sends(toRx, toRx', f, n)
  PROVE  toRx' \in Seq(Accepted) /\ toRx' \in Seq([seq : SeqNum, msg : Nat])
<1>1. TypeOK /\ LinkAccepted
  BY DEF SenderInv
<1>2. f \in [seq : SeqNum, msg : Nat]
  BY <1>1, TxFields, NumberType DEF Accepted, Frame
<1>3. toRx \in Seq(Accepted) /\ toRx \in Seq([seq : SeqNum, msg : Nat])
  BY <1>1, RxFields DEF LinkAccepted
<1> QED BY ONLY <1>2, <1>3, SendsStays, f \in Accepted, n \in Outcomes, Sends(toRx, toRx', f, n)

\* An unacknowledged frame was accepted.
LEMMA UnackedAccepted ==
  ASSUME TypeOK, TxNumbers, NEW m \in Unacked
  PROVE  Frame(m) \in Accepted
<1>1. m \in 0 .. sent - 1
  BY UnackedIs, TxFields
<1> QED BY <1>1 DEF Accepted

\* An entry whose frame was acknowledged is freed, all others return.
LEMMA RetransmitFrameSender ==
  ASSUME SlotsWrapWithNumbers, SenderInv, NEW n \in Outcomes, RetransmitFrame(n)
  PROVE  SenderInv'
<1> DEFINE slot == timerPc.slot
           frame == tx.buf[slot]
<1>1. /\ TypeOK /\ TxNumbers /\ TxBuffers /\ LinkAccepted /\ TimersFew /\ TimersEnough
      /\ timerPc.at = "expired" /\ slot \in Slots
      /\ frame.seq \in SeqNum /\ Slot(frame.seq) = slot
      /\ UNCHANGED <<tx, timers, evTxFull, evRecv, sendPc, rx, readPc, toTx, sent, last>>
  BY TxFields DEF RetransmitFrame, SenderInv, TxBuffers
<1>2. timerPc \in [slot : Slots, at : {"idle", "expired", "again", "free"}] /\ timers \in [Slots -> 0 .. 2]
  BY <1>1 DEF TypeOK
<1>3. CASE InTxWindow(frame.seq)
  <2>1. Sends(toRx, toRx', frame, n) /\ timerPc' = [timerPc EXCEPT !.at = "again"]
    BY <1>3 DEF RetransmitFrame
  <2>2. frame \in Accepted
    BY <1>1, <1>3, FrameInWindow, UnackedAccepted
  <2>3. toRx' \in Seq(Accepted) /\ toRx' \in Seq([seq : SeqNum, msg : Nat])
    BY <2>1, <2>2, SendsAgain
  <2>4. /\ timerPc' \in [slot : Slots, at : {"idle", "expired", "again", "free"}]
        /\ timerPc'.slot = timerPc.slot /\ timerPc'.at = "again"
    BY <1>2, <2>1
  <2>5. \A i \in Slots : timers'[i] + InHand(i)' <= (IF Busy(i) THEN 2 ELSE 1)
    BY <1>1, <2>4 DEF InHand, TimersFew
  <2>6. \A m \in Unacked : timers'[SlotOf(m)] > 0 \/ Returning(SlotOf(m))'
    BY <1>1, <2>4 DEF Returning, TimersEnough, SlotOf
  <2> QED BY <1>1, <1>2, <2>3, <2>4, <2>5, <2>6, RxFields, QuietWindow
<1>4. CASE ~InTxWindow(frame.seq)
  <2>1. toRx' = toRx /\ timerPc' = [timerPc EXCEPT !.at = "free"]
    BY <1>4 DEF RetransmitFrame
  <2>2. /\ timerPc' \in [slot : Slots, at : {"idle", "expired", "again", "free"}]
        /\ timerPc'.slot = timerPc.slot /\ timerPc'.at = "free"
    BY <1>2, <2>1
  <2>3. \A i \in Slots : timers'[i] + InHand(i)' <= (IF Busy(i) THEN 2 ELSE 1)
    BY <1>1, <2>2 DEF InHand, TimersFew
  <2>4. \A m \in Unacked : SlotOf(m) # slot
    \* The slot of an unacknowledged frame has its number, which is in the window.
    <3> SUFFICES ASSUME NEW m \in Unacked, SlotOf(m) = slot PROVE FALSE
      OBVIOUS
    <3>2. tx.buf[SlotOf(m)] = Frame(m)
      BY <1>1 DEF TxBuffers
    <3>1. frame.seq = NumberOf(m)
      BY <3>2 DEF Frame
    <3> QED BY <1>1, <1>4, <3>1, UnackedInWindow
  <2>5. \A m \in Unacked : timers'[SlotOf(m)] > 0 \/ Returning(SlotOf(m))'
    BY <1>1, <2>4 DEF Returning, TimersEnough, SlotOf
  <2>6. toRx' \in Seq(Accepted) /\ toRx' \in Seq([seq : SeqNum, msg : Nat])
    BY <1>1, <2>1, RxFields DEF LinkAccepted
  <2> QED BY <1>1, <1>2, <2>2, <2>3, <2>5, <2>6, RxFields, QuietWindow
<1> QED BY <1>3, <1>4

\* What was in hand is on the list again, or nowhere.
LEMMA TimerReinsertsSender ==
  ASSUME SenderInv, TimerReinserts
  PROVE  SenderInv'
<1> DEFINE slot == timerPc.slot
<1>1. /\ TypeOK /\ LinkAccepted /\ TimersFew /\ TimersEnough
      /\ timerPc.at \in {"again", "free"} /\ slot \in Slots
      /\ timers \in [Slots -> 0 .. 2]
      /\ timers' = IF timerPc.at = "again" THEN [timers EXCEPT ![slot] = @ + 1] ELSE timers
      /\ timerPc' = [slot |-> 0, at |-> "idle"]
      /\ UNCHANGED <<tx, evTxFull, evRecv, sendPc, rx, readPc, toRx, toTx, sent, last, faults>>
  BY TxFields DEF TimerReinserts, SenderInv
<1>2. \A i \in Slots : timers'[i] = IF timerPc.at = "again" /\ i = slot THEN timers[i] + 1 ELSE timers[i]
  BY <1>1
<1>3. ASSUME NEW i \in Slots
      PROVE  timers'[i] + InHand(i)' <= (IF Busy(i) THEN 2 ELSE 1) /\ timers'[i] \in 0 .. 2
  <2>1. timers[i] + InHand(i) <= (IF Busy(i) THEN 2 ELSE 1)
    BY <1>1 DEF TimersFew
  <2>2. InHand(i)' = 0 /\ InHand(i) = (IF i = slot THEN 1 ELSE 0) /\ timers[i] \in 0 .. 2
    BY <1>1 DEF InHand
  <2> QED BY <1>2, <2>1, <2>2
<1>4. timers' \in [Slots -> 0 .. 2]
  BY <1>1, <1>3
<1>5. ASSUME NEW m \in Unacked
      PROVE  timers'[SlotOf(m)] > 0 \/ Returning(SlotOf(m))'
  <2>1. SlotOf(m) \in Slots /\ timers[SlotOf(m)] \in 0 .. 2
    BY <1>1, UnackedSlotType
  <2>2. timers[SlotOf(m)] > 0 \/ (SlotOf(m) = slot /\ timerPc.at = "again")
    BY <1>1 DEF TimersEnough, Returning
  <2> QED BY <1>2, <2>1, <2>2
<1>6. /\ toRx' \in Seq(Accepted) /\ toRx' \in Seq([seq : SeqNum, msg : Nat]) /\ toTx' \in Seq(Response)
      /\ timerPc' \in [slot : Slots, at : {"idle", "expired", "again", "free"}]
  BY <1>1, RxFields, Sizes DEF LinkAccepted
<1> QED BY <1>1, <1>3, <1>4, <1>5, <1>6, QuietWindow

-----------------------------------------------------------------------------
(* ACKs and NACKs. *)

\* What Head(toTx) is, and what is left.
LEMMA ResponseArrival ==
  ASSUME TypeOK, toTx # << >>
  PROVE  /\ Head(toTx).seq \in SeqNum /\ Head(toTx).ack \in BOOLEAN /\ Tail(toTx) \in Seq(Response)
         /\ Len(toTx) \in Nat \ {0} /\ Head(toTx) = toTx[1]
         /\ Len(Tail(toTx)) = Len(toTx) - 1 /\ \A i \in 1 .. Len(Tail(toTx)) : Tail(toTx)[i] = toTx[i + 1]
<1>1. toTx \in Seq(Response)
  BY RxFields
<1>2. Head(toTx) \in Response /\ Tail(toTx) \in Seq(Response) /\ Len(toTx) \in Nat \ {0}
      /\ Len(Tail(toTx)) = Len(toTx) - 1 /\ \A i \in 1 .. Len(Tail(toTx)) : Tail(toTx)[i] = toTx[i + 1]
  BY <1>1, HeadTailProperties, EmptySeq
<1>3. Head(toTx) = toTx[1]
  BY <1>1
<1> QED BY <1>2, <1>3 DEF Response

\* How many frames an ACK acknowledges.
AckedUpTo(seq) == IF InTxWindow(seq) THEN SEQ_DELTA(tx.ack, seq) + 1 ELSE 0

\* Never more than there are.
LEMMA AckedUpToIs ==
  ASSUME TypeOK, TxNumbers, NEW seq \in SeqNum
  PROVE  AckedUpTo(seq) \in 0 .. Outstanding
<1>1. CASE InTxWindow(seq)
  <2>1. PICK m \in Unacked : SEQ_DELTA(tx.ack, seq) = m - Acked
    BY <1>1, InTxWindowIs
  <2>2. m \in Nat /\ Acked <= m /\ m < Acked + Outstanding /\ Acked \in Int /\ Outstanding \in Nat
    BY UnackedIs, TxFields
  <2> QED BY <1>1, <2>1, <2>2 DEF AckedUpTo
<1>2. CASE ~InTxWindow(seq)
  BY <1>2, TxFields DEF AckedUpTo
<1> QED BY <1>1, <1>2

\* Frames are acknowledged: the window shrinks from below.
LEMMA WindowShrinks ==
  ASSUME TypeOK, TxNumbers, NEW n \in 0 .. Outstanding,
         tx' = [tx EXCEPT !.ack = SEQ_ADD(@, n)], sent' = sent
  PROVE  /\ TxNumbers' /\ Outstanding' = Outstanding - n /\ Acked' = Acked + n
         /\ Accepted' = Accepted
         /\ Unacked' = (Acked + n) .. sent - 1
         /\ tx'.buf = tx.buf /\ tx'.stopAndWait = tx.stopAndWait /\ tx'.seq = tx.seq
         /\ tx'.ack = SEQ_ADD(tx.ack, n)
<1>1. /\ Acked \in Int /\ Acked >= 0 /\ Outstanding \in Nat /\ sent = Acked + Outstanding /\ sent \in Nat
      /\ tx.seq = NumberOf(sent) /\ tx.ack = NumberOf(Acked) /\ Outstanding <= WindowSize
  BY TxFields DEF TxNumbers
<1>2. /\ tx'.seq = tx.seq /\ tx'.ack = SEQ_ADD(tx.ack, n)
      /\ tx'.buf = tx.buf /\ tx'.stopAndWait = tx.stopAndWait
  BY DEF TypeOK
<1>3. n \in Nat /\ n <= Outstanding
  BY <1>1
<1>4. tx'.ack = NumberOf(Acked + n)
  BY <1>1, <1>2, <1>3, NumberAdd
<1>5. SEQ_DELTA(NumberOf(Acked + n), NumberOf(sent)) = Outstanding - n
  <2>1. sent - (Acked + n) = Outstanding - n /\ 0 <= Outstanding - n /\ Outstanding - n < SeqNums
        /\ Acked + n \in Int /\ sent \in Int
    BY <1>1, <1>3, Sizes
  <2> QED BY <2>1, DeltaAhead
<1>6. Outstanding' = Outstanding - n
  BY <1>1, <1>2, <1>4, <1>5 DEF Outstanding
<1>7. Acked' = Acked + n
  BY <1>1, <1>3, <1>6 DEF Acked
<1>8. TxNumbers'
  <2>1. Outstanding' <= WindowSize /\ Acked' >= 0
    BY <1>1, <1>3, <1>6, <1>7, Sizes
  <2> QED BY <1>1, <1>2, <1>4, <1>7, <2>1 DEF TxNumbers, NumberOf
<1>9. Unacked' = (Acked + n) .. sent - 1
  BY <1>7 DEF Unacked
<1>10. Accepted' = Accepted
  BY DEF Accepted, Frame, NumberOf
<1> QED BY <1>2, <1>6, <1>7, <1>8, <1>9, <1>10

\* The timers of the frames acknowledged are stopped, but for the one in hand, and senders told.
LEMMA ReceiveAckSender ==
  ASSUME SlotsWrapWithNumbers, SenderInv, ReceiveAck
  PROVE  SenderInv'
<1> DEFINE seq   == Head(toTx).seq
           acked == AckedUpTo(seq)
           slots == {Slot(SEQ_ADD(tx.ack, k)) : k \in 0 .. acked - 1}
           told  == \E k \in 0 .. acked - 1 : MakesRoom(Outstanding - k)
<1>1. /\ TypeOK /\ TxNumbers /\ TxBuffers /\ LinkAccepted /\ TimersFew /\ TimersEnough
      /\ toTx # << >> /\ toTx' = Tail(toTx)
      /\ tx' = [tx EXCEPT !.ack = SEQ_ADD(@, acked)]
      /\ timers' = [i \in Slots |-> IF i \in slots THEN TimerStop(i)[i] ELSE timers[i]]
      /\ evTxFull' = (evTxFull \/ told)
      /\ sendPc' = [s \in Senders |-> IF told /\ sendPc[s] \in {"full_wait", "ack_wait"}
                                      THEN AfterTxFull(sendPc[s]) ELSE sendPc[s]]
      /\ UNCHANGED <<timerPc, evRecv, rx, readPc, toRx, sent, last, faults>>
  BY DEF ReceiveAck, SenderInv, AckedUpTo
<1>2. acked \in 0 .. Outstanding
  BY <1>1, ResponseArrival, AckedUpToIs
<1> HIDE DEF acked
<1>3. /\ Acked \in Int /\ Acked >= 0 /\ Outstanding \in Nat /\ sent = Acked + Outstanding /\ sent \in Nat
      /\ tx.ack = NumberOf(Acked) /\ Outstanding <= WindowSize /\ acked \in Nat /\ acked <= Outstanding
  BY <1>1, <1>2, TxFields DEF TxNumbers
<1>4. /\ TxNumbers' /\ Outstanding' = Outstanding - acked /\ Acked' = Acked + acked
      /\ Accepted' = Accepted
      /\ Unacked' = (Acked + acked) .. sent - 1
      /\ tx'.buf = tx.buf /\ tx'.stopAndWait = tx.stopAndWait /\ tx'.seq = tx.seq
      /\ tx'.ack = SEQ_ADD(tx.ack, acked)
  BY <1>1, <1>2, WindowShrinks
<1>5. \A m : m \in Unacked' => m \in Unacked /\ Acked + acked <= m
  <2> SUFFICES ASSUME NEW m \in (Acked + acked) .. sent - 1
               PROVE  m \in Unacked /\ Acked + acked <= m
    BY <1>4
  <2>1. m \in Nat /\ Acked <= m /\ m < Acked + Outstanding /\ Acked + acked <= m
    BY <1>3
  <2> QED BY <1>1, <2>1, UnackedIs
<1>6. slots = {SlotOf(Acked + k) : k \in 0 .. acked - 1}
  <2>1. \A k \in 0 .. acked - 1 : Slot(SEQ_ADD(tx.ack, k)) = SlotOf(Acked + k)
    <3> SUFFICES ASSUME NEW k \in 0 .. acked - 1 PROVE Slot(SEQ_ADD(tx.ack, k)) = SlotOf(Acked + k)
      OBVIOUS
    <3>1. k \in Int /\ Acked + k \in Int
      BY <1>3
    <3> QED BY <1>3, <3>1, NumberAdd, SlotOfNumber
  <2> QED BY <2>1
<1> HIDE DEF slots
<1>7. \A m \in Unacked' : SlotOf(m) \notin slots
  <2> SUFFICES ASSUME NEW m \in Unacked', NEW k \in 0 .. acked - 1, SlotOf(m) = SlotOf(Acked + k)
               PROVE  FALSE
    BY <1>6
  <2>1. m \in Unacked /\ Acked + acked <= m /\ m \in Nat
    BY <1>1, <1>5, UnackedIs
  <2>2. Acked + k \in Int /\ Acked <= Acked + k /\ Acked + k < Acked + WindowSize /\ Acked + k < Acked + acked
    BY <1>3, Sizes
  <2>3. m = Acked + k
    BY <1>1, <2>1, <2>2, UnackedSlots
  <2> QED BY <1>3, <2>1, <2>2, <2>3
<1>8. \A i \in Slots : Busy(i) => Busy(i)' \/ i \in slots
  <2> SUFFICES ASSUME NEW m \in Unacked, SlotOf(m) \notin slots
               PROVE  m \in Unacked'
    BY DEF Busy, SlotOf
  <2>1. m \in Nat /\ Acked <= m /\ m < Acked + Outstanding
    BY <1>1, UnackedIs
  <2>2. CASE m < Acked + acked
    <3>1. m - Acked \in 0 .. acked - 1 /\ Acked + (m - Acked) = m
      BY <1>3, <2>1, <2>2
    <3> QED BY <1>6, <3>1
  <2> QED BY <1>3, <1>4, <2>1, <2>2
<1>9. \A i \in Slots : timers[i] \in 0 .. 2 /\ InHand(i) \in 0 .. 1 /\ InHand(i)' = InHand(i)
  BY <1>1, TxFields DEF InHand
<1>10. \A i \in Slots : timers'[i] = IF i \in slots /\ timers[i] > 0 THEN timers[i] - 1 ELSE timers[i]
  BY <1>1, <1>9, TxFields DEF TimerStop
<1>11. TimersFew'
  <2> SUFFICES ASSUME NEW i \in Slots
               PROVE  timers'[i] + InHand(i) <= (IF Busy(i)' THEN 2 ELSE 1)
    BY <1>9 DEF TimersFew
  <2>1. timers[i] + InHand(i) <= (IF Busy(i) THEN 2 ELSE 1)
    BY <1>1 DEF TimersFew
  <2>2. CASE i \in slots
    BY <1>9, <1>10, <2>1, <2>2
  <2>3. CASE i \notin slots
    BY <1>8, <1>9, <1>10, <2>1, <2>3
  <2> QED BY <2>2, <2>3
<1>12. timers' \in [Slots -> 0 .. 2]
  BY <1>1, <1>9, <1>10
<1>13. TimersEnough'
  <2> SUFFICES ASSUME NEW m \in Unacked'
               PROVE  timers'[SlotOf(m)] > 0 \/ Returning(SlotOf(m))
    BY <1>1 DEF TimersEnough, Returning, SlotOf
  <2>1. m \in Unacked /\ SlotOf(m) \notin slots /\ SlotOf(m) \in Slots
    BY <1>5, <1>7, UnackedSlotType
  <2> QED BY <1>1, <1>10, <2>1 DEF TimersEnough
<1>14. TxBuffers'
  BY <1>1, <1>4, <1>5 DEF TxBuffers, SlotOf, Frame, NumberOf, Slot
<1>15. LinkAccepted'
  BY <1>1, <1>4 DEF LinkAccepted
<1>16. told \in BOOLEAN
  OBVIOUS
<1>17. TypeOK'
  <2>1. SEQ_ADD(tx.ack, acked) \in SeqNum
    <3>1. tx.ack + acked \in Int
      BY <1>1, <1>3, TxFields, Sizes
    <3> QED BY <3>1, ModType DEF SEQ_ADD
  <2>2. tx' \in [seq : SeqNum, ack : SeqNum, stopAndWait : BOOLEAN,
                 buf : [Slots -> [seq : SeqNum, msg : Nat]]]
    BY <1>1, <2>1 DEF TypeOK
  <2>3. evTxFull' \in BOOLEAN
    BY <1>1, <1>16 DEF TypeOK
  <2>4. sendPc' \in [Senders -> SendPCs]
    BY <1>1 DEF TypeOK, SendPCs, AfterTxFull
  <2>5. toTx' \in Seq(Response)
    BY <1>1, ResponseArrival
  <2> QED BY <1>1, <1>12, <2>2, <2>3, <2>4, <2>5 DEF TypeOK
<1>18. SenderIsWoken'
  <2> SUFFICES ASSUME NEW t \in Senders,
                      sendPc'[t] \in {"full_wait", "ack_wait"} \/ (sendPc'[t] \in {"full", "ack"} /\ ~evTxFull')
               PROVE  Outstanding' > 0 /\ (WindowFull' \/ tx'.stopAndWait)
    BY DEF SenderIsWoken
  <2>1. ~told
    \* If it were told, nobody would wait on or find the event reset.
    BY <1>1 DEF TypeOK, SendPCs, AfterTxFull
  <2> HIDE DEF told
  <2>2. sendPc[t] \in {"full_wait", "ack_wait"} \/ (sendPc[t] \in {"full", "ack"} /\ ~evTxFull)
    BY <1>1, <2>1
  <2>3. Outstanding > 0 /\ (WindowFull \/ tx.stopAndWait)
    BY <2>2 DEF SenderInv, SenderIsWoken
  <2>4. acked = 0
    \* An ACK that is not told finds room in the window.
    <3> SUFFICES ASSUME acked > 0 PROVE FALSE
      BY <1>3
    <3>1. 0 \in 0 .. acked - 1 /\ Outstanding - 0 = Outstanding
      BY <1>3
    <3>2. MakesRoom(Outstanding)
      BY <1>3, <2>3, Sizes DEF MakesRoom, WindowFull
    <3> QED BY <2>1, <3>1, <3>2 DEF told
  <2> QED BY <1>3, <1>4, <2>3, <2>4 DEF WindowFull
<1> QED BY <1>4, <1>11, <1>13, <1>14, <1>15, <1>17, <1>18 DEF SenderInv

\* The timer of the frame asked for is stopped and started.
LEMMA ReceiveNackSender ==
  ASSUME SlotsWrapWithNumbers, SenderInv, NEW n \in Outcomes, ReceiveNack(n)
  PROVE  SenderInv'
<1> DEFINE seq  == Head(toTx).seq
           slot == Slot(seq)
<1>1. /\ TypeOK /\ TxNumbers /\ TxBuffers /\ LinkAccepted /\ TimersFew /\ TimersEnough
      /\ toTx # << >> /\ toTx' = Tail(toTx)
      /\ UNCHANGED <<tx, timerPc, evTxFull, evRecv, sendPc, rx, readPc, sent, last>>
  BY DEF ReceiveNack, SenderInv
<1>2. seq \in SeqNum /\ toTx' \in Seq(Response)
  BY <1>1, ResponseArrival
<1>3. /\ timerPc' \in [slot : Slots, at : {"idle", "expired", "again", "free"}]
      /\ timers \in [Slots -> 0 .. 2]
      /\ \A i : InHand(i)' = InHand(i) /\ Returning(i)' = Returning(i)
  BY <1>1 DEF TypeOK, InHand, Returning
<1>4. CASE InTxWindow(seq) /\ tx.buf[slot].msg # NoMsg
  <2>1. /\ timers' = NackRestartsTimer(slot)
        /\ Sends(toRx, toRx', tx.buf[slot], n)
    BY <1>4 DEF ReceiveNack
  <2> HIDE DEF seq
  <2>2. PICK m \in Unacked : slot = SlotOf(m) /\ slot \in Slots /\ tx.buf[slot] = Frame(m)
    BY <1>1, <1>2, <1>4, FrameInWindow
  <2>3. toRx' \in Seq(Accepted) /\ toRx' \in Seq([seq : SeqNum, msg : Nat])
    BY <1>1, <2>1, <2>2, UnackedAccepted, SendsAgain
  <2> HIDE DEF slot
  <2>4. /\ \A i \in Slots : timers'[i] = IF i = slot /\ timers[i] = 0 THEN 1 ELSE timers[i]
        /\ timers' = [timers EXCEPT ![slot] = timers'[slot]]
    BY <1>3, <2>1, <2>2 DEF NackRestartsTimer, TimerStop
  <2>5. Busy(slot)
    BY <2>2 DEF Busy
  <2>6. timers' \in [Slots -> 0 .. 2]
    BY <1>3, <2>2, <2>4
  <2>7. \A i \in Slots : timers'[i] + InHand(i)' <= (IF Busy(i) THEN 2 ELSE 1)
    <3> SUFFICES ASSUME NEW i \in Slots
                 PROVE  timers'[i] + InHand(i) <= (IF Busy(i) THEN 2 ELSE 1)
      BY <1>3
    <3>1. timers[i] + InHand(i) <= (IF Busy(i) THEN 2 ELSE 1) /\ InHand(i) \in 0 .. 1 /\ timers[i] \in 0 .. 2
      BY <1>1, <1>3 DEF TimersFew, InHand
    <3> QED BY <2>4, <2>5, <3>1
  <2>8. \A k \in Unacked : timers'[SlotOf(k)] > 0 \/ Returning(SlotOf(k))'
    <3> SUFFICES ASSUME NEW k \in Unacked
                 PROVE  timers'[SlotOf(k)] > 0 \/ Returning(SlotOf(k))
      BY <1>3
    <3>1. SlotOf(k) \in Slots /\ timers[SlotOf(k)] \in 0 .. 2
      BY <1>3, UnackedSlotType
    <3> QED BY <1>1, <2>4, <3>1 DEF TimersEnough
  <2> QED BY <1>1, <1>2, <1>3, <2>3, <2>6, <2>7, <2>8, QuietWindow
<1>5. CASE ~(InTxWindow(seq) /\ tx.buf[slot].msg # NoMsg)
  <2>1. UNCHANGED <<timers, toRx>>
    BY <1>5 DEF ReceiveNack
  <2> QED BY <1>1, <1>2, <1>3, <2>1, RxFields, QuietWindow DEF LinkAccepted, TimersFew, TimersEnough
<1> QED BY <1>4, <1>5

-----------------------------------------------------------------------------
(* The theorems. *)

\* Every step keeps the invariant.
LEMMA SenderStep ==
  ASSUME SlotsWrapWithNumbers, SenderInv, [Next]_vars
  PROVE  SenderInv'
<1>1. ASSUME NEW s \in Senders, SendStep(s) \/ SendTimesOut(s)
      PROVE  SenderInv'
  BY <1>1, SendBlocksSender, SendFailsSender, SendWaitsSender, SendFrameSender DEF SendStep
<1>2. ASSUME NEW r \in Readers, RecvStep(r) \/ RecvTimesOut(r)
      PROVE  SenderInv'
  BY <1>2, ReadSender, RecvMessageSender DEF RecvStep
<1>3. ASSUME NEW i \in Slots, TimerExpires(i)
      PROVE  SenderInv'
  BY <1>3, TimerExpiresSender
<1>4. ASSUME TimerStep
      PROVE  SenderInv'
  BY <1>4, TimerReinsertsSender, RetransmitFrameSender DEF TimerStep
<1>5. ASSUME FromRx
      PROVE  SenderInv'
  BY <1>5, ReceiveAckSender, ReceiveNackSender DEF FromRx
<1>6. ASSUME FromTx
      PROVE  SenderInv'
  BY <1>6, ReceiveOutsideSender, ReceiveDuplicateSender, ReceiveDataSender DEF FromTx
<1>7. ASSUME UNCHANGED vars
      PROVE  SenderInv'
  <2>1. UNCHANGED <<tx, timers, timerPc, evTxFull, evRecv, sendPc, rx, readPc, toRx, toTx, sent, last, faults>>
    BY <1>7 DEF vars
  <2>2. TypeOK'
    BY <2>1 DEF SenderInv, TypeOK
  <2> QED BY <2>1, <2>2, QuietNumbers, QuietSender DEF SenderInv
<1> QED BY <1>1, <1>2, <1>3, <1>4, <1>5, <1>6, <1>7, ReorderSender DEF Next

\* The sender's invariant, for every window that divides the sequence numbers.
THEOREM SenderInvariant ==
  ASSUME SlotsWrapWithNumbers
  PROVE  Spec => []SenderInv
<1>1. Init => SenderInv
  BY SenderInit
<1>2. SenderInv /\ [Next]_vars => SenderInv'
  BY SenderStep
<1> QED BY <1>1, <1>2, PTL DEF Spec

\* Every variable keeps its type: sequence numbers stay in range through the wrap,
\* and the list never holds more than two timers of a slot.
THEOREM TypeCorrect ==
  ASSUME SlotsWrapWithNumbers
  PROVE  Spec => []TypeOK
<1>1. SenderInv => TypeOK
  BY DEF SenderInv
<1> QED BY <1>1, SenderInvariant, PTL

\* TimerStop does not find the entry that TimerThread has in hand, and both a
\* NACK and the retransmission put one back: even so they do not multiply.
THEOREM TimersStayBounded ==
  ASSUME SlotsWrapWithNumbers
  PROVE  Spec => []TimersBounded
<1>1. SenderInv => TimersBounded
  <2> SUFFICES ASSUME SenderInv, NEW slot \in Slots
               PROVE  timers[slot] + InHand(slot) <= 2
    BY DEF TimersBounded, InHand
  <2>1. timers[slot] \in 0 .. 2 /\ InHand(slot) \in 0 .. 1
    BY TxFields DEF SenderInv, InHand
  <2> QED BY <2>1 DEF SenderInv, TimersFew
<1> QED BY <1>1, SenderInvariant, PTL

\* No unacknowledged frame is without a timer, whatever ACKs, NACKs and the timer
\* thread do to the list: KITLSend's promise to retry until it is acknowledged.
THEOREM FramesKeepTimers ==
  ASSUME SlotsWrapWithNumbers
  PROVE  Spec => []FramesHaveTimers
<1>1. SenderInv => FramesHaveTimers
  <2> SUFFICES ASSUME SenderInv, NEW k \in 0 .. Outstanding - 1
               PROVE  LET slot == Slot(SEQ_ADD(tx.ack, k)) IN timers[slot] > 0 \/ Returning(slot)
    BY DEF FramesHaveTimers, Returning
  <2>1. TypeOK /\ TxNumbers /\ Acked \in Int /\ Acked >= 0 /\ Outstanding \in Nat /\ k \in Int
    BY TxFields DEF SenderInv, TxNumbers
  <2>2. Acked + k \in Unacked /\ Acked + k \in Int
    BY <2>1, UnackedIs
  <2>3. Slot(SEQ_ADD(tx.ack, k)) = SlotOf(Acked + k)
    BY <2>1, <2>2, NumberAdd, SlotOfNumber DEF TxNumbers
  <2> QED BY <2>2, <2>3 DEF SenderInv, TimersEnough
<1> QED BY <1>1, SenderInvariant, PTL

\* No wake-up of a thread in KITLSend is lost, although evTxFull is reset after
\* the window was seen full and the wait begins outside ClientCS.
THEOREM SendersAreWoken ==
  ASSUME SlotsWrapWithNumbers
  PROVE  Spec => []SenderIsWoken
<1>1. SenderInv => SenderIsWoken
  BY DEF SenderInv
<1> QED BY <1>1, SenderInvariant, PTL

(***************************************************************************)
(* Both ends together.                                                     *)
(*                                                                         *)
(* A number names a message only together with a bound on how old what     *)
(* carries it may be.  A frame under way was unacknowledged when it was    *)
(* sent, so that all later ones were within a window of it; frames keep    *)
(* that distance while they keep their order, and an overtaking costs one  *)
(* window.  The same holds of ACKs.                                        *)
(***************************************************************************)

(***************************************************************************)
(* There are numbers for two windows, and one more for every frame that    *)
(* overtakes another.  A UCHAR has 256, which with windows of 8 is enough  *)
(* for 30 overtakings.  With fewer numbers an old frame is taken for a new *)
(* one.                                                                    *)
(***************************************************************************)
NumbersOutlastFaults == (Faults + 2) * WindowSize <= SeqNums

Opened == SEQ_DELTA(rx.seq, rx.winEnd)
Rcvd   == (last + WindowSize) - Opened \* messages received without a gap
Used   == Faults - faults
Lag    == WindowSize * Used            \* what the faults so far add to the age of a frame

\* RxSeqNum, RxWinEnd and NextRxIndex count what was received and handed out,
\* and the two ends are never more than a window apart.
RxNumbers ==
  /\ rx.winEnd = NumberOf(last + WindowSize) /\ rx.seq = NumberOf(Rcvd) /\ rx.next = SlotOf(last)
  /\ Acked <= last /\ last <= Rcvd /\ Rcvd <= sent /\ Opened <= WindowSize

\* A slot of the receive window is empty or holds its message; those before
\* RxSeqNum are full and the one at RxSeqNum is empty.
RxBuffers ==
  /\ \A s \in Slots : rx.buf[s] <= sent
  /\ \A p \in last .. last + WindowSize - 1 :
       /\ rx.buf[SlotOf(p)] \in {NoMsg, p + 1}
       /\ p < Rcvd => rx.buf[SlotOf(p)] = p + 1
       /\ p = Rcvd => rx.buf[SlotOf(p)] = NoMsg

\* No frame under way is older than a window, and a Lag, compared with what was
\* received and what is before it.
FrameAges ==
  \A i \in 1 .. Len(toRx) :
    /\ Rcvd < toRx[i].msg + WindowSize + Lag
    /\ \A s \in Slots : rx.buf[s] < toRx[i].msg + WindowSize + Lag
    /\ \A j \in i + 1 .. Len(toRx) : toRx[i].msg < toRx[j].msg + WindowSize + Lag

\* The last message that an ACK with this number acknowledges.
AckedBy(seq) == last - SEQ_DELTA(seq, LastAck)

\* Nor is an ACK older than a Lag, compared with what was acknowledged and the
\* ACKs before it.
AckAges ==
  \A i \in 1 .. Len(toTx) : toTx[i].ack =>
    /\ Acked <= AckedBy(toTx[i].seq) + Lag
    /\ \A j \in i + 1 .. Len(toTx) :
         toTx[j].ack => AckedBy(toTx[i].seq) <= AckedBy(toTx[j].seq) + Lag

WindowInv == faults \in 0 .. Faults /\ RxNumbers /\ RxBuffers /\ FrameAges /\ AckAges

-----------------------------------------------------------------------------
(* Numbers, faults. *)

\* A number is that of the message as far behind as it is.
LEMMA NumberBefore ==
  ASSUME NEW a \in Int, NEW seq \in SeqNum
  PROVE  /\ SEQ_DELTA(seq, NumberOf(a)) \in 0 .. SeqNums - 1
         /\ seq = NumberOf(a - SEQ_DELTA(seq, NumberOf(a)))
<1>1. PICK x \in Int : seq = NumberOf(x)
  <2>1. SEQ_DELTA(NumberOf(0), seq) \in 0 .. SeqNums - 1 /\ seq = NumberOf(0 + SEQ_DELTA(NumberOf(0), seq))
    BY NumberAt
  <2>2. 0 + SEQ_DELTA(NumberOf(0), seq) \in Int
    BY <2>1, Sizes
  <2> QED BY <2>1, <2>2
<1> DEFINE v == a - x
           d == v % SeqNums
<1>2. SEQ_DELTA(seq, NumberOf(a)) = d
  BY <1>1, DeltaMod
<1>3. v \in Int
  OBVIOUS
<1> HIDE DEF v
<1>4. d \in 0 .. SeqNums - 1
  BY <1>3, Sizes, Division
<1>5. PICK q \in Int : v = (SeqNums * q) + d
  BY <1>3, Sizes, Division
<1>6. d \in Int
  BY <1>4, Sizes
<1> HIDE DEF d
<1> DEFINE y == First + x
           z == First + (a - d)
<1>7. y \in Int /\ z \in Int /\ z = y + (SeqNums * q)
  BY <1>5, <1>6, Sizes DEF v
<1> HIDE DEF y, z
<1>8. z % SeqNums = y % SeqNums
  BY <1>7, Sizes, RemainderShift
<1>9. NumberOf(a - d) = NumberOf(x)
  BY <1>8 DEF y, z, NumberOf
<1> QED BY <1>1, <1>2, <1>4, <1>9

\* Messages a whole count of numbers apart have the same number.
LEMMA NumberShift ==
  ASSUME NEW a \in Int, NEW k \in Int
  PROVE  NumberOf(a + (SeqNums * k)) = NumberOf(a) /\ SlotOf(a + (WindowSize * k)) = SlotOf(a)
<1> DEFINE x == First + a
           y == First + (a + (SeqNums * k))
           z == First + (a + (WindowSize * k))
<1>1. x \in Int /\ y \in Int /\ z \in Int /\ y = x + (SeqNums * k) /\ z = x + (WindowSize * k)
  BY Sizes
<1> HIDE DEF x, y, z
<1>2. y % SeqNums = x % SeqNums /\ z % WindowSize = x % WindowSize
  BY <1>1, Sizes, RemainderShift
<1> QED BY <1>2 DEF x, y, z, NumberOf, SlotOf

\* Within the numbers, a number names one message.
LEMMA NumberInjective ==
  ASSUME NEW a \in Int, NEW b \in Int, NumberOf(a) = NumberOf(b), -SeqNums < a - b, a - b < SeqNums
  PROVE  a = b
<1> DEFINE x == First + a
           y == First + b
<1>1. x \in Int /\ y \in Int /\ x - y = a - b
  BY Sizes
<1>2. x % SeqNums = y % SeqNums
  BY DEF NumberOf
<1> HIDE DEF x, y
<1>3. x = y
  BY <1>1, <1>2, Sizes, RemainderInjective
<1> QED BY <1>1, <1>3

\* Two windows and the Lag stay within the numbers.
LEMMA LagBound ==
  ASSUME NumbersOutlastFaults, faults \in 0 .. Faults
  PROVE  Lag \in Nat /\ Lag + 2 * WindowSize <= SeqNums
<1> DEFINE u == Used
<1>1. Faults \in Nat /\ u \in Nat /\ u <= Faults
  BY BoundAssumption DEF Used
<1>2. Lag = WindowSize * u
  BY DEF Lag
<1> HIDE DEF u
<1>3. WindowSize * u <= WindowSize * Faults /\ WindowSize * u \in Nat
  BY <1>1, Sizes
<1>4. (Faults + 2) * WindowSize = (WindowSize * Faults) + 2 * WindowSize
  BY <1>1, Sizes
<1> QED BY <1>1, <1>2, <1>3, <1>4, Sizes DEF NumbersOutlastFaults

\* A fault adds a window to it.
LEMMA LagGrows ==
  ASSUME faults \in 0 .. Faults, faults > 0, faults' = faults - 1
  PROVE  faults' \in 0 .. Faults /\ Lag' = Lag + WindowSize
<1> DEFINE u == Used
<1>1. Faults \in Nat /\ u \in Nat /\ Used' = u + 1
  BY BoundAssumption DEF Used
<1>2. Lag = WindowSize * u /\ Lag' = WindowSize * (u + 1)
  BY <1>1 DEF Lag
<1> HIDE DEF u
<1>3. WindowSize * (u + 1) = (WindowSize * u) + WindowSize
  BY <1>1, Sizes
<1> QED BY <1>1, <1>2, <1>3

\* Without one it stays.
LEMMA LagKept ==
  ASSUME UNCHANGED faults
  PROVE  Lag' = Lag
BY DEF Lag, Used

\* Sending uses one up at most.
LEMMA LagSpent ==
  ASSUME NumbersOutlastFaults, faults \in 0 .. Faults, NEW n \in Outcomes, Spent(n)
  PROVE  faults' \in 0 .. Faults /\ Lag' \in Nat /\ Lag' >= Lag
<1>1. CASE n = 2
  <2>1. faults > 0 /\ faults' = faults - 1
    BY <1>1 DEF Outcomes, Spent
  <2> QED BY <2>1, LagGrows, LagBound, Sizes
<1>2. CASE n # 2
  <2>1. faults' = faults
    BY <1>2 DEF Spent
  <2> QED BY <2>1, LagKept, LagBound
<1> QED BY <1>1, <1>2

-----------------------------------------------------------------------------
(* What the types and the numbers give. *)

\* How the counts of both ends lie.
LEMMA RxCounts ==
  ASSUME TypeOK, TxNumbers, RxNumbers
  PROVE  /\ Opened \in Nat /\ Rcvd \in Nat /\ last \in Nat /\ sent \in Nat /\ Acked \in Nat
         /\ Opened = (last + WindowSize) - Rcvd
         /\ Acked <= last /\ last <= Rcvd /\ Rcvd <= sent
         /\ sent <= Acked + WindowSize /\ Rcvd <= last + WindowSize
<1>1. rx.seq \in SeqNum /\ rx.winEnd \in SeqNum /\ last \in Nat
  BY RxFields
<1>2. Opened \in Nat /\ Opened <= WindowSize
  BY <1>1, DeltaType DEF Opened, RxNumbers
<1>3. sent \in Nat /\ Acked \in Int /\ Acked >= 0 /\ Outstanding \in Nat /\ sent = Acked + Outstanding
      /\ Outstanding <= WindowSize
  BY TxFields DEF TxNumbers
<1>4. Rcvd = (last + WindowSize) - Opened /\ Acked <= last /\ last <= Rcvd /\ Rcvd <= sent
  BY DEF Rcvd, RxNumbers
<1> QED BY <1>1, <1>2, <1>3, <1>4, Sizes

\* What LastAck computes.
LEMMA LastAckOf ==
  ASSUME NEW a \in Int
  PROVE  SEQ_ADD(NumberOf(a + WindowSize), 2 * SeqNums - WindowSize - 1) = NumberOf(a - 1)
<1> DEFINE n == (2 * SeqNums - WindowSize) - 1
<1>1. n \in Int /\ a + WindowSize \in Int /\ (a + WindowSize) + n = (a - 1) + (SeqNums * 2)
      /\ a - 1 \in Int /\ 2 \in Int
  BY Sizes
<1> HIDE DEF n
<1>2. SEQ_ADD(NumberOf(a + WindowSize), n) = NumberOf((a - 1) + (SeqNums * 2))
  BY <1>1, NumberAdd
<1>3. NumberOf((a - 1) + (SeqNums * 2)) = NumberOf(a - 1)
  BY <1>1, NumberShift
<1> QED BY <1>2, <1>3 DEF n

\* LastAck is the number of the last message read.
LEMMA LastAckIs ==
  ASSUME TypeOK, RxNumbers
  PROVE  LastAck = NumberOf(last - 1) /\ SEQ_ADD(LastAck, 1) = NumberOf(last)
<1>1. last \in Int /\ last - 1 \in Int /\ (last - 1) + 1 = last /\ 1 \in Int
  BY RxFields
<1>2. LastAck = NumberOf(last - 1)
  BY <1>1, LastAckOf DEF RxNumbers, LastAck
<1>3. SEQ_ADD(NumberOf(last - 1), 1) = NumberOf((last - 1) + 1)
  BY <1>1, NumberAdd
<1> QED BY <1>1, <1>2, <1>3

\* What an ACK says.
LEMMA AckedByIs ==
  ASSUME TypeOK, RxNumbers, NEW seq \in SeqNum
  PROVE  /\ AckedBy(seq) \in Int /\ AckedBy(seq) <= last
         /\ seq = NumberOf(AckedBy(seq) - 1)
<1> DEFINE d == SEQ_DELTA(seq, LastAck)
<1>1. last \in Nat /\ last - 1 \in Int
  BY RxFields
<1>2. d \in 0 .. SeqNums - 1 /\ seq = NumberOf((last - 1) - d)
  BY <1>1, LastAckIs, NumberBefore
<1>3. AckedBy(seq) = last - d
  BY DEF AckedBy
<1> HIDE DEF d
<1>4. d \in Nat /\ (last - d) - 1 = (last - 1) - d
  BY <1>1, <1>2, Sizes
<1> QED BY <1>1, <1>2, <1>3, <1>4

\* A step that leaves the receiver's numbers alone leaves what ACKs say.
LEMMA AckedByKept ==
  ASSUME UNCHANGED <<rx, last>>
  PROVE  /\ \A seq : AckedBy(seq)' = AckedBy(seq)
         /\ Opened' = Opened /\ Rcvd' = Rcvd /\ LastAck' = LastAck
BY DEF AckedBy, LastAck, Opened, Rcvd

-----------------------------------------------------------------------------
(* Initially. *)

\* Nothing is under way and both ends count from First.
LEMMA WindowInit ==
  ASSUME SlotsWrapWithNumbers, NumbersOutlastFaults, Init
  PROVE  WindowInv
<1>1. /\ rx.seq = NumberOf(0) /\ rx.winEnd = NumberOf(WindowSize) /\ rx.next = SlotOf(0)
      /\ rx.buf = [i \in Slots |-> NoMsg]
      /\ tx.seq = NumberOf(0) /\ tx.ack = NumberOf(0)
      /\ last = 0 /\ sent = 0 /\ toRx = << >> /\ toTx = << >> /\ faults = Faults
  BY Sizes DEF Init, NumberOf, SlotOf, SEQ_ADD
<1>2. Opened = WindowSize
  <2>1. WindowSize - 0 = WindowSize /\ WindowSize < SeqNums /\ WindowSize \in Int /\ 0 <= WindowSize
    BY Sizes
  <2> QED BY <1>1, <2>1, DeltaAhead DEF Opened
<1>3. Rcvd = 0
  BY <1>1, <1>2, Sizes DEF Rcvd
<1>4. Acked = 0
  <2>1. Outstanding = 0
    BY <1>1, Sizes, DeltaAhead DEF Outstanding
  <2> QED BY <1>1, <2>1 DEF Acked
<1>5. RxNumbers
  <2>1. last + WindowSize = WindowSize
    BY <1>1, Sizes
  <2> QED BY <1>1, <1>2, <1>3, <1>4, <2>1, Sizes DEF RxNumbers
<1>6. RxBuffers
  <2> SUFFICES ASSUME NEW p \in last .. last + WindowSize - 1
               PROVE  /\ rx.buf[SlotOf(p)] \in {NoMsg, p + 1}
                      /\ p < Rcvd => rx.buf[SlotOf(p)] = p + 1
                      /\ p = Rcvd => rx.buf[SlotOf(p)] = NoMsg
    BY <1>1 DEF RxBuffers, NoMsg
  <2>1. p \in Int /\ p >= 0
    BY <1>1, Sizes
  <2>2. rx.buf[SlotOf(p)] = NoMsg
    BY <1>1, <2>1, NumberType
  <2> QED BY <1>1, <1>3, <2>1, <2>2 DEF NoMsg
<1>7. FrameAges /\ AckAges
  BY <1>1, EmptySeq DEF FrameAges, AckAges
<1>8. faults \in 0 .. Faults
  BY <1>1, BoundAssumption
<1> QED BY <1>5, <1>6, <1>7, <1>8 DEF WindowInv

-----------------------------------------------------------------------------
(* Frames and ACKs under way. *)

\* The parts of the invariant, when the buffers and the links stay and faults
\* may be used up.
LEMMA QuietReceiver ==
  ASSUME TypeOK, RxNumbers, RxBuffers, UNCHANGED <<rx, last>>, sent' >= sent, sent' \in Nat,
         Acked' = Acked
  PROVE  RxNumbers' /\ RxBuffers'
<1>1. /\ Opened' = Opened /\ Rcvd' = Rcvd /\ rx' = rx /\ last' = last
  BY AckedByKept
<1>2. Rcvd <= sent => Rcvd <= sent'
  <2>1. Opened \in Nat /\ last \in Nat /\ sent \in Nat
    BY RxFields, TxFields, DeltaType DEF Opened
  <2>2. Rcvd \in Int
    BY <2>1, Sizes DEF Rcvd
  <2> QED BY <2>1, <2>2
<1>3. RxNumbers'
  BY <1>1, <1>2 DEF RxNumbers, NumberOf, SlotOf
<1>4. RxBuffers'
  <2>1. \A s \in Slots : rx.buf[s] \in Nat
    BY RxFields
  <2>2. sent \in Nat
    BY TxFields
  <2>3. \A s \in Slots : rx.buf[s] <= sent'
    BY <2>1, <2>2 DEF RxBuffers
  <2> QED BY <1>1, <2>3 DEF RxBuffers, SlotOf
<1> QED BY <1>3, <1>4

\* The ages of the frames under way, as a condition on any link, that they keep
\* when its faults grow, or frames leave it.
AgesOf(link, rcvd, buf, lag) ==
  \A i \in 1 .. Len(link) :
    /\ rcvd < link[i].msg + WindowSize + lag
    /\ \A s \in Slots : buf[s] < link[i].msg + WindowSize + lag
    /\ \A j \in i + 1 .. Len(link) : link[i].msg < link[j].msg + WindowSize + lag

\* It is the condition of the invariant,
LEMMA FrameAgesIs == (FrameAges <=> AgesOf(toRx, Rcvd, rx.buf, Lag))
BY DEF FrameAges, AgesOf

\* before a step and after it.
LEMMA FrameAgesIsNext == (FrameAges' <=> AgesOf(toRx', Rcvd', rx'.buf, Lag'))
BY DEF FrameAges, AgesOf

MsgFrame == [seq : SeqNum, msg : Nat]

\* Frames carry messages.
LEMMA MsgsNat ==
  ASSUME NEW link \in Seq(MsgFrame)
  PROVE  Len(link) \in Nat /\ \A i \in 1 .. Len(link) : link[i].msg \in Nat
<1>1. \A i \in 1 .. Len(link) : link[i] \in MsgFrame
  BY ElementOfSeq
<1>2. \A f \in MsgFrame : f.msg \in Nat
  BY DEF MsgFrame
<1> QED BY <1>1, <1>2, LenProperties

\* A bound stays one when the Lag grows, and less than it is less than the bound.
LEMMA Later ==
  ASSUME NEW x \in Nat, NEW y \in Nat, NEW z \in Nat, NEW lag \in Nat, NEW lag2 \in Nat,
         z < y + WindowSize + lag, x <= z, lag <= lag2
  PROVE  x < y + WindowSize + lag2
BY Sizes

\* Ages may be bounded more loosely.
LEMMA AgesLag ==
  ASSUME NEW link \in Seq(MsgFrame), NEW rcvd \in Nat, NEW buf \in [Slots -> Nat],
         NEW lag \in Nat, NEW lag2 \in Nat, lag <= lag2, AgesOf(link, rcvd, buf, lag)
  PROVE  AgesOf(link, rcvd, buf, lag2)
<1>1. \A i \in 1 .. Len(link) : link[i].msg \in Nat
  BY MsgsNat
<1>2. Len(link) \in Nat
  BY LenProperties
<1> SUFFICES ASSUME NEW i \in 1 .. Len(link)
             PROVE  /\ rcvd < link[i].msg + WindowSize + lag2
                    /\ \A s \in Slots : buf[s] < link[i].msg + WindowSize + lag2
                    /\ \A j \in i + 1 .. Len(link) : link[i].msg < link[j].msg + WindowSize + lag2
  BY DEF AgesOf
<1>3. rcvd < link[i].msg + WindowSize + lag2
  <2>1. rcvd < link[i].msg + WindowSize + lag
    BY DEF AgesOf
  <2> QED BY <1>1, <2>1, Later
<1>4. ASSUME NEW s \in Slots
      PROVE  buf[s] < link[i].msg + WindowSize + lag2
  <2>1. buf[s] < link[i].msg + WindowSize + lag /\ buf[s] \in Nat
    BY DEF AgesOf
  <2> QED BY <1>1, <2>1, Later
<1>5. ASSUME NEW j \in i + 1 .. Len(link)
      PROVE  link[i].msg < link[j].msg + WindowSize + lag2
  <2>1. j \in 1 .. Len(link)
    BY <1>2
  <2>2. link[i].msg < link[j].msg + WindowSize + lag
    BY DEF AgesOf
  <2>3. link[i].msg \in Nat /\ link[j].msg \in Nat /\ link[i].msg <= link[i].msg
    BY <1>1, <2>1
  <2> QED BY <2>2, <2>3, Later
<1> QED BY <1>3, <1>4, <1>5

\* A frame that is sent is within a window of everything received and under way.
LEMMA AgesSends ==
  ASSUME NEW link \in Seq(MsgFrame), NEW link2, NEW rcvd \in Nat, NEW buf \in [Slots -> Nat],
         NEW lag \in Nat, NEW f \in MsgFrame, NEW n \in Outcomes, NEW max \in Nat,
         Sends(link, link2, f, n), AgesOf(link, rcvd, buf, lag),
         max < f.msg + WindowSize, rcvd <= max, \A s \in Slots : buf[s] <= max,
         \A i \in 1 .. Len(link) : link[i].msg <= max
  PROVE  AgesOf(link2, rcvd, buf, lag)
<1>1. /\ link2 \in Seq(MsgFrame) /\ Len(link2) = Len(link) + n
      /\ \A i \in 1 .. Len(link2) : link2[i] = IF i <= Len(link) THEN link[i] ELSE f
  <2>1. link \in Seq(MsgFrame) /\ f \in MsgFrame /\ n \in Outcomes /\ Sends(link, link2, f, n)
    OBVIOUS
  <2> QED BY ONLY <2>1, SendsKeeps
<1>2. Len(link) \in Nat /\ n \in Nat /\ f.msg \in Nat
  BY LenProperties DEF Outcomes, MsgFrame
<1>3. \A i \in 1 .. Len(link) : link[i].msg \in Nat
  BY MsgsNat
<1>7. \A x \in Nat : x <= max => x < f.msg + WindowSize + lag
  <2> DEFINE y == f.msg
  <2>1. y \in Nat /\ max < y + WindowSize
    BY <1>2
  <2> HIDE DEF y
  <2>2. \A x \in Nat : x <= max => x < y + WindowSize + lag
    BY <2>1, Sizes
  <2> QED BY <2>2 DEF y
<1> SUFFICES ASSUME NEW i \in 1 .. Len(link2)
             PROVE  /\ rcvd < link2[i].msg + WindowSize + lag
                    /\ \A s \in Slots : buf[s] < link2[i].msg + WindowSize + lag
                    /\ \A j \in i + 1 .. Len(link2) : link2[i].msg < link2[j].msg + WindowSize + lag
  BY DEF AgesOf
<1>4. ASSUME NEW j \in i + 1 .. Len(link2)
      PROVE  link2[i].msg < link2[j].msg + WindowSize + lag
  <2>1. j \in 1 .. Len(link2) /\ i < j
    BY <1>1, <1>2
  <2>2. CASE j <= Len(link)
    <3>1. i \in 1 .. Len(link) /\ j \in i + 1 .. Len(link) /\ link2[i] = link[i] /\ link2[j] = link[j]
      BY <1>1, <1>2, <2>1, <2>2
    <3> QED BY <3>1 DEF AgesOf
  <2>3. CASE j > Len(link)
    <3>1. link2[j] = f
      BY <1>1, <1>2, <2>1, <2>3
    <3>2. CASE i <= Len(link)
      <4>1. link2[i] = link[i] /\ i \in 1 .. Len(link)
        BY <1>1, <1>2, <3>2
      <4>2. link[i].msg <= max /\ link[i].msg \in Nat
        BY <1>3, <4>1
      <4>4. link[i].msg < f.msg + WindowSize + lag
        BY <1>7, <4>2
      <4> QED BY <3>1, <4>1, <4>4
    <3>3. CASE i > Len(link)
      <4>1. link2[i] = f
        BY <1>1, <3>3
      <4> QED BY <1>2, <3>1, <4>1, Sizes
    <3> QED BY <1>2, <3>2, <3>3
  <2> QED BY <1>2, <2>1, <2>2, <2>3
<1>5. CASE i <= Len(link)
  <2>1. link2[i] = link[i] /\ i \in 1 .. Len(link)
    BY <1>1, <1>2, <1>5
  <2> QED BY <1>4, <2>1 DEF AgesOf
<1>6. CASE i > Len(link)
  <2>1. link2[i] = f
    BY <1>1, <1>6
  <2>2. ASSUME NEW s \in Slots
        PROVE  buf[s] < f.msg + WindowSize + lag
    <3>1. buf[s] <= max /\ buf[s] \in Nat
      OBVIOUS
    <3> QED BY <1>7, <3>1
  <2>3. rcvd < f.msg + WindowSize + lag
    BY <1>7
  <2> QED BY <1>4, <2>1, <2>2, <2>3
<1> QED BY <1>1, <1>2, <1>5, <1>6

\* A frame leaves the link; what is received up to is as it was, or the frame.
LEMMA AgesTail ==
  ASSUME NEW link \in Seq(MsgFrame), NEW link2 \in Seq(MsgFrame), NEW rcvd, NEW buf, NEW lag \in Nat,
         NEW rcvd2, NEW buf2,
         AgesOf(link, rcvd, buf, lag), Len(link) \in Nat \ {0}, Len(link2) = Len(link) - 1,
         \A i \in 1 .. Len(link2) : link2[i] = link[i + 1],
         \A s \in Slots : buf2[s] = buf[s] \/ buf2[s] = link[1].msg,
         rcvd2 = rcvd \/ \E s \in Slots : rcvd2 = buf2[s]
  PROVE  AgesOf(link2, rcvd2, buf2, lag)
<1> SUFFICES ASSUME NEW i \in 1 .. Len(link2)
             PROVE  /\ rcvd2 < link2[i].msg + WindowSize + lag
                    /\ \A s \in Slots : buf2[s] < link2[i].msg + WindowSize + lag
                    /\ \A j \in i + 1 .. Len(link2) : link2[i].msg < link2[j].msg + WindowSize + lag
  BY DEF AgesOf
<1>1. /\ i + 1 \in 1 .. Len(link) /\ 1 \in 1 .. Len(link) /\ i + 1 \in 1 + 1 .. Len(link)
      /\ link2[i] = link[i + 1]
  OBVIOUS
<1>2. link[1].msg < link2[i].msg + WindowSize + lag
  BY <1>1 DEF AgesOf
<1>3. ASSUME NEW s \in Slots
      PROVE  buf2[s] < link2[i].msg + WindowSize + lag
  <2>1. buf[s] < link[i + 1].msg + WindowSize + lag
    BY <1>1 DEF AgesOf
  <2> QED BY <1>1, <1>2, <2>1
<1>4. rcvd2 < link2[i].msg + WindowSize + lag
  <2>1. rcvd < link[i + 1].msg + WindowSize + lag
    BY <1>1 DEF AgesOf
  <2> QED BY <1>1, <1>3, <2>1
<1>5. ASSUME NEW j \in i + 1 .. Len(link2)
      PROVE  link2[i].msg < link2[j].msg + WindowSize + lag
  <2>1. /\ j \in 1 .. Len(link2) /\ j + 1 \in (i + 1) + 1 .. Len(link) /\ link2[j] = link[j + 1]
    OBVIOUS
  <2> QED BY <1>1, <2>1 DEF AgesOf
<1> QED BY <1>3, <1>4, <1>5

\* A frame overtakes another.
LEMMA AgesSwap ==
  ASSUME NEW link \in Seq(MsgFrame), NEW link2, NEW rcvd \in Nat, NEW buf \in [Slots -> Nat],
         NEW lag \in Nat, Swap(link, link2), AgesOf(link, rcvd, buf, lag),
         \A i \in 1 .. Len(link) : link[i].msg <= rcvd + WindowSize
  PROVE  AgesOf(link2, rcvd, buf, lag + WindowSize)
<1>1. PICK k \in 1 .. Len(link) - 1 :
        /\ Len(link2) = Len(link)
        /\ \A i \in 1 .. Len(link) :
             link2[i] = IF i = k THEN link[k + 1] ELSE IF i = k + 1 THEN link[k] ELSE link[i]
  BY SwapKeeps
<1>2. Len(link) \in Nat /\ k \in 1 .. Len(link) /\ k + 1 \in 1 .. Len(link)
  BY LenProperties
<1>3. \A i \in 1 .. Len(link) : link[i].msg \in Nat
  BY MsgsNat
<1> DEFINE from(i) == IF i = k THEN k + 1 ELSE IF i = k + 1 THEN k ELSE i
<1>4. \A i \in 1 .. Len(link) : from(i) \in 1 .. Len(link) /\ link2[i] = link[from(i)]
  BY <1>1, <1>2
<1> SUFFICES ASSUME NEW i \in 1 .. Len(link)
             PROVE  /\ rcvd < link2[i].msg + WindowSize + (lag + WindowSize)
                    /\ \A s \in Slots : buf[s] < link2[i].msg + WindowSize + (lag + WindowSize)
                    /\ \A j \in i + 1 .. Len(link) : link2[i].msg < link2[j].msg + WindowSize + (lag + WindowSize)
  BY <1>1 DEF AgesOf
<1>9. lag + WindowSize \in Nat /\ lag <= lag + WindowSize
  BY Sizes
<1>5. ASSUME NEW j \in i + 1 .. Len(link)
      PROVE  link2[i].msg < link2[j].msg + WindowSize + (lag + WindowSize)
  <2>1. j \in 1 .. Len(link) /\ i < j
    BY <1>2
  <2>2. CASE i = k /\ j = k + 1
    \* What overtook is within a window of what was received, and that of what is left behind.
    <3>1. link2[i] = link[k + 1] /\ link2[j] = link[k]
      BY <1>2, <1>4, <2>2
    <3>2. link[k + 1].msg <= rcvd + WindowSize /\ rcvd < link[k].msg + WindowSize + lag
      BY <1>2 DEF AgesOf
    <3>3. link[k + 1].msg \in Nat /\ link[k].msg \in Nat
      BY <1>2, <1>3
    <3> DEFINE x == link[k + 1].msg
               y == link[k].msg
    <3> HIDE DEF x, y
    <3>4. x < y + WindowSize + (lag + WindowSize)
      <4>1. x \in Nat /\ y \in Nat /\ x <= rcvd + WindowSize /\ rcvd < y + WindowSize + lag
        BY <3>2, <3>3 DEF x, y
      <4> QED BY <4>1, Sizes
    <3> QED BY <3>1, <3>4 DEF x, y
  <2>3. CASE ~(i = k /\ j = k + 1)
    <3>1. from(i) \in 1 .. Len(link) /\ from(j) \in from(i) + 1 .. Len(link)
      BY <1>2, <2>1, <2>3
    <3>2. link[from(i)].msg < link[from(j)].msg + WindowSize + lag
      BY <3>1 DEF AgesOf
    <3>3. link[from(i)].msg \in Nat /\ link[from(j)].msg \in Nat
      BY <1>3, <1>4, <2>1
    <3>4. link2[i] = link[from(i)] /\ link2[j] = link[from(j)]
      BY <1>4, <2>1
    <3> HIDE DEF from
    <3>5. link[from(i)].msg < link[from(j)].msg + WindowSize + (lag + WindowSize)
      <4>1. link[from(i)].msg <= link[from(i)].msg
        BY <3>3
      <4> QED BY <1>9, <3>2, <3>3, <4>1, Later
    <3> QED BY <3>4, <3>5
  <2> QED BY <2>2, <2>3
<1>6. /\ from(i) \in 1 .. Len(link) /\ link2[i] = link[from(i)] /\ link[from(i)].msg \in Nat
  BY <1>3, <1>4
<1> HIDE DEF from
<1>7. ASSUME NEW s \in Slots
      PROVE  buf[s] < link2[i].msg + WindowSize + (lag + WindowSize)
  <2>1. buf[s] < link[from(i)].msg + WindowSize + lag /\ buf[s] \in Nat
    BY <1>6 DEF AgesOf
  <2> QED BY <1>6, <1>9, <2>1, Later
<1>8. rcvd < link2[i].msg + WindowSize + (lag + WindowSize)
  <2>1. rcvd < link[from(i)].msg + WindowSize + lag
    BY <1>6 DEF AgesOf
  <2> QED BY <1>6, <1>9, <2>1, Later
<1> QED BY <1>5, <1>7, <1>8

\* The same for the ACKs under way, where by gives what each acknowledges.
AckAgesOf(link, acked, by, lag) ==
  \A i \in 1 .. Len(link) : link[i].ack =>
    /\ acked <= by[link[i].seq] + lag
    /\ \A j \in i + 1 .. Len(link) : link[j].ack => by[link[i].seq] <= by[link[j].seq] + lag

By == [seq \in SeqNum |-> AckedBy(seq)]

\* Responses carry numbers.
LEMMA ResponsesSeq ==
  ASSUME NEW link \in Seq(Response)
  PROVE  Len(link) \in Nat /\ \A i \in 1 .. Len(link) : link[i].seq \in SeqNum
<1>1. \A i \in 1 .. Len(link) : link[i] \in Response
  BY ElementOfSeq
<1>2. \A d \in Response : d.seq \in SeqNum
  BY DEF Response
<1> QED BY <1>1, <1>2, LenProperties

\* This too is the condition of the invariant,
LEMMA AckAgesIs ==
  ASSUME TypeOK
  PROVE  AckAges <=> AckAgesOf(toTx, Acked, By, Lag)
<1>1. Len(toTx) \in Nat /\ \A i \in 1 .. Len(toTx) : By[toTx[i].seq] = AckedBy(toTx[i].seq)
  BY RxFields, ResponsesSeq DEF By
<1>2. \A i \in 1 .. Len(toTx) : \A j \in i + 1 .. Len(toTx) : By[toTx[j].seq] = AckedBy(toTx[j].seq)
  BY <1>1
<1> QED BY <1>1, <1>2 DEF AckAges, AckAgesOf

\* before a step and after it.
LEMMA AckAgesIsNext ==
  ASSUME TypeOK'
  PROVE  AckAges' <=> AckAgesOf(toTx', Acked', By', Lag')
<1>1. toTx' \in Seq(Response)
  BY DEF TypeOK, Response, SeqNum
<1>2. By' = [seq \in SeqNum |-> last' - SEQ_DELTA(seq, LastAck')]
  BY DEF By, AckedBy, SEQ_DELTA, SeqNum
<1>3. /\ Len(toTx') \in Nat
      /\ \A i \in 1 .. Len(toTx') : By'[toTx'[i].seq] = last' - SEQ_DELTA(toTx'[i].seq, LastAck')
  BY <1>1, <1>2, ResponsesSeq
<1>4. \A i \in 1 .. Len(toTx') : \A j \in i + 1 .. Len(toTx') :
        By'[toTx'[j].seq] = last' - SEQ_DELTA(toTx'[j].seq, LastAck')
  BY <1>3
<1> QED BY <1>3, <1>4 DEF AckAges, AckAgesOf, AckedBy, SEQ_DELTA

\* It may be loosened in the same way.
LEMMA AckAgesLag ==
  ASSUME NEW link \in Seq(Response), NEW acked \in Nat, NEW by \in [SeqNum -> Int],
         NEW lag \in Nat, NEW lag2 \in Nat, lag <= lag2, AckAgesOf(link, acked, by, lag)
  PROVE  AckAgesOf(link, acked, by, lag2)
<1>1. Len(link) \in Nat /\ \A i \in 1 .. Len(link) : by[link[i].seq] \in Int
  BY ResponsesSeq
<1> SUFFICES ASSUME NEW i \in 1 .. Len(link), link[i].ack
             PROVE  /\ acked <= by[link[i].seq] + lag2
                    /\ \A j \in i + 1 .. Len(link) : link[j].ack => by[link[i].seq] <= by[link[j].seq] + lag2
  BY DEF AckAgesOf
<1>2. acked <= by[link[i].seq] + lag
  BY DEF AckAgesOf
<1>3. ASSUME NEW j \in i + 1 .. Len(link), link[j].ack
      PROVE  by[link[i].seq] <= by[link[j].seq] + lag2
  <2>1. by[link[i].seq] <= by[link[j].seq] + lag
    BY <1>3 DEF AckAgesOf
  <2>2. by[link[j].seq] \in Int
    BY <1>1
  <2> QED BY <1>1, <2>1, <2>2
<1> QED BY <1>1, <1>2, <1>3

\* A response joins: a NACK, or an ACK of the last message read.
LEMMA AckAgesSends ==
  ASSUME NEW link \in Seq(Response), NEW link2, NEW acked \in Nat, NEW by \in [SeqNum -> Int],
         NEW by2 \in [SeqNum -> Int], NEW lag \in Nat, NEW d \in Response, NEW n \in Outcomes,
         NEW top \in Nat, Sends(link, link2, d, n), AckAgesOf(link, acked, by, lag),
         \A i \in 1 .. Len(link) :
           link[i].ack => by2[link[i].seq] = by[link[i].seq] /\ by[link[i].seq] <= top,
         d.ack => by2[d.seq] = top, acked <= top
  PROVE  AckAgesOf(link2, acked, by2, lag)
<1>1. /\ link2 \in Seq(Response) /\ Len(link2) = Len(link) + n
      /\ \A i \in 1 .. Len(link2) : link2[i] = IF i <= Len(link) THEN link[i] ELSE d
  <2>1. link \in Seq(Response) /\ d \in Response /\ n \in Outcomes /\ Sends(link, link2, d, n)
    OBVIOUS
  <2> QED BY ONLY <2>1, SendsKeeps
<1>2. Len(link) \in Nat /\ n \in Nat /\ \A i \in 1 .. Len(link) : by[link[i].seq] \in Int
  BY ResponsesSeq DEF Outcomes
<1> SUFFICES ASSUME NEW i \in 1 .. Len(link2), link2[i].ack
             PROVE  /\ acked <= by2[link2[i].seq] + lag
                    /\ \A j \in i + 1 .. Len(link2) : link2[j].ack => by2[link2[i].seq] <= by2[link2[j].seq] + lag
  BY DEF AckAgesOf
<1>3. ASSUME NEW j \in i + 1 .. Len(link2), link2[j].ack
      PROVE  by2[link2[i].seq] <= by2[link2[j].seq] + lag
  <2>1. j \in 1 .. Len(link2) /\ i < j
    BY <1>1, <1>2
  <2>2. CASE j <= Len(link)
    <3>1. i \in 1 .. Len(link) /\ j \in i + 1 .. Len(link) /\ j \in 1 .. Len(link)
          /\ link2[i] = link[i] /\ link2[j] = link[j]
      BY <1>1, <1>2, <2>1, <2>2
    <3>2. link[i].ack /\ link[j].ack
      BY <1>3, <3>1
    <3>3. by[link[i].seq] <= by[link[j].seq] + lag
      BY <3>1, <3>2 DEF AckAgesOf
    <3>4. by2[link[i].seq] = by[link[i].seq] /\ by2[link[j].seq] = by[link[j].seq]
      BY <3>1, <3>2
    <3> QED BY <3>1, <3>3, <3>4
  <2>3. CASE j > Len(link)
    <3>1. link2[j] = d
      BY <1>1, <1>2, <2>1, <2>3
    <3>2. by2[link2[j].seq] = top
      BY <1>3, <3>1
    <3>3. CASE i <= Len(link)
      <4>1. link2[i] = link[i] /\ i \in 1 .. Len(link)
        BY <1>1, <1>2, <3>3
      <4>2. by2[link2[i].seq] \in Int /\ by2[link2[i].seq] <= top
        BY <1>2, <4>1
      <4> QED BY <3>2, <4>2
    <3>4. CASE i > Len(link)
      <4>1. by2[link2[i].seq] = top
        BY <1>1, <3>4
      <4> QED BY <3>2, <4>1
    <3> QED BY <1>2, <3>3, <3>4
  <2> QED BY <1>2, <2>1, <2>2, <2>3
<1>4. acked <= by2[link2[i].seq] + lag
  <2>1. CASE i <= Len(link)
    <3>1. link2[i] = link[i] /\ i \in 1 .. Len(link)
      BY <1>1, <1>2, <2>1
    <3>2. acked <= by[link[i].seq] + lag
      BY <3>1 DEF AckAgesOf
    <3> QED BY <3>1, <3>2
  <2>2. CASE i > Len(link)
    <3>1. by2[link2[i].seq] = top
      BY <1>1, <2>2
    <3> QED BY <3>1
  <2> QED BY <1>1, <1>2, <2>1, <2>2
<1> QED BY <1>3, <1>4

\* A response leaves; if it was an ACK, that may be what is acknowledged now.
LEMMA AckAgesTail ==
  ASSUME NEW link \in Seq(Response), NEW link2 \in Seq(Response), NEW acked \in Nat, NEW acked2,
         NEW by \in [SeqNum -> Int], NEW lag \in Nat,
         AckAgesOf(link, acked, by, lag), Len(link) \in Nat \ {0}, Len(link2) = Len(link) - 1,
         \A i \in 1 .. Len(link2) : link2[i] = link[i + 1],
         acked2 = acked \/ (link[1].ack /\ acked2 = by[link[1].seq])
  PROVE  AckAgesOf(link2, acked2, by, lag)
<1> SUFFICES ASSUME NEW i \in 1 .. Len(link2), link2[i].ack
             PROVE  /\ acked2 <= by[link2[i].seq] + lag
                    /\ \A j \in i + 1 .. Len(link2) : link2[j].ack => by[link2[i].seq] <= by[link2[j].seq] + lag
  BY DEF AckAgesOf
<1>1. /\ i + 1 \in 1 .. Len(link) /\ 1 \in 1 .. Len(link) /\ i + 1 \in 1 + 1 .. Len(link)
      /\ link2[i] = link[i + 1]
  OBVIOUS
<1>2. acked <= by[link2[i].seq] + lag
  BY <1>1 DEF AckAgesOf
<1>3. link[1].ack => by[link[1].seq] <= by[link2[i].seq] + lag
  BY <1>1 DEF AckAgesOf
<1>4. ASSUME NEW j \in i + 1 .. Len(link2), link2[j].ack
      PROVE  by[link2[i].seq] <= by[link2[j].seq] + lag
  <2>1. j \in 1 .. Len(link2) /\ j + 1 \in (i + 1) + 1 .. Len(link) /\ link2[j] = link[j + 1]
    OBVIOUS
  <2> QED BY <1>1, <1>4, <2>1 DEF AckAgesOf
<1> QED BY <1>2, <1>3, <1>4

\* One window more: what stays before it, and what overtakes.
LEMMA Wider ==
  ASSUME NEW x \in Int, NEW y \in Int, NEW a \in Nat, NEW lag \in Nat
  PROVE  /\ x <= y + lag => x <= y + (lag + WindowSize)
         /\ x <= a + WindowSize /\ a <= y + lag => x <= y + (lag + WindowSize)
BY Sizes

\* A response overtakes another.
LEMMA AckAgesSwap ==
  ASSUME NEW link \in Seq(Response), NEW link2, NEW acked \in Nat, NEW by \in [SeqNum -> Int],
         NEW lag \in Nat, Swap(link, link2), AckAgesOf(link, acked, by, lag),
         \A i \in 1 .. Len(link) : by[link[i].seq] <= acked + WindowSize
  PROVE  AckAgesOf(link2, acked, by, lag + WindowSize)
<1>1. PICK k \in 1 .. Len(link) - 1 :
        /\ Len(link2) = Len(link)
        /\ \A i \in 1 .. Len(link) :
             link2[i] = IF i = k THEN link[k + 1] ELSE IF i = k + 1 THEN link[k] ELSE link[i]
  <2>1. link \in Seq(Response) /\ Swap(link, link2)
    OBVIOUS
  <2> QED BY ONLY <2>1, SwapKeeps
<1>2. Len(link) \in Nat /\ k \in 1 .. Len(link) /\ k + 1 \in 1 .. Len(link)
      /\ \A i \in 1 .. Len(link) : by[link[i].seq] \in Int
  BY ResponsesSeq
<1> DEFINE from(i) == IF i = k THEN k + 1 ELSE IF i = k + 1 THEN k ELSE i
<1>3. \A i \in 1 .. Len(link) : from(i) \in 1 .. Len(link) /\ link2[i] = link[from(i)]
  BY <1>1, <1>2
<1> SUFFICES ASSUME NEW i \in 1 .. Len(link), link2[i].ack
             PROVE  /\ acked <= by[link2[i].seq] + (lag + WindowSize)
                    /\ \A j \in i + 1 .. Len(link) :
                         link2[j].ack => by[link2[i].seq] <= by[link2[j].seq] + (lag + WindowSize)
  BY <1>1 DEF AckAgesOf
<1>4. /\ from(i) \in 1 .. Len(link) /\ link2[i] = link[from(i)] /\ by[link2[i].seq] \in Int
  BY <1>2, <1>3
<1>5. ASSUME NEW j \in i + 1 .. Len(link), link2[j].ack
      PROVE  by[link2[i].seq] <= by[link2[j].seq] + (lag + WindowSize)
  <2>1. j \in 1 .. Len(link) /\ i < j
    BY <1>2
  <2>2. from(j) \in 1 .. Len(link) /\ link2[j] = link[from(j)] /\ by[link2[j].seq] \in Int
    BY <1>2, <1>3, <2>1
  <2>3. CASE i = k /\ j = k + 1
    <3>1. by[link2[i].seq] <= acked + WindowSize
      BY <1>4
    <3>2. acked <= by[link2[j].seq] + lag
      BY <1>5, <2>2 DEF AckAgesOf
    <3> QED BY <1>4, <2>2, <3>1, <3>2, Wider
  <2>4. CASE ~(i = k /\ j = k + 1)
    <3>1. from(j) \in from(i) + 1 .. Len(link)
      BY <1>2, <2>1, <2>4
    <3> HIDE DEF from
    <3>2. by[link2[i].seq] <= by[link2[j].seq] + lag
      BY <1>4, <1>5, <2>2, <3>1 DEF AckAgesOf
    <3> QED BY <1>4, <2>2, <3>2, Wider
  <2> QED BY <2>3, <2>4
<1>6. acked <= by[link2[i].seq] + (lag + WindowSize)
  <2> HIDE DEF from
  <2>1. acked <= by[link2[i].seq] + lag
    BY <1>4 DEF AckAgesOf
  <2>2. acked \in Int
    OBVIOUS
  <2> QED BY <1>4, <2>1, <2>2, Wider
<1> QED BY <1>5, <1>6

-----------------------------------------------------------------------------
(* The steps that leave the receive window alone. *)

\* What the invariant says, in the terms of the lemmas above.
LEMMA WindowFacts ==
  ASSUME NumbersOutlastFaults, SenderInv, WindowInv
  PROVE  /\ TypeOK /\ TxNumbers /\ RxNumbers /\ RxBuffers /\ faults \in 0 .. Faults
         /\ toRx \in Seq(MsgFrame) /\ Len(toRx) \in Nat
         /\ \A i \in 1 .. Len(toRx) : toRx[i].msg \in Nat /\ toRx[i].msg <= sent
         /\ toTx \in Seq(Response) /\ rx.buf \in [Slots -> Nat]
         /\ Lag \in Nat /\ Lag + 2 * WindowSize <= SeqNums
         /\ AgesOf(toRx, Rcvd, rx.buf, Lag)
         /\ AckAgesOf(toTx, Acked, By, Lag)
         /\ By \in [SeqNum -> Int] /\ \A seq \in SeqNum : By[seq] = AckedBy(seq)
<1>1. TypeOK /\ TxNumbers /\ RxNumbers /\ RxBuffers /\ LinkAccepted /\ faults \in 0 .. Faults
      /\ FrameAges /\ AckAges
  BY DEF SenderInv, WindowInv
<1>2. toRx \in Seq(MsgFrame) /\ toTx \in Seq(Response) /\ rx.buf \in [Slots -> Nat] /\ sent \in Nat
  BY <1>1, RxFields, TxFields DEF MsgFrame
<1>3. Len(toRx) \in Nat /\ \A i \in 1 .. Len(toRx) : toRx[i].msg \in Nat /\ toRx[i].msg <= sent
  <2>1. \A i \in 1 .. Len(toRx) : toRx[i] \in Accepted
    BY <1>1, ElementOfSeq DEF LinkAccepted
  <2>2. \A f \in Accepted : f.msg <= sent
    BY <1>2 DEF Accepted, Frame
  <2> QED BY <1>2, <2>1, <2>2, MsgsNat
<1>4. By \in [SeqNum -> Int] /\ \A seq \in SeqNum : By[seq] = AckedBy(seq)
  BY <1>1, AckedByIs DEF By
<1> QED BY <1>1, <1>2, <1>3, <1>4, LagBound, FrameAgesIs, AckAgesIs

\* The receiver does nothing: frames and responses keep their ages.
LEMMA ReceiverKept ==
  ASSUME NumbersOutlastFaults, SenderInv, WindowInv, TypeOK', UNCHANGED <<rx, last>>,
         sent' >= sent, Acked' = Acked, faults' \in 0 .. Faults,
         AgesOf(toRx', Rcvd, rx.buf, Lag'), AckAgesOf(toTx', Acked, By, Lag')
  PROVE  WindowInv'
<1>1. sent' \in Nat
  BY DEF TypeOK
<1>2. RxNumbers' /\ RxBuffers'
  BY <1>1, WindowFacts, QuietReceiver
<1>3. Rcvd' = Rcvd /\ rx'.buf = rx.buf
  BY AckedByKept
<1>4. FrameAges'
  BY <1>3, FrameAgesIsNext
<1>5. By' = By
  BY DEF By, AckedBy, LastAck
<1>6. AckAges'
  BY <1>5, AckAgesIsNext
<1> QED BY <1>2, <1>4, <1>6 DEF WindowInv

\* Nothing is sent or received.  Faults may be used up.
LEMMA LinkKept ==
  ASSUME NumbersOutlastFaults, SenderInv, WindowInv, TypeOK',
         UNCHANGED <<rx, last, sent, toRx, toTx>>, Acked' = Acked,
         faults' \in 0 .. Faults, Lag' \in Nat, Lag' >= Lag
  PROVE  WindowInv'
<1>1. Rcvd \in Nat /\ Acked \in Nat /\ sent \in Nat
  BY WindowFacts, RxCounts
<1>2. Lag \in Nat /\ Lag <= Lag'
  BY WindowFacts
<1>3. AgesOf(toRx, Rcvd, rx.buf, Lag')
  BY <1>1, <1>2, WindowFacts, AgesLag
<1>4. AckAgesOf(toTx, Acked, By, Lag')
  BY <1>1, <1>2, WindowFacts, AckAgesLag
<1> QED BY <1>1, <1>3, <1>4, ReceiverKept

\* The threads that wait, and the timer thread but for its frame.
LEMMA WaitsWindow ==
  ASSUME NumbersOutlastFaults, SenderInv, WindowInv, TypeOK',
         UNCHANGED <<tx, rx, toRx, toTx, sent, last, faults>>
  PROVE  WindowInv'
<1>1. Acked' = Acked
  BY QuietNumbers
<1>2. Lag' = Lag /\ Lag \in Nat
  BY LagKept, WindowFacts
<1>3. faults' \in 0 .. Faults /\ Lag' >= Lag /\ Lag' \in Nat
  BY <1>2, WindowFacts
<1> QED BY <1>1, <1>3, LinkKept

\* A frame is sent, or sent again: it was not acknowledged, so that all that was
\* received or is under way is less than a window after it.
LEMMA SendsWindow ==
  ASSUME NumbersOutlastFaults, SenderInv, WindowInv, TypeOK',
         UNCHANGED <<rx, last>>, sent' >= sent, Acked' = Acked,
         NEW f \in MsgFrame, f.msg > Acked, NEW n \in Outcomes, Sends(toRx, toRx', f, n), Spent(n),
         Acked + WindowSize >= sent,
         \/ UNCHANGED toTx
         \/ toTx # << >> /\ toTx' = Tail(toTx)
  PROVE  WindowInv'
<1>1. /\ Rcvd \in Nat /\ Acked \in Nat /\ sent \in Nat /\ f.msg \in Nat /\ Rcvd <= sent
  BY WindowFacts, RxCounts DEF MsgFrame
<1>2. sent < f.msg + WindowSize
  BY <1>1, Sizes
<1>3. \A s \in Slots : rx.buf[s] <= sent
  BY WindowFacts DEF RxBuffers
<1>4. AgesOf(toRx', Rcvd, rx.buf, Lag)
  BY <1>1, <1>2, <1>3, WindowFacts, AgesSends
<1>5. faults' \in 0 .. Faults /\ Lag' \in Nat /\ Lag \in Nat /\ Lag <= Lag'
  BY WindowFacts, LagSpent
<1>6. toRx' \in Seq(MsgFrame)
  <2>1. toRx \in Seq(MsgFrame)
    BY WindowFacts
  <2> QED BY ONLY <2>1, SendsStays, f \in MsgFrame, n \in Outcomes, Sends(toRx, toRx', f, n)
<1>7. AgesOf(toRx', Rcvd, rx.buf, Lag')
  BY <1>1, <1>4, <1>5, <1>6, WindowFacts, AgesLag
<1>8. toTx' \in Seq(Response) /\ AckAgesOf(toTx', Acked, By, Lag)
  <2>1. CASE UNCHANGED toTx
    BY <2>1, WindowFacts
  <2>2. CASE toTx # << >> /\ toTx' = Tail(toTx)
    <3>1. /\ Tail(toTx) \in Seq(Response) /\ Len(toTx) \in Nat \ {0} /\ Len(Tail(toTx)) = Len(toTx) - 1
          /\ \A i \in 1 .. Len(Tail(toTx)) : Tail(toTx)[i] = toTx[i + 1]
      BY <2>2, WindowFacts, ResponseArrival
    <3>2. AckAgesOf(Tail(toTx), Acked, By, Lag)
      BY <1>1, <3>1, WindowFacts, AckAgesTail
    <3> QED BY <2>2, <3>1, <3>2
  <2> QED BY <2>1, <2>2
<1>9. AckAgesOf(toTx', Acked, By, Lag')
  BY <1>1, <1>5, <1>8, WindowFacts, AckAgesLag
<1> QED BY <1>5, <1>7, <1>9, ReceiverKept

\* A failure of KitlSendFrame sends nothing.
LEMMA SendFailsWindow ==
  ASSUME NumbersOutlastFaults, SenderInv, WindowInv, TypeOK', NEW s \in Senders, SendFails(s)
  PROVE  WindowInv'
<1>1. tx'.seq = tx.seq /\ tx'.ack = tx.ack /\ sent' = sent
  BY TxFields, WindowFacts DEF SendFails, TypeOK
<1>2. Acked' = Acked
  BY <1>1 DEF Acked, Outstanding, SEQ_DELTA
<1>3. faults' \in 0 .. Faults /\ Lag' = Lag + WindowSize
  BY WindowFacts, LagGrows DEF SendFails
<1>4. Lag' \in Nat /\ Lag' >= Lag
  <2>1. Lag \in Nat
    BY WindowFacts
  <2> DEFINE x == Lag
             y == Lag'
  <2>2. x \in Nat /\ y = x + WindowSize
    BY <1>3, <2>1
  <2> HIDE DEF x, y
  <2>3. y \in Nat /\ y >= x
    BY <2>2, Sizes
  <2> QED BY <2>3 DEF x, y
<1> QED BY <1>2, <1>3, <1>4, LinkKept DEF SendFails

\* A new frame is the last of its window.
LEMMA SendFrameWindow ==
  ASSUME NumbersOutlastFaults, SenderInv, WindowInv, TypeOK',
         NEW s \in Senders, NEW n \in Outcomes, SendFrame(s, n)
  PROVE  WindowInv'
<1> DEFINE f == [seq |-> tx.seq, msg |-> sent + 1]
<1>1. /\ tx.seq \in SeqNum /\ sent \in Nat /\ Acked \in Nat /\ sent = Acked + Outstanding
      /\ Outstanding \in Nat /\ Outstanding < WindowSize
  BY TxFields, WindowFacts, RxCounts, Sizes DEF SendFrame, WindowFull
<1>2. tx'.seq = SEQ_ADD(tx.seq, 1) /\ tx'.ack = tx.ack /\ sent' = sent + 1
  BY WindowFacts DEF SendFrame, TypeOK
<1>3. Acked' = Acked
  BY <1>1, <1>2, WindowFacts, WindowGrows
<1>4. f \in MsgFrame /\ f.msg > Acked /\ Acked + WindowSize >= sent /\ sent' >= sent
  BY <1>1, <1>2, Sizes DEF MsgFrame
<1>5. Sends(toRx, toRx', f, n) /\ Spent(n) /\ UNCHANGED <<rx, last, toTx>>
  BY DEF SendFrame
<1> HIDE DEF f
<1> QED BY <1>3, <1>4, <1>5, SendsWindow

\* What is sent again.
LEMMA AgainWindow ==
  ASSUME NumbersOutlastFaults, SenderInv, WindowInv, TypeOK', UNCHANGED <<tx, sent, rx, last>>,
         NEW m \in Unacked, NEW n \in Outcomes, Sends(toRx, toRx', Frame(m), n), Spent(n),
         \/ UNCHANGED toTx
         \/ toTx # << >> /\ toTx' = Tail(toTx)
  PROVE  WindowInv'
<1>1. /\ sent \in Nat /\ Acked \in Nat /\ sent <= Acked + WindowSize
  BY WindowFacts, RxCounts
<1>2. m \in Nat /\ Acked <= m
  BY WindowFacts, UnackedIs
<1>3. Frame(m) \in MsgFrame /\ Frame(m).msg > Acked
  BY <1>1, <1>2, NumberType DEF Frame, MsgFrame
<1>4. Acked' = Acked /\ sent' >= sent /\ Acked + WindowSize >= sent
  BY <1>1, QuietNumbers, Sizes
<1> QED BY <1>3, <1>4, SendsWindow

\* The timer thread sends unacknowledged frames only.
LEMMA RetransmitFrameWindow ==
  ASSUME SlotsWrapWithNumbers, NumbersOutlastFaults, SenderInv, WindowInv, TypeOK',
         NEW n \in Outcomes, RetransmitFrame(n)
  PROVE  WindowInv'
<1> DEFINE slot == timerPc.slot
<1>1. slot \in Slots /\ tx.buf[slot].seq \in SeqNum /\ TxBuffers /\ tx.buf[slot].seq \in SeqNum
      /\ Slot(tx.buf[slot].seq) = slot
  BY WindowFacts, TxFields DEF SenderInv, TxBuffers
<1>2. CASE InTxWindow(tx.buf[slot].seq)
  <2>1. PICK m \in Unacked : tx.buf[slot] = Frame(m)
    BY <1>1, <1>2, WindowFacts, FrameInWindow
  <2>2. Sends(toRx, toRx', Frame(m), n) /\ Spent(n) /\ UNCHANGED <<tx, sent, rx, last, toTx>>
    BY <1>2, <2>1 DEF RetransmitFrame
  <2> QED BY <2>2, AgainWindow
<1>3. CASE ~InTxWindow(tx.buf[slot].seq)
  BY <1>3, WaitsWindow DEF RetransmitFrame
<1> QED BY <1>2, <1>3

\* So does a NACK, even an old one.
LEMMA ReceiveNackWindow ==
  ASSUME SlotsWrapWithNumbers, NumbersOutlastFaults, SenderInv, WindowInv, TypeOK',
         NEW n \in Outcomes, ReceiveNack(n)
  PROVE  WindowInv'
<1> DEFINE seq == Head(toTx).seq
<1>1. /\ toTx # << >> /\ toTx' = Tail(toTx) /\ UNCHANGED <<tx, sent, rx, last>>
  BY DEF ReceiveNack
<1>2. /\ seq \in SeqNum /\ Tail(toTx) \in Seq(Response) /\ Len(toTx) \in Nat \ {0}
      /\ Len(Tail(toTx)) = Len(toTx) - 1 /\ \A i \in 1 .. Len(Tail(toTx)) : Tail(toTx)[i] = toTx[i + 1]
  BY <1>1, WindowFacts, ResponseArrival
<1>3. CASE InTxWindow(seq) /\ tx.buf[Slot(seq)].msg # NoMsg
  <2>1. PICK m \in Unacked : tx.buf[Slot(seq)] = Frame(m)
    BY <1>2, <1>3, WindowFacts, FrameInWindow DEF SenderInv
  <2>2. Sends(toRx, toRx', Frame(m), n) /\ Spent(n)
    BY <1>3, <2>1 DEF ReceiveNack
  <2> QED BY <1>1, <2>2, AgainWindow
<1>4. CASE ~(InTxWindow(seq) /\ tx.buf[Slot(seq)].msg # NoMsg)
  <2>1. UNCHANGED <<toRx, faults>>
    BY <1>4 DEF ReceiveNack
  <2>2. Acked' = Acked /\ Lag' = Lag /\ Acked \in Nat /\ sent \in Nat
    BY <1>1, <2>1, QuietNumbers, LagKept, RxCounts, WindowFacts
  <2>3. AckAgesOf(Tail(toTx), Acked, By, Lag)
    BY <1>2, <2>2, WindowFacts, AckAgesTail
  <2>4. AgesOf(toRx', Rcvd, rx.buf, Lag') /\ AckAgesOf(toTx', Acked, By, Lag') /\ faults' \in 0 .. Faults
    BY <1>1, <2>1, <2>2, <2>3, WindowFacts
  <2> QED BY <1>1, <2>2, <2>4, ReceiverKept
<1> QED BY <1>3, <1>4

\* An overtaking costs a window of the Lag.
LEMMA ReorderWindow ==
  ASSUME NumbersOutlastFaults, SenderInv, WindowInv, TypeOK', Reorder
  PROVE  WindowInv'
<1>1. /\ Rcvd \in Nat /\ Acked \in Nat /\ sent \in Nat /\ last \in Nat /\ Lag \in Nat
      /\ sent <= Acked + WindowSize /\ Acked <= last /\ last <= Rcvd /\ Rcvd <= sent
  BY WindowFacts, RxCounts
<1>2. faults' \in 0 .. Faults /\ Lag' = Lag + WindowSize
  BY WindowFacts, LagGrows DEF Reorder
<1>3. UNCHANGED <<tx, rx, sent, last>>
  BY DEF Reorder
<1>4. Acked' = Acked
  BY <1>3, QuietNumbers
<1>5. Lag + WindowSize \in Nat /\ Lag <= Lag + WindowSize
  BY <1>1, Sizes
<1>6. CASE Swap(toRx, toRx') /\ UNCHANGED toTx
  <2>1. \A i \in 1 .. Len(toRx) : toRx[i].msg <= Rcvd + WindowSize
    <3>1. \A x \in Nat : x <= sent => x <= Rcvd + WindowSize
      BY <1>1, Sizes
    <3> QED BY <3>1, WindowFacts
  <2>2. AgesOf(toRx', Rcvd, rx.buf, Lag + WindowSize)
    BY <1>1, <1>6, <2>1, WindowFacts, AgesSwap
  <2>3. AckAgesOf(toTx, Acked, By, Lag + WindowSize)
    BY <1>1, <1>5, WindowFacts, AckAgesLag
  <2> QED BY <1>1, <1>2, <1>3, <1>4, <1>6, <2>2, <2>3, ReceiverKept
<1>7. CASE Swap(toTx, toTx') /\ UNCHANGED toRx
  <2>1. \A i \in 1 .. Len(toTx) : By[toTx[i].seq] <= Acked + WindowSize
    <3>1. \A x \in Int : x <= last => x <= Acked + WindowSize
      BY <1>1, Sizes
    <3>2. \A i \in 1 .. Len(toTx) : By[toTx[i].seq] \in Int /\ By[toTx[i].seq] <= last
      BY WindowFacts, ResponsesSeq, AckedByIs
    <3> QED BY <3>1, <3>2
  <2>2. AckAgesOf(toTx', Acked, By, Lag + WindowSize)
    BY <1>1, <1>7, <2>1, WindowFacts, AckAgesSwap
  <2>3. AgesOf(toRx, Rcvd, rx.buf, Lag + WindowSize)
    BY <1>1, <1>5, WindowFacts, AgesLag
  <2> QED BY <1>1, <1>2, <1>3, <1>4, <1>7, <2>2, <2>3, ReceiverKept
<1> QED BY <1>6, <1>7 DEF Reorder

\* An ACK in the window acknowledges what it says, and that was read.
LEMMA AckInWindow ==
  ASSUME NumbersOutlastFaults, SenderInv, WindowInv, NEW seq \in SeqNum, InTxWindow(seq),
         Acked <= AckedBy(seq) + Lag
  PROVE  Acked + (SEQ_DELTA(tx.ack, seq) + 1) = AckedBy(seq)
<1> DEFINE a == AckedBy(seq)
<1>1. a \in Int /\ a <= last /\ seq = NumberOf(a - 1) /\ a - 1 \in Int
  BY WindowFacts, AckedByIs
<1>2. PICK m \in Unacked : seq = NumberOf(m) /\ SEQ_DELTA(tx.ack, seq) = m - Acked
  BY WindowFacts, InTxWindowIs
<1>3. m \in Nat /\ Acked <= m /\ m < sent
  BY <1>2, WindowFacts, UnackedIs, TxFields
<1>4. /\ Acked \in Nat /\ sent \in Nat /\ last \in Nat /\ Lag \in Nat
      /\ sent <= Acked + WindowSize /\ last <= sent /\ Lag + 2 * WindowSize <= SeqNums
  BY WindowFacts, RxCounts
<1>5. Acked <= a + Lag
  OBVIOUS
<1> HIDE DEF a
<1>6. -SeqNums < m - (a - 1) /\ m - (a - 1) < SeqNums
  BY <1>1, <1>3, <1>4, <1>5, Sizes
<1>7. m = a - 1
  BY <1>1, <1>2, <1>3, <1>6, NumberInjective
<1>8. Acked + ((m - Acked) + 1) = a
  BY <1>1, <1>3, <1>4, <1>7
<1> QED BY <1>2, <1>8 DEF a

\* What is acknowledged was read.
LEMMA ReceiveAckWindow ==
  ASSUME NumbersOutlastFaults, SenderInv, WindowInv, TypeOK', ReceiveAck
  PROVE  WindowInv'
<1> DEFINE seq == Head(toTx).seq
           k   == AckedUpTo(seq)
<1>1. /\ toTx # << >> /\ toTx' = Tail(toTx) /\ UNCHANGED <<sent, rx, last, toRx, faults>>
      /\ tx' = [tx EXCEPT !.ack = SEQ_ADD(@, k)]
  BY DEF ReceiveAck, AckedUpTo
<1>2. /\ seq \in SeqNum /\ Tail(toTx) \in Seq(Response) /\ Len(toTx) \in Nat \ {0} /\ toTx[1] = Head(toTx)
      /\ Len(Tail(toTx)) = Len(toTx) - 1 /\ \A i \in 1 .. Len(Tail(toTx)) : Tail(toTx)[i] = toTx[i + 1]
  BY <1>1, WindowFacts, ResponseArrival
<1>3. k \in 0 .. Outstanding
  BY <1>2, WindowFacts, AckedUpToIs
<1>4. Acked' = Acked + k
  BY <1>1, <1>3, WindowFacts, WindowShrinks
<1>5. Acked \in Nat /\ last \in Nat /\ Acked <= last
  BY WindowFacts, RxCounts
<1>6. toTx[1].ack /\ toTx[1].seq = seq
  BY <1>2 DEF ReceiveAck
<1>7. Acked' = Acked \/ Acked' = By[seq]
  <2>1. CASE InTxWindow(seq)
    <3>1. 1 \in 1 .. Len(toTx)
      BY <1>2
    <3>2. Acked <= By[seq] + Lag
      BY <1>6, <3>1, WindowFacts DEF AckAgesOf
    <3>3. Acked + (SEQ_DELTA(tx.ack, seq) + 1) = By[seq]
      BY <1>2, <2>1, <3>2, WindowFacts, AckInWindow
    <3> QED BY <1>4, <2>1, <3>3 DEF AckedUpTo
  <2>2. CASE ~InTxWindow(seq)
    BY <1>4, <1>5, <2>2 DEF AckedUpTo
  <2> QED BY <2>1, <2>2
<1>8. Acked' <= last
  <2>1. By[seq] <= last
    BY <1>2, WindowFacts, AckedByIs
  <2> QED BY <1>5, <1>7, <2>1
<1>9. Opened' = Opened /\ Rcvd' = Rcvd /\ LastAck' = LastAck /\ By' = By /\ Lag' = Lag
  BY <1>1, LagKept DEF Opened, Rcvd, LastAck, By, AckedBy
<1>10. RxNumbers'
  BY <1>1, <1>8, <1>9, WindowFacts DEF RxNumbers, NumberOf, SlotOf
<1>11. RxBuffers'
  BY <1>1, <1>9, WindowFacts DEF RxBuffers, SlotOf
<1>12. FrameAges'
  BY <1>1, <1>9, WindowFacts, FrameAgesIsNext
<1>13. AckAgesOf(Tail(toTx), Acked', By, Lag)
  BY <1>2, <1>5, <1>6, <1>7, WindowFacts, AckAgesTail
<1>14. AckAges'
  BY <1>1, <1>9, <1>13, AckAgesIsNext
<1> QED BY <1>1, <1>10, <1>11, <1>12, <1>14, WindowFacts DEF WindowInv

\* A frame is taken off the link; the buffers stay.
LEMMA FrameLeaves ==
  ASSUME NumbersOutlastFaults, SenderInv, WindowInv, NEW f, Arrives(f)
  PROVE  AgesOf(toRx', Rcvd, rx.buf, Lag) /\ toRx' \in Seq(MsgFrame)
<1>1. /\ toRx' \in Seq(MsgFrame) /\ Len(toRx) \in Nat \ {0}
      /\ Len(toRx') = Len(toRx) - 1 /\ \A i \in 1 .. Len(toRx') : toRx'[i] = toRx[i + 1]
  BY Arrival DEF SenderInv, MsgFrame
<1>2. Lag \in Nat /\ toRx \in Seq(MsgFrame) /\ AgesOf(toRx, Rcvd, rx.buf, Lag)
  BY WindowFacts
<1> QED BY <1>1, <1>2, AgesTail

\* A duplicate is tossed.
LEMMA ReceiveDuplicateWindow ==
  ASSUME NumbersOutlastFaults, SenderInv, WindowInv, TypeOK', NEW f, ReceiveDuplicate(f)
  PROVE  WindowInv'
<1>1. Arrives(f) /\ UNCHANGED <<tx, sent, rx, last, toTx, faults>>
  BY DEF ReceiveDuplicate
<1>2. Acked' = Acked /\ Lag' = Lag /\ sent' >= sent
  BY <1>1, QuietNumbers, LagKept, RxCounts, WindowFacts
<1>3. AgesOf(toRx', Rcvd, rx.buf, Lag') /\ AckAgesOf(toTx', Acked, By, Lag') /\ faults' \in 0 .. Faults
  BY <1>1, <1>2, FrameLeaves, WindowFacts
<1> QED BY <1>1, <1>2, <1>3, ReceiverKept

\* A response is sent that says nothing but what was read.
LEMMA Responds ==
  ASSUME NumbersOutlastFaults, SenderInv, WindowInv, NEW d \in Response, NEW n \in Outcomes,
         Sends(toTx, toTx', d, n), d.ack => AckedBy(d.seq) = last
  PROVE  AckAgesOf(toTx', Acked, By, Lag) /\ toTx' \in Seq(Response)
<1>1. Acked \in Nat /\ last \in Nat /\ Acked <= last /\ Lag \in Nat
  BY WindowFacts, RxCounts
<1>2. \A i \in 1 .. Len(toTx) : By[toTx[i].seq] <= last
  BY WindowFacts, ResponsesSeq, AckedByIs
<1>3. d.seq \in SeqNum
  BY DEF Response
<1>4. d.ack => By[d.seq] = last
  BY <1>3, WindowFacts
<1>5. toTx' \in Seq(Response)
  <2>1. toTx \in Seq(Response)
    BY WindowFacts
  <2> QED BY ONLY <2>1, SendsStays, d \in Response, n \in Outcomes, Sends(toTx, toTx', d, n)
<1>6. AckAgesOf(toTx', Acked, By, Lag)
  BY <1>1, <1>2, <1>4, WindowFacts, AckAgesSends
<1> QED BY <1>5, <1>6

\* The ACK repeated is that of the message read last.
LEMMA ReceiveOutsideWindow ==
  ASSUME NumbersOutlastFaults, SenderInv, WindowInv, TypeOK', NEW f, NEW n \in Outcomes,
         ReceiveOutside(f, n)
  PROVE  WindowInv'
<1>1. Arrives(f) /\ UNCHANGED <<tx, sent, rx, last>>
  BY DEF ReceiveOutside
<1>2. Acked' = Acked /\ sent' >= sent /\ Acked \in Nat /\ Rcvd \in Nat /\ last \in Nat
  BY <1>1, QuietNumbers, RxCounts, WindowFacts
<1>3. /\ AckAgesOf(toTx', Acked, By, Lag) /\ toTx' \in Seq(Response)
      /\ faults' \in 0 .. Faults /\ Lag' \in Nat /\ Lag <= Lag'
  <2>1. CASE RepeatsAck(f.seq)
    <3> DEFINE d == [ack |-> TRUE, seq |-> LastAck]
    <3>1. Sends(toTx, toTx', d, n) /\ Spent(n)
      BY <2>1 DEF ReceiveOutside
    <3>2. d \in Response /\ d.seq = LastAck
      BY RxFields, WindowFacts DEF Response
    <3>3. AckedBy(LastAck) = last
      <4>1. LastAck = NumberOf(last - 1) /\ last - 1 \in Int
        BY <1>2, LastAckIs, WindowFacts
      <4>2. SEQ_DELTA(LastAck, LastAck) = 0
        BY <1>2, <4>1, DeltaAhead, Sizes
      <4> QED BY <1>2, <4>2 DEF AckedBy
    <3> HIDE DEF d
    <3> QED BY <3>1, <3>2, <3>3, Responds, LagSpent, WindowFacts
  <2>2. CASE ~RepeatsAck(f.seq)
    <3>1. UNCHANGED <<toTx, faults>>
      BY <2>2 DEF ReceiveOutside
    <3> QED BY <3>1, LagKept, WindowFacts
  <2> QED BY <2>1, <2>2
<1>4. AgesOf(toRx', Rcvd, rx.buf, Lag')
  BY <1>1, <1>2, <1>3, FrameLeaves, WindowFacts, AgesLag
<1>5. AckAgesOf(toTx', Acked, By, Lag')
  BY <1>2, <1>3, WindowFacts, AckAgesLag
<1> QED BY <1>1, <1>2, <1>3, <1>4, <1>5, ReceiverKept

-----------------------------------------------------------------------------
(* Data arrives. *)

\* A frame that the window accepts is one of the window's, not an old one with
\* the same number.
LEMMA FrameInRxWindow ==
  ASSUME NumbersOutlastFaults, SenderInv, WindowInv, NEW f, Arrives(f), InRxWindow(f.seq)
  PROVE  \E m \in Nat : f = Frame(m) /\ Rcvd <= m /\ m < last + WindowSize /\ m < sent
<1>1. PICK m \in 0 .. sent - 1 : f = Frame(m)
  BY Arrival DEF SenderInv
<1>2. f = toRx[1] /\ Len(toRx) \in Nat \ {0}
  BY Arrival DEF SenderInv
<1>3. /\ Rcvd \in Nat /\ last \in Nat /\ sent \in Nat /\ Lag \in Nat /\ Opened \in Nat /\ Acked \in Nat
      /\ Opened = (last + WindowSize) - Rcvd /\ sent <= Acked + WindowSize /\ Acked <= last /\ last <= Rcvd
      /\ Lag + 2 * WindowSize <= SeqNums /\ rx.seq = NumberOf(Rcvd)
  BY WindowFacts, RxCounts DEF RxNumbers
<1>4. m \in Nat /\ m < sent
  BY <1>1, <1>3
<1>5. Rcvd < m + 1 + WindowSize + Lag
  <2>1. 1 \in 1 .. Len(toRx)
    BY <1>2
  <2>2. Rcvd < toRx[1].msg + WindowSize + Lag
    BY <2>1, WindowFacts DEF AgesOf
  <2>3. toRx[1].msg = m + 1
    BY <1>1, <1>2 DEF Frame
  <2> QED BY <2>2, <2>3
<1> DEFINE d == SEQ_DELTA(rx.seq, f.seq)
<1>6. d \in 0 .. SeqNums - 1 /\ f.seq = NumberOf(Rcvd + d) /\ d < Opened
  <2>1. f.seq \in SeqNum
    BY Arrival DEF SenderInv
  <2>2. d < Opened
    BY DEF InRxWindow, SEQ_BETWEEN, Opened
  <2> QED BY <1>3, <2>1, <2>2, NumberAt
<1> HIDE DEF d
<1>7. NumberOf(m) = NumberOf(Rcvd + d) /\ Rcvd + d \in Nat
  BY <1>1, <1>3, <1>6, Sizes DEF Frame
<1>8. -SeqNums < m - (Rcvd + d) /\ m - (Rcvd + d) < SeqNums
  <2> DEFINE x == Rcvd
             lag == Lag
             open == Opened
             z == m - (x + d)
  <2>1. x \in Nat /\ lag \in Nat /\ open \in Nat /\ open <= WindowSize /\ d \in Nat /\ m \in Nat
    BY <1>3, <1>4, <1>6, Sizes
  <2>2. m < x + WindowSize
    BY <1>3, <1>4, Sizes
  <2>3. x <= m + WindowSize + lag /\ d < open /\ lag + 2 * WindowSize <= SeqNums
    BY <1>3, <1>4, <1>5, <1>6, Sizes
  <2> HIDE DEF x, lag, open
  <2>4. -SeqNums < z /\ z < SeqNums
    BY <2>1, <2>2, <2>3, Sizes
  <2> QED BY <2>4 DEF x
<1>9. m = Rcvd + d
  BY <1>4, <1>7, <1>8, NumberInjective
<1>10. Rcvd <= m /\ m < last + WindowSize
  <2>1. d \in Nat /\ d < (last + WindowSize) - Rcvd
    BY <1>3, <1>6, Sizes
  <2>2. Rcvd \in Nat /\ last + WindowSize \in Nat
    BY <1>3, Sizes
  <2> DEFINE x == Rcvd
             y == last + WindowSize
  <2> HIDE DEF x, y
  <2>3. x \in Nat /\ y \in Nat /\ d < y - x /\ m = x + d
    BY <1>9, <2>1, <2>2 DEF x, y
  <2>4. x <= m /\ m < y
    BY <2>1, <2>3
  <2> QED BY <2>4 DEF x, y
<1> QED BY <1>1, <1>4, <1>10

\* It goes to its slot, and RxSeqNum moves over the slots that are full.
LEMMA WindowCloses ==
  ASSUME SlotsWrapWithNumbers, NumbersOutlastFaults, SenderInv, WindowInv, NEW m \in Nat,
         Rcvd <= m, m < last + WindowSize, NEW nackSent \in BOOLEAN,
         rx' = CloseWindow([rx EXCEPT !.nackSent = nackSent, !.buf[SlotOf(m)] = m + 1])
  PROVE  \E k \in 0 .. Opened :
           /\ rx'.seq = NumberOf(Rcvd + k) /\ rx'.winEnd = rx.winEnd /\ rx'.next = rx.next
           /\ rx'.buf = [rx.buf EXCEPT ![SlotOf(m)] = m + 1]
           /\ \A p \in Rcvd .. Rcvd + k - 1 : rx'.buf[SlotOf(p)] # NoMsg
           /\ Rcvd + k < last + WindowSize => rx'.buf[SlotOf(Rcvd + k)] = NoMsg
<1> DEFINE r == [rx EXCEPT !.nackSent = nackSent, !.buf[SlotOf(m)] = m + 1]
<1>1. /\ Rcvd \in Nat /\ last \in Nat /\ Opened \in Nat /\ Opened = (last + WindowSize) - Rcvd
      /\ rx.seq = NumberOf(Rcvd) /\ rx \in Window
  BY WindowFacts, RxCounts, RxFields DEF RxNumbers
<1>2. /\ r \in Window /\ r.seq = rx.seq /\ r.winEnd = rx.winEnd /\ r.next = rx.next
      /\ r.buf = [rx.buf EXCEPT ![SlotOf(m)] = m + 1]
  <2> DEFINE t == SlotOf(m)
             v == m + 1
  <2>1. rx \in Window /\ v \in Nat /\ nackSent \in BOOLEAN
    BY <1>1
  <2> HIDE DEF t, v
  <2> DEFINE q == [rx EXCEPT !.nackSent = nackSent, !.buf[t] = v]
  <2>2. q \in Window /\ q.seq = rx.seq /\ q.winEnd = rx.winEnd /\ q.next = rx.next
        /\ q.buf = [rx.buf EXCEPT ![t] = v]
    BY ONLY <2>1 DEF Window
  <2> QED BY <2>2 DEF t, v
<1> HIDE DEF r
<1>3. PICK k \in 0 .. SEQ_DELTA(r.seq, r.winEnd) :
        /\ \A j \in 0 .. k - 1 : r.buf[Slot(SEQ_ADD(r.seq, j))] # NoMsg
        /\ k = SEQ_DELTA(r.seq, r.winEnd) \/ r.buf[Slot(SEQ_ADD(r.seq, k))] = NoMsg
        /\ CloseWindow(r) = [r EXCEPT !.seq = SEQ_ADD(r.seq, k)]
  BY <1>2, CloseWindowIs
<1>4. k \in 0 .. Opened /\ k \in Nat /\ (k = Opened \/ r.buf[Slot(SEQ_ADD(r.seq, k))] = NoMsg)
  BY <1>1, <1>2, <1>3 DEF Opened
<1>5. \A j \in Nat : SEQ_ADD(r.seq, j) = NumberOf(Rcvd + j) /\ Slot(SEQ_ADD(r.seq, j)) = SlotOf(Rcvd + j)
  <2> TAKE j \in Nat
  <2>1. SEQ_ADD(NumberOf(Rcvd), j) = NumberOf(Rcvd + j) /\ Rcvd + j \in Int
    BY <1>1, NumberAdd
  <2> QED BY <1>1, <1>2, <2>1, SlotOfNumber
<1>6. rx' = [r EXCEPT !.seq = SEQ_ADD(r.seq, k)]
  BY <1>3 DEF r
<1>7. rx'.seq = NumberOf(Rcvd + k) /\ rx'.winEnd = rx.winEnd /\ rx'.next = rx.next /\ rx'.buf = r.buf
  BY <1>2, <1>4, <1>5, <1>6 DEF Window
<1>8. ASSUME NEW p \in Rcvd .. Rcvd + k - 1
      PROVE  r.buf[SlotOf(p)] # NoMsg
  <2>1. p - Rcvd \in 0 .. k - 1 /\ p - Rcvd \in Nat /\ Rcvd + (p - Rcvd) = p
    BY <1>1, <1>4
  <2>2. r.buf[Slot(SEQ_ADD(r.seq, p - Rcvd))] # NoMsg
    BY <1>3, <2>1
  <2>3. Slot(SEQ_ADD(r.seq, p - Rcvd)) = SlotOf(Rcvd + (p - Rcvd))
    BY <1>5, <2>1
  <2> QED BY <2>1, <2>2, <2>3
<1>9. Rcvd + k < last + WindowSize => r.buf[SlotOf(Rcvd + k)] = NoMsg
  <2>1. Rcvd + k < last + WindowSize => k # Opened
    BY <1>1, <1>4, Sizes
  <2> QED BY <1>4, <1>5, <2>1
<1> QED BY <1>2, <1>4, <1>7, <1>8, <1>9

\* A new frame fills its own slot and no other.
LEMMA ReceiveDataWindow ==
  ASSUME SlotsWrapWithNumbers, NumbersOutlastFaults, SenderInv, WindowInv, TypeOK', NEW f,
         NEW n \in Outcomes, ReceiveData(f, n)
  PROVE  WindowInv'
<1>1. Arrives(f) /\ InRxWindow(f.seq) /\ UNCHANGED <<tx, sent, last>>
  BY DEF ReceiveData
<1>2. PICK m \in Nat : f = Frame(m) /\ Rcvd <= m /\ m < last + WindowSize /\ m < sent
  BY <1>1, FrameInRxWindow
<1>3. Slot(f.seq) = SlotOf(m) /\ f.msg = m + 1 /\ SlotOf(m) \in Slots
  BY <1>2, SlotOfNumber, NumberType DEF Frame
<1>4. /\ Rcvd \in Nat /\ last \in Nat /\ sent \in Nat /\ Lag \in Nat /\ Opened \in Nat /\ Acked \in Nat
      /\ Opened = (last + WindowSize) - Rcvd /\ Acked <= last /\ last <= Rcvd /\ Rcvd <= sent
      /\ Opened <= WindowSize /\ rx.buf \in [Slots -> Nat]
      /\ rx.winEnd = NumberOf(last + WindowSize) /\ rx.next = SlotOf(last)
  BY WindowFacts, RxCounts DEF RxNumbers
<1>5. PICK k \in 0 .. Opened :
        /\ rx'.seq = NumberOf(Rcvd + k) /\ rx'.winEnd = rx.winEnd /\ rx'.next = rx.next
        /\ rx'.buf = [rx.buf EXCEPT ![SlotOf(m)] = m + 1]
        /\ \A p \in Rcvd .. Rcvd + k - 1 : rx'.buf[SlotOf(p)] # NoMsg
        /\ Rcvd + k < last + WindowSize => rx'.buf[SlotOf(Rcvd + k)] = NoMsg
  <2> DEFINE b == (f.seq # rx.seq)
  <2>1. b \in BOOLEAN /\ rx' = CloseWindow([rx EXCEPT !.nackSent = b, !.buf[SlotOf(m)] = m + 1])
    BY <1>3 DEF ReceiveData
  <2> HIDE DEF b
  <2> QED BY <1>2, <2>1, WindowCloses
<1>6. k \in Nat /\ Rcvd + k \in Nat /\ Rcvd + k <= last + WindowSize
  BY <1>4, <1>5, Sizes
<1>7. Opened' = Opened - k
  <2>1. Opened' = SEQ_DELTA(NumberOf(Rcvd + k), NumberOf(last + WindowSize))
    BY <1>4, <1>5 DEF Opened, SEQ_DELTA
  <2>2. (last + WindowSize) - (Rcvd + k) = Opened - k /\ 0 <= Opened - k /\ Opened - k < SeqNums
        /\ last + WindowSize \in Int
    BY <1>4, <1>5, <1>6, Sizes
  <2> QED BY <1>6, <2>1, <2>2, DeltaAhead
<1>8. Rcvd' = Rcvd + k
  <2>1. Rcvd' = (last + WindowSize) - Opened'
    BY <1>1 DEF Rcvd
  <2> QED BY <1>4, <1>6, <1>7, <2>1, Sizes
\* What the slots of the window hold now.
<1>9. ASSUME NEW p \in last .. last + WindowSize - 1
      PROVE  /\ SlotOf(p) \in Slots /\ p \in Nat
             /\ rx'.buf[SlotOf(p)] = IF p = m THEN m + 1 ELSE rx.buf[SlotOf(p)]
  <2>1. p \in Nat /\ p \in Int /\ last <= p /\ p < last + WindowSize
    BY <1>4, Sizes
  <2>2. -WindowSize < p - m /\ p - m < WindowSize
    BY <1>2, <1>4, <2>1, Sizes
  <2>3. SlotOf(p) = SlotOf(m) => p = m
    BY <2>1, <2>2, SlotInjective
  <2>4. SlotOf(p) \in Slots
    BY <2>1, NumberType
  <2> QED BY <1>3, <1>4, <1>5, <2>1, <2>3, <2>4
<1>10. ASSUME NEW p \in last .. last + WindowSize - 1
       PROVE  rx'.buf[SlotOf(p)] \in {NoMsg, p + 1}
  <2>1. rx.buf[SlotOf(p)] \in {NoMsg, p + 1}
    BY WindowFacts DEF RxBuffers
  <2> QED BY <1>9, <2>1
<1>11. ASSUME NEW p \in last .. last + WindowSize - 1, p < Rcvd + k
       PROVE  rx'.buf[SlotOf(p)] = p + 1
  <2>1. CASE p < Rcvd
    <3>1. rx.buf[SlotOf(p)] = p + 1
      BY <2>1, WindowFacts DEF RxBuffers
    <3>2. p # m
      BY <1>2, <1>4, <1>9, <2>1
    <3> QED BY <1>9, <3>1, <3>2
  <2>2. CASE p >= Rcvd
    <3>1. p \in Rcvd .. Rcvd + k - 1
      BY <1>4, <1>6, <1>9, <1>11, <2>2
    <3> QED BY <1>5, <1>10, <3>1
  <2> QED BY <1>4, <1>9, <2>1, <2>2
<1>12. \A s \in Slots : rx'.buf[s] = rx.buf[s] \/ (rx'.buf[s] = f.msg /\ f.msg <= sent)
  BY <1>2, <1>3, <1>4, <1>5
<1>13. \A s \in Slots : rx'.buf[s] <= sent
  BY <1>12, WindowFacts DEF RxBuffers
<1>14. k = 0 \/ \E s \in Slots : Rcvd + k = rx'.buf[s]
  <2>1. CASE k # 0
    <3> DEFINE p == (Rcvd + k) - 1
    <3>1. p \in last .. last + WindowSize - 1 /\ p < Rcvd + k /\ p + 1 = Rcvd + k
      BY <1>4, <1>6, <2>1, Sizes
    <3> HIDE DEF p
    <3>2. rx'.buf[SlotOf(p)] = Rcvd + k /\ SlotOf(p) \in Slots
      BY <1>9, <1>11, <3>1
    <3> QED BY <3>2
  <2> QED BY <2>1
<1>15. Rcvd + k <= sent
  BY <1>4, <1>13, <1>14
<1>16. Acked' = Acked
  BY <1>1, QuietNumbers
<1>17. RxNumbers'
  <2>1. Opened' \in Nat /\ Opened' <= WindowSize /\ last <= Rcvd'
    BY <1>4, <1>5, <1>6, <1>7, <1>8, Sizes
  <2>2. rx'.winEnd = NumberOf(last' + WindowSize) /\ rx'.seq = NumberOf(Rcvd') /\ rx'.next = SlotOf(last')
    BY <1>1, <1>4, <1>5, <1>8
  <2>3. Acked' <= last' /\ last' <= Rcvd' /\ Rcvd' <= sent'
    BY <1>1, <1>4, <1>8, <1>15, <1>16, <2>1
  <2> QED BY <2>1, <2>2, <2>3 DEF RxNumbers, NumberOf, SlotOf
<1>18. RxBuffers'
  <2>1. \A p \in last .. last + WindowSize - 1 : p = Rcvd + k => rx'.buf[SlotOf(p)] = NoMsg
    BY <1>4, <1>5, <1>9, Sizes
  <2> QED BY <1>1, <1>8, <1>10, <1>11, <1>13, <2>1 DEF RxBuffers, SlotOf
<1>19. AgesOf(toRx', Rcvd', rx'.buf, Lag) /\ toRx' \in Seq(MsgFrame)
  <2>1. /\ toRx' \in Seq(MsgFrame) /\ Len(toRx) \in Nat \ {0} /\ f = toRx[1]
        /\ Len(toRx') = Len(toRx) - 1 /\ \A i \in 1 .. Len(toRx') : toRx'[i] = toRx[i + 1]
    BY <1>1, Arrival DEF SenderInv, MsgFrame
  <2>2. Lag \in Nat /\ toRx \in Seq(MsgFrame) /\ AgesOf(toRx, Rcvd, rx.buf, Lag)
    BY WindowFacts
  <2>3. Rcvd' = Rcvd \/ \E s \in Slots : Rcvd' = rx'.buf[s]
    BY <1>4, <1>8, <1>14
  <2>4. \A s \in Slots : rx'.buf[s] = rx.buf[s] \/ rx'.buf[s] = toRx[1].msg
    BY <1>12, <2>1
  <2> QED BY <2>1, <2>2, <2>3, <2>4, AgesTail
<1>20. /\ AckAgesOf(toTx', Acked, By, Lag) /\ toTx' \in Seq(Response)
       /\ faults' \in 0 .. Faults /\ Lag' \in Nat /\ Lag <= Lag'
  <2> DEFINE nack == f.seq # rx.seq /\ ~rx.nackSent
  <2>1. CASE nack
    <3> DEFINE d == [ack |-> FALSE, seq |-> rx.seq]
    <3>1. Sends(toTx, toTx', d, n) /\ Spent(n)
      BY <2>1 DEF ReceiveData
    <3>2. d \in Response /\ ~d.ack
      BY RxFields, WindowFacts DEF Response
    <3> HIDE DEF d
    <3> QED BY <3>1, <3>2, Responds, LagSpent, WindowFacts
  <2>2. CASE ~nack
    <3>1. UNCHANGED <<toTx, faults>>
      BY <2>2 DEF ReceiveData
    <3> QED BY <3>1, LagKept, WindowFacts
  <2> QED BY <2>1, <2>2
<1>21. By' = By
  BY <1>1, <1>5 DEF By, AckedBy, LastAck
<1>22. FrameAges'
  <2>1. rx'.buf \in [Slots -> Nat] /\ Rcvd' \in Nat
    BY <1>6, <1>8 DEF TypeOK
  <2>2. AgesOf(toRx', Rcvd', rx'.buf, Lag')
    BY <1>4, <1>19, <1>20, <2>1, AgesLag
  <2> QED BY <2>2, FrameAgesIsNext
<1>23. AckAges'
  <2>1. AckAgesOf(toTx', Acked, By, Lag')
    BY <1>4, <1>20, WindowFacts, AckAgesLag
  <2> QED BY <1>16, <1>21, <2>1, AckAgesIsNext
<1> QED BY <1>17, <1>18, <1>20, <1>22, <1>23 DEF WindowInv

-----------------------------------------------------------------------------
(* KITLRecv. *)

\* The message handed out is the next one, and there is one before a gap.
LEMMA NextMessage ==
  ASSUME NumbersOutlastFaults, SenderInv, WindowInv, rx.buf[rx.next] # NoMsg
  PROVE  rx.next = SlotOf(last) /\ rx.buf[rx.next] = last + 1 /\ last < Rcvd
<1>1. last \in Nat /\ Rcvd \in Nat /\ last <= Rcvd /\ rx.next = SlotOf(last)
  BY WindowFacts, RxCounts DEF RxNumbers
<1>2. last \in last .. last + WindowSize - 1
  BY <1>1, Sizes
<1>3. rx.buf[SlotOf(last)] \in {NoMsg, last + 1} /\ (last = Rcvd => rx.buf[SlotOf(last)] = NoMsg)
  BY <1>2, WindowFacts DEF RxBuffers
<1> QED BY <1>1, <1>3

\* The numbers at which the ACKs under way point are counted from one message
\* more, and so say what they did.
LEMMA AcksKeep ==
  ASSUME NumbersOutlastFaults, SenderInv, WindowInv, last < Rcvd, last' = last + 1,
         LastAck' = NumberOf(last), NEW seq \in SeqNum, Acked <= AckedBy(seq) + Lag
  PROVE  last' - SEQ_DELTA(seq, LastAck') = AckedBy(seq)
<1> DEFINE a == AckedBy(seq)
<1>1. a \in Int /\ a <= last /\ seq = NumberOf(a - 1) /\ a - 1 \in Int
  BY WindowFacts, AckedByIs
<1>2. /\ Acked \in Nat /\ sent \in Nat /\ last \in Nat /\ Lag \in Nat /\ Rcvd \in Nat /\ Rcvd <= sent
      /\ sent <= Acked + WindowSize /\ Lag + 2 * WindowSize <= SeqNums
  BY WindowFacts, RxCounts
<1>3. Acked <= a + Lag
  OBVIOUS
<1> HIDE DEF a
<1>4. 0 <= last - (a - 1) /\ last - (a - 1) < SeqNums
  BY <1>1, <1>2, <1>3, Sizes
<1>5. SEQ_DELTA(seq, LastAck') = last - (a - 1)
  BY <1>1, <1>2, <1>4, DeltaAhead
<1>6. (last + 1) - (last - (a - 1)) = a
  BY <1>1, <1>2
<1> QED BY <1>5, <1>6 DEF a

\* The slot handed out is that of the message that enters the window.
LEMMA BuffersShift ==
  ASSUME NumbersOutlastFaults, SenderInv, WindowInv, last < Rcvd, last' = last + 1, sent' = sent,
         Rcvd' = Rcvd, rx'.buf = [rx.buf EXCEPT ![SlotOf(last)] = NoMsg]
  PROVE  RxBuffers'
<1>1. /\ last \in Nat /\ Rcvd \in Nat /\ last <= Rcvd /\ Rcvd <= last + WindowSize /\ sent \in Nat
      /\ rx.buf \in [Slots -> Nat] /\ RxBuffers
  BY WindowFacts, RxCounts
<1>2. \A s \in Slots : rx'.buf[s] <= sent'
  BY <1>1 DEF RxBuffers, NoMsg
<1>3. ASSUME NEW p \in last + 1 .. last + WindowSize
      PROVE  /\ rx'.buf[SlotOf(p)] \in {NoMsg, p + 1}
             /\ p < Rcvd => rx'.buf[SlotOf(p)] = p + 1
             /\ p = Rcvd => rx'.buf[SlotOf(p)] = NoMsg
  <2>1. p \in Int /\ last + 1 <= p /\ p <= last + WindowSize
    BY <1>1, Sizes
  <2>2. SlotOf(p) \in Slots /\ SlotOf(last) \in Slots
    BY <1>1, <2>1, NumberType
  <2>3. CASE p = last + WindowSize
    <3>1. SlotOf(last + (WindowSize * 1)) = SlotOf(last)
      BY <1>1, NumberShift
    <3>2. SlotOf(p) = SlotOf(last)
      BY <2>3, <3>1, Sizes
    <3>3. rx'.buf[SlotOf(p)] = NoMsg
      BY <1>1, <2>2, <3>2
    <3> QED BY <1>1, <2>1, <2>3, <3>3
  <2>4. CASE p < last + WindowSize
    <3>1. p \in last .. last + WindowSize - 1
      BY <1>1, <2>1, <2>4, Sizes
    <3>2. -WindowSize < p - last /\ p - last < WindowSize /\ p # last
      BY <1>1, <2>1, <2>4, Sizes
    <3>3. SlotOf(p) # SlotOf(last)
      BY <1>1, <2>1, <3>2, SlotInjective
    <3>4. rx'.buf[SlotOf(p)] = rx.buf[SlotOf(p)]
      BY <1>1, <2>2, <3>3
    <3> QED BY <1>1, <3>1, <3>4 DEF RxBuffers
  <2> QED BY <1>1, <2>1, <2>3, <2>4, Sizes
<1>4. last' .. last' + WindowSize - 1 = last + 1 .. last + WindowSize
  BY <1>1, Sizes
<1> QED BY <1>2, <1>3, <1>4 DEF RxBuffers, SlotOf

\* The message handed out is the next, and its ACK says so.
LEMMA RecvMessageWindow ==
  ASSUME NumbersOutlastFaults, SenderInv, WindowInv, TypeOK', NEW r \in Readers,
         NEW n \in Outcomes, RecvMessage(r, n)
  PROVE  WindowInv'
<1>1. /\ rx.buf[rx.next] # NoMsg /\ last' = rx.buf[rx.next] /\ UNCHANGED <<tx, sent, toRx>>
      /\ rx' = [rx EXCEPT !.buf[rx.next] = NoMsg, !.next = (@ + 1) % WindowSize,
                          !.winEnd = SEQ_ADD(@, 1)]
  BY DEF RecvMessage
<1>2. rx.next = SlotOf(last) /\ last' = last + 1 /\ last < Rcvd
  BY <1>1, NextMessage
<1>3. /\ Rcvd \in Nat /\ last \in Nat /\ sent \in Nat /\ Lag \in Nat /\ Opened \in Nat /\ Acked \in Nat
      /\ Opened = (last + WindowSize) - Rcvd /\ Acked <= last /\ Rcvd <= sent
      /\ rx.seq = NumberOf(Rcvd) /\ rx.winEnd = NumberOf(last + WindowSize)
      /\ Opened <= WindowSize /\ sent <= Acked + WindowSize /\ rx \in Window
  BY WindowFacts, RxCounts, RxFields DEF RxNumbers
<1>4. /\ rx'.seq = rx.seq /\ rx'.winEnd = SEQ_ADD(rx.winEnd, 1) /\ rx'.next = (rx.next + 1) % WindowSize
      /\ rx'.buf = [rx.buf EXCEPT ![rx.next] = NoMsg]
  BY <1>1, <1>3 DEF Window
<1>5. rx'.winEnd = NumberOf((last + 1) + WindowSize) /\ rx'.next = SlotOf(last + 1)
  <2>1. last \in Int /\ last + WindowSize \in Int /\ 1 \in Int /\ (last + WindowSize) + 1 = (last + 1) + WindowSize
    BY <1>3, Sizes
  <2>2. SEQ_ADD(NumberOf(last + WindowSize), 1) = NumberOf((last + WindowSize) + 1)
    BY <2>1, NumberAdd
  <2>3. (SlotOf(last) + 1) % WindowSize = SlotOf(last + 1)
    BY <2>1, NumberAdd
  <2> QED BY <1>2, <1>3, <1>4, <2>1, <2>2, <2>3
<1>6. Opened' = Opened + 1 /\ Opened' <= WindowSize
  <2>1. Opened' = SEQ_DELTA(NumberOf(Rcvd), NumberOf((last + 1) + WindowSize))
    BY <1>3, <1>4, <1>5 DEF Opened, SEQ_DELTA
  <2>2. /\ (last + 1) + WindowSize \in Int /\ ((last + 1) + WindowSize) - Rcvd = Opened + 1
        /\ 0 <= Opened + 1 /\ Opened + 1 <= WindowSize /\ Opened + 1 < SeqNums
    BY <1>2, <1>3, Sizes
  <2> QED BY <1>3, <2>1, <2>2, DeltaAhead
<1>7. Rcvd' = Rcvd
  <2>1. Rcvd' = ((last + 1) + WindowSize) - Opened'
    BY <1>2 DEF Rcvd
  <2> QED BY <1>3, <1>6, <2>1, Sizes
<1>8. Acked' = Acked
  BY <1>1, QuietNumbers
<1>9. RxNumbers'
  <2>1. Acked <= last + 1 /\ last + 1 <= Rcvd
    BY <1>2, <1>3
  <2> QED BY <1>1, <1>2, <1>3, <1>4, <1>5, <1>6, <1>7, <1>8, <2>1 DEF RxNumbers, NumberOf, SlotOf
<1>10. RxBuffers'
  BY <1>1, <1>2, <1>4, <1>7, BuffersShift
<1>11. Sends(toTx, toTx', [ack |-> TRUE, seq |-> SEQ_ADD(LastAck, 1)], n) /\ Spent(n)
  BY DEF RecvMessage
<1>12. faults' \in 0 .. Faults /\ Lag' \in Nat /\ Lag <= Lag'
  BY <1>11, WindowFacts, LagSpent
<1>13. FrameAges'
  <2>1. Len(toRx) \in Nat /\ \A i \in 1 .. Len(toRx) : toRx[i].msg \in Nat
    BY WindowFacts
  <2>2. \A s \in Slots : rx'.buf[s] = rx.buf[s] \/ rx'.buf[s] = 0
    BY <1>3, <1>4, RxFields, WindowFacts DEF NoMsg
  <2>3. \A x \in Nat : 0 < x + WindowSize + Lag
    BY <1>3, Sizes
  <2>4. AgesOf(toRx, Rcvd, rx'.buf, Lag)
    <3>1. AgesOf(toRx, Rcvd, rx.buf, Lag)
      BY WindowFacts
    <3> QED BY <2>1, <2>2, <2>3, <3>1 DEF AgesOf
  <2>5. rx'.buf \in [Slots -> Nat]
    BY DEF TypeOK
  <2>6. AgesOf(toRx, Rcvd, rx'.buf, Lag')
    BY <1>3, <1>12, <2>4, <2>5, WindowFacts, AgesLag
  <2> QED BY <1>1, <1>7, <2>6, FrameAgesIsNext
<1>14. LastAck' = NumberOf(last) /\ LastAck' \in SeqNum
  <2>1. last + 1 \in Int /\ (last + 1) - 1 = last /\ last \in Int
    BY <1>3
  <2>2. LastAck' = SEQ_ADD(NumberOf((last + 1) + WindowSize), 2 * SeqNums - WindowSize - 1)
    BY <1>5 DEF LastAck, SEQ_ADD
  <2>3. LastAck' = NumberOf((last + 1) - 1)
    BY <2>1, <2>2, LastAckOf
  <2> QED BY <2>1, <2>3, NumberType
<1>15. By' \in [SeqNum -> Int] /\ \A seq \in SeqNum : By'[seq] = last' - SEQ_DELTA(seq, LastAck')
  <2>1. By' = [seq \in SeqNum |-> last' - SEQ_DELTA(seq, LastAck')]
    BY DEF By, AckedBy, SEQ_DELTA, SeqNum
  <2>2. \A seq \in SeqNum : SEQ_DELTA(seq, LastAck') \in Nat
    BY <1>14, DeltaType
  <2>3. last' \in Int
    BY <1>2, <1>3
  <2> QED BY <2>1, <2>2, <2>3
<1>16. AckAges'
  <2> DEFINE d == [ack |-> TRUE, seq |-> SEQ_ADD(LastAck, 1)]
  <2>1. SEQ_ADD(LastAck, 1) = NumberOf(last) /\ NumberOf(last) \in SeqNum
    BY <1>3, LastAckIs, NumberType, WindowFacts
  <2>2. d \in Response /\ d.seq = NumberOf(last)
    BY <2>1 DEF Response
  <2>3. By'[NumberOf(last)] = last + 1
    <3>1. SEQ_DELTA(NumberOf(last), NumberOf(last)) = 0
      BY <1>3, DeltaAhead, Sizes
    <3> QED BY <1>2, <1>3, <1>14, <1>15, <2>1, <3>1
  <2>4. ASSUME NEW i \in 1 .. Len(toTx), toTx[i].ack
        PROVE  By'[toTx[i].seq] = By[toTx[i].seq] /\ By[toTx[i].seq] <= last + 1
    <3>1. toTx[i].seq \in SeqNum
      BY WindowFacts, ResponsesSeq
    <3>2. By[toTx[i].seq] = AckedBy(toTx[i].seq) /\ AckedBy(toTx[i].seq) \in Int /\ AckedBy(toTx[i].seq) <= last
      BY <3>1, WindowFacts, AckedByIs
    <3>3. Acked <= AckedBy(toTx[i].seq) + Lag
      BY <2>4, <3>2, WindowFacts DEF AckAgesOf
    <3>4. By'[toTx[i].seq] = AckedBy(toTx[i].seq)
      BY <1>2, <1>14, <1>15, <3>1, <3>3, AcksKeep
    <3> QED BY <1>3, <3>2, <3>4
  <2>5. last + 1 \in Nat /\ Acked <= last + 1
    BY <1>3
  <2>6. Sends(toTx, toTx', d, n) /\ (d.ack => By'[d.seq] = last + 1)
    BY <1>11, <2>2, <2>3
  <2> HIDE DEF d
  <2>7. AckAgesOf(toTx', Acked, By', Lag)
    BY <1>3, <1>15, <2>2, <2>4, <2>5, <2>6, WindowFacts, AckAgesSends
  <2>8. toTx' \in Seq(Response)
    <3>1. toTx \in Seq(Response) /\ d \in Response /\ n \in Outcomes
      BY <2>2, WindowFacts
    <3> QED BY ONLY <2>6, <3>1, SendsStays
  <2>9. AckAgesOf(toTx', Acked, By', Lag')
    BY <1>3, <1>12, <1>15, <2>7, <2>8, AckAgesLag
  <2> QED BY <1>8, <2>9, AckAgesIsNext
<1> QED BY <1>9, <1>10, <1>12, <1>13, <1>16 DEF WindowInv

-----------------------------------------------------------------------------
(* The theorems. *)

\* Every step keeps both invariants.
LEMMA WindowStep ==
  ASSUME SlotsWrapWithNumbers, NumbersOutlastFaults, SenderInv, WindowInv, [Next]_vars
  PROVE  SenderInv' /\ WindowInv'
<1>1. SenderInv' /\ TypeOK'
  BY SenderStep DEF SenderInv
<1>2. ASSUME NEW s \in Senders, SendStep(s) \/ SendTimesOut(s)
      PROVE  WindowInv'
  <2>1. CASE SendBlocks(s) \/ SendWaits(s) \/ SendTimesOut(s)
    BY <1>1, <2>1, WaitsWindow DEF SendBlocks, SendWaits, SendTimesOut
  <2> QED BY <1>1, <1>2, <2>1, SendFailsWindow, SendFrameWindow DEF SendStep
<1>3. ASSUME NEW r \in Readers, RecvStep(r) \/ RecvTimesOut(r)
      PROVE  WindowInv'
  <2>1. CASE RecvBlocks(r) \/ RecvWaits(r) \/ RecvTimesOut(r)
    BY <1>1, <2>1, WaitsWindow DEF RecvBlocks, RecvWaits, RecvTimesOut
  <2> QED BY <1>1, <1>3, <2>1, RecvMessageWindow DEF RecvStep
<1>4. ASSUME NEW i \in Slots, TimerExpires(i)
      PROVE  WindowInv'
  BY <1>1, <1>4, WaitsWindow DEF TimerExpires
<1>5. ASSUME TimerStep
      PROVE  WindowInv'
  <2>1. CASE TimerReinserts
    BY <1>1, <2>1, WaitsWindow DEF TimerReinserts
  <2> QED BY <1>1, <1>5, <2>1, RetransmitFrameWindow DEF TimerStep
<1>6. ASSUME FromRx
      PROVE  WindowInv'
  BY <1>1, <1>6, ReceiveAckWindow, ReceiveNackWindow DEF FromRx
<1>7. ASSUME FromTx
      PROVE  WindowInv'
  BY <1>1, <1>7, ReceiveOutsideWindow, ReceiveDuplicateWindow, ReceiveDataWindow DEF FromTx
<1>8. ASSUME Reorder
      PROVE  WindowInv'
  BY <1>1, <1>8, ReorderWindow
<1>9. ASSUME UNCHANGED vars
      PROVE  WindowInv'
  BY <1>1, <1>9, WaitsWindow DEF vars
<1> QED BY <1>1, <1>2, <1>3, <1>4, <1>5, <1>6, <1>7, <1>8, <1>9 DEF Next

\* Both ends stay within a window of each other, and no frame and no ACK under way
\* is so old that its number could be taken for another message's.
THEOREM WindowInvariant ==
  ASSUME SlotsWrapWithNumbers, NumbersOutlastFaults
  PROVE  Spec => [](SenderInv /\ WindowInv)
<1>1. Init => SenderInv /\ WindowInv
  BY SenderInit, WindowInit
<1>2. SenderInv /\ WindowInv /\ [Next]_vars => (SenderInv /\ WindowInv)'
  BY WindowStep
<1> QED BY <1>1, <1>2, PTL DEF Spec

\* A message is accepted only when it is within a window of the one read last, one
\* is handed out only after the one before it, and only SendFrame and RecvMessage
\* do either.
LEMMA ChannelStep ==
  ASSUME SlotsWrapWithNumbers, SenderInv, WindowInv, NumbersOutlastFaults, [Next]_vars
  PROVE  [Channel!Next]_Channel!cvars
<1>1. /\ sent \in Nat /\ last \in Nat /\ Acked \in Nat /\ Rcvd \in Nat /\ Acked <= last /\ Rcvd <= sent
      /\ sent = Acked + Outstanding /\ Outstanding \in Nat
  BY WindowFacts, RxCounts, TxFields
<1>2. ASSUME NEW s \in Senders, NEW n \in Outcomes, SendFrame(s, n)
      PROVE  Channel!Send
  <2>1. Outstanding < WindowSize
    BY <1>1, <1>2, Sizes DEF SendFrame, WindowFull
  <2>2. sent - last < WindowSize
    BY <1>1, <2>1, Sizes
  <2> QED BY <1>2, <2>2 DEF SendFrame, Channel!Send
<1>3. ASSUME NEW r \in Readers, NEW n \in Outcomes, RecvMessage(r, n)
      PROVE  Channel!Recv
  <2>1. rx.buf[rx.next] # NoMsg /\ last' = rx.buf[rx.next] /\ UNCHANGED sent
    BY <1>3 DEF RecvMessage
  <2>2. last' = last + 1 /\ last < sent
    BY <1>1, <2>1, NextMessage
  <2> QED BY <2>1, <2>2 DEF Channel!Recv
<1>4. ASSUME NEW s \in Senders, SendStep(s) \/ SendTimesOut(s)
      PROVE  Channel!Send \/ UNCHANGED <<sent, last>>
  BY <1>2, <1>4 DEF SendStep, SendBlocks, SendFails, SendWaits, SendTimesOut
<1>5. ASSUME NEW r \in Readers, RecvStep(r) \/ RecvTimesOut(r)
      PROVE  Channel!Recv \/ UNCHANGED <<sent, last>>
  BY <1>3, <1>5 DEF RecvStep, RecvBlocks, RecvWaits, RecvTimesOut
<1>6. ASSUME (\E i \in Slots : TimerExpires(i)) \/ TimerStep \/ FromRx \/ FromTx \/ Reorder \/ UNCHANGED vars
      PROVE  UNCHANGED <<sent, last>>
  BY <1>6 DEF TimerExpires, TimerStep, TimerReinserts, RetransmitFrame, FromRx, ReceiveAck, ReceiveNack,
              FromTx, ReceiveOutside, ReceiveDuplicate, ReceiveData, Reorder, vars
<1> QED BY <1>4, <1>5, <1>6 DEF Next, Channel!Next, Channel!cvars

\* KITL delivers what it accepted, once each and in order, and holds no more than
\* a window of it.
THEOREM ChannelImplemented ==
  ASSUME SlotsWrapWithNumbers, NumbersOutlastFaults
  PROVE  Spec => ImplementsChannel
<1>1. Init => Channel!Init
  BY DEF Init, Channel!Init
<1>2. SenderInv /\ WindowInv /\ [Next]_vars => [Channel!Next]_Channel!cvars
  BY ChannelStep
<1> QED BY <1>1, <1>2, WindowInvariant, PTL DEF Spec, ImplementsChannel, Channel!Spec
=============================================================================
