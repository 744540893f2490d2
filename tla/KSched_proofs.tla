---------------------------- MODULE KSched_proofs ----------------------------
(***************************************************************************)
(* Lemmas about the scheduler's operators: each returns a scheduler record *)
(* when it is given one, and keeps the promises of the run queue (SchedOK: *)
(* RunListConsistent and BestThreadRuns) when its own demands are met; a   *)
(* set of priorities has a best one; a queue ordered by priority stays so  *)
(* when threads join and leave it.  The proofs of a component that         *)
(* composes these operators cite them by name and never expand an operator *)
(* again.                                                                  *)
(***************************************************************************)
EXTENDS KSched, SequenceTheorems, FiniteSetTheorems, TLAPS

(***************************************************************************)
(* A nonempty set of priorities has a least element.  Induction is not     *)
(* available, but 256 is a power of two: what holds for sets within n      *)
(* consecutive numbers holds for sets within 2n, and eight steps suffice.  *)
(***************************************************************************)
HasLeast(T) == \E m \in T : \A y \in T : m <= y

LeastWithin(n) == \A a \in Nat : \A T \in SUBSET (a .. a + n - 1) : T # {} => HasLeast(T)

\* Among the numbers of an interval of length 2n, those of its lower half come first.
LEMMA LeastDoubles ==
  ASSUME NEW n \in Nat, LeastWithin(n)
  PROVE  LeastWithin(2 * n)
<1> SUFFICES ASSUME NEW a \in Nat, NEW T \in SUBSET (a .. a + 2 * n - 1), T # {}
             PROVE  HasLeast(T)
  BY DEF LeastWithin
<1> DEFINE Low == T \intersect (a .. a + n - 1)
<1>1. CASE Low # {}
  <2>1. PICK m \in Low : \A y \in Low : m <= y
    BY <1>1 DEF LeastWithin, HasLeast
  <2>2. \A y \in T : m <= y
    BY <2>1
  <2> QED BY <2>2 DEF HasLeast
<1>2. CASE Low = {}
  <2>1. T \in SUBSET (a + n .. (a + n) + n - 1)
    BY <1>2
  <2> QED BY <2>1, a + n \in Nat DEF LeastWithin
<1> QED BY <1>1, <1>2

\* Min of a nonempty set of priorities is one of them, and the best.
LEMMA MinPriority ==
  ASSUME NEW S \in SUBSET Priority, S # {}
  PROVE  Min(S) \in S /\ \A y \in S : Min(S) <= y
<1>1. LeastWithin(1)
  <2> SUFFICES ASSUME NEW a \in Nat, NEW T \in SUBSET (a .. a + 1 - 1), T # {}
               PROVE  HasLeast(T)
    BY DEF LeastWithin
  <2>1. \A y \in T : y = a
    OBVIOUS
  <2>2. a \in T
    BY <2>1
  <2> QED BY <2>1, <2>2 DEF HasLeast
<1>2. LeastWithin(2 * 1)   BY <1>1, LeastDoubles
<1>3. LeastWithin(2 * 2)   BY <1>2, LeastDoubles
<1>4. LeastWithin(2 * 4)   BY <1>3, LeastDoubles
<1>5. LeastWithin(2 * 8)   BY <1>4, LeastDoubles
<1>6. LeastWithin(2 * 16)  BY <1>5, LeastDoubles
<1>7. LeastWithin(2 * 32)  BY <1>6, LeastDoubles
<1>8. LeastWithin(2 * 64)  BY <1>7, LeastDoubles
<1>9. LeastWithin(2 * 128) BY <1>8, LeastDoubles
<1>10. S \in SUBSET (0 .. 0 + 256 - 1)
  BY DEF Priority, MAX_PRIORITY_LEVELS
<1>11. HasLeast(S)
  BY <1>9, <1>10 DEF LeastWithin
<1> QED BY <1>11 DEF HasLeast, Min

(***************************************************************************)
(* Priority-ordered queues.                                                *)
(***************************************************************************)
\* An insertion point counted from a queue's members is within the queue.
LEMMA CountWithin ==
  ASSUME NEW q \in Seq(Threads), NEW I \in SUBSET DOMAIN q
  PROVE  Cardinality(I) \in 0 .. Len(q)
<1>1. DOMAIN q = 1 .. Len(q) /\ Len(q) \in Nat
  BY LenProperties
<1>2. IsFiniteSet(1 .. Len(q)) /\ Cardinality(1 .. Len(q)) = Len(q)
  <2>1. 1 \in Int /\ Len(q) \in Int /\ (IF 1 > Len(q) THEN 0 ELSE Len(q) - 1 + 1) = Len(q)
    BY <1>1
  <2> QED BY <2>1, FS_Interval
<1>3. IsFiniteSet(I) /\ Cardinality(I) <= Len(q)
  BY <1>1, <1>2, FS_Subset
<1> QED BY <1>1, <1>3, FS_CardinalityType

\* Inserting into a queue of threads gives a queue of threads.
LEMMA InsertAtType ==
  ASSUME NEW q \in Seq(Threads), NEW t \in Threads, NEW i \in 1 .. Len(q) + 1
  PROVE  InsertAt(q, i, t) \in Seq(Threads)
<1>1. Len(q) \in Nat /\ \A j \in 1 .. Len(q) : q[j] \in Threads
  BY LenProperties, ElementOfSeq
<1>2. SubSeq(q, 1, i - 1) \in Seq(Threads) /\ SubSeq(q, i, Len(q)) \in Seq(Threads)
  BY <1>1, SubSeqProperties
<1>3. <<t>> \in Seq(Threads)
  OBVIOUS
<1>4. SubSeq(q, 1, i - 1) \o <<t>> \in Seq(Threads)
  BY <1>2, <1>3, ConcatProperties
<1> QED BY <1>2, <1>4, ConcatProperties DEF InsertAt

\* So does inserting by priority.
LEMMA InsertType ==
  ASSUME NEW q \in Seq(Threads), NEW prio, NEW t \in Threads
  PROVE  InsertBehind(q, prio, t) \in Seq(Threads) /\ InsertAhead(q, prio, t) \in Seq(Threads)
<1> DEFINE B == {i \in DOMAIN q : prio[q[i]] <= prio[t]}
           A == {i \in DOMAIN q : prio[q[i]] < prio[t]}
<1>1. Cardinality(B) \in 0 .. Len(q) /\ Cardinality(A) \in 0 .. Len(q)
  <2>1. B \in SUBSET DOMAIN q /\ A \in SUBSET DOMAIN q
    OBVIOUS
  <2> QED BY <2>1, CountWithin
<1>2. 1 + Cardinality(B) \in 1 .. Len(q) + 1 /\ 1 + Cardinality(A) \in 1 .. Len(q) + 1
  BY <1>1, LenProperties
<1> QED BY <1>2, InsertAtType DEF InsertBehind, InsertAhead

\* So does taking one out.
LEMMA WithoutType ==
  ASSUME NEW q \in Seq(Threads), NEW t
  PROVE  Without(q, t) \in Seq(Threads)
<1> SUFFICES ASSUME t \in ToSet(q)
             PROVE  RemoveAt(q, IndexOf(q, t)) \in Seq(Threads)
  BY DEF Without
<1>1. Len(q) \in Nat /\ DOMAIN q = 1 .. Len(q) /\ \A j \in 1 .. Len(q) : q[j] \in Threads
  BY LenProperties, ElementOfSeq
<1>2. IndexOf(q, t) \in 1 .. Len(q)
  BY <1>1 DEF IndexOf, ToSet
<1> DEFINE i == IndexOf(q, t)
<1> HIDE DEF i
<1>3. SubSeq(q, 1, i - 1) \in Seq(Threads) /\ SubSeq(q, i + 1, Len(q)) \in Seq(Threads)
  BY <1>1, <1>2, SubSeqProperties DEF i
<1> QED BY <1>3, ConcatProperties DEF RemoveAt, i

(***************************************************************************)
(* The scheduler's operators.                                              *)
(***************************************************************************)
LEMMA SetRescheduleType ==
  ASSUME NEW s \in SchedType
  PROVE  SetReschedule(s) \in SchedType
BY DEF SetReschedule, SchedType

\* MakeRun keeps the type.
LEMMA MakeRunType ==
  ASSUME NEW s \in SchedType, NEW t \in Threads
  PROVE  MakeRun(s, t) \in SchedType
<1> DEFINE q == InsertBehind(s.runq, s.cprio, t)
<1>1. q \in Seq(Threads)
  BY InsertType DEF SchedType
<1> DEFINE r == s.resched \/ ((s.runq = << >> \/ s.cprio[t] < s.cprio[Head(s.runq)])
                              /\ (s.running = NoThread \/ s.cprio[t] < s.cprio[s.running]))
<1>2. MakeRun(s, t) = [s EXCEPT !.rs[t] = "RUNNABLE", !.runq = q, !.resched = r]
  BY DEF MakeRun, SchedType
<1>3. r \in BOOLEAN
  BY Zenon DEF SchedType
<1>4. ASSUME NEW qq \in Seq(Threads), NEW rr \in BOOLEAN
      PROVE  [s EXCEPT !.rs[t] = "RUNNABLE", !.runq = qq, !.resched = rr] \in SchedType
  BY DEF SchedType, RunState
<1> HIDE DEF q, r
<1> QED BY <1>1, <1>2, <1>3, <1>4

\* RunqDequeue keeps the type.
LEMMA RunqDequeueType ==
  ASSUME NEW s \in SchedType, NEW t
  PROVE  RunqDequeue(s, t) \in SchedType
BY WithoutType DEF RunqDequeue, SchedType

\* So does marking a thread as one to be run.
LEMMA NeedsRunType ==
  ASSUME NEW s \in SchedType, NEW t
  PROVE  [s EXCEPT !.rs[t] = "NEEDSRUN"] \in SchedType
BY DEF SchedType, RunState

\* Setting a priority keeps the type.
LEMMA SetPrioType ==
  ASSUME NEW s \in SchedType, NEW t, NEW prio \in Priority
  PROVE  [s EXCEPT !.cprio[t] = prio] \in SchedType
BY DEF SchedType

\* Blocking the running thread keeps the type.
LEMMA BlockCurrentType ==
  ASSUME NEW s \in SchedType
  PROVE  BlockCurrent(s) \in SchedType
BY DEF BlockCurrent, SchedType, RunState

\* ThreadYield keeps the type.
LEMMA ThreadYieldType ==
  ASSUME NEW s \in SchedType, s.running \in Threads
  PROVE  ThreadYield(s) \in SchedType
<1>1. [s EXCEPT !.running = NoThread] \in SchedType
  BY DEF SchedType
<1> QED BY <1>1, SetRescheduleType, MakeRunType DEF ThreadYield

\* BoostCPrio keeps the type.
LEMMA BoostCPrioType ==
  ASSUME NEW s \in SchedType, NEW t \in Threads, NEW prio \in Priority
  PROVE  BoostCPrio(s, t, prio) \in SchedType
BY SetPrioType, RunqDequeueType, MakeRunType DEF BoostCPrio

\* Lowering the running thread keeps the type.
LEMMA SetRunningPrioType ==
  ASSUME NEW s \in SchedType, NEW prio \in Priority
  PROVE  SetRunningPrio(s, prio) \in SchedType
BY SetPrioType, SetRescheduleType DEF SetRunningPrio

\* MakeRunIfNeeded keeps the type.
LEMMA MakeRunIfNeededType ==
  ASSUME NEW s \in SchedType, NEW t \in Threads
  PROVE  MakeRunIfNeeded(s, t) \in SchedType
BY MakeRunType DEF MakeRunIfNeeded

\* Putting the running thread back keeps the type.
LEMMA PutBackCurrentType ==
  ASSUME NEW s \in SchedType, NEW bQuantExpired
  PROVE  PutBackCurrent(s, bQuantExpired) \in SchedType
<1> DEFINE queued(q) == [s EXCEPT !.running = NoThread, !.rs[s.running] = "RUNNABLE", !.runq = q]
<1>1. ASSUME NEW q \in Seq(Threads)
      PROVE  queued(q) \in SchedType
  BY DEF SchedType, RunState
<1>2. CASE s.running = NoThread \/ s.runq = << >>
  BY <1>2 DEF PutBackCurrent
<1>3. CASE ~(s.running = NoThread \/ s.runq = << >>)
  <2>1. /\ InsertBehind(s.runq, s.cprio, s.running) \in Seq(Threads)
        /\ InsertAhead(s.runq, s.cprio, s.running) \in Seq(Threads)
    BY <1>3, InsertType DEF SchedType
  <2> QED BY <1>1, <1>3, <2>1, Zenon DEF PutBackCurrent
<1> QED BY <1>2, <1>3

\* Dispatch keeps the type.
LEMMA DispatchType ==
  ASSUME NEW s \in SchedType, NEW prioCalc \in [Threads -> Priority], Dispatches(s)
  PROVE  Dispatch(s, prioCalc) \in SchedType /\ Head(s.runq) \in Threads
<1> DEFINE t == Head(s.runq)
           run == [s EXCEPT !.running = t, !.rs[t] = "RUNNING", !.runq = Tail(@)]
<1>1. s.runq \in Seq(Threads) /\ s.runq # << >>
  BY DEF Dispatches, SchedType
<1>2. t \in Threads /\ Tail(s.runq) \in Seq(Threads)
  BY <1>1, HeadTailProperties
<1>3. run \in SchedType
  BY <1>2 DEF SchedType, RunState
<1>4. prioCalc[t] \in Priority
  BY <1>2
<1> QED BY <1>2, <1>3, <1>4, SetRunningPrioType DEF Dispatch
\* What is where after an insertion.
LEMMA InsertAtEffect ==
  ASSUME NEW T, NEW q \in Seq(T), NEW t \in T, NEW i \in 1 .. Len(q) + 1,
         NEW r, r = InsertAt(q, i, t)
  PROVE  /\ r \in Seq(T) /\ Len(r) = Len(q) + 1 /\ r[i] = t
         /\ \A j \in 1 .. Len(q) : j < i => r[j] = q[j]
         /\ \A j \in 1 .. Len(q) : j >= i => r[j + 1] = q[j]
<1>1. Len(q) \in Nat /\ \A j \in 1 .. Len(q) : q[j] \in T
  BY LenProperties, ElementOfSeq
<1> DEFINE a == SubSeq(q, 1, i - 1)
           b == SubSeq(q, i, Len(q))
<1>2. a \in Seq(T) /\ Len(a) = i - 1 /\ \A j \in 1 .. i - 1 : a[j] = q[j]
  <2>1. 1 \in Int /\ i - 1 \in Int /\ \A j \in 1 .. i - 1 : q[j] \in T
    BY <1>1
  <2>2. /\ a \in Seq(T) /\ Len(a) = IF 1 <= i - 1 THEN i - 1 - 1 + 1 ELSE 0
        /\ \A j \in 1 .. i - 1 - 1 + 1 : a[j] = q[1 + j - 1]
    BY <2>1, SubSeqProperties
  <2> HIDE DEF a
  <2> QED BY <1>1, <2>2
<1>3. /\ b \in Seq(T) /\ Len(b) = Len(q) - i + 1
      /\ \A j \in 1 .. Len(q) - i + 1 : b[j] = q[i + j - 1]
  <2>1. i \in Int /\ Len(q) \in Int /\ \A j \in i .. Len(q) : q[j] \in T
    BY <1>1
  <2>2. /\ b \in Seq(T) /\ Len(b) = IF i <= Len(q) THEN Len(q) - i + 1 ELSE 0
        /\ \A j \in 1 .. Len(q) - i + 1 : b[j] = q[i + j - 1]
    BY <2>1, SubSeqProperties
  <2> HIDE DEF b
  <2> QED BY <1>1, <2>2
<1> DEFINE c == <<t>>
<1>4. c \in Seq(T) /\ Len(c) = 1 /\ c[1] = t
  OBVIOUS
<1> HIDE DEF a, b, c
<1>5. r = (a \o c) \o b
  BY DEF a, b, c, InsertAt
<1>6. /\ a \o c \in Seq(T) /\ Len(a \o c) = i
      /\ \A j \in 1 .. i : (a \o c)[j] = IF j < i THEN q[j] ELSE t
  <2>1. /\ a \o c \in Seq(T) /\ Len(a \o c) = Len(a) + Len(c)
        /\ \A j \in 1 .. Len(a) + Len(c) : (a \o c)[j] = IF j <= Len(a) THEN a[j] ELSE c[j - Len(a)]
    BY <1>2, <1>4, ConcatProperties
  <2> QED BY <1>1, <1>2, <1>4, <2>1
<1>7. /\ r \in Seq(T) /\ Len(r) = i + Len(b)
      /\ \A j \in 1 .. i + Len(b) : r[j] = IF j <= i THEN (a \o c)[j] ELSE b[j - i]
  <2> DEFINE d == a \o c
  <2>1. d \in Seq(T) /\ Len(d) = i
    BY <1>6
  <2> HIDE DEF d
  <2>2. /\ d \o b \in Seq(T) /\ Len(d \o b) = Len(d) + Len(b)
        /\ \A j \in 1 .. Len(d) + Len(b) : (d \o b)[j] = IF j <= Len(d) THEN d[j] ELSE b[j - Len(d)]
    BY <1>3, <2>1, ConcatProperties
  <2>3. /\ r \in Seq(T) /\ Len(r) = i + Len(b)
        /\ \A j \in 1 .. i + Len(b) : r[j] = IF j <= i THEN d[j] ELSE b[j - i]
    BY <1>5, <2>1, <2>2 DEF d
  <2> QED BY <2>3 DEF d
<1>8. Len(r) = Len(q) + 1 /\ r[i] = t
  <2>1. i \in 1 .. i + Len(b) /\ i \in 1 .. i /\ i <= i /\ ~(i < i)
    BY <1>1, <1>3
  <2>2. r[i] = (a \o c)[i] /\ (a \o c)[i] = t
    BY <1>6, <1>7, <2>1
  <2>3. Len(r) = Len(q) + 1
    BY <1>1, <1>3, <1>7
  <2> QED BY <2>2, <2>3
<1>9. ASSUME NEW j \in 1 .. Len(q), j < i
      PROVE  r[j] = q[j]
  <2>1. j \in 1 .. i + Len(b) /\ j \in 1 .. i /\ j <= i
    BY <1>1, <1>3, <1>9
  <2> QED BY <1>6, <1>7, <1>9, <2>1
<1>10. ASSUME NEW j \in 1 .. Len(q), j >= i
       PROVE  r[j + 1] = q[j]
  <2>1. j + 1 \in 1 .. i + Len(b) /\ ~(j + 1 <= i) /\ j + 1 - i \in 1 .. Len(q) - i + 1
    BY <1>1, <1>3, <1>10
  <2>2. r[j + 1] = b[j + 1 - i] /\ b[j + 1 - i] = q[i + (j + 1 - i) - 1]
    BY <1>3, <1>7, <2>1
  <2>3. i + (j + 1 - i) - 1 = j
    BY <1>1
  <2> QED BY <2>2, <2>3
<1> QED BY <1>7, <1>8, <1>9, <1>10

\* What is where after a removal.
LEMMA RemoveAtEffect ==
  ASSUME NEW T, NEW q \in Seq(T), NEW i \in 1 .. Len(q), NEW r, r = RemoveAt(q, i)
  PROVE  /\ r \in Seq(T) /\ Len(r) = Len(q) - 1
         /\ \A j \in 1 .. Len(r) : r[j] = IF j < i THEN q[j] ELSE q[j + 1]
<1>1. Len(q) \in Nat /\ \A j \in 1 .. Len(q) : q[j] \in T
  BY LenProperties, ElementOfSeq
<1> DEFINE a == SubSeq(q, 1, i - 1)
           b == SubSeq(q, i + 1, Len(q))
<1>2. a \in Seq(T) /\ Len(a) = i - 1 /\ \A j \in 1 .. i - 1 : a[j] = q[j]
  <2>1. 1 \in Int /\ i - 1 \in Int /\ \A j \in 1 .. i - 1 : q[j] \in T
    BY <1>1
  <2>2. /\ a \in Seq(T) /\ Len(a) = IF 1 <= i - 1 THEN i - 1 - 1 + 1 ELSE 0
        /\ \A j \in 1 .. i - 1 - 1 + 1 : a[j] = q[1 + j - 1]
    BY <2>1, SubSeqProperties
  <2> HIDE DEF a
  <2> QED BY <1>1, <2>2
<1>3. /\ b \in Seq(T) /\ Len(b) = Len(q) - i
      /\ \A j \in 1 .. Len(q) - i : b[j] = q[i + j]
  <2>1. i + 1 \in Int /\ Len(q) \in Int /\ \A j \in i + 1 .. Len(q) : q[j] \in T
    BY <1>1
  <2>2. /\ b \in Seq(T) /\ Len(b) = IF i + 1 <= Len(q) THEN Len(q) - (i + 1) + 1 ELSE 0
        /\ \A j \in 1 .. Len(q) - (i + 1) + 1 : b[j] = q[(i + 1) + j - 1]
    BY <2>1, SubSeqProperties
  <2> HIDE DEF b
  <2> QED BY <1>1, <2>2
<1> HIDE DEF a, b
<1>4. r = a \o b
  BY DEF a, b, RemoveAt
<1>5. /\ r \in Seq(T) /\ Len(r) = Len(a) + Len(b)
      /\ \A j \in 1 .. Len(a) + Len(b) : r[j] = IF j <= Len(a) THEN a[j] ELSE b[j - Len(a)]
  <2>1. /\ a \o b \in Seq(T) /\ Len(a \o b) = Len(a) + Len(b)
        /\ \A j \in 1 .. Len(a) + Len(b) : (a \o b)[j] = IF j <= Len(a) THEN a[j] ELSE b[j - Len(a)]
    BY <1>2, <1>3, ConcatProperties
  <2> QED BY <1>4, <2>1
<1>6. Len(r) = Len(q) - 1
  BY <1>1, <1>2, <1>3, <1>5
<1>7. ASSUME NEW j \in 1 .. Len(r)
      PROVE  r[j] = IF j < i THEN q[j] ELSE q[j + 1]
  <2>1. CASE j < i
    <3>1. j \in 1 .. Len(a) + Len(b) /\ j <= Len(a) /\ j \in 1 .. i - 1
      BY <1>1, <1>2, <1>3, <1>6, <2>1
    <3> QED BY <1>2, <1>5, <2>1, <3>1
  <2>2. CASE ~(j < i)
    <3>1. j - Len(a) \in 1 .. Len(q) - i /\ ~(j <= Len(a)) /\ i + (j - Len(a)) = j + 1
      BY <1>1, <1>2, <1>6, <2>2
    <3>2. r[j] = b[j - Len(a)] /\ b[j - Len(a)] = q[i + (j - Len(a))]
      BY <1>3, <1>5, <3>1
    <3> QED BY <2>2, <3>1, <3>2
  <2> QED BY <2>1, <2>2
<1> QED BY <1>5, <1>6, <1>7

\* The positions that hold threads no worse than p form a prefix of a sorted queue.
LEMMA PrefixCount ==
  ASSUME NEW n \in Nat, NEW S \in SUBSET (1 .. n), \A i \in S : \A j \in 1 .. i : j \in S
  PROVE  Cardinality(S) \in 0 .. n /\ S = 1 .. Cardinality(S)
<1>1. \A m \in Nat : IsFiniteSet(1 .. m) /\ Cardinality(1 .. m) = m
  <2> SUFFICES ASSUME NEW m \in Nat
               PROVE  IsFiniteSet(1 .. m) /\ Cardinality(1 .. m) = m
    OBVIOUS
  <2>1. 1 \in Int /\ m \in Int /\ (IF 1 > m THEN 0 ELSE m - 1 + 1) = m
    OBVIOUS
  <2> QED BY <2>1, FS_Interval
<1>2. IsFiniteSet(S) /\ Cardinality(S) <= n /\ Cardinality(S) \in Nat
  <2>1. IsFiniteSet(S) /\ Cardinality(S) <= n
    <3>1. IsFiniteSet(1 .. n) /\ Cardinality(1 .. n) = n
      BY <1>1
    <3>2. IsFiniteSet(S) /\ Cardinality(S) <= Cardinality(1 .. n)
      BY ONLY <3>1, FS_Subset, S \in SUBSET (1 .. n)
    <3> QED BY <3>1, <3>2
  <2> QED BY <2>1, FS_CardinalityType
<1>3. \A i \in S : i <= Cardinality(S)
  <2> SUFFICES ASSUME NEW i \in S
               PROVE  i <= Cardinality(S)
    OBVIOUS
  <2>1. i \in Nat /\ 1 .. i \in SUBSET S
    OBVIOUS
  <2>2. Cardinality(1 .. i) <= Cardinality(S)
    BY <1>2, <2>1, FS_Subset
  <2> QED BY <1>1, <2>1, <2>2
<1>4. S \in SUBSET (1 .. Cardinality(S))
  BY <1>2, <1>3
<1>5. S = 1 .. Cardinality(S)
  BY <1>1, <1>2, <1>4, FS_Subset
<1> QED BY <1>2, <1>5

(***************************************************************************)
(* A queue of threads in which a set of them stands, once each and by      *)
(* priority.                                                               *)
(***************************************************************************)
Stands(q, prio, S) == SortedBy(q, prio) /\ NoDuplicates(q) /\ ToSet(q) = S

Priorities == [Threads -> Priority]

\* Priorities are integers.
LEMMA PriorityInt ==
  ASSUME NEW prio \in Priorities, NEW t \in Threads
  PROVE  prio[t] \in Int
<1>1. \A p \in Priority : p \in Int
  BY DEF Priority, MAX_PRIORITY_LEVELS
<1>2. prio[t] \in Priority
  BY DEF Priorities
<1> QED BY <1>1, <1>2

\* The members of a queue by their places.
LEMMA Members ==
  ASSUME NEW q \in Seq(Threads)
  PROVE  /\ Len(q) \in Nat /\ DOMAIN q = 1 .. Len(q) /\ \A j \in 1 .. Len(q) : q[j] \in Threads
         /\ ToSet(q) = {q[j] : j \in 1 .. Len(q)}
         /\ q # << >> <=> ToSet(q) # {}
<1>1. Len(q) \in Nat /\ DOMAIN q = 1 .. Len(q) /\ \A j \in 1 .. Len(q) : q[j] \in Threads
  BY LenProperties, ElementOfSeq
<1>2. ToSet(q) = {q[j] : j \in 1 .. Len(q)}
  BY <1>1 DEF ToSet
<1>3. q # << >> => 1 \in 1 .. Len(q)
  BY <1>1, EmptySeq
<1>4. q = << >> => 1 .. Len(q) = {}
  BY EmptySeq
<1> QED BY <1>1, <1>2, <1>3, <1>4

\* A thread inserted after everybody no worse and before everybody no better
\* keeps the order.
LEMMA InsertStands ==
  ASSUME NEW q \in Seq(Threads), NEW prio \in Priorities, NEW S, NEW t \in Threads,
         NEW i \in 1 .. Len(q) + 1, Stands(q, prio, S), t \notin S,
         \A j \in 1 .. Len(q) : j < i => prio[q[j]] <= prio[t],
         \A j \in 1 .. Len(q) : j >= i => prio[t] <= prio[q[j]]
  PROVE  InsertAt(q, i, t) \in Seq(Threads) /\ Stands(InsertAt(q, i, t), prio, S \union {t})
<1> DEFINE r == InsertAt(q, i, t)
<1>1. /\ r \in Seq(Threads) /\ Len(r) = Len(q) + 1 /\ r[i] = t
      /\ \A j \in 1 .. Len(q) : j < i => r[j] = q[j]
      /\ \A j \in 1 .. Len(q) : j >= i => r[j + 1] = q[j]
  BY InsertAtEffect
<1> HIDE DEF r
<1>2. /\ Len(q) \in Nat /\ DOMAIN q = 1 .. Len(q) /\ \A j \in 1 .. Len(q) : q[j] \in Threads
      /\ ToSet(q) = {q[j] : j \in 1 .. Len(q)}
  BY Members
<1>3. DOMAIN r = 1 .. Len(q) + 1 /\ ToSet(r) = {r[j] : j \in 1 .. Len(q) + 1}
  BY <1>1, Members
\* The place a member of r had in q.
<1> DEFINE old(k) == IF k < i THEN k ELSE k - 1
<1>4. ASSUME NEW k \in 1 .. Len(q) + 1, k # i
      PROVE  /\ old(k) \in 1 .. Len(q) /\ r[k] = q[old(k)]
             /\ old(k) < i <=> k < i
  <2>1. CASE k < i
    BY <1>1, <1>2, <2>1
  <2>2. CASE k > i
    <3>1. k - 1 \in 1 .. Len(q) /\ k - 1 >= i /\ (k - 1) + 1 = k
      BY <1>2, <2>2
    <3> QED BY <1>1, <2>2, <3>1
  <2> QED BY <1>2, <1>4, <2>1, <2>2
<1>5. \A k, l \in 1 .. Len(q) + 1 : k # i /\ l # i /\ k < l => old(k) < old(l)
  BY <1>2
<1>6. ASSUME NEW k \in 1 .. Len(q) + 1, k # i
      PROVE  r[k] \in S /\ r[k] \in Threads
  BY <1>2, <1>4, <1>6 DEF Stands
<1> HIDE DEF old
<1>7. ToSet(r) = S \union {t}
  <2>1. ASSUME NEW u \in S
        PROVE  u \in ToSet(r)
    <3>1. PICK j \in 1 .. Len(q) : u = q[j]
      BY <1>2 DEF Stands
    <3>2. CASE j < i
      BY <1>1, <1>2, <1>3, <3>1, <3>2
    <3>3. CASE j >= i
      <4>1. j + 1 \in 1 .. Len(q) + 1 /\ r[j + 1] = u
        BY <1>1, <1>2, <3>1, <3>3
      <4> QED BY <1>3, <4>1
    <3> QED BY <1>2, <3>2, <3>3
  <2>2. t \in ToSet(r)
    BY <1>1, <1>2, <1>3
  <2>3. ToSet(r) \subseteq S \union {t}
    BY <1>1, <1>3, <1>6
  <2> QED BY <2>1, <2>2, <2>3
<1>8. NoDuplicates(r)
  <2> SUFFICES ASSUME NEW k \in 1 .. Len(q) + 1, NEW l \in 1 .. Len(q) + 1, k < l
               PROVE  r[k] # r[l]
    BY <1>2, <1>3 DEF NoDuplicates
  <2>1. CASE k # i /\ l # i
    <3>1. old(k) \in 1 .. Len(q) /\ old(l) \in 1 .. Len(q) /\ r[k] = q[old(k)] /\ r[l] = q[old(l)]
      BY <1>4, <2>1
    <3>2. old(k) # old(l)
      BY <1>2, <1>5, <2>1, <3>1
    <3> QED BY <1>2, <3>1, <3>2 DEF Stands, NoDuplicates
  <2>2. CASE k = i \/ l = i
    BY <1>1, <1>2, <1>6, <2>2
  <2> QED BY <2>1, <2>2
<1>9. SortedBy(r, prio)
  <2> SUFFICES ASSUME NEW k \in 1 .. Len(q) + 1, NEW l \in 1 .. Len(q) + 1, k < l
               PROVE  prio[r[k]] <= prio[r[l]]
    BY <1>3 DEF SortedBy
  <2>1. CASE k # i /\ l # i
    <3>1. old(k) \in 1 .. Len(q) /\ old(l) \in 1 .. Len(q) /\ r[k] = q[old(k)] /\ r[l] = q[old(l)]
      BY <1>4, <2>1
    <3>2. old(k) < old(l)
      BY <1>5, <2>1
    <3> QED BY <1>2, <3>1, <3>2 DEF Stands, SortedBy
  <2>2. CASE k = i
    <3>1. l # i /\ old(l) \in 1 .. Len(q) /\ r[l] = q[old(l)] /\ ~(old(l) < i)
      BY <1>2, <1>4, <2>2
    <3>2. old(l) >= i
      BY <1>2, <3>1
    <3> QED BY <1>1, <2>2, <3>1, <3>2
  <2>3. CASE l = i
    <3>1. k # i /\ old(k) \in 1 .. Len(q) /\ r[k] = q[old(k)] /\ old(k) < i
      BY <1>2, <1>4, <2>3
    <3> QED BY <1>1, <2>3, <3>1
  <2> QED BY <2>1, <2>2, <2>3
<1> QED BY <1>1, <1>7, <1>8, <1>9 DEF Stands, r

\* InsertBehind and InsertAhead find such a place.
LEMMA InsertionStands ==
  ASSUME NEW q \in Seq(Threads), NEW prio \in Priorities, NEW S, NEW t \in Threads,
         Stands(q, prio, S), t \notin S,
         NEW r \in {InsertBehind(q, prio, t), InsertAhead(q, prio, t)}
  PROVE  r \in Seq(Threads) /\ Stands(r, prio, S \union {t})
<1>1. Len(q) \in Nat /\ DOMAIN q = 1 .. Len(q) /\ \A j \in 1 .. Len(q) : q[j] \in Threads
  BY Members
<1> DEFINE n == Len(q)
           B == {i \in DOMAIN q : prio[q[i]] <= prio[t]}
           A == {i \in DOMAIN q : prio[q[i]] < prio[t]}
<1>2. \A j \in 1 .. n : prio[q[j]] \in Int
  BY <1>1, PriorityInt
<1>3. prio[t] \in Int
  BY PriorityInt
<1>4. \A i, j \in 1 .. n : i <= j => prio[q[i]] <= prio[q[j]]
  BY <1>1, <1>2 DEF Stands, SortedBy
<1>5. B \in SUBSET (1 .. n) /\ \A i \in B : \A j \in 1 .. i : j \in B
  BY <1>1, <1>2, <1>3, <1>4
<1>6. A \in SUBSET (1 .. n) /\ \A i \in A : \A j \in 1 .. i : j \in A
  BY <1>1, <1>2, <1>3, <1>4
<1>7. Cardinality(B) \in 0 .. n /\ B = 1 .. Cardinality(B)
  BY <1>1, <1>5, PrefixCount
<1>8. Cardinality(A) \in 0 .. n /\ A = 1 .. Cardinality(A)
  BY <1>1, <1>6, PrefixCount
<1>9. /\ \A j \in 1 .. n : j \in B <=> prio[q[j]] <= prio[t]
      /\ \A j \in 1 .. n : j \in A <=> prio[q[j]] < prio[t]
  BY <1>1
<1>10. InsertBehind(q, prio, t) = InsertAt(q, 1 + Cardinality(B), t)
  BY DEF InsertBehind
<1>11. InsertAhead(q, prio, t) = InsertAt(q, 1 + Cardinality(A), t)
  BY DEF InsertAhead
<1> HIDE DEF A, B
<1>12. CASE r = InsertBehind(q, prio, t)
  <2> DEFINE i == 1 + Cardinality(B)
  <2>1. i \in 1 .. n + 1 /\ \A j \in 1 .. n : j < i <=> j \in B
    <3>1. \A j \in 1 .. n : j \in B <=> j <= Cardinality(B)
      BY <1>1, <1>7
    <3> QED BY <1>1, <1>7, <3>1
  <2> HIDE DEF i
  <2>2. /\ \A j \in 1 .. n : j < i => prio[q[j]] <= prio[t]
        /\ \A j \in 1 .. n : j >= i => prio[t] <= prio[q[j]]
    BY <1>1, <1>2, <1>3, <1>9, <2>1
  <2>3. InsertAt(q, i, t) \in Seq(Threads) /\ Stands(InsertAt(q, i, t), prio, S \union {t})
    BY <2>1, <2>2, InsertStands
  <2> QED BY <1>10, <1>12, <2>3 DEF i
<1>13. CASE r = InsertAhead(q, prio, t)
  <2> DEFINE i == 1 + Cardinality(A)
  <2>1. i \in 1 .. n + 1 /\ \A j \in 1 .. n : j < i <=> j \in A
    <3>1. \A j \in 1 .. n : j \in A <=> j <= Cardinality(A)
      BY <1>1, <1>8
    <3> QED BY <1>1, <1>8, <3>1
  <2> HIDE DEF i
  <2>2. /\ \A j \in 1 .. n : j < i => prio[q[j]] <= prio[t]
        /\ \A j \in 1 .. n : j >= i => prio[t] <= prio[q[j]]
    BY <1>1, <1>2, <1>3, <1>9, <2>1
  <2>3. InsertAt(q, i, t) \in Seq(Threads) /\ Stands(InsertAt(q, i, t), prio, S \union {t})
    BY <2>1, <2>2, InsertStands
  <2> QED BY <1>11, <1>13, <2>3 DEF i
<1> QED BY <1>12, <1>13

\* One place taken out of a queue.
LEMMA RemoveStands ==
  ASSUME NEW q \in Seq(Threads), NEW prio, NEW S, NEW i \in 1 .. Len(q), Stands(q, prio, S),
         NEW r \in Seq(Threads), Len(r) = Len(q) - 1,
         \A j \in 1 .. Len(r) : r[j] = IF j < i THEN q[j] ELSE q[j + 1]
  PROVE  Stands(r, prio, S \ {q[i]})
<1>1. /\ Len(q) \in Nat /\ DOMAIN q = 1 .. Len(q) /\ ToSet(q) = {q[j] : j \in 1 .. Len(q)}
      /\ DOMAIN r = 1 .. Len(r) /\ ToSet(r) = {r[j] : j \in 1 .. Len(r)}
  BY Members
<1> DEFINE at(j) == IF j < i THEN j ELSE j + 1
<1>2. \A j \in 1 .. Len(r) : at(j) \in 1 .. Len(q) /\ at(j) # i /\ r[j] = q[at(j)]
  BY <1>1
<1>3. \A j, k \in 1 .. Len(r) : j < k => at(j) < at(k)
  BY <1>1
<1>4. \A k \in 1 .. Len(q) : k # i => \E j \in 1 .. Len(r) : k = at(j)
  <2> SUFFICES ASSUME NEW k \in 1 .. Len(q), k # i
               PROVE  \E j \in 1 .. Len(r) : k = at(j)
    OBVIOUS
  <2>1. CASE k < i
    <3>1. k \in 1 .. Len(r) /\ at(k) = k
      BY <1>1, <2>1
    <3> QED BY <3>1
  <2>2. CASE k > i
    <3>1. k - 1 \in 1 .. Len(r) /\ at(k - 1) = k
      BY <1>1, <2>2
    <3> QED BY <3>1
  <2> QED BY <1>1, <2>1, <2>2
<1> HIDE DEF at
<1>5. SortedBy(r, prio)
  <2> SUFFICES ASSUME NEW j \in 1 .. Len(r), NEW k \in 1 .. Len(r), j < k
               PROVE  prio[r[j]] <= prio[r[k]]
    BY <1>1 DEF SortedBy
  <2>1. at(j) \in 1 .. Len(q) /\ at(k) \in 1 .. Len(q) /\ at(j) < at(k)
        /\ r[j] = q[at(j)] /\ r[k] = q[at(k)]
    BY <1>2, <1>3
  <2> QED BY <1>1, <2>1 DEF Stands, SortedBy
<1>6. NoDuplicates(r)
  <2> SUFFICES ASSUME NEW j \in 1 .. Len(r), NEW k \in 1 .. Len(r), j < k
               PROVE  r[j] # r[k]
    BY <1>1 DEF NoDuplicates
  <2>1. at(j) \in 1 .. Len(q) /\ at(k) \in 1 .. Len(q) /\ at(j) # at(k)
    BY <1>1, <1>2, <1>3
  <2> QED BY <1>1, <1>2, <2>1 DEF Stands, NoDuplicates
<1>7. ToSet(r) \subseteq S \ {q[i]}
  <2> SUFFICES ASSUME NEW j \in 1 .. Len(r)
               PROVE  r[j] \in S /\ r[j] # q[i]
    BY <1>1
  <2>1. at(j) \in 1 .. Len(q) /\ at(j) # i /\ r[j] = q[at(j)]
    BY <1>2
  <2> QED BY <1>1, <2>1 DEF Stands, NoDuplicates
<1>8. S \ {q[i]} \subseteq ToSet(r)
  <2> SUFFICES ASSUME NEW u \in S, u # q[i]
               PROVE  u \in ToSet(r)
    OBVIOUS
  <2>1. PICK k \in 1 .. Len(q) : u = q[k]
    BY <1>1 DEF Stands
  <2>2. PICK j \in 1 .. Len(r) : k = at(j)
    BY <1>4, <2>1
  <2> QED BY <1>1, <1>2, <2>1, <2>2
<1> QED BY <1>5, <1>6, <1>7, <1>8 DEF Stands

\* A thread taken out; a thread that is not there leaves the queue alone.
LEMMA WithoutStands ==
  ASSUME NEW q \in Seq(Threads), NEW prio, NEW S, Stands(q, prio, S), NEW t
  PROVE  Without(q, t) \in Seq(Threads) /\ Stands(Without(q, t), prio, S \ {t})
<1>1. CASE t \in S
  <2> DEFINE i == IndexOf(q, t)
  <2>1. i \in 1 .. Len(q) /\ q[i] = t
    BY <1>1, Members DEF IndexOf, Stands
  <2>2. Without(q, t) = RemoveAt(q, i)
    BY <1>1 DEF Without, Stands
  <2> HIDE DEF i
  <2>3. /\ RemoveAt(q, i) \in Seq(Threads) /\ Len(RemoveAt(q, i)) = Len(q) - 1
        /\ \A j \in 1 .. Len(RemoveAt(q, i)) : RemoveAt(q, i)[j] = IF j < i THEN q[j] ELSE q[j + 1]
    BY <2>1, RemoveAtEffect
  <2> QED BY <2>1, <2>2, <2>3, RemoveStands
<1>2. CASE t \notin S
  <2>1. Without(q, t) = q /\ S \ {t} = S
    BY <1>2 DEF Without, Stands
  <2> QED BY <2>1
<1> QED BY <1>1, <1>2

\* The first is the best, and the others stand as before without it.
LEMMA HeadStands ==
  ASSUME NEW q \in Seq(Threads), NEW prio \in Priorities, NEW S, Stands(q, prio, S), q # << >>
  PROVE  /\ Head(q) \in S /\ Head(q) \in Threads /\ \A u \in S : prio[Head(q)] <= prio[u]
         /\ Tail(q) \in Seq(Threads) /\ Stands(Tail(q), prio, S \ {Head(q)})
<1>1. /\ Len(q) \in Nat \ {0} /\ DOMAIN q = 1 .. Len(q) /\ ToSet(q) = {q[j] : j \in 1 .. Len(q)}
      /\ \A j \in 1 .. Len(q) : q[j] \in Threads
  BY Members, EmptySeq
<1>2. Head(q) = q[1] /\ 1 \in 1 .. Len(q)
  BY <1>1
<1>3. /\ Tail(q) \in Seq(Threads) /\ Len(Tail(q)) = Len(q) - 1
      /\ \A j \in 1 .. Len(Tail(q)) : Tail(q)[j] = q[j + 1]
  BY HeadTailProperties
<1>4. \A j \in 1 .. Len(Tail(q)) : Tail(q)[j] = IF j < 1 THEN q[j] ELSE q[j + 1]
  BY <1>1, <1>3
<1>5. Stands(Tail(q), prio, S \ {q[1]})
  BY <1>2, <1>3, <1>4, RemoveStands
<1>6. ASSUME NEW u \in S
      PROVE  prio[q[1]] <= prio[u]
  <2>1. PICK j \in 1 .. Len(q) : u = q[j]
    BY <1>1 DEF Stands
  <2>2. prio[q[1]] \in Int /\ prio[q[j]] \in Int
    BY <1>1, <1>2, PriorityInt
  <2>3. CASE j = 1
    BY <2>1, <2>2, <2>3
  <2>4. CASE 1 < j
    BY <1>1, <1>2, <2>1, <2>4 DEF Stands, SortedBy
  <2> QED BY <1>1, <2>3, <2>4
<1>7. q[1] \in S
  BY <1>1, <1>2 DEF Stands
<1> QED BY <1>1, <1>2, <1>3, <1>5, <1>6, <1>7

\* Whoever stands in a queue is all the order depends on.
LEMMA StandsByPrio ==
  ASSUME NEW q \in Seq(Threads), NEW prio, NEW prio2, NEW S, Stands(q, prio, S),
         \A u \in S : prio2[u] = prio[u]
  PROVE  Stands(q, prio2, S)
<1>1. DOMAIN q = 1 .. Len(q) /\ \A j \in 1 .. Len(q) : q[j] \in S
  BY Members DEF Stands
<1> QED BY <1>1 DEF Stands, SortedBy

(***************************************************************************)
(* The scheduler's promise, kept by every operator.                        *)
(***************************************************************************)
Runnable(s) == {t \in Threads : s.rs[t] = "RUNNABLE"}

QueueHolds(s) == Stands(s.runq, s.cprio, Runnable(s))

RunningMarked(s) == \A t \in Threads : s.rs[t] = "RUNNING" <=> s.running = t

\* BestThreadRuns, said of every runnable thread instead of the first in the queue.
NoneBetter(s) ==
  ~s.resched => \A u \in Runnable(s) : s.running # NoThread /\ s.cprio[s.running] <= s.cprio[u]

SchedOK(s) == s \in SchedType /\ QueueHolds(s) /\ RunningMarked(s) /\ NoneBetter(s)

\* The fields of a scheduler record.
LEMMA SchedFields ==
  ASSUME NEW s \in SchedType
  PROVE  /\ s.running \in Threads \union {NoThread} /\ s.resched \in BOOLEAN
         /\ s.runq \in Seq(Threads) /\ s.rs \in [Threads -> RunState] /\ s.cprio \in Priorities
         /\ \A t \in Threads : s.cprio[t] \in Int
<1>1. s.cprio \in Priorities
  BY DEF SchedType, Priorities
<1> QED BY <1>1, PriorityInt DEF SchedType

\* SchedOK is the promise.
LEMMA SchedPromise ==
  ASSUME NEW s \in SchedType
  PROVE  SchedOK(s) <=> RunListConsistent(s) /\ BestThreadRuns(s)
<1>1. RunListConsistent(s) <=> QueueHolds(s) /\ RunningMarked(s)
  BY DEF RunListConsistent, QueueHolds, RunningMarked, Stands, Runnable
<1>2. ASSUME QueueHolds(s)
      PROVE  BestThreadRuns(s) <=> NoneBetter(s)
  <2>1. CASE s.runq = << >>
    <3>1. Runnable(s) = {}
      BY <1>2, <2>1, SchedFields, Members DEF QueueHolds, Stands
    <3> QED BY <2>1, <3>1 DEF BestThreadRuns, NoneBetter
  <2>2. CASE s.runq # << >>
    <3> DEFINE h == Head(s.runq)
    <3>1. /\ h \in Runnable(s) /\ h \in Threads /\ \A u \in Runnable(s) : s.cprio[h] <= s.cprio[u]
      BY <1>2, <2>2, SchedFields, HeadStands DEF QueueHolds
    <3>2. BestThreadRuns(s) <=> (~s.resched => s.running # NoThread /\ s.cprio[s.running] <= s.cprio[h])
      BY <2>2 DEF BestThreadRuns
    <3>3. NoneBetter(s) => BestThreadRuns(s)
      BY <3>1, <3>2 DEF NoneBetter
    <3>4. ASSUME BestThreadRuns(s), ~s.resched, NEW u \in Runnable(s)
          PROVE  s.running # NoThread /\ s.cprio[s.running] <= s.cprio[u]
      <4>1. s.running \in Threads /\ s.cprio[s.running] <= s.cprio[h] /\ s.cprio[h] <= s.cprio[u]
        BY <3>1, <3>2, <3>4, SchedFields
      <4>2. s.cprio[s.running] \in Int /\ s.cprio[h] \in Int /\ s.cprio[u] \in Int
        BY <3>1, <4>1, SchedFields DEF Runnable
      <4> QED BY <4>1, <4>2, NoThreadAssumption
    <3> QED BY <3>3, <3>4 DEF NoneBetter
  <2> QED BY <2>1, <2>2
<1> QED BY <1>1, <1>2 DEF SchedOK

\* The fields of a thread made runnable.
LEMMA MakeRunFields ==
  ASSUME NEW s \in SchedType, NEW t \in Threads
  PROVE  /\ MakeRun(s, t).running = s.running
         /\ MakeRun(s, t).resched =
              (s.resched \/ ((s.runq = << >> \/ s.cprio[t] < s.cprio[Head(s.runq)])
                             /\ (s.running = NoThread \/ s.cprio[t] < s.cprio[s.running])))
         /\ MakeRun(s, t).runq = InsertBehind(s.runq, s.cprio, t)
         /\ MakeRun(s, t).rs = [s.rs EXCEPT ![t] = "RUNNABLE"]
         /\ MakeRun(s, t).cprio = s.cprio
BY Zenon DEF MakeRun, SchedType

\* A thread that was not runnable becomes runnable: MakeRun asks for a reschedule
\* when that is called for.
LEMMA MakeRunOK ==
  ASSUME NEW s \in SchedType, NEW t \in Threads, QueueHolds(s), NoneBetter(s),
         s.rs[t] # "RUNNABLE", s.running # t,
         \A u \in Threads \ {t} : s.rs[u] = "RUNNING" <=> s.running = u
  PROVE  SchedOK(MakeRun(s, t))
<1> DEFINE r == MakeRun(s, t)
<1>1. r \in SchedType
  BY MakeRunType
<1>2. /\ r.running = s.running /\ r.runq = InsertBehind(s.runq, s.cprio, t) /\ r.cprio = s.cprio
      /\ r.rs = [s.rs EXCEPT ![t] = "RUNNABLE"]
      /\ ~r.resched => /\ ~s.resched
                       /\ ~((s.runq = << >> \/ s.cprio[t] < s.cprio[Head(s.runq)])
                            /\ (s.running = NoThread \/ s.cprio[t] < s.cprio[s.running]))
  BY MakeRunFields
<1> HIDE DEF r
<1>3. Runnable(r) = Runnable(s) \union {t} /\ t \notin Runnable(s)
  BY <1>2, SchedFields DEF Runnable
<1>4. QueueHolds(r)
  <2>1. Stands(InsertBehind(s.runq, s.cprio, t), s.cprio, Runnable(s) \union {t})
    BY <1>3, SchedFields, InsertionStands DEF QueueHolds
  <2> QED BY <1>2, <1>3, <2>1 DEF QueueHolds
<1>5. RunningMarked(r)
  BY <1>2, SchedFields DEF RunningMarked
<1>6. ASSUME ~r.resched, NEW u \in Runnable(r)
      PROVE  r.running # NoThread /\ r.cprio[r.running] <= r.cprio[u]
  <2>1. CASE u # t
    BY <1>2, <1>3, <1>6, <2>1 DEF NoneBetter
  <2>2. CASE u = t
    <3>1. CASE s.running # NoThread /\ ~(s.cprio[t] < s.cprio[s.running])
      <4>1. s.running \in Threads /\ s.cprio[t] \in Int /\ s.cprio[s.running] \in Int
        BY <3>1, SchedFields
      <4> QED BY <1>2, <2>2, <3>1, <4>1
    <3>2. CASE s.runq # << >> /\ ~(s.cprio[t] < s.cprio[Head(s.runq)])
      <4> DEFINE h == Head(s.runq)
      <4>1. h \in Runnable(s) /\ h \in Threads
        BY <3>2, SchedFields, HeadStands DEF QueueHolds
      <4>2. s.running # NoThread /\ s.cprio[s.running] <= s.cprio[h]
        BY <1>2, <1>6, <4>1 DEF NoneBetter
      <4>3. s.cprio[t] \in Int /\ s.cprio[h] \in Int /\ s.cprio[s.running] \in Int
        BY <4>1, <4>2, SchedFields
      <4>4. ~(s.cprio[t] < s.cprio[h])
        BY <3>2
      <4> HIDE DEF h
      <4> QED BY <1>2, <2>2, <4>2, <4>3, <4>4
    <3> QED BY <1>2, <1>6, <3>1, <3>2
  <2> QED BY <2>1, <2>2
<1> QED BY <1>1, <1>4, <1>5, <1>6 DEF SchedOK, NoneBetter, r

\* A reschedule request promises less.
LEMMA SetRescheduleOK ==
  ASSUME NEW s, SchedOK(s)
  PROVE  SchedOK(SetReschedule(s)) /\ SetReschedule(s).rs = s.rs
<1>1. /\ SetReschedule(s) \in SchedType /\ SetReschedule(s).rs = s.rs
      /\ SetReschedule(s).resched /\ SetReschedule(s).runq = s.runq
      /\ SetReschedule(s).cprio = s.cprio /\ SetReschedule(s).running = s.running
  BY SetRescheduleType DEF SetReschedule, SchedType, SchedOK
<1> QED BY <1>1 DEF SchedOK, QueueHolds, RunningMarked, NoneBetter, Runnable

\* The running thread blocks.
LEMMA BlockCurrentOK ==
  ASSUME NEW s, SchedOK(s), s.running \in Threads
  PROVE  /\ SchedOK(BlockCurrent(s))
         /\ BlockCurrent(s).rs = [s.rs EXCEPT ![s.running] = "BLOCKED"]
<1> DEFINE r == BlockCurrent(s)
<1>1. /\ r \in SchedType /\ r.rs = [s.rs EXCEPT ![s.running] = "BLOCKED"]
      /\ r.running = NoThread /\ r.resched /\ r.runq = s.runq /\ r.cprio = s.cprio
  BY BlockCurrentType DEF BlockCurrent, SchedType, SchedOK
<1> HIDE DEF r
<1>2. s.rs[s.running] = "RUNNING" /\ s.rs \in [Threads -> RunState]
  BY SchedFields DEF SchedOK, RunningMarked
<1>3. Runnable(r) = Runnable(s)
  BY <1>1, <1>2 DEF Runnable
<1>4. RunningMarked(r)
  BY <1>1, <1>2, NoThreadAssumption DEF SchedOK, RunningMarked
<1> QED BY <1>1, <1>3, <1>4 DEF SchedOK, QueueHolds, NoneBetter, r

\* The running thread gives the others their turn.
LEMMA ThreadYieldOK ==
  ASSUME NEW s, SchedOK(s), s.running \in Threads
  PROVE  /\ SchedOK(ThreadYield(s))
         /\ ThreadYield(s).rs = [s.rs EXCEPT ![s.running] = "RUNNABLE"]
<1> DEFINE i == SetReschedule([s EXCEPT !.running = NoThread])
<1>1. /\ i \in SchedType /\ i.running = NoThread /\ i.resched /\ i.runq = s.runq
      /\ i.cprio = s.cprio /\ i.rs = s.rs
  BY DEF SetReschedule, SchedType, SchedOK
<1>2. ThreadYield(s) = MakeRun(i, s.running)
  BY DEF ThreadYield
<1> HIDE DEF i
<1>3. QueueHolds(i) /\ NoneBetter(i)
  BY <1>1 DEF SchedOK, QueueHolds, NoneBetter, Runnable
<1>4. i.rs[s.running] # "RUNNABLE"
  BY <1>1 DEF SchedOK, RunningMarked
<1>5. \A u \in Threads \ {s.running} : i.rs[u] = "RUNNING" <=> i.running = u
  BY <1>1, NoThreadAssumption DEF SchedOK, RunningMarked
<1>6. SchedOK(MakeRun(i, s.running))
  BY <1>1, <1>3, <1>4, <1>5, NoThreadAssumption, MakeRunOK
<1>7. MakeRun(i, s.running).rs = [i.rs EXCEPT ![s.running] = "RUNNABLE"]
  BY <1>1, MakeRunFields
<1> QED BY <1>1, <1>2, <1>6, <1>7

\* The second half of a wake-up.
LEMMA MakeRunIfNeededOK ==
  ASSUME NEW s, SchedOK(s), NEW t \in Threads
  PROVE  /\ SchedOK(MakeRunIfNeeded(s, t))
         /\ MakeRunIfNeeded(s, t).rs =
              IF s.rs[t] = "NEEDSRUN" THEN [s.rs EXCEPT ![t] = "RUNNABLE"] ELSE s.rs
<1>1. CASE s.rs[t] = "NEEDSRUN"
  <2>1. s \in SchedType /\ QueueHolds(s) /\ NoneBetter(s) /\ RunningMarked(s)
    BY DEF SchedOK
  <2>2. s.running # t /\ \A u \in Threads \ {t} : s.rs[u] = "RUNNING" <=> s.running = u
    BY <1>1, <2>1 DEF RunningMarked
  <2>3. SchedOK(MakeRun(s, t))
    BY <1>1, <2>1, <2>2, MakeRunOK
  <2> QED BY <1>1, <2>1, <2>3, MakeRunFields DEF MakeRunIfNeeded
<1>2. CASE s.rs[t] # "NEEDSRUN"
  BY <1>2 DEF MakeRunIfNeeded
<1> QED BY <1>1, <1>2

\* A thread that runs or runs next is taken out of the run queue: what was
\* promised of the others stays true.
LEMMA TakenOutOK ==
  ASSUME NEW s, SchedOK(s), NEW t \in Threads, s.running # t,
         NEW x \in RunState \ {"RUNNABLE", "RUNNING"}, NEW prio \in Priorities,
         \A u \in Threads \ {t} : prio[u] = s.cprio[u],
         NEW r \in SchedType, r.running = s.running, r.resched = s.resched,
         r.runq = Without(s.runq, t), r.rs = [s.rs EXCEPT ![t] = x], r.cprio = prio
  PROVE  SchedOK(r)
<1>1. Runnable(r) = Runnable(s) \ {t}
  BY SchedFields DEF Runnable, SchedOK
<1>2. QueueHolds(r)
  <2>1. Stands(Without(s.runq, t), s.cprio, Runnable(s) \ {t})
    BY SchedFields, WithoutStands DEF SchedOK, QueueHolds
  <2>2. \A u \in Runnable(s) \ {t} : prio[u] = s.cprio[u]
    BY DEF Runnable
  <2>3. Without(s.runq, t) \in Seq(Threads)
    BY SchedFields DEF SchedOK, SchedType
  <2> QED BY <1>1, <2>1, <2>2, <2>3, StandsByPrio DEF QueueHolds
<1>3. RunningMarked(r)
  BY SchedFields DEF SchedOK, RunningMarked
<1>4. ASSUME ~r.resched, NEW u \in Runnable(r)
      PROVE  r.running # NoThread /\ r.cprio[r.running] <= r.cprio[u]
  <2>1. u \in Runnable(s) /\ u # t /\ u \in Threads
    BY <1>1 DEF Runnable
  <2>2. s.running # NoThread /\ s.cprio[s.running] <= s.cprio[u] /\ s.running \in Threads
    BY <1>4, <2>1, SchedFields DEF SchedOK, NoneBetter
  <2> QED BY <2>1, <2>2
<1> QED BY <1>2, <1>3, <1>4 DEF SchedOK, NoneBetter

\* A thread taken off the run queue or a wait, and marked to be made runnable.
LEMMA TakenOffOK ==
  ASSUME NEW s, SchedOK(s), NEW t \in Threads, s.rs[t] \in {"RUNNABLE", "BLOCKED"}
  PROVE  /\ SchedOK([RunqDequeue(s, t) EXCEPT !.rs[t] = "NEEDSRUN"])
         /\ [RunqDequeue(s, t) EXCEPT !.rs[t] = "NEEDSRUN"].rs = [s.rs EXCEPT ![t] = "NEEDSRUN"]
<1> DEFINE r == [RunqDequeue(s, t) EXCEPT !.rs[t] = "NEEDSRUN"]
<1>1. s \in SchedType /\ s.running # t
  BY DEF SchedOK, RunningMarked
<1>2. /\ r \in SchedType /\ r.running = s.running /\ r.resched = s.resched
      /\ r.runq = Without(s.runq, t) /\ r.rs = [s.rs EXCEPT ![t] = "NEEDSRUN"] /\ r.cprio = s.cprio
  BY <1>1, RunqDequeueType, NeedsRunType DEF RunqDequeue, SchedType
<1> HIDE DEF r
<1>3. "NEEDSRUN" \in RunState \ {"RUNNABLE", "RUNNING"} /\ s.cprio \in Priorities
  BY <1>1, SchedFields DEF RunState
<1>4. SchedOK(r)
  BY <1>1, <1>2, <1>3, TakenOutOK
<1> QED BY <1>2, <1>4 DEF r

\* A blocked thread's wait is over.
LEMMA WaitOverOK ==
  ASSUME NEW s, SchedOK(s), NEW t \in Threads, s.rs[t] = "BLOCKED"
  PROVE  /\ SchedOK([s EXCEPT !.rs[t] = "NEEDSRUN"])
         /\ [s EXCEPT !.rs[t] = "NEEDSRUN"].rs = [s.rs EXCEPT ![t] = "NEEDSRUN"]
<1>1. s \in SchedType /\ t \notin ToSet(s.runq)
  BY DEF SchedOK, QueueHolds, Stands, Runnable
<1>2. RunqDequeue(s, t) = s
  BY <1>1 DEF RunqDequeue, Without, SchedType
<1> QED BY <1>2, TakenOffOK

\* The running thread is boosted.
LEMMA RunningBoostOK ==
  ASSUME NEW s, SchedOK(s), NEW t \in Threads, s.rs[t] # "RUNNABLE",
         NEW prio \in Priority, prio < s.cprio[t]
  PROVE  SchedOK([s EXCEPT !.cprio[t] = prio]) /\ [s EXCEPT !.cprio[t] = prio].rs = s.rs
<1> DEFINE r == [s EXCEPT !.cprio[t] = prio]
<1>1. s \in SchedType
  BY DEF SchedOK
<1>2. /\ r \in SchedType /\ r.running = s.running /\ r.resched = s.resched
      /\ r.runq = s.runq /\ r.rs = s.rs /\ r.cprio = [s.cprio EXCEPT ![t] = prio]
  BY <1>1, SetPrioType DEF SchedType
<1> HIDE DEF r
<1>3. Runnable(r) = Runnable(s) /\ t \notin Runnable(s)
  BY <1>2 DEF Runnable
<1>4. \A u \in Threads : r.cprio[u] = IF u = t THEN prio ELSE s.cprio[u]
  BY <1>1, <1>2 DEF SchedType
<1>5. QueueHolds(r)
  <2>1. \A u \in Runnable(s) : r.cprio[u] = s.cprio[u]
    BY <1>3, <1>4 DEF Runnable
  <2>2. Stands(s.runq, s.cprio, Runnable(s)) /\ s.runq \in Seq(Threads)
    BY <1>1, SchedFields DEF SchedOK, QueueHolds
  <2> QED BY <1>2, <1>3, <2>1, <2>2, StandsByPrio DEF QueueHolds
<1>6. ASSUME ~r.resched, NEW u \in Runnable(r)
      PROVE  r.running # NoThread /\ r.cprio[r.running] <= r.cprio[u]
  <2>1. u \in Runnable(s) /\ u # t /\ u \in Threads
    BY <1>3, <1>6 DEF Runnable
  <2>2. s.running # NoThread /\ s.cprio[s.running] <= s.cprio[u] /\ s.running \in Threads
    BY <1>1, <1>2, <1>6, <2>1, SchedFields DEF SchedOK, NoneBetter
  <2>3. s.cprio[s.running] \in Int /\ s.cprio[u] \in Int /\ prio \in Int
    <3>1. s.cprio[s.running] \in Int /\ s.cprio[u] \in Int
      BY <1>1, <2>1, <2>2, SchedFields
    <3>2. prio \in Int
      BY DEF Priority, MAX_PRIORITY_LEVELS
    <3> QED BY <3>1, <3>2
  <2>4. CASE s.running = t
    BY <1>2, <1>4, <2>1, <2>2, <2>3, <2>4
  <2>5. CASE s.running # t
    BY <1>2, <1>4, <2>1, <2>2, <2>5
  <2> QED BY <2>4, <2>5
<1>7. RunningMarked(r)
  BY <1>2 DEF SchedOK, RunningMarked
<1>8. SchedOK(r)
  BY <1>2, <1>5, <1>6, <1>7 DEF SchedOK, NoneBetter
<1> QED BY <1>2, <1>8 DEF r

\* A boost, of a queued thread or of any other.
LEMMA BoostCPrioOK ==
  ASSUME NEW s, SchedOK(s), NEW t \in Threads, NEW prio \in Priority, prio < s.cprio[t]
  PROVE  SchedOK(BoostCPrio(s, t, prio)) /\ BoostCPrio(s, t, prio).rs = s.rs
<1>1. s \in SchedType
  BY DEF SchedOK
<1>2. CASE s.rs[t] = "RUNNABLE"
  <2> DEFINE d == RunqDequeue([s EXCEPT !.cprio[t] = prio], t)
             p == [s.cprio EXCEPT ![t] = prio]
             b == [d EXCEPT !.rs[t] = "BLOCKED"]
  <2>1. [s EXCEPT !.cprio[t] = prio] \in SchedType
    BY <1>1, SetPrioType
  <2>2. /\ d \in SchedType /\ d.running = s.running /\ d.resched = s.resched
        /\ d.runq = Without(s.runq, t) /\ d.rs = s.rs /\ d.cprio = p
    BY <1>1, <2>1, RunqDequeueType DEF RunqDequeue, SchedType
  <2>3. BoostCPrio(s, t, prio) = MakeRun(d, t)
    BY <1>2 DEF BoostCPrio
  <2>4. p \in Priorities /\ \A u \in Threads \ {t} : p[u] = s.cprio[u]
    BY <1>1 DEF SchedType, Priorities
  <2> HIDE DEF d, p
  <2>5. /\ b \in SchedType /\ b.running = s.running /\ b.resched = s.resched
        /\ b.runq = Without(s.runq, t) /\ b.rs = [s.rs EXCEPT ![t] = "BLOCKED"] /\ b.cprio = p
    BY <2>2 DEF SchedType, RunState
  <2>6. MakeRun(b, t) = MakeRun(d, t)
    <3>1. [b.rs EXCEPT ![t] = "RUNNABLE"] = [d.rs EXCEPT ![t] = "RUNNABLE"]
      BY <2>2, <2>5 DEF SchedType
    <3> DEFINE asks(z) == z.resched \/ ((z.runq = << >> \/ z.cprio[t] < z.cprio[Head(z.runq)])
                                         /\ (z.running = NoThread \/ z.cprio[t] < z.cprio[z.running]))
               queue(z) == InsertBehind(z.runq, z.cprio, t)
    <3>2. ASSUME NEW q, NEW w
          PROVE  [b EXCEPT !.rs[t] = "RUNNABLE", !.runq = q, !.resched = w]
                   = [d EXCEPT !.rs[t] = "RUNNABLE", !.runq = q, !.resched = w]
      BY <2>2, <2>5, <3>1 DEF SchedType
    <3>3. asks(b) = asks(d) /\ queue(b) = queue(d)
      BY <2>2, <2>5
    <3>4. /\ MakeRun(b, t) = [b EXCEPT !.rs[t] = "RUNNABLE", !.runq = queue(b), !.resched = asks(b)]
          /\ MakeRun(d, t) = [d EXCEPT !.rs[t] = "RUNNABLE", !.runq = queue(d), !.resched = asks(d)]
      BY <2>2, <2>5, Zenon DEF MakeRun
    <3> HIDE DEF asks, queue
    <3>5. [b EXCEPT !.rs[t] = "RUNNABLE", !.runq = queue(d), !.resched = asks(d)]
            = [d EXCEPT !.rs[t] = "RUNNABLE", !.runq = queue(d), !.resched = asks(d)]
      BY ONLY <3>2
    <3>6. MakeRun(b, t) = [b EXCEPT !.rs[t] = "RUNNABLE", !.runq = queue(d), !.resched = asks(d)]
      BY ONLY <3>3, <3>4, Zenon
    <3> QED BY ONLY <3>4, <3>5, <3>6, Zenon
  <2> HIDE DEF b
  <2>7. s.running # t
    BY <1>2 DEF SchedOK, RunningMarked
  <2>8. "BLOCKED" \in RunState \ {"RUNNABLE", "RUNNING"}
    BY DEF RunState
  <2>9. SchedOK(b)
    BY <2>4, <2>5, <2>7, <2>8, TakenOutOK
  <2>10. /\ QueueHolds(b) /\ NoneBetter(b) /\ b.rs[t] = "BLOCKED" /\ b.running # t
         /\ \A u \in Threads \ {t} : b.rs[u] = "RUNNING" <=> b.running = u
    BY <1>1, <2>5, <2>7, <2>9 DEF SchedOK, RunningMarked, SchedType
  <2>11. SchedOK(MakeRun(b, t))
    BY <2>5, <2>10, MakeRunOK
  <2>12. MakeRun(d, t).rs = s.rs
    <3>1. MakeRun(d, t).rs = [d.rs EXCEPT ![t] = "RUNNABLE"]
      BY <2>2, MakeRunFields
    <3> QED BY <1>1, <1>2, <2>2, <3>1 DEF SchedType
  <2> QED BY <2>3, <2>6, <2>11, <2>12
<1>3. CASE s.rs[t] # "RUNNABLE"
  BY <1>3, RunningBoostOK DEF BoostCPrio
<1> QED BY <1>2, <1>3

\* The running thread's priority changes either way.
LEMMA SetRunningPrioOK ==
  ASSUME NEW s \in SchedType, QueueHolds(s), RunningMarked(s), s.running \in Threads,
         \A u \in Runnable(s) : s.cprio[s.running] <= s.cprio[u], NEW prio \in Priority
  PROVE  SchedOK(SetRunningPrio(s, prio)) /\ SetRunningPrio(s, prio).rs = s.rs
<1> DEFINE t == s.running
           r == SetRunningPrio(s, prio)
           worse == s.runq # << >> /\ prio > s.cprio[Head(s.runq)]
<1>1. /\ r \in SchedType /\ r.running = t /\ r.runq = s.runq /\ r.rs = s.rs
      /\ r.cprio = [s.cprio EXCEPT ![t] = prio] /\ (worse => r.resched)
  BY SetRunningPrioType DEF SetRunningPrio, SetReschedule, SchedType
<1> HIDE DEF r
<1>2. Runnable(r) = Runnable(s) /\ t \notin Runnable(s)
  BY <1>1 DEF Runnable, RunningMarked
<1>3. \A u \in Threads : r.cprio[u] = IF u = t THEN prio ELSE s.cprio[u]
  BY <1>1 DEF SchedType
<1>4. QueueHolds(r)
  <2>1. \A u \in Runnable(s) : r.cprio[u] = s.cprio[u]
    BY <1>2, <1>3 DEF Runnable
  <2>2. Stands(s.runq, s.cprio, Runnable(s)) /\ s.runq \in Seq(Threads)
    BY SchedFields DEF QueueHolds
  <2>3. Stands(s.runq, r.cprio, Runnable(s))
    BY ONLY <2>1, <2>2, StandsByPrio
  <2> QED BY <1>1, <1>2, <2>3 DEF QueueHolds
<1>5. ASSUME ~worse, NEW u \in Runnable(s)
      PROVE  prio <= s.cprio[u]
  <2> DEFINE h == Head(s.runq)
  <2>1. s.runq # << >>
    BY SchedFields, Members DEF QueueHolds, Stands
  <2>2. h \in Threads /\ s.cprio[h] <= s.cprio[u] /\ ~(prio > s.cprio[h])
    BY <1>5, <2>1, SchedFields, HeadStands DEF QueueHolds
  <2>3. s.cprio[h] \in Int /\ s.cprio[u] \in Int /\ prio \in Int
    BY <2>2, SchedFields DEF Runnable, Priority, MAX_PRIORITY_LEVELS
  <2> HIDE DEF h
  <2> QED BY <2>2, <2>3
<1>6. NoneBetter(r)
  <2> SUFFICES ASSUME ~r.resched, NEW u \in Runnable(r)
               PROVE  r.running # NoThread /\ r.cprio[r.running] <= r.cprio[u]
    BY DEF NoneBetter
  <2>1. u \in Runnable(s) /\ u \in Threads /\ u # t
    BY <1>2 DEF Runnable
  <2>2. prio <= s.cprio[u]
    BY <1>1, <1>5, <2>1
  <2> QED BY <1>1, <1>3, <2>1, <2>2, NoThreadAssumption
<1>7. RunningMarked(r)
  BY <1>1 DEF RunningMarked
<1>8. SchedOK(r)
  BY <1>1, <1>4, <1>6, <1>7 DEF SchedOK
<1> QED BY <1>1, <1>8 DEF r

\* KCNextThread, first half: the running thread stays only if nobody is better.
LEMMA PutBackCurrentOK ==
  ASSUME NEW s \in SchedType, QueueHolds(s), RunningMarked(s), ~s.resched, NEW b \in BOOLEAN,
         NEW r, r = PutBackCurrent(s, b)
  PROVE  /\ r \in SchedType /\ QueueHolds(r) /\ RunningMarked(r) /\ ~r.resched
         /\ r.running # NoThread \/ r.runq = << >> => NoneBetter(r)
         /\ r.rs = s.rs \/ (s.running \in Threads /\ r.rs = [s.rs EXCEPT ![s.running] = "RUNNABLE"])
<1> DEFINE t == s.running
           h == Head(s.runq)
<1>1. CASE t = NoThread \/ s.runq = << >>
  <2>1. r = s
    BY <1>1 DEF PutBackCurrent
  <2>2. s.runq = << >> => Runnable(s) = {}
    BY SchedFields, Members DEF QueueHolds, Stands
  <2> QED BY <1>1, <2>1, <2>2 DEF NoneBetter
<1>2. CASE t # NoThread /\ s.runq # << >>
  <2>1. t \in Threads /\ s.rs[t] = "RUNNING" /\ s.cprio[t] \in Int
    BY <1>2, SchedFields DEF RunningMarked
  <2>2. h \in Threads /\ s.cprio[h] \in Int /\ \A u \in Runnable(s) : s.cprio[h] <= s.cprio[u]
    BY <1>2, SchedFields, HeadStands DEF QueueHolds
  <2> HIDE DEF t, h
  <2>3. ASSUME NEW q \in {InsertBehind(s.runq, s.cprio, t), InsertAhead(s.runq, s.cprio, t)},
               r = [s EXCEPT !.running = NoThread, !.rs[t] = "RUNNABLE", !.runq = q]
        PROVE  /\ r \in SchedType /\ QueueHolds(r) /\ RunningMarked(r) /\ ~r.resched
               /\ r.running # NoThread \/ r.runq = << >> => NoneBetter(r)
               /\ r.rs = [s.rs EXCEPT ![t] = "RUNNABLE"]
    <3>1. t \notin Runnable(s)
      BY <2>1 DEF Runnable
    <3>2. q \in Seq(Threads) /\ Stands(q, s.cprio, Runnable(s) \union {t})
      <4>1. s.runq \in Seq(Threads) /\ s.cprio \in Priorities /\ Stands(s.runq, s.cprio, Runnable(s))
            /\ t \in Threads
        BY <2>1, SchedFields DEF QueueHolds
      <4>2. q \in {InsertBehind(s.runq, s.cprio, t), InsertAhead(s.runq, s.cprio, t)}
        BY <2>3
      <4> QED BY ONLY <2>1, <3>1, <4>1, <4>2, InsertionStands
    <3>3. /\ r \in SchedType /\ r.running = NoThread /\ r.rs = [s.rs EXCEPT ![t] = "RUNNABLE"]
          /\ r.runq = q /\ r.cprio = s.cprio /\ ~r.resched
      <4>1. ASSUME NEW x \in Seq(Threads), NEW y,
                   y = [s EXCEPT !.running = NoThread, !.rs[t] = "RUNNABLE", !.runq = x]
            PROVE  /\ y \in SchedType /\ y.running = NoThread /\ y.rs = [s.rs EXCEPT ![t] = "RUNNABLE"]
                   /\ y.runq = x /\ y.cprio = s.cprio /\ ~y.resched
        BY <4>1 DEF SchedType, RunState
      <4> QED BY <2>3, <3>2, <4>1
    <3>4. Runnable(r) = Runnable(s) \union {t}
      BY <2>1, <3>3, SchedFields DEF Runnable
    <3>5. QueueHolds(r)
      BY <3>2, <3>3, <3>4 DEF QueueHolds
    <3>6. RunningMarked(r)
      BY <2>1, <3>3, SchedFields, NoThreadAssumption DEF RunningMarked
    <3>7. r.runq # << >>
      BY <3>2, Members, <3>3 DEF Stands
    <3> QED BY <3>3, <3>5, <3>6, <3>7
  <2>4. CASE b /\ s.cprio[t] >= s.cprio[h]
    BY <1>2, <2>1, <2>3, <2>4 DEF PutBackCurrent, t, h
  <2>5. CASE ~(b /\ s.cprio[t] >= s.cprio[h]) /\ s.cprio[t] > s.cprio[h]
    BY <1>2, <2>1, <2>3, <2>5 DEF PutBackCurrent, t, h
  <2>6. CASE ~(b /\ s.cprio[t] >= s.cprio[h]) /\ ~(s.cprio[t] > s.cprio[h])
    <3>1. r = s
      BY <1>2, <2>6 DEF PutBackCurrent, t, h
    <3>2. NoneBetter(s)
      <4> SUFFICES ASSUME NEW u \in Runnable(s)
                   PROVE  t # NoThread /\ s.cprio[t] <= s.cprio[u]
        BY DEF NoneBetter, t
      <4>1. u \in Threads /\ s.cprio[u] \in Int
        BY SchedFields DEF Runnable
      <4> DEFINE x == s.cprio[t]
                 y == s.cprio[h]
                 z == s.cprio[u]
      <4>2. x \in Int /\ y \in Int /\ z \in Int /\ y <= z /\ ~(x > y)
        BY <2>1, <2>2, <2>6, <4>1
      <4> HIDE DEF x, y, z
      <4>3. x <= z
        BY <4>2
      <4> QED BY <1>2, <4>3 DEF x, z
    <3> QED BY <3>1, <3>2
  <2> QED BY <2>1, <2>4, <2>5, <2>6
<1> QED BY <1>1, <1>2

\* KCNextThread, second half: the best runnable thread runs.
LEMMA DispatchOK ==
  ASSUME NEW s \in SchedType, QueueHolds(s), RunningMarked(s), Dispatches(s),
         NEW prioCalc \in Priorities
  PROVE  /\ SchedOK(Dispatch(s, prioCalc))
         /\ Head(s.runq) \in Threads /\ s.rs[Head(s.runq)] = "RUNNABLE"
         /\ Dispatch(s, prioCalc).rs = [s.rs EXCEPT ![Head(s.runq)] = "RUNNING"]
<1> DEFINE t == Head(s.runq)
           run == [s EXCEPT !.running = t, !.rs[t] = "RUNNING", !.runq = Tail(@)]
<1>1. s.runq # << >> /\ s.running = NoThread
  BY DEF Dispatches
<1>2. /\ t \in Runnable(s) /\ t \in Threads /\ \A u \in Runnable(s) : s.cprio[t] <= s.cprio[u]
      /\ Tail(s.runq) \in Seq(Threads) /\ Stands(Tail(s.runq), s.cprio, Runnable(s) \ {t})
  BY <1>1, SchedFields, HeadStands DEF QueueHolds
<1>3. /\ run \in SchedType /\ run.running = t /\ run.rs = [s.rs EXCEPT ![t] = "RUNNING"]
      /\ run.runq = Tail(s.runq) /\ run.cprio = s.cprio
  BY <1>2 DEF SchedType, RunState
<1>4. Dispatch(s, prioCalc) =
        IF prioCalc[t] > s.cprio[t] THEN SetRunningPrio(run, prioCalc[t]) ELSE run
  BY DEF Dispatch
<1>5. prioCalc[t] \in Priority /\ s.rs[t] = "RUNNABLE"
  BY <1>2 DEF Priorities, Runnable
<1> HIDE DEF run
<1>6. Runnable(run) = Runnable(s) \ {t}
  BY <1>2, <1>3, SchedFields DEF Runnable
<1>7. QueueHolds(run)
  BY <1>2, <1>3, <1>6 DEF QueueHolds
<1>8. RunningMarked(run)
  BY <1>1, <1>2, <1>3, SchedFields, NoThreadAssumption DEF RunningMarked
<1>9. \A u \in Runnable(run) : run.cprio[run.running] <= run.cprio[u]
  BY <1>2, <1>3, <1>6
<1>10. NoneBetter(run)
  BY <1>2, <1>3, <1>9, NoThreadAssumption DEF NoneBetter
<1>11. SchedOK(SetRunningPrio(run, prioCalc[t])) /\ SetRunningPrio(run, prioCalc[t]).rs = run.rs
  BY <1>2, <1>3, <1>5, <1>7, <1>8, <1>9, SetRunningPrioOK
<1>12. SchedOK(run)
  BY <1>3, <1>7, <1>8, <1>10 DEF SchedOK
<1> QED BY <1>2, <1>3, <1>4, <1>5, <1>11, <1>12
=============================================================================
