---------------------------- MODULE SleepQ_proofs ----------------------------
(***************************************************************************)
(* What the operators of SleepQ do to the scheduler's lists, for any       *)
(* threads and priorities: SleepOneMore, SleepqDequeue, NextThread, the    *)
(* dispatcher, ThreadSuspend, ThreadResume, MakeRun and a signal.          *)
(*                                                                         *)
(* SleepOK says that the run queue is sorted and holds the runnable        *)
(* threads, and that every thread that sleeps is in one bed: in a ring of  *)
(* the sleep queue, all of one wake-up time, in the order of these times,  *)
(* or hanging on a thread that NextThread has taken off it.  DueOK says    *)
(* that who hangs has slept long enough.  Each operator keeps both, and    *)
(* says what can happen to the threads it is not called for (Passes).  A   *)
(* ring is handled like a run queue of KSched in which all priorities are  *)
(* the same, so that the lemmas of KSched_proofs serve for both queues.    *)
(***************************************************************************)
EXTENDS WaitObj, KSched_proofs

(***************************************************************************)
(* Rings: queues of threads in which nobody stands twice, in any order.    *)
(***************************************************************************)
Level == [t \in Threads |-> 0]

\* A ring is a queue ordered by a priority that is the same for all.
LEMMA RingStands ==
  ASSUME NEW q \in Seq(Threads)
  PROVE  /\ Level \in Priorities
         /\ NoDuplicates(q) <=> Stands(q, Level, ToSet(q))
<1>1. Level \in Priorities
  BY DEF Level, Priorities, Priority, MAX_PRIORITY_LEVELS
<1>2. SortedBy(q, Level)
  BY Members DEF SortedBy, Level
<1> QED BY <1>1, <1>2 DEF Stands

\* The first of a ring and the rest of it.
LEMMA RingTail ==
  ASSUME NEW q \in Seq(Threads), NoDuplicates(q), q # << >>
  PROVE  /\ Head(q) \in ToSet(q) /\ Head(q) \in Threads /\ Head(q) = q[1] /\ Len(q) \in Nat \ {0}
         /\ Tail(q) \in Seq(Threads) /\ NoDuplicates(Tail(q))
         /\ ToSet(Tail(q)) = ToSet(q) \ {Head(q)}
<1>1. Stands(q, Level, ToSet(q)) /\ Level \in Priorities
  BY RingStands
<1>2. /\ Head(q) \in ToSet(q) /\ Head(q) \in Threads
      /\ Tail(q) \in Seq(Threads) /\ Stands(Tail(q), Level, ToSet(q) \ {Head(q)})
  BY <1>1, HeadStands
<1>3. Len(q) \in Nat \ {0} /\ Head(q) = q[1]
  BY EmptySeq
<1> QED BY <1>2, <1>3 DEF Stands

\* A ring without one of its threads.
LEMMA RingWithout ==
  ASSUME NEW q \in Seq(Threads), NoDuplicates(q), NEW t
  PROVE  /\ Without(q, t) \in Seq(Threads) /\ NoDuplicates(Without(q, t))
         /\ ToSet(Without(q, t)) = ToSet(q) \ {t}
         /\ q # << >> /\ Head(q) # t => Without(q, t) # << >> /\ Head(Without(q, t)) = Head(q)
         /\ q # << >> /\ q # <<t>> => Without(q, t) # << >>
<1>1. Stands(q, Level, ToSet(q)) /\ Level \in Priorities
  BY RingStands
<1>2. /\ Without(q, t) \in Seq(Threads) /\ Stands(Without(q, t), Level, ToSet(q) \ {t})
  BY <1>1, WithoutStands
<1>3. /\ Len(q) \in Nat /\ DOMAIN q = 1 .. Len(q) /\ \A j \in 1 .. Len(q) : q[j] \in Threads
      /\ ToSet(q) = {q[j] : j \in 1 .. Len(q)}
  BY Members
<1>4. q # << >> => Len(q) \in Nat \ {0} /\ Head(q) = q[1]
  BY EmptySeq
<1>5. ASSUME q # << >>, Head(q) # t
      PROVE  Without(q, t) # << >> /\ Head(Without(q, t)) = Head(q)
  <2>1. CASE t \notin ToSet(q)
    BY <1>5, <2>1 DEF Without
  <2>2. CASE t \in ToSet(q)
    <3> DEFINE i == IndexOf(q, t)
               r == Without(q, t)
    <3>1. i \in 1 .. Len(q) /\ q[i] = t
      BY <1>3, <2>2 DEF IndexOf
    <3>2. r = RemoveAt(q, i)
      BY <2>2 DEF Without
    <3>3. Len(r) = Len(q) - 1 /\ \A j \in 1 .. Len(r) : r[j] = IF j < i THEN q[j] ELSE q[j + 1]
      BY <3>1, <3>2, RemoveAtEffect
    <3>4. i > 1
      BY <1>3, <1>4, <1>5, <3>1
    <3>5. Len(r) \in Nat \ {0} /\ r[1] = q[1]
      BY <1>3, <3>1, <3>3, <3>4
    <3> HIDE DEF r
    <3>6. r # << >> /\ Head(r) = r[1]
      BY <1>2, <3>5, EmptySeq DEF r
    <3> QED BY <1>4, <1>5, <3>5, <3>6 DEF r
  <2> QED BY <2>1, <2>2
<1>6. ASSUME q # << >>, q # <<t>>
      PROVE  Without(q, t) # << >>
  <2>1. CASE Head(q) # t
    BY <1>5, <1>6, <2>1
  <2>2. CASE Head(q) = t
    <3>1. Len(q) # 1
      <4>1. ASSUME Len(q) = 1 PROVE FALSE
        <5>1. q[1] = t /\ t \in Threads
          BY <1>3, <1>4, <1>6, <2>2
        <5>2. q = <<t>>
          BY <4>1, <5>1, SeqEqual
        <5> QED BY <1>6, <5>2
      <4> QED BY <4>1
    <3>2. q[2] \in ToSet(q) \ {t} /\ 2 \in 1 .. Len(q)
      BY <1>3, <1>4, <1>6, <2>2, <3>1 DEF NoDuplicates
    <3>3. ToSet(Without(q, t)) # {}
      BY <1>2, <3>2 DEF Stands
    <3> QED BY <1>2, <3>3, Members
  <2> QED BY <2>1, <2>2
<1> QED BY <1>2, <1>5, <1>6 DEF Stands

\* A thread by itself.
LEMMA SingleRing ==
  ASSUME NEW t \in Threads
  PROVE  /\ <<t>> \in Seq(Threads) /\ NoDuplicates(<<t>>) /\ ToSet(<<t>>) = {t} /\ <<t>> # << >>
         /\ Head(<<t>>) = t
<1>1. <<t>> \in Seq(Threads) /\ Len(<<t>>) = 1 /\ <<t>>[1] = t
  OBVIOUS
<1>2. DOMAIN <<t>> = 1 .. 1 /\ ToSet(<<t>>) = {<<t>>[j] : j \in 1 .. 1}
  BY <1>1, Members
<1>3. <<t>> # << >> /\ Head(<<t>>) = <<t>>[1]
  BY <1>1, EmptySeq
<1> QED BY <1>1, <1>2, <1>3 DEF NoDuplicates

\* A thread joins a ring.
LEMMA RingInsert ==
  ASSUME NEW q \in Seq(Threads), NoDuplicates(q), NEW t \in Threads, t \notin ToSet(q),
         NEW i \in 1 .. Len(q) + 1, NEW r, r = InsertAt(q, i, t)
  PROVE  /\ r \in Seq(Threads) /\ NoDuplicates(r) /\ ToSet(r) = ToSet(q) \union {t} /\ r # << >>
         /\ Head(r) = IF i = 1 THEN t ELSE Head(q)
<1>1. Stands(q, Level, ToSet(q)) /\ Level \in Priorities
  BY RingStands
<1>2. /\ Len(q) \in Nat /\ DOMAIN q = 1 .. Len(q) /\ \A j \in 1 .. Len(q) : q[j] \in Threads
  BY Members
<1>3. \A j \in 1 .. Len(q) : Level[q[j]] <= Level[t] /\ Level[t] <= Level[q[j]]
  BY <1>2 DEF Level
<1>4. r \in Seq(Threads) /\ Stands(r, Level, ToSet(q) \union {t})
  BY <1>1, <1>3, InsertStands
<1>5. /\ Len(r) = Len(q) + 1 /\ r[i] = t
      /\ \A j \in 1 .. Len(q) : j < i => r[j] = q[j]
  BY InsertAtEffect
<1>6. r # << >> /\ Head(r) = r[1]
  BY <1>2, <1>4, <1>5, EmptySeq
<1>7. CASE i = 1
  BY <1>4, <1>5, <1>6, <1>7 DEF Stands
<1>8. CASE i # 1
  <2>1. 1 < i /\ 1 \in 1 .. Len(q)
    BY <1>2, <1>8
  <2>2. q # << >> /\ Head(q) = q[1]
    BY <2>1, EmptySeq
  <2> QED BY <1>4, <1>5, <1>6, <1>8, <2>1, <2>2 DEF Stands
<1> QED BY <1>7, <1>8

\* A thread joins a ring in front of its head.
LEMMA RingPush ==
  ASSUME NEW q \in Seq(Threads), NoDuplicates(q), NEW t \in Threads, t \notin ToSet(q),
         NEW r, r = <<t>> \o q
  PROVE  /\ r \in Seq(Threads) /\ NoDuplicates(r) /\ ToSet(r) = ToSet(q) \union {t} /\ r # << >>
         /\ Head(r) = t
<1> DEFINE c == <<t>>
<1>1. c \in Seq(Threads) /\ Len(c) = 1 /\ c[1] = t
  OBVIOUS
<1>2. /\ Len(q) \in Nat /\ DOMAIN q = 1 .. Len(q) /\ \A j \in 1 .. Len(q) : q[j] \in Threads
      /\ ToSet(q) = {q[j] : j \in 1 .. Len(q)}
  BY Members
<1> HIDE DEF c
<1>3. /\ r \in Seq(Threads) /\ Len(r) = 1 + Len(q)
      /\ \A i \in 1 .. 1 + Len(q) : r[i] = IF i <= 1 THEN c[i] ELSE q[i - 1]
  <2>1. r = c \o q
    BY DEF c
  <2> QED BY <1>1, <1>2, <2>1, ConcatProperties
<1>4. DOMAIN r = 1 .. 1 + Len(q) /\ ToSet(r) = {r[j] : j \in 1 .. 1 + Len(q)}
  BY <1>3, Members
<1>5. r[1] = t /\ \A j \in 1 .. Len(q) : r[j + 1] = q[j]
  BY <1>1, <1>2, <1>3
<1>6. ToSet(r) = ToSet(q) \union {t}
  <2>1. ASSUME NEW j \in 1 .. 1 + Len(q)
        PROVE  r[j] \in ToSet(q) \union {t}
    <3>1. CASE j = 1
      BY <1>5, <3>1
    <3>2. CASE j # 1
      <4>1. j - 1 \in 1 .. Len(q) /\ (j - 1) + 1 = j
        BY <1>2, <3>2
      <4> QED BY <1>2, <1>5, <4>1
    <3> QED BY <3>1, <3>2
  <2>2. ASSUME NEW j \in 1 .. Len(q)
        PROVE  q[j] \in ToSet(r)
    <3>1. j + 1 \in 1 .. 1 + Len(q)
      BY <1>2
    <3> QED BY <1>4, <1>5, <3>1
  <2>3. 1 \in 1 .. 1 + Len(q)
    BY <1>2
  <2> QED BY <1>2, <1>4, <1>5, <2>1, <2>2, <2>3, SMTT(30)
<1>7. NoDuplicates(r)
  <2>1. ASSUME NEW j \in 1 .. 1 + Len(q), NEW k \in 1 .. 1 + Len(q), j < k
        PROVE  r[j] # r[k]
    <3>1. k - 1 \in 1 .. Len(q) /\ (k - 1) + 1 = k
      BY <1>2, <2>1
    <3>2. r[k] = q[k - 1]
      BY <1>5, <3>1
    <3>3. CASE j = 1
      BY <1>2, <1>5, <3>1, <3>2, <3>3
    <3>4. CASE j # 1
      <4>1. j - 1 \in 1 .. Len(q) /\ (j - 1) + 1 = j /\ j - 1 # k - 1
        BY <1>2, <2>1, <3>4
      <4>2. r[j] = q[j - 1]
        BY <1>5, <4>1
      <4> QED BY <1>2, <3>1, <3>2, <4>1, <4>2 DEF NoDuplicates
    <3> QED BY <3>3, <3>4
  <2>2. \A j, k \in 1 .. 1 + Len(q) : j # k => j < k \/ k < j
    BY <1>2
  <2> QED BY <1>4, <2>1, <2>2 DEF NoDuplicates
<1>8. r # << >> /\ Head(r) = r[1]
  BY <1>2, <1>3, EmptySeq
<1> QED BY <1>3, <1>5, <1>6, <1>7, <1>8

(***************************************************************************)
(* The sleep queue: rings of threads that wake together, by their time.    *)
(***************************************************************************)
Ring  == Seq(Threads)
Times == [Threads -> Nat]

Sleepers(q) == UNION {ToSet(q[i]) : i \in DOMAIN q}
Heads(q)    == {Head(q[i]) : i \in DOMAIN q}

QueueOK(q, w) ==
  /\ q \in Seq(Ring)
  /\ \A i \in 1 .. Len(q) : /\ q[i] # << >> /\ NoDuplicates(q[i])
                            /\ \A t \in ToSet(q[i]) : w[t] = w[Head(q[i])]
  /\ \A i, j \in 1 .. Len(q) : i < j => w[Head(q[i])] < w[Head(q[j])]

\* A ring leaves the queue.
LEMMA RingLeaves ==
  ASSUME NEW q \in Seq(Ring), NEW i \in 1 .. Len(q), NEW r, r = RemoveAt(q, i)
  PROVE  /\ r \in Seq(Ring) /\ Len(r) = Len(q) - 1
         /\ \A j \in 1 .. Len(r) : r[j] = IF j < i THEN q[j] ELSE q[j + 1]
BY RemoveAtEffect

\* A ring joins the queue.
LEMMA RingJoins ==
  ASSUME NEW q \in Seq(Ring), NEW i \in 1 .. Len(q) + 1, NEW x \in Ring,
         NEW r, r = InsertAt(q, i, x)
  PROVE  /\ r \in Seq(Ring) /\ Len(r) = Len(q) + 1 /\ r[i] = x
         /\ \A j \in 1 .. Len(q) : j < i => r[j] = q[j]
         /\ \A j \in 1 .. Len(q) : j >= i => r[j + 1] = q[j]
<1>1. r \in Seq(Ring) /\ Len(r) = Len(q) + 1 /\ r[i] = x
  BY InsertAtEffect
<1>2. \A j \in 1 .. Len(q) : j < i => r[j] = q[j]
  BY InsertAtEffect
<1>3. \A j \in 1 .. Len(q) : j >= i => r[j + 1] = q[j]
  BY InsertAtEffect
<1> QED BY <1>1, <1>2, <1>3

\* Rings, their heads and their threads.
LEMMA QueueRings ==
  ASSUME NEW q \in Seq(Ring),
         \A i \in 1 .. Len(q) : q[i] # << >> /\ NoDuplicates(q[i])
  PROVE  /\ Len(q) \in Nat /\ DOMAIN q = 1 .. Len(q)
         /\ \A i \in 1 .. Len(q) : /\ q[i] \in Seq(Threads) /\ ToSet(q[i]) \subseteq Threads
                                   /\ Head(q[i]) \in ToSet(q[i])
         /\ Heads(q) \subseteq Sleepers(q) /\ Sleepers(q) \subseteq Threads
         /\ Sleepers(q) = UNION {ToSet(q[i]) : i \in 1 .. Len(q)}
         /\ Heads(q) = {Head(q[i]) : i \in 1 .. Len(q)}
<1>1. /\ Len(q) \in Nat /\ DOMAIN q = 1 .. Len(q) /\ \A i \in 1 .. Len(q) : q[i] \in Seq(Threads)
  BY LenProperties, ElementOfSeq DEF Ring
<1>2. \A i \in 1 .. Len(q) : ToSet(q[i]) \subseteq Threads /\ Head(q[i]) \in ToSet(q[i])
  <2> TAKE i \in 1 .. Len(q)
  <2>1. ToSet(q[i]) \subseteq Threads
    BY <1>1, Members
  <2> QED BY <1>1, <2>1, RingTail
<1> QED BY <1>1, <1>2 DEF Heads, Sleepers

\* The same of a queue in order.
LEMMA QueueSets ==
  ASSUME NEW q, NEW w, QueueOK(q, w)
  PROVE  /\ q \in Seq(Ring) /\ Len(q) \in Nat /\ DOMAIN q = 1 .. Len(q)
         /\ \A i \in 1 .. Len(q) : /\ q[i] \in Seq(Threads) /\ ToSet(q[i]) \subseteq Threads
                                   /\ Head(q[i]) \in ToSet(q[i])
         /\ Heads(q) \subseteq Sleepers(q) /\ Sleepers(q) \subseteq Threads
         /\ Sleepers(q) = UNION {ToSet(q[i]) : i \in 1 .. Len(q)}
         /\ Heads(q) = {Head(q[i]) : i \in 1 .. Len(q)}
BY QueueRings DEF QueueOK

\* A queue is in order when its rings have rising times.
LEMMA QueueByTimes ==
  ASSUME NEW q \in Seq(Ring), NEW w \in Times, NEW e,
         \A i \in 1 .. Len(q) : /\ q[i] # << >> /\ NoDuplicates(q[i])
                                /\ \A t \in ToSet(q[i]) : w[t] = e[i],
         \A i, j \in 1 .. Len(q) : i < j => e[i] < e[j]
  PROVE  QueueOK(q, w)
<1>1. \A i \in 1 .. Len(q) : w[Head(q[i])] = e[i]
  BY QueueRings
<1> QED BY <1>1 DEF QueueOK

\* A thread stands in one ring, and RingOf finds it.
LEMMA QueuePlaces ==
  ASSUME NEW q, NEW w \in Times, QueueOK(q, w)
  PROVE  /\ \A i, j \in 1 .. Len(q) : \A t \in ToSet(q[i]) : t \in ToSet(q[j]) => i = j
         /\ \A i \in 1 .. Len(q) : w[Head(q[i])] \in Nat
         /\ \A i \in 1 .. Len(q) : \A t \in ToSet(q[i]) : t \in Heads(q) => t = Head(q[i])
         /\ \A s, t : s.sleepq = q /\ t \in Sleepers(q) =>
              RingOf(s, t) \in 1 .. Len(q) /\ t \in ToSet(q[RingOf(s, t)])
<1>1. /\ Len(q) \in Nat /\ DOMAIN q = 1 .. Len(q)
      /\ \A i \in 1 .. Len(q) : ToSet(q[i]) \subseteq Threads /\ Head(q[i]) \in ToSet(q[i])
      /\ Sleepers(q) = UNION {ToSet(q[i]) : i \in 1 .. Len(q)}
      /\ Heads(q) = {Head(q[i]) : i \in 1 .. Len(q)}
  BY QueueRings DEF QueueOK
<1>2. \A i \in 1 .. Len(q) : w[Head(q[i])] \in Nat
  BY <1>1 DEF Times
<1>3. ASSUME NEW i \in 1 .. Len(q), NEW j \in 1 .. Len(q), NEW t \in ToSet(q[i]), t \in ToSet(q[j])
      PROVE  i = j
  <2>1. w[t] = w[Head(q[i])] /\ w[t] = w[Head(q[j])]
    BY <1>3 DEF QueueOK
  <2>2. ~(i < j) /\ ~(j < i)
    BY <1>2, <2>1 DEF QueueOK
  <2> QED BY <1>1, <2>2
<1>4. \A i \in 1 .. Len(q) : \A t \in ToSet(q[i]) : t \in Heads(q) => t = Head(q[i])
  BY <1>1, <1>3
<1>5. ASSUME NEW s, NEW t, s.sleepq = q, t \in Sleepers(q)
      PROVE  RingOf(s, t) \in 1 .. Len(q) /\ t \in ToSet(q[RingOf(s, t)])
  <2>1. \E i \in 1 .. Len(q) : t \in ToSet(q[i])
    BY <1>1, <1>5
  <2>2. RingOf(s, t) = CHOOSE i \in 1 .. Len(q) : t \in ToSet(q[i])
    BY <1>1, <1>5 DEF RingOf
  <2> QED BY <2>1, <2>2
<1> QED BY <1>2, <1>3, <1>4, <1>5

\* A thread leaves the queue.
LEMMA QueueWithout ==
  ASSUME NEW s, NEW w \in Times, NEW q, s.sleepq = q, QueueOK(q, w), NEW t,
         NEW r, r = SleepqWithout(s, t)
  PROVE  /\ QueueOK(r, w) /\ Sleepers(r) = Sleepers(q) \ {t}
         /\ \A h \in Heads(q) : h # t => h \in Heads(r)
<1> DEFINE i == RingOf(s, t)
<1>1. /\ Len(q) \in Nat /\ DOMAIN q = 1 .. Len(q)
      /\ \A k \in 1 .. Len(q) : /\ q[k] \in Seq(Threads) /\ ToSet(q[k]) \subseteq Threads
                                /\ Head(q[k]) \in ToSet(q[k])
      /\ Sleepers(q) = UNION {ToSet(q[k]) : k \in 1 .. Len(q)}
      /\ Heads(q) = {Head(q[k]) : k \in 1 .. Len(q)}
  BY QueueRings DEF QueueOK
<1>2. AllSleepers(s) = Sleepers(q)
  BY DEF AllSleepers, Sleepers
<1>3. CASE t \notin Sleepers(q)
  <2>1. r = q
    BY <1>2, <1>3 DEF SleepqWithout
  <2> QED BY <1>3, <2>1
<1>4. CASE t \in Sleepers(q)
  <2>1. i \in 1 .. Len(q) /\ t \in ToSet(q[i])
    BY <1>4, QueuePlaces
  <2>2. \A k \in 1 .. Len(q) : t \in ToSet(q[k]) => k = i
    BY <2>1, QueuePlaces
  <2> HIDE DEF i
  <2>3. CASE q[i] = <<t>>
    <3>1. r = RemoveAt(q, i)
      BY <1>2, <1>4, <2>3 DEF SleepqWithout, i
    <3>2. /\ r \in Seq(Ring) /\ Len(r) = Len(q) - 1
          /\ \A j \in 1 .. Len(r) : r[j] = IF j < i THEN q[j] ELSE q[j + 1]
      <4>1. q \in Seq(Ring)
        BY DEF QueueOK
      <4> QED BY ONLY <2>1, <3>1, <4>1, RingLeaves
    <3> DEFINE f(j) == IF j < i THEN j ELSE j + 1
    <3>3. \A j \in 1 .. Len(r) : f(j) \in 1 .. Len(q) /\ r[j] = q[f(j)] /\ f(j) # i
      <4> TAKE j \in 1 .. Len(r)
      <4>1. /\ Len(q) \in Nat /\ i \in 1 .. Len(q) /\ Len(r) = Len(q) - 1
        BY <1>1, <2>1, <3>2
      <4>2. r[j] = IF j < i THEN q[j] ELSE q[j + 1]
        BY <3>2
      <4>3. f(j) \in 1 .. Len(q) /\ f(j) # i
        BY ONLY <4>1, j \in 1 .. Len(r)
      <4>4. r[j] = q[f(j)]
        BY ONLY <4>2
      <4> QED BY <4>3, <4>4
    <3>4. \A j, k \in 1 .. Len(r) : j < k => f(j) < f(k)
      BY <1>1, <2>1, <3>2
    <3>5. \A k \in 1 .. Len(q) : k # i => \E j \in 1 .. Len(r) : f(j) = k
      <4> TAKE k \in 1 .. Len(q)
      <4> HAVE k # i
      <4> DEFINE j == IF k < i THEN k ELSE k - 1
      <4>1. j \in 1 .. Len(r) /\ f(j) = k
        BY <1>1, <2>1, <3>2
      <4> QED BY <4>1
    <3> HIDE DEF f
    <3>6. QueueOK(r, w)
      <4>1. \A j \in 1 .. Len(r) : /\ r[j] # << >> /\ NoDuplicates(r[j])
                                     /\ \A u \in ToSet(r[j]) : w[u] = w[Head(r[j])]
        BY <3>3 DEF QueueOK
      <4>2. \A j, k \in 1 .. Len(r) : j < k => w[Head(r[j])] < w[Head(r[k])]
        <5> TAKE j, k \in 1 .. Len(r)
        <5> HAVE j < k
        <5>1. f(j) \in 1 .. Len(q) /\ f(k) \in 1 .. Len(q) /\ f(j) < f(k)
          BY <3>3, <3>4
        <5>2. w[Head(q[f(j)])] < w[Head(q[f(k)])]
          BY <5>1 DEF QueueOK
        <5>3. r[j] = q[f(j)] /\ r[k] = q[f(k)]
          BY <3>3
        <5> QED BY <5>2, <5>3
      <4> QED BY <3>2, <4>1, <4>2 DEF QueueOK
    <3>7. /\ Sleepers(r) = UNION {ToSet(r[j]) : j \in 1 .. Len(r)}
          /\ Heads(r) = {Head(r[j]) : j \in 1 .. Len(r)}
      BY <3>6, QueueRings DEF QueueOK
    <3>8. ToSet(q[i]) = {t}
      BY <1>1, <2>1, <2>3, SingleRing
    <3>9. Sleepers(r) = Sleepers(q) \ {t}
      <4>1. Sleepers(r) = UNION {ToSet(q[k]) : k \in 1 .. Len(q) \ {i}}
        BY <3>3, <3>5, <3>7
      <4> QED BY <1>1, <2>1, <2>2, <3>8, <4>1
    <3>10. \A h \in Heads(q) : h # t => h \in Heads(r)
      <4> TAKE h \in Heads(q)
      <4> HAVE h # t
      <4>1. PICK k \in 1 .. Len(q) : h = Head(q[k])
        BY <1>1
      <4>2. k # i
        BY <1>1, <3>8, <4>1
      <4> QED BY <3>3, <3>5, <3>7, <4>1, <4>2
    <3> QED BY <3>6, <3>9, <3>10
  <2>4. CASE q[i] # <<t>>
    <3>1. r = [q EXCEPT ![i] = Without(q[i], t)]
      BY <1>2, <1>4, <2>4 DEF SleepqWithout, i
    <3>2. /\ Without(q[i], t) \in Seq(Threads) /\ NoDuplicates(Without(q[i], t))
          /\ ToSet(Without(q[i], t)) = ToSet(q[i]) \ {t} /\ Without(q[i], t) # << >>
          /\ Head(q[i]) # t => Head(Without(q[i], t)) = Head(q[i])
      BY <1>1, <2>1, <2>4, RingWithout DEF QueueOK
    <3>3. /\ r \in Seq(Ring) /\ Len(r) = Len(q)
          /\ \A j \in 1 .. Len(q) : r[j] = IF j = i THEN Without(q[i], t) ELSE q[j]
      <4>1. Without(q[i], t) \in Ring /\ q \in Seq(Ring)
        BY <3>2 DEF Ring, QueueOK
      <4> QED BY <2>1, <3>1, <4>1, ExceptSeq
    <3> DEFINE e == [j \in 1 .. Len(q) |-> w[Head(q[j])]]
    <3>4. QueueOK(r, w)
      <4>1. \A j \in 1 .. Len(r) : r[j] # << >> /\ NoDuplicates(r[j]) /\ ToSet(r[j]) \subseteq ToSet(q[j])
        BY <3>2, <3>3 DEF QueueOK
      <4>2. \A j \in 1 .. Len(r) : /\ r[j] # << >> /\ NoDuplicates(r[j])
                                     /\ \A u \in ToSet(r[j]) : w[u] = e[j]
        BY <3>3, <4>1 DEF QueueOK
      <4>3. \A j, k \in 1 .. Len(r) : j < k => e[j] < e[k]
        BY <3>3 DEF QueueOK
      <4>4. r \in Seq(Ring)
        BY <3>3
      <4> HIDE DEF e
      <4> QED BY <4>2, <4>3, <4>4, QueueByTimes
    <3>5. /\ Sleepers(r) = UNION {ToSet(r[j]) : j \in 1 .. Len(q)}
          /\ Heads(r) = {Head(r[j]) : j \in 1 .. Len(q)}
      BY <3>3, <3>4, QueueRings DEF QueueOK
    <3>6. \A j \in 1 .. Len(q) : ToSet(r[j]) = ToSet(q[j]) \ {t}
      BY <2>2, <3>2, <3>3
    <3>7. Sleepers(r) = Sleepers(q) \ {t}
      <4>1. \A u : u \in Sleepers(r) <=> \E j \in 1 .. Len(q) : u \in ToSet(r[j])
        BY <3>5
      <4>2. \A u : u \in Sleepers(q) <=> \E j \in 1 .. Len(q) : u \in ToSet(q[j])
        BY <1>1
      <4>3. \A u : u \in Sleepers(r) <=> u \in Sleepers(q) /\ u # t
        <5> TAKE u
        <5>1. \A j \in 1 .. Len(q) : u \in ToSet(r[j]) <=> u \in ToSet(q[j]) /\ u # t
          BY <3>6
        <5> QED BY <4>1, <4>2, <5>1
      <4> QED BY <4>3
    <3>8. \A j \in 1 .. Len(q) : Head(q[j]) # t => Head(r[j]) = Head(q[j])
      BY <3>2, <3>3
    <3> QED BY <1>1, <3>4, <3>5, <3>7, <3>8
  <2> QED BY <2>3, <2>4
<1> QED BY <1>3, <1>4

\* The first ring leaves the queue.
LEMMA QueueTail ==
  ASSUME NEW w \in Times, NEW q, QueueOK(q, w), q # << >>, NEW r, r = Tail(q)
  PROVE  /\ QueueOK(r, w) /\ Sleepers(r) = Sleepers(q) \ ToSet(Head(q))
         /\ \A h \in Heads(q) : h # Head(Head(q)) => h \in Heads(r)
         /\ Head(q) = q[1] /\ 1 \in 1 .. Len(q)
<1>1. /\ Len(q) \in Nat /\ q \in Seq(Ring)
      /\ Sleepers(q) = UNION {ToSet(q[k]) : k \in 1 .. Len(q)}
      /\ Heads(q) = {Head(q[k]) : k \in 1 .. Len(q)}
  BY QueueRings DEF QueueOK
<1>2. Head(q) = q[1] /\ 1 \in 1 .. Len(q)
  BY <1>1, EmptySeq
<1>3. /\ r \in Seq(Ring) /\ Len(r) = Len(q) - 1
      /\ \A j \in 1 .. Len(r) : r[j] = q[j + 1]
  BY <1>1, HeadTailProperties
<1>4. \A j \in 1 .. Len(r) : j + 1 \in 1 .. Len(q) /\ j + 1 # 1
  BY <1>1, <1>3
<1>5. \A k \in 1 .. Len(q) : k # 1 => k - 1 \in 1 .. Len(r) /\ r[k - 1] = q[k]
  <2> TAKE k \in 1 .. Len(q)
  <2> HAVE k # 1
  <2>1. k - 1 \in 1 .. Len(r) /\ (k - 1) + 1 = k
    BY <1>1, <1>3
  <2> QED BY <1>3, <2>1
<1>6. QueueOK(r, w)
  <2>1. \A j \in 1 .. Len(r) : /\ r[j] # << >> /\ NoDuplicates(r[j])
                                 /\ \A u \in ToSet(r[j]) : w[u] = w[Head(r[j])]
    BY <1>3, <1>4 DEF QueueOK
  <2>2. \A j, k \in 1 .. Len(r) : j < k => w[Head(r[j])] < w[Head(r[k])]
    <3> TAKE j, k \in 1 .. Len(r)
    <3> HAVE j < k
    <3>1. j + 1 \in 1 .. Len(q) /\ k + 1 \in 1 .. Len(q) /\ j + 1 < k + 1
      BY <1>1, <1>4
    <3>2. w[Head(q[j + 1])] < w[Head(q[k + 1])]
      BY <3>1 DEF QueueOK
    <3> QED BY <1>3, <3>2
  <2> QED BY <1>3, <2>1, <2>2 DEF QueueOK
<1>7. /\ Sleepers(r) = UNION {ToSet(r[j]) : j \in 1 .. Len(r)}
      /\ Heads(r) = {Head(r[j]) : j \in 1 .. Len(r)}
  BY <1>6, QueueRings DEF QueueOK
<1>8. \A u : u \in Sleepers(r) <=> u \in Sleepers(q) /\ u \notin ToSet(q[1])
  <2> TAKE u
  <2>1. u \in Sleepers(r) <=> \E k \in 1 .. Len(q) : k # 1 /\ u \in ToSet(q[k])
    <3>1. u \in Sleepers(r) <=> \E j \in 1 .. Len(r) : u \in ToSet(r[j])
      BY <1>7
    <3>2. \A j \in 1 .. Len(r) : \E k \in 1 .. Len(q) : k # 1 /\ r[j] = q[k]
      BY <1>3, <1>4
    <3>3. \A k \in 1 .. Len(q) : k # 1 => \E j \in 1 .. Len(r) : r[j] = q[k]
      BY <1>5
    <3> QED BY <3>1, <3>2, <3>3
  <2>2. \A k \in 1 .. Len(q) : u \in ToSet(q[k]) /\ u \in ToSet(q[1]) => k = 1
    BY <1>2, QueuePlaces
  <2> QED BY <1>1, <1>2, <2>1, <2>2
<1>9. Sleepers(r) = Sleepers(q) \ ToSet(q[1])
  BY <1>8
<1>10. \A h \in Heads(q) : h # Head(q[1]) => h \in Heads(r)
  BY <1>1, <1>5, <1>7
<1> QED BY <1>2, <1>6, <1>9, <1>10

\* A queue with t in it, too: the heads remain heads, but for those in H.
Joined(q, t, H, r, x) ==
  /\ QueueOK(r, x) /\ Sleepers(r) = Sleepers(q) \union {t}
  /\ \A h \in Heads(q) : h \in H \/ h \in Heads(r)

\* A thread that wakes at a time of its own joins the queue in a new ring.
LEMMA QueueJoinsApart ==
  ASSUME NEW w \in Times, NEW q, QueueOK(q, w), NEW t \in Threads, t \notin Sleepers(q),
         NEW time \in Nat, NEW i \in 1 .. Len(q) + 1,
         \A j \in 1 .. Len(q) : j < i => w[Head(q[j])] < time,
         \A j \in 1 .. Len(q) : j >= i => time < w[Head(q[j])],
         NEW c \in Seq(Threads), NoDuplicates(c), ToSet(c) = {t}, c # << >>, Head(c) = t,
         NEW r, r = InsertAt(q, i, c),
         NEW x \in Times, x[t] = time, \A u \in Threads \ {t} : x[u] = w[u]
  PROVE  Joined(q, t, {}, r, x)
<1>1. /\ Len(q) \in Nat /\ q \in Seq(Ring)
      /\ \A k \in 1 .. Len(q) : /\ q[k] # << >> /\ NoDuplicates(q[k])
                                /\ ToSet(q[k]) \subseteq Threads /\ Head(q[k]) \in ToSet(q[k])
                                /\ w[Head(q[k])] \in Nat
      /\ Sleepers(q) = UNION {ToSet(q[k]) : k \in 1 .. Len(q)}
      /\ Heads(q) = {Head(q[k]) : k \in 1 .. Len(q)}
  BY QueueRings, QueuePlaces DEF QueueOK
<1>2. /\ c \in Ring /\ NoDuplicates(c) /\ ToSet(c) = {t} /\ c # << >> /\ Head(c) = t
  BY DEF Ring
<1>3. r \in Seq(Ring) /\ Len(r) = Len(q) + 1 /\ r[i] = c
  BY <1>1, <1>2, RingJoins
<1>4. \A j \in 1 .. Len(q) : j < i => r[j] = q[j]
  BY <1>1, <1>2, RingJoins
<1>5. \A j \in 1 .. Len(q) : j >= i => r[j + 1] = q[j]
  BY <1>1, <1>2, RingJoins, SMTT(30)
\* The place a ring of r had in q.
<1> DEFINE old(k) == IF k < i THEN k ELSE k - 1
<1>6. ASSUME NEW k \in 1 .. Len(r), k # i
      PROVE  /\ old(k) \in 1 .. Len(q) /\ r[k] = q[old(k)]
             /\ (k < i => old(k) < i) /\ (k > i => old(k) >= i)
  <2>1. CASE k < i
    <3>1. k \in 1 .. Len(q)
      BY <1>1, <2>1
    <3>2. r[k] = q[k]
      BY <1>4, <2>1, <3>1
    <3> QED BY <2>1, <3>1, <3>2
  <2>2. CASE k > i
    <3>1. k - 1 \in 1 .. Len(q) /\ k - 1 >= i /\ (k - 1) + 1 = k
      BY <1>1, <1>3, <2>2
    <3>2. r[k] = q[k - 1]
      BY <1>5, <3>1
    <3> QED BY <2>2, <3>1, <3>2
  <2> QED BY <1>1, <1>3, <1>6, <2>1, <2>2
<1>7. \A j, k \in 1 .. Len(r) : j # i /\ k # i /\ j < k => old(j) < old(k)
  BY <1>1, <1>3
<1>8. \A j \in 1 .. Len(q) : \E k \in 1 .. Len(r) : k # i /\ r[k] = q[j]
  <2> TAKE j \in 1 .. Len(q)
  <2>1. CASE j < i
    <3>1. j \in 1 .. Len(r) /\ j # i
      BY <1>1, <1>3, <2>1
    <3> QED BY <1>4, <2>1, <3>1
  <2>2. CASE j >= i
    <3>1. j + 1 \in 1 .. Len(r) /\ j + 1 # i
      BY <1>1, <1>3, <2>2
    <3> QED BY <1>5, <2>2, <3>1
  <2> QED BY <1>1, <2>1, <2>2
<1> HIDE DEF old
<1>9. i \in 1 .. Len(r) /\ \A j, k \in 1 .. Len(r) : j # k => j < k \/ k < j
  BY <1>1, <1>3
<1> DEFINE e == [k \in 1 .. Len(r) |-> IF k = i THEN time ELSE w[Head(q[old(k)])]]
<1>10. x[t] = time /\ \A u \in Threads \ {t} : x[u] = w[u]
  OBVIOUS
<1>11. \A k \in 1 .. Len(q) : t \notin ToSet(q[k]) /\ Head(q[k]) # t
  BY <1>1
<1>12. \A k \in 1 .. Len(r) : /\ r[k] # << >> /\ NoDuplicates(r[k])
                              /\ \A u \in ToSet(r[k]) : x[u] = e[k]
  <2> TAKE k \in 1 .. Len(r)
  <2>1. CASE k = i
    BY <1>2, <1>3, <1>10, <2>1
  <2>2. CASE k # i
    <3>1. old(k) \in 1 .. Len(q) /\ r[k] = q[old(k)]
      BY <1>6, <2>2
    <3>2. \A u \in ToSet(q[old(k)]) : w[u] = w[Head(q[old(k)])] /\ x[u] = w[u]
      BY <1>1, <1>10, <1>11, <3>1 DEF QueueOK
    <3> QED BY <1>1, <2>2, <3>1, <3>2
  <2> QED BY <2>1, <2>2
<1>13. \A j, k \in 1 .. Len(r) : j < k => e[j] < e[k]
  <2> TAKE j, k \in 1 .. Len(r)
  <2> HAVE j < k
  <2>1. CASE j = i
    <3>1. k # i /\ k > i
      BY <2>1, <1>1, <1>3
    <3> QED BY <1>6, <2>1, <3>1
  <2>2. CASE k = i
    <3>1. j # i /\ j < i
      BY <2>2, <1>1, <1>3
    <3> QED BY <1>6, <2>2, <3>1
  <2>3. CASE j # i /\ k # i
    BY <1>6, <1>7, <2>3 DEF QueueOK
  <2> QED BY <2>1, <2>2, <2>3
<1> HIDE DEF e
<1>15. QueueOK(r, x)
  <2>1. r \in Seq(Ring)
    BY <1>3
  <2> QED BY <2>1, <1>12, <1>13, QueueByTimes
<1>16. /\ Sleepers(r) = UNION {ToSet(r[k]) : k \in 1 .. Len(r)}
       /\ Heads(r) = {Head(r[k]) : k \in 1 .. Len(r)}
  BY <1>15, QueueRings DEF QueueOK
<1>17. \A u : u \in Sleepers(r) <=> u \in Sleepers(q) \/ u = t
  <2> TAKE u
  <2>1. u \in Sleepers(r) <=> \E k \in 1 .. Len(r) : u \in ToSet(r[k])
    BY <1>16
  <2>2. u \in Sleepers(q) <=> \E k \in 1 .. Len(q) : u \in ToSet(q[k])
    BY <1>1
  <2>3. \A k \in 1 .. Len(r) : k # i => \E j \in 1 .. Len(q) : r[k] = q[j]
    BY <1>6
  <2>4. \A j \in 1 .. Len(q) : \E k \in 1 .. Len(r) : r[k] = q[j]
    BY <1>8
  <2>5. u \in ToSet(r[i]) <=> u = t
    BY <1>2, <1>3
  <2> QED BY <1>9, <2>1, <2>2, <2>3, <2>4, <2>5
<1>18. Heads(q) \subseteq Heads(r)
  BY <1>1, <1>8, <1>16
<1>19. Sleepers(r) = Sleepers(q) \union {t}
  BY <1>17
<1> QED BY <1>15, <1>18, <1>19 DEF Joined

\* A thread joins a ring of the queue.
LEMMA QueueJoinsRing ==
  ASSUME NEW w \in Times, NEW q, QueueOK(q, w), NEW t \in Threads, t \notin Sleepers(q),
         NEW i \in 1 .. Len(q), NEW ring \in Seq(Threads), NoDuplicates(ring), ring # << >>,
         ToSet(ring) = ToSet(q[i]) \union {t},
         NEW r \in Seq(Ring), Len(r) = Len(q), r[i] = ring,
         \A k \in 1 .. Len(q) : k # i => r[k] = q[k],
         NEW x \in Times, x[t] = w[Head(q[i])], \A u \in Threads \ {t} : x[u] = w[u]
  PROVE  Joined(q, t, {Head(q[i])} \ {Head(ring)}, r, x)
<1>1. /\ Len(q) \in Nat /\ q \in Seq(Ring)
      /\ \A k \in 1 .. Len(q) : /\ q[k] # << >> /\ NoDuplicates(q[k])
                                /\ ToSet(q[k]) \subseteq Threads /\ Head(q[k]) \in ToSet(q[k])
                                /\ w[Head(q[k])] \in Nat
      /\ Sleepers(q) = UNION {ToSet(q[k]) : k \in 1 .. Len(q)}
      /\ Heads(q) = {Head(q[k]) : k \in 1 .. Len(q)}
  BY QueueRings, QueuePlaces DEF QueueOK
<1>2. /\ r \in Seq(Ring) /\ Len(r) = Len(q)
      /\ \A k \in 1 .. Len(q) : r[k] = IF k = i THEN ring ELSE q[k]
  OBVIOUS
<1> DEFINE e == [k \in 1 .. Len(q) |-> w[Head(q[k])]]
<1>3. x[t] = e[i] /\ \A u \in Threads \ {t} : x[u] = w[u]
  OBVIOUS
<1>4. \A k \in 1 .. Len(q) : t \notin ToSet(q[k])
  BY <1>1
<1>5. \A k \in 1 .. Len(r) : /\ r[k] # << >> /\ NoDuplicates(r[k])
                             /\ \A u \in ToSet(r[k]) : x[u] = e[k]
  <2> TAKE k \in 1 .. Len(r)
  <2>1. \A u \in ToSet(q[k]) : x[u] = e[k]
    BY <1>1, <1>2, <1>3, <1>4 DEF QueueOK
  <2>2. CASE k = i
    BY <1>2, <1>3, <2>1, <2>2
  <2>3. CASE k # i
    BY <1>1, <1>2, <2>1, <2>3
  <2> QED BY <2>2, <2>3
<1>6. \A j, k \in 1 .. Len(r) : j < k => e[j] < e[k]
  BY <1>2 DEF QueueOK
<1> HIDE DEF e
<1>8. QueueOK(r, x)
  <2>1. r \in Seq(Ring)
    BY <1>2
  <2> QED BY <2>1, <1>5, <1>6, QueueByTimes
<1>9. /\ Sleepers(r) = UNION {ToSet(r[k]) : k \in 1 .. Len(r)}
      /\ Heads(r) = {Head(r[k]) : k \in 1 .. Len(r)}
  BY <1>8, QueueSets
<1>10. \A u : u \in Sleepers(r) <=> u \in Sleepers(q) \/ u = t
  <2> TAKE u
  <2>1. u \in Sleepers(r) <=> \E k \in 1 .. Len(q) : u \in ToSet(r[k])
    BY <1>2, <1>9
  <2>2. u \in Sleepers(q) <=> \E k \in 1 .. Len(q) : u \in ToSet(q[k])
    BY <1>1
  <2>3. \A k \in 1 .. Len(q) : u \in ToSet(r[k]) <=> u \in ToSet(q[k]) \/ (k = i /\ u = t)
    BY <1>2
  <2> QED BY <2>1, <2>2, <2>3
<1>11. \A h \in Heads(q) : h # Head(q[i]) \/ h = Head(ring) => h \in Heads(r)
  <2> TAKE h \in Heads(q)
  <2> HAVE h # Head(q[i]) \/ h = Head(ring)
  <2>1. PICK k \in 1 .. Len(q) : h = Head(q[k])
    BY <1>1
  <2>2. Head(r[k]) = h
    BY <1>2, <2>1
  <2> QED BY <1>2, <1>9, <2>1, <2>2
<1>12. Sleepers(r) = Sleepers(q) \union {t}
  BY <1>10
<1> QED BY <1>8, <1>11, <1>12 DEF Joined

(***************************************************************************)
(* The scheduler record with the fields of the sleep queue, and what holds *)
(* of it between two KCalls.                                               *)
(***************************************************************************)
Place == [at : Threads \union {NoThread}, down : BOOLEAN, stale : BOOLEAN]

SleepType ==
  [running : Threads \union {NoThread}, resched : BOOLEAN, runq : Seq(Threads),
   rs : [Threads -> RunState], cprio : Priorities, sleepq : Seq(Ring),
   hang : [Threads -> Ring], wakeup : Times, needsleep : SUBSET Threads,
   crab : [Threads -> Place], susp : [Threads -> Nat], live : [Threads -> BOOLEAN],
   wait : [Threads -> WaitState], lpce : [Threads -> BOOLEAN]]

\* On the queue, or hanging on a thread that the timer woke.
Queued(s, t) == t \in Sleepers(s.sleepq)
Hangs(s, t)  == \E v \in Threads : t \in ToSet(s.hang[v])

\* The threads that hang on t are off the queue, hang on t alone, and nothing
\* hangs on them; t is not on the queue.
HangsOK(s, t) ==
  /\ NoDuplicates(s.hang[t])
  /\ s.hang[t] # << >> => ~Queued(s, t)
  /\ \A u \in ToSet(s.hang[t]) :
       ~Queued(s, u) /\ s.hang[u] = << >> /\ \A v \in Threads : u \in ToSet(s.hang[v]) => v = t

BedsOK(s) ==
  /\ s \in SleepType /\ QueueOK(s.sleepq, s.wakeup)
  /\ \A t \in Threads : HangsOK(s, t)

\* A sleeper is blocked or about to be woken, not suspended and not on its way
\* back to sleep; a suspended thread is blocked or about to be; nothing hangs
\* on the running thread.
StateOK(s, t) ==
  /\ Queued(s, t) \/ Hangs(s, t) =>
       s.rs[t] \in {"BLOCKED", "NEEDSRUN"} /\ s.susp[t] = 0 /\ t \notin s.needsleep
  /\ s.susp[t] > 0 => s.rs[t] \in {"BLOCKED", "NEEDSRUN"}
  /\ s.rs[t] = "RUNNING" => s.hang[t] = << >>

SleepOK(s) ==
  /\ BedsOK(s) /\ QueueHolds(s) /\ RunningMarked(s)
  /\ \A t \in Threads : StateOK(s, t)

\* Where t's search stands is on the queue, and before t's own place.
CrabOK(s, t, time) ==
  LET p == s.crab[t] IN
  /\ p.down \/ p.stale => p.at # NoThread
  /\ p.at # NoThread /\ ~p.stale =>
       IF p.down THEN (Queued(s, p.at) \/ Hangs(s, p.at)) /\ s.wakeup[p.at] = time
       ELSE p.at \in Heads(s.sleepq) /\ s.wakeup[p.at] < time

\* The fields and their types.
LEMMA SleepFields ==
  ASSUME NEW s \in SleepType
  PROVE  /\ s.running \in Threads \union {NoThread} /\ s.resched \in BOOLEAN
         /\ s.runq \in Seq(Threads) /\ s.rs \in [Threads -> RunState] /\ s.cprio \in Priorities
         /\ s.sleepq \in Seq(Ring) /\ s.hang \in [Threads -> Ring] /\ s.wakeup \in Times
         /\ s.needsleep \in SUBSET Threads /\ s.crab \in [Threads -> Place]
         /\ s.susp \in [Threads -> Nat] /\ s.live \in [Threads -> BOOLEAN]
         /\ s.wait \in [Threads -> WaitState] /\ s.lpce \in [Threads -> BOOLEAN]
         /\ \A t \in Threads : s.cprio[t] \in Int
<1>1. s.cprio \in Priorities
  BY DEF SleepType
<1> QED BY <1>1, PriorityInt DEF SleepType

\* Two records agree in everything but the run queue.
SameSleep(s, r) ==
  /\ r.sleepq = s.sleepq /\ r.hang = s.hang /\ r.wakeup = s.wakeup /\ r.needsleep = s.needsleep
  /\ r.crab = s.crab /\ r.susp = s.susp /\ r.live = s.live /\ r.wait = s.wait /\ r.lpce = s.lpce

\* ... in everything but the sleep queue.
SameRun(s, r) ==
  /\ r.running = s.running /\ r.resched = s.resched /\ r.runq = s.runq /\ r.rs = s.rs
  /\ r.cprio = s.cprio

\* What MakeRun does.
LEMMA MakeRunSets ==
  ASSUME NEW s \in SleepType, NEW t \in Threads, NEW r, r = MakeRun(s, t)
  PROVE  /\ r \in SleepType /\ SameSleep(s, r) /\ r.running = s.running /\ r.cprio = s.cprio
         /\ r.runq = InsertBehind(s.runq, s.cprio, t) /\ r.rs = [s.rs EXCEPT ![t] = "RUNNABLE"]
<1> DEFINE q == InsertBehind(s.runq, s.cprio, t)
           b == s.resched \/ ((s.runq = << >> \/ s.cprio[t] < s.cprio[Head(s.runq)])
                              /\ (s.running = NoThread \/ s.cprio[t] < s.cprio[s.running]))
<1>1. q \in Seq(Threads)
  BY InsertType DEF SleepType
<1>2. r = [s EXCEPT !.rs[t] = "RUNNABLE", !.runq = q, !.resched = b]
  BY DEF MakeRun, SleepType
<1>3. b \in BOOLEAN
  BY Zenon DEF SleepType
<1>4. ASSUME NEW qq \in Seq(Threads), NEW bb \in BOOLEAN
      PROVE  [s EXCEPT !.rs[t] = "RUNNABLE", !.runq = qq, !.resched = bb] \in SleepType
  BY DEF SleepType, RunState
<1> HIDE DEF q, b
<1>5. r \in SleepType
  BY <1>1, <1>2, <1>3, <1>4
<1> QED BY <1>2, <1>5 DEF SleepType, SameSleep, q

\* What RunqDequeue does when nobody hangs on t.
LEMMA RunqDequeueSets ==
  ASSUME NEW s \in SleepType, NEW t, NEW r, r = RunqDequeue(s, t)
  PROVE  /\ r \in SleepType /\ SameSleep(s, r) /\ r.running = s.running /\ r.cprio = s.cprio
         /\ r.runq = Without(s.runq, t) /\ r.rs = s.rs
<1>1. Without(s.runq, t) \in Seq(Threads)
  BY WithoutType DEF SleepType
<1> QED BY <1>1 DEF RunqDequeue, SleepType, SameSleep

\* What Moved does.
LEMMA MovedSets ==
  ASSUME NEW s \in SleepType, NEW t, NEW r, r = Moved(s, t)
  PROVE  /\ r \in SleepType /\ SameRun(s, r)
         /\ r.sleepq = s.sleepq /\ r.hang = s.hang /\ r.wakeup = s.wakeup
         /\ r.needsleep = s.needsleep /\ r.susp = s.susp /\ r.live = s.live /\ r.wait = s.wait
         /\ r.lpce = s.lpce
         /\ \A u \in Threads : /\ r.crab[u].at = s.crab[u].at /\ r.crab[u].down = s.crab[u].down
                               /\ r.crab[u].stale = (s.crab[u].stale \/ s.crab[u].at = t)
<1> DEFINE c == [u \in Threads |-> [s.crab[u] EXCEPT !.stale = s.crab[u].stale \/ s.crab[u].at = t]]
<1>1. r = [s EXCEPT !.crab = c]
  BY DEF Moved
<1>2. \A u \in Threads : s.crab[u] \in Place
  BY DEF SleepType
<1>3. \A u \in Threads : (s.crab[u].stale \/ s.crab[u].at = t) \in BOOLEAN
  BY <1>2 DEF Place
<1>4. c \in [Threads -> Place]
  BY <1>2, <1>3 DEF Place
<1>5. \A u \in Threads : /\ c[u].at = s.crab[u].at /\ c[u].down = s.crab[u].down
                         /\ c[u].stale = (s.crab[u].stale \/ s.crab[u].at = t)
  BY <1>2 DEF Place
<1> HIDE DEF c
<1> QED BY <1>1, <1>4, <1>5 DEF SleepType, SameRun

\* GET_SLEEPING, by the two places.
LEMMA SleepingIs ==
  ASSUME NEW s \in SleepType, NEW t
  PROVE  /\ Sleeping(s, t) <=> Queued(s, t) \/ Hangs(s, t)
         /\ t \in AllSleepers(s) <=> Queued(s, t)
         /\ t \in Hanging(s) <=> Hangs(s, t)
BY DEF Sleeping, Queued, Hangs, AllSleepers, Hanging, Sleepers

(***************************************************************************)
(* What a step may do to a thread that does not take it.                   *)
(***************************************************************************)
\* Nothing but running it or putting it back on the run queue;
SameThread(s, r, u) ==
  /\ r.susp[u] = s.susp[u] /\ r.live[u] = s.live[u] /\ r.wait[u] = s.wait[u]
  /\ r.lpce[u] = s.lpce[u] /\ (u \in r.needsleep <=> u \in s.needsleep)
  /\ (Queued(r, u) <=> Queued(s, u)) /\ (Hangs(r, u) <=> Hangs(s, u))
  /\ r.wakeup[u] = s.wakeup[u]
  /\ r.rs[u] = s.rs[u] \/ {r.rs[u], s.rs[u]} \subseteq {"RUNNING", "RUNNABLE"}

\* or ending its sleep, which is due;
Expires(s, r, u, n) ==
  /\ r.susp[u] = s.susp[u] /\ ~r.live[u] /\ r.wait[u] = s.wait[u]
  /\ r.lpce[u] = s.lpce[u] /\ (u \in r.needsleep <=> u \in s.needsleep)
  /\ Queued(s, u) \/ Hangs(s, u)
  /\ ~Queued(r, u) /\ ~Hangs(r, u)
  /\ r.wakeup[u] = s.wakeup[u] /\ s.wakeup[u] <= n
  /\ r.rs[u] = IF s.rs[u] = "NEEDSRUN" THEN "NEEDSRUN" ELSE "RUNNABLE"

\* or hanging it on another whose sleep ends, as its own is due.
Slips(s, r, u, n) ==
  /\ r.susp[u] = s.susp[u] /\ r.live[u] = s.live[u] /\ r.wait[u] = s.wait[u]
  /\ r.lpce[u] = s.lpce[u] /\ (u \in r.needsleep <=> u \in s.needsleep)
  /\ Queued(s, u) /\ ~Queued(r, u) /\ Hangs(r, u)
  /\ r.wakeup[u] = s.wakeup[u] /\ s.wakeup[u] <= n
  /\ r.rs[u] = s.rs[u]

Passes(s, r, u, n) == SameThread(s, r, u) \/ Expires(s, r, u, n) \/ Slips(s, r, u, n)

\* The place in a search stays, and is marked stale if it is no place any more.
CrabKept(s, r, u) ==
  LET a == s.crab[u].at IN
  /\ r.crab[u].at = a /\ r.crab[u].down = s.crab[u].down
  /\ s.crab[u].stale => r.crab[u].stale
  /\ a = NoThread => r.crab[u].stale = s.crab[u].stale
  /\ ~r.crab[u].stale =>
       /\ a \in Heads(s.sleepq) => a \in Heads(r.sleepq)
       /\ Queued(s, a) \/ Hangs(s, a) =>
            (Queued(r, a) \/ Hangs(r, a)) /\ r.wakeup[a] = s.wakeup[a]

CrabsKept(s, r) == \A u \in Threads : CrabKept(s, r, u)

\* Such a place remains right.
LEMMA CrabStaysOK ==
  ASSUME NEW s, NEW r, NEW u, CrabKept(s, r, u), BedsOK(s), NEW time, CrabOK(s, u, time)
  PROVE  CrabOK(r, u, time)
<1>1. Heads(s.sleepq) \subseteq Sleepers(s.sleepq)
  BY QueueSets DEF BedsOK
<1> QED BY <1>1 DEF CrabOK, CrabKept, Queued

\* Two such steps.
LEMMA CrabsKeptTwice ==
  ASSUME NEW s, NEW q, NEW r, BedsOK(s), CrabsKept(s, q), CrabsKept(q, r)
  PROVE  CrabsKept(s, r)
<1>1. Heads(s.sleepq) \subseteq Sleepers(s.sleepq)
  BY QueueSets DEF BedsOK
<1> SUFFICES ASSUME NEW u \in Threads PROVE CrabKept(s, r, u)
  BY DEF CrabsKept
<1>2. CrabKept(s, q, u) /\ CrabKept(q, r, u)
  BY DEF CrabsKept
<1> QED BY <1>1, <1>2 DEF CrabKept, Queued

\* A step that moves t alone keeps the places.
LEMMA CrabsByMove ==
  ASSUME NEW s \in SleepType, NEW r \in SleepType, NEW t \in Threads,
         \A u \in Threads : /\ r.crab[u].at = s.crab[u].at /\ r.crab[u].down = s.crab[u].down
                            /\ r.crab[u].stale = (s.crab[u].stale \/ s.crab[u].at = t),
         \A h \in Heads(s.sleepq) : h # t => h \in Heads(r.sleepq),
         \A h : h # t /\ (Queued(s, h) \/ Hangs(s, h)) =>
            (Queued(r, h) \/ Hangs(r, h)) /\ r.wakeup[h] = s.wakeup[h]
  PROVE  CrabsKept(s, r)
<1> SUFFICES ASSUME NEW u \in Threads PROVE CrabKept(s, r, u)
  BY DEF CrabsKept
<1>1. s.crab[u] \in Place /\ r.crab[u] \in Place /\ t # NoThread
  BY NoThreadAssumption DEF SleepType
<1> DEFINE a == s.crab[u].at
<1>3. a \in Threads \union {NoThread} /\ s.crab[u].stale \in BOOLEAN /\ r.crab[u].stale \in BOOLEAN
  BY <1>1 DEF Place
<1>4. a = NoThread => r.crab[u].stale = s.crab[u].stale
  BY <1>1, <1>3
<1> QED BY <1>1, <1>3, <1>4 DEF CrabKept

\* A step that moves nobody does.
LEMMA CrabsByNone ==
  ASSUME NEW s \in SleepType, NEW r \in SleepType, r.crab = s.crab, r.sleepq = s.sleepq,
         r.hang = s.hang, r.wakeup = s.wakeup
  PROVE  CrabsKept(s, r)
BY DEF CrabsKept, CrabKept, Queued, Hangs

\* A thread that is not asleep, or asleep, by the beds.
LEMMA BedFacts ==
  ASSUME NEW s, BedsOK(s)
  PROVE  /\ s \in SleepType /\ QueueOK(s.sleepq, s.wakeup) /\ Sleepers(s.sleepq) \subseteq Threads
         /\ \A t \in Threads : s.hang[t] \in Seq(Threads) /\ NoDuplicates(s.hang[t])
         /\ \A v \in Threads : \A u \in ToSet(s.hang[v]) :
              u \in Threads /\ ~Queued(s, u) /\ s.hang[u] = << >> /\ ~Queued(s, v) /\ u # v
         /\ \A u : Hangs(s, u) => u \in Threads /\ ~Queued(s, u) /\ s.hang[u] = << >>
<1>1. s \in SleepType /\ QueueOK(s.sleepq, s.wakeup) /\ Sleepers(s.sleepq) \subseteq Threads
  BY QueueSets DEF BedsOK
<1>2. \A t \in Threads : s.hang[t] \in Seq(Threads) /\ NoDuplicates(s.hang[t])
  BY <1>1 DEF BedsOK, HangsOK, SleepType, Ring
<1>3. ASSUME NEW v \in Threads, NEW u \in ToSet(s.hang[v])
      PROVE  u \in Threads /\ ~Queued(s, u) /\ s.hang[u] = << >> /\ ~Queued(s, v) /\ u # v
  <2>1. u \in Threads /\ s.hang[v] # << >>
    BY <1>2, Members
  <2> QED BY <2>1 DEF BedsOK, HangsOK
<1> QED BY <1>1, <1>2, <1>3 DEF Hangs

\* SleepqDequeue takes t out of bed and touches nobody else.
LEMMA SleepqDequeueDoes ==
  ASSUME NEW s, BedsOK(s), NEW t \in Threads, NEW r, r = SleepqDequeue(s, t)
  PROVE  /\ BedsOK(r) /\ SameRun(s, r) /\ r.wakeup = s.wakeup
         /\ r.needsleep = s.needsleep /\ r.susp = s.susp /\ r.live = s.live /\ r.wait = s.wait
         /\ r.lpce = s.lpce /\ CrabsKept(s, r)
         /\ \A u : (Queued(r, u) <=> Queued(s, u) /\ u # t) /\ (Hangs(r, u) <=> Hangs(s, u) /\ u # t)
         /\ \A u \in Threads : s.hang[u] = << >> => r.hang[u] = << >>
<1>1. /\ s \in SleepType /\ QueueOK(s.sleepq, s.wakeup)
      /\ \A u \in Threads : s.hang[u] \in Seq(Threads) /\ NoDuplicates(s.hang[u])
  BY BedFacts
<1> DEFINE m == Moved(s, t)
           sq == SleepqWithout(s, t)
           h == [u \in Threads |-> Without(s.hang[u], t)]
<1>2. /\ m \in SleepType /\ SameRun(s, m)
      /\ m.sleepq = s.sleepq /\ m.hang = s.hang /\ m.wakeup = s.wakeup
      /\ m.needsleep = s.needsleep /\ m.susp = s.susp /\ m.live = s.live /\ m.wait = s.wait
      /\ m.lpce = s.lpce
      /\ \A u \in Threads : /\ m.crab[u].at = s.crab[u].at /\ m.crab[u].down = s.crab[u].down
                            /\ m.crab[u].stale = (s.crab[u].stale \/ s.crab[u].at = t)
  BY <1>1, MovedSets
<1>3. r = [m EXCEPT !.sleepq = sq, !.hang = h]
  BY <1>2 DEF SleepqDequeue
<1>4. /\ QueueOK(sq, s.wakeup) /\ Sleepers(sq) = Sleepers(s.sleepq) \ {t}
      /\ \A x \in Heads(s.sleepq) : x # t => x \in Heads(sq)
  <2>1. s.wakeup \in Times
    BY <1>1 DEF SleepType
  <2> QED BY <1>1, <2>1, QueueWithout
<1>5. \A u \in Threads : /\ h[u] \in Seq(Threads) /\ NoDuplicates(h[u])
                         /\ ToSet(h[u]) = ToSet(s.hang[u]) \ {t}
  BY <1>1, RingWithout
<1>6. \A u \in Threads : s.hang[u] = << >> => h[u] = << >>
  <2>1. ASSUME NEW u \in Threads, s.hang[u] = << >> PROVE h[u] = << >>
    <3>1. ToSet(s.hang[u]) = {}
      BY <1>1, <2>1, Members
    <3>2. ToSet(h[u]) = {}
      BY <1>5, <3>1
    <3> QED BY <1>5, <3>2, Members
  <2> QED BY <2>1
<1>7. sq \in Seq(Ring) /\ h \in [Threads -> Ring]
  BY <1>4, <1>5 DEF QueueOK, Ring
<1> HIDE DEF m, sq, h
<1>8. r \in SleepType
  BY <1>2, <1>3, <1>7 DEF SleepType
<1>9. /\ SameRun(s, r) /\ r.wakeup = s.wakeup /\ r.sleepq = sq /\ r.hang = h
      /\ r.needsleep = s.needsleep /\ r.susp = s.susp /\ r.live = s.live /\ r.wait = s.wait
      /\ r.lpce = s.lpce /\ r.crab = m.crab
  BY <1>2, <1>3 DEF SameRun, SleepType
<1>10. \A u : (Queued(r, u) <=> Queued(s, u) /\ u # t) /\ (Hangs(r, u) <=> Hangs(s, u) /\ u # t)
  BY <1>4, <1>5, <1>9 DEF Queued, Hangs
<1>11. BedsOK(r)
  <2>1. ASSUME NEW u \in Threads PROVE HangsOK(r, u)
    <3>1. HangsOK(s, u)
      BY DEF BedsOK
    <3>2. /\ r.hang[u] \in Seq(Threads) /\ NoDuplicates(r.hang[u])
          /\ r.hang[u] # << >> => s.hang[u] # << >>
          /\ \A v \in Threads : /\ ToSet(r.hang[v]) = ToSet(s.hang[v]) \ {t}
                                /\ s.hang[v] = << >> => r.hang[v] = << >>
      BY <1>5, <1>6, <1>9
    <3>3. ToSet(s.hang[u]) \subseteq Threads
      BY <1>1, Members
    <3> QED BY <1>10, <3>1, <3>2, <3>3 DEF HangsOK
  <2> QED BY <1>4, <1>8, <1>9, <2>1 DEF BedsOK
<1>12. CrabsKept(s, r)
  <2>1. \A x \in Heads(s.sleepq) : x # t => x \in Heads(r.sleepq)
    BY <1>4, <1>9
  <2>2. \A u \in Threads : /\ r.crab[u].at = s.crab[u].at /\ r.crab[u].down = s.crab[u].down
                           /\ r.crab[u].stale = (s.crab[u].stale \/ s.crab[u].at = t)
    BY <1>2, <1>9
  <2> QED BY <1>1, <1>8, <1>9, <1>10, <2>1, <2>2, CrabsByMove
<1>13. \A u \in Threads : s.hang[u] = << >> => r.hang[u] = << >>
  BY <1>6, <1>9
<1> QED BY <1>9, <1>10, <1>11, <1>12, <1>13

\* A thread takes the place of another of the same priority.
LEMMA ReplaceStands ==
  ASSUME NEW q \in Seq(Threads), NEW prio, NEW S, Stands(q, prio, S), NEW t \in S,
         NEW d \in Threads, d \notin S, prio[d] = prio[t],
         NEW r, r = [q EXCEPT ![IndexOf(q, t)] = d]
  PROVE  r \in Seq(Threads) /\ Stands(r, prio, (S \ {t}) \union {d})
<1> DEFINE i == IndexOf(q, t)
<1>1. /\ Len(q) \in Nat /\ DOMAIN q = 1 .. Len(q) /\ \A j \in 1 .. Len(q) : q[j] \in Threads
      /\ ToSet(q) = {q[j] : j \in 1 .. Len(q)}
  BY Members
<1>2. i \in 1 .. Len(q) /\ q[i] = t
  BY <1>1 DEF Stands, IndexOf
<1> HIDE DEF i
<1>3. /\ r \in Seq(Threads) /\ Len(r) = Len(q)
      /\ \A j \in 1 .. Len(q) : r[j] = IF j = i THEN d ELSE q[j]
  BY <1>2, ExceptSeq DEF i
<1>4. DOMAIN r = 1 .. Len(q) /\ ToSet(r) = {r[j] : j \in 1 .. Len(q)}
  BY <1>3, Members
<1>5. \A j \in 1 .. Len(q) : q[j] \in S /\ prio[r[j]] = prio[q[j]] /\ (j # i => q[j] # t)
  BY <1>1, <1>2, <1>3 DEF Stands, NoDuplicates
<1>6. SortedBy(r, prio)
  BY <1>1, <1>4, <1>5, SMTT(30) DEF Stands, SortedBy
<1>7. NoDuplicates(r)
  BY <1>1, <1>3, <1>4, <1>5, SMTT(30) DEF Stands, NoDuplicates
<1>8. \A u : u \in ToSet(r) <=> u \in (S \ {t}) \union {d}
  <2>1. \A u : u \in S <=> \E j \in 1 .. Len(q) : u = q[j]
    BY <1>1 DEF Stands
  <2>2. \A u : u \in ToSet(r) <=> \E j \in 1 .. Len(q) : u = r[j]
    BY <1>4
  <2>3. ASSUME NEW j \in 1 .. Len(q) PROVE r[j] \in (S \ {t}) \union {d}
    BY <1>3, <1>5
  <2>4. ASSUME NEW j \in 1 .. Len(q), q[j] # t PROVE r[j] = q[j]
    BY <1>2, <1>3, <2>4
  <2>5. r[i] = d
    BY <1>2, <1>3
  <2>6. ASSUME NEW u \in ToSet(r) PROVE u \in (S \ {t}) \union {d}
    <3>1. PICK j \in 1 .. Len(q) : u = r[j]
      BY <2>2
    <3> QED BY <2>3, <3>1
  <2>7. ASSUME NEW u \in S \ {t} PROVE u \in ToSet(r)
    <3>1. PICK j \in 1 .. Len(q) : u = q[j]
      BY <2>1
    <3>2. u = r[j]
      BY <2>4, <3>1
    <3> QED BY <2>2, <3>2
  <2>8. d \in ToSet(r)
    BY <1>2, <2>2, <2>5
  <2> QED BY <2>6, <2>7, <2>8
<1>9. ToSet(r) = (S \ {t}) \union {d}
  BY <1>8
<1> QED BY <1>3, <1>6, <1>7, <1>9 DEF Stands

\* The first of the threads that hang on t leaves, and the others now hang on it.
LEMMA HeirHangs ==
  ASSUME NEW s, BedsOK(s), NEW t \in Threads, s.hang[t] # << >>, NEW d, d = Head(s.hang[t]),
         NEW r \in SleepType, r.sleepq = s.sleepq, r.wakeup = s.wakeup,
         r.hang[t] = << >>, d # t => r.hang[d] = Tail(s.hang[t]),
         \A u \in Threads \ {d, t} : r.hang[u] = s.hang[u]
  PROVE  /\ BedsOK(r) /\ d \in Threads \ {t} /\ Hangs(s, d) /\ ~Queued(s, d) /\ r.hang[t] = << >>
         /\ \A u : Hangs(r, u) <=> Hangs(s, u) /\ u # d
         /\ \A u \in Threads \ {d} : s.hang[u] = << >> => r.hang[u] = << >>
         /\ ~Hangs(s, t) /\ ~Queued(s, t)
<1>1. /\ s \in SleepType /\ QueueOK(s.sleepq, s.wakeup)
      /\ \A u \in Threads : s.hang[u] \in Seq(Threads) /\ NoDuplicates(s.hang[u])
      /\ \A v \in Threads : \A u \in ToSet(s.hang[v]) :
           u \in Threads /\ ~Queued(s, u) /\ s.hang[u] = << >> /\ ~Queued(s, v) /\ u # v
      /\ \A u : Hangs(s, u) => s.hang[u] = << >>
  BY BedFacts
<1> DEFINE l == Tail(s.hang[t])
<1>2. /\ d \in ToSet(s.hang[t]) /\ d \in Threads
      /\ l \in Seq(Threads) /\ NoDuplicates(l) /\ ToSet(l) = ToSet(s.hang[t]) \ {d}
  BY <1>1, RingTail
<1>3. d # t /\ ~Queued(s, d) /\ ~Queued(s, t) /\ ~Hangs(s, t) /\ Hangs(s, d) /\ s.hang[d] = << >>
  BY <1>1, <1>2 DEF Hangs
<1> HIDE DEF l
<1>5. /\ r.hang[t] = << >> /\ r.hang[d] = l
      /\ \A u \in Threads \ {d, t} : r.hang[u] = s.hang[u]
  BY <1>3 DEF l
<1>6. ToSet(<< >>) = {} /\ NoDuplicates(<< >>)
  <2>1. << >> \in Seq(Threads) /\ Len(<< >>) = 0
    BY EmptySeq
  <2>2. DOMAIN << >> = {}
    BY <2>1, Members
  <2> QED BY <2>1, <2>2, Members DEF NoDuplicates
<1>7. \A v \in Threads : v # t => \A u \in ToSet(s.hang[v]) : u \notin ToSet(s.hang[t])
  <2>1. \A u \in ToSet(s.hang[t]) : \A v \in Threads : u \in ToSet(s.hang[v]) => v = t
    BY DEF BedsOK, HangsOK
  <2> QED BY <2>1
<1>8. \A u : Hangs(r, u) <=> Hangs(s, u) /\ u # d
  <2> TAKE u
  <2>1. ASSUME NEW v \in Threads, u \in ToSet(r.hang[v])
        PROVE  Hangs(s, u) /\ u # d
    BY <1>2, <1>3, <1>5, <1>6, <1>7, <2>1 DEF Hangs
  <2>2. ASSUME NEW v \in Threads, u \in ToSet(s.hang[v]), u # d
        PROVE  Hangs(r, u)
    BY <1>2, <1>3, <1>5, <1>6, <2>2 DEF Hangs
  <2> QED BY <2>1, <2>2 DEF Hangs
<1>9. \A u \in Threads \ {d} : s.hang[u] = << >> => r.hang[u] = << >>
  BY <1>5
<1>10. BedsOK(r)
  <2> SUFFICES ASSUME NEW v \in Threads PROVE HangsOK(r, v)
    BY <1>1 DEF BedsOK
  <2>1. NoDuplicates(r.hang[v])
    BY <1>1, <1>2, <1>5, <1>6
  <2>2. r.hang[v] # << >> => ~Queued(r, v)
    <3>1. CASE v \in {d, t}
      BY <1>3, <3>1 DEF Queued
    <3>2. CASE v \notin {d, t}
      BY <1>5, <3>2 DEF Queued, BedsOK, HangsOK
    <3> QED BY <3>1, <3>2
  <2>3. ASSUME NEW u \in ToSet(r.hang[v])
        PROVE  /\ ~Queued(r, u) /\ r.hang[u] = << >>
               /\ \A x \in Threads : u \in ToSet(r.hang[x]) => x = v
    <3>1. v # t /\ u \in Threads /\ Hangs(r, u)
      BY <1>1, <1>2, <1>5, <1>6, <2>3 DEF Hangs
    <3>2. Hangs(s, u) /\ u # d
      BY <1>8, <3>1
    <3>3. ~Queued(r, u) /\ s.hang[u] = << >>
      BY <1>1, <3>2 DEF Hangs, Queued
    <3>4. r.hang[u] = << >>
      BY <1>9, <3>1, <3>2, <3>3
    <3>5. \A x \in Threads : \A y \in Threads : u \in ToSet(s.hang[x]) /\ u \in ToSet(s.hang[y]) => x = y
      BY DEF BedsOK, HangsOK
    <3>6. ASSUME NEW x \in Threads, u \in ToSet(r.hang[x])
          PROVE  x = v
      <4>1. x # t
        BY <1>5, <1>6, <3>6
      <4>2. CASE x = d /\ v # d
        BY <1>2, <1>5, <1>7, <2>3, <3>1, <3>6, <4>2
      <4>3. CASE v = d /\ x # d
        BY <1>2, <1>5, <1>7, <2>3, <3>6, <4>1, <4>3
      <4>4. CASE v # d /\ x # d
        BY <1>5, <2>3, <3>1, <3>5, <3>6, <4>1, <4>4
      <4> QED BY <4>2, <4>3, <4>4
    <3> QED BY <3>3, <3>4, <3>6
  <2> QED BY <2>1, <2>2, <2>3 DEF HangsOK
<1> QED BY <1>2, <1>3, <1>5, <1>8, <1>9, <1>10

\* Whoever hangs is due.
DueOK(s, n) == \A u : Hangs(s, u) => s.wakeup[u] <= n

\* What RunqDequeueTail needs, and what it does: cp is the order the queue stands in.
TailReady(s, t, cp, n) ==
  /\ BedsOK(s) /\ (\A u \in Threads \ {t} : StateOK(s, u)) /\ DueOK(s, n)
  /\ cp \in Priorities /\ \A u \in Threads \ {t} : cp[u] = s.cprio[u]
  /\ Stands(s.runq, cp, Runnable(s) \union {t})

TailDone(s, t, n, r) ==
  /\ BedsOK(r) /\ r.running = s.running /\ r.cprio = s.cprio /\ r.wakeup = s.wakeup
  /\ r.needsleep = s.needsleep /\ r.susp = s.susp /\ r.wait = s.wait /\ r.lpce = s.lpce
  /\ Stands(r.runq, r.cprio, Runnable(r) \ {t}) /\ r.hang[t] = << >> /\ CrabsKept(s, r)
  /\ \A u \in Threads : Passes(s, r, u, n) /\ (r.rs[u] = s.rs[u] \/ Expires(s, r, u, n))
  /\ SameThread(s, r, t) /\ r.rs[t] = s.rs[t]
  /\ \A u \in Threads : s.hang[u] = << >> /\ r.rs[u] = "RUNNING" => r.hang[u] = << >>
  /\ \A u : Hangs(r, u) => Hangs(s, u)

\* RunqDequeueTail takes t off the run queue; the first of those that hang on
\* it, whose time it is, runs.
LEMMA RunqDequeueTailDoes ==
  ASSUME NEW s, NEW t \in Threads, NEW cp, NEW n, TailReady(s, t, cp, n),
         NEW r, r = RunqDequeueTail(s, t, cp[t])
  PROVE  TailDone(s, t, n, r)
<1> SUFFICES /\ BedsOK(r) /\ r.running = s.running /\ r.cprio = s.cprio /\ r.wakeup = s.wakeup
             /\ r.needsleep = s.needsleep /\ r.susp = s.susp /\ r.wait = s.wait /\ r.lpce = s.lpce
             /\ Stands(r.runq, r.cprio, Runnable(r) \ {t}) /\ r.hang[t] = << >> /\ CrabsKept(s, r)
             /\ \A u \in Threads : Passes(s, r, u, n) /\ (r.rs[u] = s.rs[u] \/ Expires(s, r, u, n))
             /\ SameThread(s, r, t) /\ r.rs[t] = s.rs[t]
             /\ \A u \in Threads : s.hang[u] = << >> /\ r.rs[u] = "RUNNING" => r.hang[u] = << >>
             /\ \A u : Hangs(r, u) => Hangs(s, u)
  BY DEF TailDone
<1>5. /\ BedsOK(s) /\ \A u \in Threads \ {t} : StateOK(s, u)
      /\ cp \in Priorities /\ \A u \in Threads \ {t} : cp[u] = s.cprio[u]
      /\ Stands(s.runq, cp, Runnable(s) \union {t}) /\ DueOK(s, n)
  BY DEF TailReady
<1> USE <1>5
<1>0. /\ s \in SleepType /\ QueueOK(s.sleepq, s.wakeup)
      /\ \A u \in Threads : s.hang[u] \in Seq(Threads) /\ NoDuplicates(s.hang[u])
  BY BedFacts
<1>1. /\ s.runq \in Seq(Threads) /\ s.cprio \in Priorities /\ s.rs \in [Threads -> RunState]
      /\ s.live \in [Threads -> BOOLEAN] /\ s.hang \in [Threads -> Ring]
      /\ s.susp \in [Threads -> Nat]
  BY <1>0, SleepFields
<1>4. /\ Without(s.runq, t) \in Seq(Threads)
      /\ Stands(Without(s.runq, t), cp, (Runnable(s) \union {t}) \ {t})
  BY <1>1, WithoutStands
<1>2. CASE s.hang[t] = << >>
  <2>1. r = RunqDequeue(s, t)
    BY <1>2 DEF RunqDequeueTail
  <2>2. /\ r \in SleepType /\ SameSleep(s, r) /\ r.running = s.running /\ r.cprio = s.cprio
        /\ r.runq = Without(s.runq, t) /\ r.rs = s.rs
    BY <1>0, <2>1, RunqDequeueSets
  <2>3. Stands(r.runq, r.cprio, Runnable(r) \ {t})
    <3>1. Stands(Without(s.runq, t), cp, (Runnable(s) \union {t}) \ {t})
      BY <1>4
    <3>2. (Runnable(s) \union {t}) \ {t} = Runnable(r) \ {t} /\ Runnable(r) \subseteq Threads
      BY <2>2 DEF Runnable
    <3>3. Without(s.runq, t) \in Seq(Threads)
      BY <1>1, WithoutType
    <3>4. \A u \in Runnable(r) \ {t} : s.cprio[u] = cp[u]
      BY <3>2
    <3>5. Stands(Without(s.runq, t), cp, Runnable(r) \ {t})
      BY <3>1, <3>2
    <3>6. Stands(Without(s.runq, t), s.cprio, Runnable(r) \ {t})
      BY ONLY <3>3, <3>4, <3>5, StandsByPrio
    <3> QED BY <2>2, <3>6
  <2>4. BedsOK(r)
    BY <2>2 DEF BedsOK, HangsOK, SameSleep, Queued
  <2>5. \A u \in Threads : SameThread(s, r, u)
    BY <2>2 DEF SameThread, SameSleep, Queued, Hangs
  <2>6. CrabsKept(s, r)
    BY <1>0, <2>2, CrabsByNone DEF SameSleep
  <2> QED BY <1>2, <2>2, <2>3, <2>4, <2>5, <2>6 DEF SameSleep, Passes, Hangs
<1>3. CASE s.hang[t] # << >>
  <2> DEFINE d == Head(s.hang[t])
             h == [s.hang EXCEPT ![d] = Tail(s.hang[t]), ![t] = << >>]
             p == [s EXCEPT !.hang = h]
             m == Moved(p, d)
             q == EndWait(m, d)
  <2>1. d \in Threads /\ Tail(s.hang[t]) \in Seq(Threads) /\ << >> \in Seq(Threads)
    BY <1>0, <1>3, RingTail
  <2>2. h \in [Threads -> Ring]
    BY <1>1, <2>1 DEF Ring
  <2> HIDE DEF h, d
  <2>3. /\ p \in SleepType /\ p.hang = h /\ SameRun(s, p) /\ p.sleepq = s.sleepq
        /\ p.wakeup = s.wakeup /\ p.needsleep = s.needsleep /\ p.susp = s.susp /\ p.wait = s.wait
        /\ p.lpce = s.lpce /\ p.live = s.live /\ p.crab = s.crab
    BY <1>0, <2>2 DEF SleepType, SameRun
  <2> HIDE DEF p
  <2>4. /\ m \in SleepType /\ SameRun(p, m)
        /\ m.sleepq = p.sleepq /\ m.hang = p.hang /\ m.wakeup = p.wakeup
        /\ m.needsleep = p.needsleep /\ m.susp = p.susp /\ m.live = p.live /\ m.wait = p.wait
        /\ m.lpce = p.lpce
        /\ \A u \in Threads : /\ m.crab[u].at = p.crab[u].at /\ m.crab[u].down = p.crab[u].down
                              /\ m.crab[u].stale = (p.crab[u].stale \/ p.crab[u].at = d)
    BY ONLY <2>3, MovedSets
  <2>5. q = [m EXCEPT !.live = [m.live EXCEPT ![d] = FALSE]]
    BY DEF EndWait
  <2> HIDE DEF m, q
  <2>6. /\ q \in SleepType /\ SameRun(s, q) /\ q.sleepq = s.sleepq /\ q.hang = h
        /\ q.wakeup = s.wakeup /\ q.needsleep = s.needsleep /\ q.susp = s.susp /\ q.wait = s.wait
        /\ q.lpce = s.lpce /\ q.live = [s.live EXCEPT ![d] = FALSE] /\ q.crab = m.crab
    <3>1. m.live = s.live /\ [m.live EXCEPT ![d] = FALSE] \in [Threads -> BOOLEAN]
      BY <1>1, <2>3, <2>4
    <3>2. q \in SleepType
      BY <2>4, <2>5, <3>1 DEF SleepType
    <3>3. /\ SameRun(m, q) /\ q.sleepq = m.sleepq /\ q.hang = m.hang
          /\ q.wakeup = m.wakeup /\ q.needsleep = m.needsleep /\ q.susp = m.susp /\ q.wait = m.wait
          /\ q.lpce = m.lpce /\ q.live = [m.live EXCEPT ![d] = FALSE] /\ q.crab = m.crab
      BY <2>4, <2>5 DEF SameRun, SleepType
    <3> QED BY <2>3, <2>4, <3>2, <3>3 DEF SameRun
  <2>7. r = IF q.rs[d] = "NEEDSRUN" THEN RunqDequeue(q, t)
            ELSE IF q.cprio[d] = cp[t]
            THEN [q EXCEPT !.rs[d] = "RUNNABLE", !.runq[IndexOf(q.runq, t)] = d]
            ELSE [MakeRunnable(q, d) EXCEPT !.runq = MakeRunnable(RunqDequeue(q, t), d).runq]
    <3>1. p = [s EXCEPT !.hang[d] = Tail(s.hang[t]), !.hang[t] = << >>]
      BY DEF h, p
    <3>2. q = EndWait(Moved([s EXCEPT !.hang[d] = Tail(s.hang[t]), !.hang[t] = << >>], d), d)
      BY <3>1 DEF q, m
    <3> QED BY ONLY <1>3, <3>2, r = RunqDequeueTail(s, t, cp[t]) DEF RunqDequeueTail, d
  \* What the three cases have in common.
  <2>8. /\ d # t /\ Hangs(s, d) /\ ~Queued(s, d) /\ s.rs[d] \in {"BLOCKED", "NEEDSRUN"} /\ s.susp[d] = 0
        /\ d \notin Runnable(s) \union {t}
    <3>1. /\ q.hang[t] = << >>
          /\ d # t => q.hang[d] = Tail(s.hang[t])
          /\ \A u \in Threads \ {d, t} : q.hang[u] = s.hang[u]
      BY <1>1, <2>1, <2>6 DEF h
    <3>2. d = Head(s.hang[t])
      BY DEF d
    <3>3. q \in SleepType /\ q.sleepq = s.sleepq /\ q.wakeup = s.wakeup
      BY <2>6
    <3>4. d \in Threads \ {t} /\ Hangs(s, d) /\ ~Queued(s, d)
      BY ONLY <1>3, <3>1, <3>2, <3>3, BedsOK(s), t \in Threads, HeirHangs
    <3> QED BY <3>4 DEF StateOK, Runnable
  <2>9. Stands(q.runq, cp, Runnable(s) \union {t}) /\ q.cprio = s.cprio /\ q.rs = s.rs /\ q.runq = s.runq
    BY <2>6 DEF SameRun
  <2> DEFINE x == IF s.rs[d] = "NEEDSRUN" THEN "NEEDSRUN" ELSE "RUNNABLE"
  <2>10. /\ r \in SleepType /\ r.running = s.running /\ r.cprio = s.cprio /\ SameSleep(q, r)
         /\ r.rs = [s.rs EXCEPT ![d] = x] /\ Stands(r.runq, r.cprio, Runnable(r) \ {t})
    <3>1. ASSUME NEW T, NEW l \in Seq(Threads), Stands(l, cp, T), t \notin T, T \subseteq Threads
          PROVE  Stands(l, s.cprio, T)
      BY <3>1, StandsByPrio
    <3>2. CASE s.rs[d] = "NEEDSRUN"
      <4>1. r = RunqDequeue(q, t)
        BY <2>7, <2>9, <3>2
      <4>2. /\ r \in SleepType /\ SameSleep(q, r) /\ r.running = q.running /\ r.cprio = q.cprio
            /\ r.runq = Without(q.runq, t) /\ r.rs = q.rs
        BY <2>6, <4>1, RunqDequeueSets
      <4>3. r.rs = [s.rs EXCEPT ![d] = x]
        BY <1>1, <2>9, <3>2, <4>2
      <4>4. r.runq \in Seq(Threads) /\ Stands(r.runq, cp, (Runnable(s) \union {t}) \ {t})
        BY <1>4, <2>9, <4>2
      <4>5. (Runnable(s) \union {t}) \ {t} = Runnable(r) \ {t} /\ Runnable(r) \subseteq Threads
        BY <2>9, <4>2 DEF Runnable
      <4>6. Stands(r.runq, s.cprio, Runnable(r) \ {t})
        BY <3>1, <4>4, <4>5
      <4> QED BY <2>6, <4>2, <4>3, <4>6 DEF SameRun
    <3>3. ASSUME s.rs[d] # "NEEDSRUN", r.rs = [s.rs EXCEPT ![d] = "RUNNABLE"]
          PROVE  /\ r.rs = [s.rs EXCEPT ![d] = x]
                 /\ ((Runnable(s) \union {t}) \ {t}) \union {d} = Runnable(r) \ {t}
                 /\ Runnable(r) \subseteq Threads
      BY <1>1, <2>1, <2>8, <3>3 DEF Runnable
    <3>4. CASE s.rs[d] # "NEEDSRUN" /\ s.cprio[d] = cp[t]
      <4> DEFINE l == [s.runq EXCEPT ![IndexOf(s.runq, t)] = d]
      <4>1. r = [q EXCEPT !.rs[d] = "RUNNABLE", !.runq = l]
        BY <2>7, <2>9, <3>4
      <4>2. l \in Seq(Threads) /\ Stands(l, cp, ((Runnable(s) \union {t}) \ {t}) \union {d})
        BY <1>1, <2>1, <2>8, <2>9, <3>4, ReplaceStands
      <4> HIDE DEF l
      <4>3. /\ r \in SleepType /\ r.running = s.running /\ r.cprio = s.cprio /\ SameSleep(q, r)
            /\ r.rs = [s.rs EXCEPT ![d] = "RUNNABLE"] /\ r.runq = l
        <5>1. q.running = s.running
          BY <2>6 DEF SameRun
        <5>2. [s.rs EXCEPT ![d] = "RUNNABLE"] \in [Threads -> RunState]
          BY <1>1 DEF RunState
        <5>3. r \in SleepType
          BY ONLY <2>6, <2>9, <4>1, <4>2, <5>2 DEF SleepType
        <5> QED BY ONLY <2>6, <2>9, <4>1, <5>1, <5>3 DEF SleepType, SameSleep
      <4>4. /\ r.rs = [s.rs EXCEPT ![d] = x]
            /\ ((Runnable(s) \union {t}) \ {t}) \union {d} = Runnable(r) \ {t}
            /\ Runnable(r) \subseteq Threads
        BY <3>3, <3>4, <4>3
      <4> QED BY <3>1, <4>2, <4>3, <4>4
    <3>5. CASE s.rs[d] # "NEEDSRUN" /\ s.cprio[d] # cp[t]
      <4> DEFINE g == RunqDequeue(q, t)
                 a == MakeRun(q, d)
                 b == MakeRun(g, d)
      <4>0. q \in SleepType
        BY <2>6
      <4>1. /\ g \in SleepType /\ SameSleep(q, g) /\ g.running = q.running /\ g.cprio = q.cprio
            /\ g.runq = Without(q.runq, t) /\ g.rs = q.rs
        BY <2>6, RunqDequeueSets
      <4>2. r = [a EXCEPT !.runq = b.runq]
        BY <2>6, <2>7, <2>8, <2>9, <3>5, <4>1 DEF MakeRunnable, SameSleep
      <4>3. b \in SleepType /\ b.runq = InsertBehind(g.runq, g.cprio, d)
        BY ONLY <2>1, <4>1, MakeRunSets
      <4>4. /\ a \in SleepType /\ SameSleep(q, a) /\ a.running = q.running /\ a.cprio = q.cprio
            /\ a.rs = [q.rs EXCEPT ![d] = "RUNNABLE"]
        BY <2>1, <4>0, MakeRunSets, SMTT(30)
      <4> HIDE DEF a, b, g
      <4>5. /\ r \in SleepType /\ r.running = s.running /\ r.cprio = s.cprio /\ SameSleep(q, r)
            /\ r.rs = [s.rs EXCEPT ![d] = "RUNNABLE"] /\ r.runq = b.runq
        BY <2>6, <2>9, <4>2, <4>3, <4>4 DEF SleepType, SameSleep, SameRun
      <4>6. /\ r.rs = [s.rs EXCEPT ![d] = x]
            /\ ((Runnable(s) \union {t}) \ {t}) \union {d} = Runnable(r) \ {t}
            /\ Runnable(r) \subseteq Threads
        BY <3>3, <3>5, <4>5
      <4>7. g.runq \in Seq(Threads) /\ Stands(g.runq, cp, (Runnable(s) \union {t}) \ {t})
        BY <1>4, <2>9, <4>1
      <4>8. Stands(g.runq, s.cprio, (Runnable(s) \union {t}) \ {t})
        BY <3>1, <4>7 DEF Runnable
      <4>9. d \notin (Runnable(s) \union {t}) \ {t} /\ b.runq = InsertBehind(g.runq, s.cprio, d)
        BY <2>8, <2>9, <4>1, <4>3
      <4>10. Stands(b.runq, s.cprio, ((Runnable(s) \union {t}) \ {t}) \union {d})
        <5> DEFINE U == (Runnable(s) \union {t}) \ {t}
        <5>1. /\ g.runq \in Seq(Threads) /\ s.cprio \in Priorities /\ Stands(g.runq, s.cprio, U)
              /\ d \notin U /\ d \in Threads /\ b.runq = InsertBehind(g.runq, s.cprio, d)
          BY <1>1, <2>1, <4>7, <4>8, <4>9
        <5> HIDE DEF U
        <5>2. Stands(InsertBehind(g.runq, s.cprio, d), s.cprio, U \union {d})
          BY ONLY <5>1, InsertionStands
        <5> QED BY <5>1, <5>2 DEF U
      <4> QED BY <4>5, <4>6, <4>10
    <3> QED BY <3>2, <3>4, <3>5
  <2>11. /\ r.hang[t] = << >>
         /\ d # t => r.hang[d] = Tail(s.hang[t])
         /\ \A u \in Threads \ {d, t} : r.hang[u] = s.hang[u]
         /\ r.sleepq = s.sleepq /\ r.wakeup = s.wakeup
    <3>1. r.hang = h /\ r.sleepq = s.sleepq /\ r.wakeup = s.wakeup
      BY <2>6, <2>10 DEF SameSleep
    <3> QED BY <1>1, <2>1, <3>1 DEF h
  <2>12. /\ BedsOK(r) /\ r.hang[t] = << >>
         /\ \A u : Hangs(r, u) <=> Hangs(s, u) /\ u # d
         /\ \A u \in Threads \ {d} : s.hang[u] = << >> => r.hang[u] = << >>
         /\ ~Hangs(s, t) /\ ~Queued(s, t)
    <3>1. d = Head(s.hang[t])
      BY DEF d
    <3>2. r \in SleepType
      BY <2>10
    <3> QED BY ONLY <1>3, <2>11, <3>1, <3>2, BedsOK(s), t \in Threads, HeirHangs
  <2>13. /\ r.needsleep = s.needsleep /\ r.susp = s.susp /\ r.wait = s.wait /\ r.lpce = s.lpce
         /\ r.live = [s.live EXCEPT ![d] = FALSE] /\ r.crab = m.crab
    BY <2>6, <2>10 DEF SameSleep
  <2>14. r.rs[d] = x /\ \A u \in Threads \ {d} : r.rs[u] = s.rs[u]
    BY <1>1, <2>1, <2>10
  <2>15. \A u \in Threads \ {d} : SameThread(s, r, u)
    BY <1>1, <2>11, <2>12, <2>13, <2>14 DEF SameThread, Queued
  <2>16. Expires(s, r, d, n)
    BY <1>1, <2>1, <2>8, <2>11, <2>12, <2>13, <2>14 DEF Expires, Queued, DueOK
  <2>17. CrabsKept(s, r)
    <3>1. \A u \in Threads : /\ r.crab[u].at = s.crab[u].at /\ r.crab[u].down = s.crab[u].down
                             /\ r.crab[u].stale = (s.crab[u].stale \/ s.crab[u].at = d)
      BY <2>3, <2>4, <2>13
    <3>2. \A u : u # d /\ (Queued(s, u) \/ Hangs(s, u)) =>
            (Queued(r, u) \/ Hangs(r, u)) /\ r.wakeup[u] = s.wakeup[u]
      BY <2>11, <2>12 DEF Queued
    <3>3. \A u \in Heads(s.sleepq) : u # d => u \in Heads(r.sleepq)
      BY <2>11
    <3> QED BY <1>0, <2>1, <2>10, <3>1, <3>2, <3>3, CrabsByMove
  <2>18. d \in Threads /\ (r.rs[d] # "RUNNING")
    BY <2>1, <2>14
  <2> QED BY <2>8, <2>10, <2>11, <2>12, <2>13, <2>14, <2>15, <2>16, <2>17, <2>18 DEF Passes
<1> QED BY <1>2, <1>3

(***************************************************************************)
(* The operators of the scheduler, each from a record in order to another. *)
(***************************************************************************)
\* What every operator keeps.
Lawful(s, r, n) == SleepOK(r) /\ CrabsKept(s, r) /\ DueOK(r, n)

\* The same beds.
LEMMA SameBeds ==
  ASSUME NEW s, BedsOK(s), NEW r \in SleepType, r.sleepq = s.sleepq, r.hang = s.hang,
         r.wakeup = s.wakeup
  PROVE  /\ BedsOK(r)
         /\ \A u : (Queued(r, u) <=> Queued(s, u)) /\ (Hangs(r, u) <=> Hangs(s, u))
         /\ \A n : DueOK(s, n) => DueOK(r, n)
         /\ r.crab = s.crab => CrabsKept(s, r)
<1>1. \A u : (Queued(r, u) <=> Queued(s, u)) /\ (Hangs(r, u) <=> Hangs(s, u))
  BY DEF Queued, Hangs
<1>2. BedsOK(r)
  BY DEF BedsOK, HangsOK, Queued
<1>3. s \in SleepType
  BY DEF BedsOK
<1>4. r.crab = s.crab => CrabsKept(s, r)
  BY <1>3, CrabsByNone
<1> QED BY <1>1, <1>2, <1>4 DEF DueOK

\* A thread that is not on the run queue, in no bed and not suspended is made
\* to run.
LEMMA MakeRunDoes ==
  ASSUME NEW s, BedsOK(s), NEW t \in Threads, s.running # t,
         \A u \in Threads \ {t} : StateOK(s, u) /\ (s.rs[u] = "RUNNING" <=> s.running = u),
         Stands(s.runq, s.cprio, Runnable(s) \ {t}),
         ~Queued(s, t), ~Hangs(s, t), s.susp[t] = 0, NEW r, r = MakeRun(s, t)
  PROVE  /\ SleepOK(r) /\ SameSleep(s, r) /\ r.running = s.running /\ r.cprio = s.cprio
         /\ r.rs = [s.rs EXCEPT ![t] = "RUNNABLE"]
         /\ CrabsKept(s, r) /\ \A n : DueOK(s, n) => DueOK(r, n)
         /\ \A u : (Queued(r, u) <=> Queued(s, u)) /\ (Hangs(r, u) <=> Hangs(s, u))
<1>1. s \in SleepType
  BY DEF BedsOK
<1>2. /\ s.runq \in Seq(Threads) /\ s.cprio \in Priorities /\ s.rs \in [Threads -> RunState]
      /\ s.susp \in [Threads -> Nat]
  BY <1>1, SleepFields
<1>3. /\ r \in SleepType /\ SameSleep(s, r) /\ r.running = s.running /\ r.cprio = s.cprio
      /\ r.runq = InsertBehind(s.runq, s.cprio, t) /\ r.rs = [s.rs EXCEPT ![t] = "RUNNABLE"]
  BY ONLY <1>1, t \in Threads, r = MakeRun(s, t), MakeRunSets
<1>4. /\ BedsOK(r) /\ CrabsKept(s, r) /\ \A n : DueOK(s, n) => DueOK(r, n)
      /\ \A u : (Queued(r, u) <=> Queued(s, u)) /\ (Hangs(r, u) <=> Hangs(s, u))
  BY <1>3, SameBeds DEF SameSleep
<1>5. QueueHolds(r)
  <2> DEFINE U == Runnable(s) \ {t}
  <2>1. t \notin U /\ U \union {t} = Runnable(r)
    BY <1>2, <1>3 DEF Runnable
  <2>2. Stands(s.runq, s.cprio, U)
    OBVIOUS
  <2> HIDE DEF U
  <2>3. Stands(InsertBehind(s.runq, s.cprio, t), s.cprio, U \union {t})
    BY ONLY <1>2, <2>1, <2>2, t \in Threads, InsertionStands
  <2> QED BY <1>3, <2>1, <2>3 DEF QueueHolds
<1>6. r.rs[t] = "RUNNABLE" /\ \A u \in Threads \ {t} : r.rs[u] = s.rs[u]
  BY <1>2, <1>3
<1>7. RunningMarked(r)
  BY <1>3, <1>6 DEF RunningMarked
<1>8. \A u \in Threads : StateOK(r, u)
  BY <1>2, <1>3, <1>4, <1>6 DEF StateOK, SameSleep
<1> QED BY <1>3, <1>4, <1>5, <1>7, <1>8 DEF SleepOK

\* A thread that is blocked or marked, and in no bed, is made to run: it blocks
\* if it is suspended.
LEMMA MakeRunnableDoes ==
  ASSUME NEW s, BedsOK(s), NEW t \in Threads, s.rs[t] \in {"BLOCKED", "NEEDSRUN"},
         \A u \in Threads \ {t} : StateOK(s, u), QueueHolds(s), RunningMarked(s),
         ~Queued(s, t), ~Hangs(s, t), NEW r, r = MakeRunnable(s, t)
  PROVE  /\ SleepOK(r) /\ SameSleep(s, r) /\ r.running = s.running /\ r.cprio = s.cprio
         /\ r.rs = [s.rs EXCEPT ![t] = IF s.susp[t] = 0 THEN "RUNNABLE" ELSE "BLOCKED"]
         /\ CrabsKept(s, r) /\ \A n : DueOK(s, n) => DueOK(r, n)
         /\ \A u : (Queued(r, u) <=> Queued(s, u)) /\ (Hangs(r, u) <=> Hangs(s, u))
<1>1. s \in SleepType
  BY DEF BedsOK
<1>2. s.rs \in [Threads -> RunState] /\ s.susp \in [Threads -> Nat]
  BY <1>1, SleepFields
<1>3. s.running # t /\ t \notin Runnable(s)
  BY DEF RunningMarked, Runnable
<1>4. CASE s.susp[t] = 0
  <2>1. r = MakeRun(s, t)
    BY <1>4 DEF MakeRunnable
  <2>2. Runnable(s) \ {t} = Runnable(s)
    BY <1>3
  <2>3. Stands(s.runq, s.cprio, Runnable(s) \ {t})
    BY <2>2 DEF QueueHolds
  <2>4. \A u \in Threads \ {t} : StateOK(s, u) /\ (s.rs[u] = "RUNNING" <=> s.running = u)
    BY DEF RunningMarked
  <2> QED BY <1>3, <1>4, <2>1, <2>3, <2>4, MakeRunDoes
<1>5. CASE s.susp[t] # 0
  <2>1. r = [s EXCEPT !.rs = [s.rs EXCEPT ![t] = "BLOCKED"]]
    BY <1>5 DEF MakeRunnable
  <2>2. [s.rs EXCEPT ![t] = "BLOCKED"] \in [Threads -> RunState]
    BY <1>2 DEF RunState
  <2>3. /\ r \in SleepType /\ SameSleep(s, r) /\ r.running = s.running /\ r.cprio = s.cprio
        /\ r.rs = [s.rs EXCEPT ![t] = "BLOCKED"] /\ r.runq = s.runq
    BY <1>1, <2>1, <2>2 DEF SleepType, SameSleep
  <2>4. /\ BedsOK(r) /\ CrabsKept(s, r) /\ \A n : DueOK(s, n) => DueOK(r, n)
        /\ \A u : (Queued(r, u) <=> Queued(s, u)) /\ (Hangs(r, u) <=> Hangs(s, u))
    BY <2>3, SameBeds DEF SameSleep
  <2>5. r.rs[t] = "BLOCKED" /\ \A u \in Threads \ {t} : r.rs[u] = s.rs[u]
    BY <1>2, <2>3
  <2>6. Runnable(r) = Runnable(s)
    BY <1>3, <2>5 DEF Runnable
  <2>7. QueueHolds(r) /\ RunningMarked(r)
    BY <1>3, <2>3, <2>5, <2>6 DEF QueueHolds, RunningMarked
  <2>8. \A u \in Threads : StateOK(r, u)
    BY <1>2, <2>3, <2>4, <2>5 DEF StateOK, SameSleep
  <2> QED BY <1>5, <2>3, <2>4, <2>7, <2>8 DEF SleepOK
<1> QED BY <1>4, <1>5

\* Nothing at all happens to a thread.
ExactSame(s, r, u) == SameThread(s, r, u) /\ r.rs[u] = s.rs[u]

\* What happened to a thread still has when nothing else does.
LEMMA PassesThenSame ==
  ASSUME NEW s, NEW q, NEW r, NEW u, NEW n, Passes(s, q, u, n), ExactSame(q, r, u)
  PROVE  Passes(s, r, u, n)
BY DEF Passes, ExactSame, SameThread, Expires, Slips

\* What happens to a thread to which nothing happened before is all there is.
LEMMA SameThenPasses ==
  ASSUME NEW s, NEW q, NEW r, NEW u, NEW n, ExactSame(s, q, u), Passes(q, r, u, n)
  PROVE  Passes(s, r, u, n)
BY DEF Passes, ExactSame, SameThread, Expires, Slips

\* Records that differ in the run queue alone.
LEMMA SameExactly ==
  ASSUME NEW s, NEW r, SameSleep(s, r), NEW u, r.rs[u] = s.rs[u]
  PROVE  ExactSame(s, r, u)
BY DEF ExactSame, SameThread, SameSleep, Queued, Hangs

\* A thread in order stays so.
LEMMA PassesState ==
  ASSUME NEW s \in SleepType, NEW r, NEW u \in Threads, NEW n, StateOK(s, u), Passes(s, r, u, n),
         r.rs[u] = s.rs[u] \/ Expires(s, r, u, n),
         s.hang[u] = << >> /\ r.rs[u] = "RUNNING" => r.hang[u] = << >>
  PROVE  StateOK(r, u) /\ (r.rs[u] = "RUNNING" <=> s.rs[u] = "RUNNING")
<1>1. s.susp[u] \in Nat
  BY SleepFields
<1> QED BY <1>1 DEF Passes, SameThread, Expires, Slips, StateOK

\* What is known of a record in order.
LEMMA OKFields ==
  ASSUME NEW s, SleepOK(s)
  PROVE  /\ s \in SleepType /\ BedsOK(s) /\ QueueHolds(s) /\ RunningMarked(s)
         /\ s.runq \in Seq(Threads) /\ s.rs \in [Threads -> RunState] /\ s.cprio \in Priorities
         /\ s.running \in Threads \union {NoThread}
         /\ s.sleepq \in Seq(Ring) /\ s.hang \in [Threads -> Ring] /\ s.wakeup \in Times
         /\ s.needsleep \in SUBSET Threads /\ s.crab \in [Threads -> Place]
         /\ s.susp \in [Threads -> Nat] /\ s.live \in [Threads -> BOOLEAN]
         /\ s.wait \in [Threads -> WaitState] /\ s.lpce \in [Threads -> BOOLEAN]
         /\ \A t \in Threads : StateOK(s, t)
<1>1. s \in SleepType /\ BedsOK(s) /\ QueueHolds(s) /\ RunningMarked(s)
      /\ \A t \in Threads : StateOK(s, t)
  BY DEF SleepOK, BedsOK
<1> QED BY <1>1, SleepFields

\* A sleeper is told to go back to sleep, and runs for that.
Requeued(s, r, t) ==
  /\ Queued(s, t) \/ Hangs(s, t)
  /\ ~Queued(r, t) /\ ~Hangs(r, t)
  /\ t \in r.needsleep /\ r.wait[t] = IF s.lpce[t] THEN "PROCESSING" ELSE s.wait[t]
  /\ r.lpce[t] = s.lpce[t] /\ r.live[t] = s.live[t] /\ r.wakeup[t] = s.wakeup[t]
  /\ s.rs[t] = "BLOCKED"

\* SleepqDequeue and NEEDSLEEP, as RequeueSleeper and ThreadSuspend do it.
DequeuedForNow(s, t) ==
  [SleepqDequeue(s, t) EXCEPT !.needsleep = @ \union {t},
                              !.wait[t] = IF s.lpce[t] THEN "PROCESSING" ELSE @]

ToReturn(s, t, q) ==
  /\ BedsOK(q) /\ SameRun(s, q) /\ q.susp = s.susp /\ CrabsKept(s, q)
  /\ Requeued(s, q, t) /\ \A u \in Threads \ {t} : ExactSame(s, q, u)
  /\ \A n : DueOK(s, n) => DueOK(q, n)
  /\ \A u \in Threads : s.hang[u] = << >> => q.hang[u] = << >>

\* SleepqDequeue with NEEDSLEEP leaves the beds in order, and t has to return.
LEMMA DequeuedToReturn ==
  ASSUME NEW s, BedsOK(s), NEW t \in Threads, Queued(s, t) \/ Hangs(s, t), s.rs[t] = "BLOCKED",
         NEW q, q = DequeuedForNow(s, t)
  PROVE  ToReturn(s, t, q)
<1> SUFFICES /\ BedsOK(q) /\ SameRun(s, q) /\ q.susp = s.susp /\ CrabsKept(s, q)
             /\ Requeued(s, q, t) /\ \A u \in Threads \ {t} : ExactSame(s, q, u)
             /\ \A n : DueOK(s, n) => DueOK(q, n)
             /\ \A u \in Threads : s.hang[u] = << >> => q.hang[u] = << >>
  BY DEF ToReturn
<1> DEFINE d == SleepqDequeue(s, t)
<1>1. /\ BedsOK(d) /\ SameRun(s, d) /\ d.wakeup = s.wakeup
      /\ d.needsleep = s.needsleep /\ d.susp = s.susp /\ d.live = s.live /\ d.wait = s.wait
      /\ d.lpce = s.lpce /\ CrabsKept(s, d)
      /\ \A u : (Queued(d, u) <=> Queued(s, u) /\ u # t) /\ (Hangs(d, u) <=> Hangs(s, u) /\ u # t)
      /\ \A u \in Threads : s.hang[u] = << >> => d.hang[u] = << >>
  BY SleepqDequeueDoes
<1> DEFINE ns == d.needsleep \union {t}
           w == [d.wait EXCEPT ![t] = IF s.lpce[t] THEN "PROCESSING" ELSE d.wait[t]]
<1>2. q = [d EXCEPT !.needsleep = ns, !.wait = w]
  BY DEF DequeuedForNow
<1>3. d \in SleepType
  BY <1>1 DEF BedsOK
<1>4. ns \in SUBSET Threads /\ w \in [Threads -> WaitState]
  BY <1>3, SleepFields DEF WaitState
<1>5. t \in ns /\ w[t] = IF s.lpce[t] THEN "PROCESSING" ELSE s.wait[t]
  BY <1>1, <1>3, SleepFields
<1>6. \A u \in Threads \ {t} : w[u] = s.wait[u] /\ (u \in ns <=> u \in s.needsleep)
  BY <1>1, <1>3, SleepFields
<1> HIDE DEF d, ns, w
<1>7. /\ q \in SleepType /\ SameRun(d, q) /\ q.needsleep = ns /\ q.wait = w /\ q.susp = d.susp
      /\ q.live = d.live /\ q.lpce = d.lpce /\ q.wakeup = d.wakeup /\ q.sleepq = d.sleepq
      /\ q.hang = d.hang /\ q.crab = d.crab
  BY <1>2, <1>3, <1>4 DEF SleepType, SameRun
<1>8. /\ BedsOK(q) /\ CrabsKept(d, q)
      /\ \A u : (Queued(q, u) <=> Queued(d, u)) /\ (Hangs(q, u) <=> Hangs(d, u))
  BY ONLY <1>1, <1>7, SameBeds
<1>9. CrabsKept(s, q)
  BY <1>1, <1>8, CrabsKeptTwice
<1>10. SameRun(s, q)
  BY <1>1, <1>7 DEF SameRun
<1>11. Requeued(s, q, t)
  BY <1>1, <1>5, <1>7, <1>8 DEF Requeued
<1>12. \A u \in Threads \ {t} : ExactSame(s, q, u)
  BY <1>1, <1>6, <1>7, <1>8, <1>10 DEF ExactSame, SameThread, SameRun
<1> QED BY <1>1, <1>7, <1>8, <1>9, <1>10, <1>11, <1>12 DEF DueOK

\* BoostCPrio: a runnable thread is queued again, a sleeper below others is
\* requeued, for any other nothing happens.
LEMMA BoostSleeperDoes ==
  ASSUME NEW s, SleepOK(s), NEW n, DueOK(s, n), NEW t \in Threads, NEW prio \in Priority,
         NEW r, r = BoostSleeper(s, t, prio)
  PROVE  /\ Lawful(s, r, n) /\ r.running = s.running
         /\ \A u \in Threads \ {t} : Passes(s, r, u, n)
         /\ ExactSame(s, r, t) \/ (Requeued(s, r, t) /\ r.rs[t] = "RUNNABLE" /\ r.susp[t] = 0)
<1>1. /\ s \in SleepType /\ BedsOK(s) /\ QueueHolds(s) /\ RunningMarked(s)
      /\ s.cprio \in Priorities /\ s.rs \in [Threads -> RunState]
      /\ \A u \in Threads : StateOK(s, u)
  BY OKFields
<1> DEFINE p == [s.cprio EXCEPT ![t] = prio]
           b == [s EXCEPT !.cprio = p]
<1>2. p \in Priorities /\ p[t] = prio /\ \A u \in Threads \ {t} : p[u] = s.cprio[u]
  BY <1>1 DEF Priorities
<1> HIDE DEF p
<1>3. /\ b \in SleepType /\ SameSleep(s, b) /\ b.running = s.running /\ b.rs = s.rs
      /\ b.runq = s.runq /\ b.cprio = p
  BY <1>1, <1>2 DEF SleepType, SameSleep
<1>4. r = IF s.rs[t] = "RUNNABLE" THEN MakeRun(RunqDequeueTail(b, t, s.cprio[t]), t)
          ELSE IF HasAbove(s, t) /\ s.rs[t] # "NEEDSRUN" THEN RequeueSleeper(b, t)
          ELSE b
  BY DEF BoostSleeper, p
<1> HIDE DEF b
<1>5. /\ BedsOK(b) /\ CrabsKept(s, b) /\ DueOK(b, n)
      /\ \A u : (Queued(b, u) <=> Queued(s, u)) /\ (Hangs(b, u) <=> Hangs(s, u))
  BY <1>1, <1>3, SameBeds DEF SameSleep
<1>6. \A u \in Threads : StateOK(b, u) /\ ExactSame(s, b, u)
  BY <1>1, <1>3, <1>5, SameExactly DEF StateOK, SameSleep
<1>7. Runnable(b) = Runnable(s)
  BY <1>3 DEF Runnable
<1>8. CASE s.rs[t] = "RUNNABLE"
  <2> DEFINE g == RunqDequeueTail(b, t, s.cprio[t])
  <2>1. Stands(b.runq, s.cprio, Runnable(b) \union {t})
    <3>1. Runnable(b) \union {t} = Runnable(s)
      BY <1>7, <1>8 DEF Runnable
    <3> QED BY <1>1, <1>3, <3>1 DEF QueueHolds
  <2>2. \A u \in Threads \ {t} : s.cprio[u] = b.cprio[u]
    BY <1>2, <1>3
  <2>3. /\ BedsOK(g) /\ g.running = b.running /\ g.cprio = b.cprio /\ g.wakeup = b.wakeup
        /\ g.needsleep = b.needsleep /\ g.susp = b.susp /\ g.wait = b.wait /\ g.lpce = b.lpce
        /\ Stands(g.runq, g.cprio, Runnable(g) \ {t}) /\ g.hang[t] = << >> /\ CrabsKept(b, g)
        /\ \A u \in Threads : Passes(b, g, u, n) /\ (g.rs[u] = b.rs[u] \/ Expires(b, g, u, n))
        /\ SameThread(b, g, t) /\ g.rs[t] = b.rs[t]
        /\ \A u \in Threads : b.hang[u] = << >> /\ g.rs[u] = "RUNNING" => g.hang[u] = << >>
        /\ \A u : Hangs(g, u) => Hangs(b, u)
    <3>1. TailReady(b, t, s.cprio, n)
      BY <1>1, <1>5, <1>6, <2>1, <2>2 DEF TailReady
    <3>2. TailDone(b, t, n, g)
      BY <3>1, RunqDequeueTailDoes
    <3> QED BY <3>2 DEF TailDone
  <2>4. r = MakeRun(g, t)
    BY <1>4, <1>8
  <2> HIDE DEF g
  <2>5. \A u \in Threads \ {t} : StateOK(g, u) /\ (g.rs[u] = "RUNNING" <=> b.rs[u] = "RUNNING")
    BY <1>3, <1>6, <2>3, PassesState
  <2>6. \A u \in Threads \ {t} : StateOK(g, u) /\ (g.rs[u] = "RUNNING" <=> g.running = u)
    BY <1>1, <1>3, <2>3, <2>5 DEF RunningMarked
  <2>7. g.running # t
    BY <1>1, <1>3, <1>8, <2>3 DEF RunningMarked
  <2>8. ~Queued(g, t) /\ ~Hangs(g, t) /\ g.susp[t] = 0
    <3>1. StateOK(b, t) /\ b.susp[t] \in Nat /\ b.rs[t] = "RUNNABLE"
      BY <1>3, <1>6, <1>8, SleepFields
    <3> QED BY <2>3, <3>1 DEF StateOK, SameThread
  <2>9. /\ SleepOK(r) /\ SameSleep(g, r) /\ r.running = g.running /\ r.cprio = g.cprio
        /\ r.rs = [g.rs EXCEPT ![t] = "RUNNABLE"]
        /\ CrabsKept(g, r) /\ \A m : DueOK(g, m) => DueOK(r, m)
        /\ \A u : (Queued(r, u) <=> Queued(g, u)) /\ (Hangs(r, u) <=> Hangs(g, u))
    BY <2>3, <2>4, <2>6, <2>7, <2>8, MakeRunDoes
  <2>10. g.rs \in [Threads -> RunState] /\ g.rs[t] = "RUNNABLE"
    BY <1>3, <1>8, <2>3 DEF BedsOK, SleepType
  <2>11. \A u \in Threads : ExactSame(g, r, u)
    BY <2>9, <2>10, SameExactly
  <2>12. \A u \in Threads : Passes(s, r, u, n)
    <3> TAKE u \in Threads
    <3>1. Passes(b, r, u, n)
      BY <2>3, <2>11, PassesThenSame
    <3> QED BY <1>6, <3>1, SameThenPasses
  <2>13. ExactSame(s, r, t)
    BY <1>6, <2>3, <2>11 DEF ExactSame, SameThread
  <2>14. CrabsKept(s, r)
    <3>1. CrabsKept(s, g)
      BY <1>1, <1>5, <2>3, CrabsKeptTwice
    <3> QED BY <1>1, <2>9, <3>1, CrabsKeptTwice
  <2>15. DueOK(r, n)
    <3>1. DueOK(g, n)
      BY <1>5, <2>3 DEF DueOK
    <3> QED BY <2>9, <3>1
  <2> QED BY <1>3, <2>3, <2>9, <2>12, <2>13, <2>14, <2>15 DEF Lawful
<1>9. CASE s.rs[t] # "RUNNABLE" /\ HasAbove(s, t) /\ s.rs[t] # "NEEDSRUN"
  <2> DEFINE q == DequeuedForNow(b, t)
  <2>1. r = MakeRun(q, t)
    BY <1>4, <1>9 DEF RequeueSleeper, DequeuedForNow
  <2>2. Queued(b, t) \/ Hangs(b, t)
    <3>1. t \in Hanging(s) <=> Hangs(s, t)
      BY <1>1, SleepingIs
    <3>2. t \in Hanging(s) \/ Queued(s, t)
      BY <1>9 DEF HasAbove, Queued, Sleepers
    <3> QED BY <1>5, <3>1, <3>2
  <2>3. b.rs[t] = "BLOCKED" /\ b.susp[t] = 0 /\ t \notin Runnable(b)
    BY <1>3, <1>6, <1>9, <2>2 DEF StateOK, Runnable
  <2>4. /\ BedsOK(q) /\ SameRun(b, q) /\ q.susp = b.susp /\ CrabsKept(b, q)
        /\ Requeued(b, q, t) /\ \A u \in Threads \ {t} : ExactSame(b, q, u)
        /\ \A m : DueOK(b, m) => DueOK(q, m)
        /\ \A u \in Threads : b.hang[u] = << >> => q.hang[u] = << >>
    <3>1. ToReturn(b, t, q)
      BY <1>5, <2>2, <2>3, DequeuedToReturn
    <3> QED BY <3>1 DEF ToReturn
  <2> HIDE DEF q
  <2>5. \A u \in Threads \ {t} : StateOK(q, u) /\ (q.rs[u] = "RUNNING" <=> q.running = u)
    <3> TAKE u \in Threads \ {t}
    <3>1. ExactSame(b, q, u) /\ StateOK(b, u)
      BY <1>6, <2>4
    <3>2. StateOK(q, u)
      BY <2>4, <3>1 DEF StateOK, ExactSame, SameThread
    <3> QED BY <1>1, <1>3, <2>4, <3>2 DEF RunningMarked, SameRun
  <2>6. q.running # t /\ q.rs[t] = "BLOCKED"
    BY <1>1, <1>3, <2>3, <2>4 DEF SameRun, RunningMarked
  <2>7. Stands(q.runq, q.cprio, Runnable(q) \ {t})
    <3>1. Runnable(q) \ {t} = Runnable(s)
      BY <1>7, <2>3, <2>4 DEF SameRun, Runnable
    <3>2. \A u \in Runnable(s) : q.cprio[u] = s.cprio[u]
      BY <1>2, <1>3, <1>7, <2>3, <2>4 DEF SameRun, Runnable
    <3>3. q.runq = s.runq /\ s.runq \in Seq(Threads) /\ Stands(s.runq, s.cprio, Runnable(s))
      BY <1>1, <1>3, <2>4, SleepFields DEF SameRun, QueueHolds
    <3>4. Stands(s.runq, q.cprio, Runnable(s))
      BY ONLY <3>2, <3>3, StandsByPrio
    <3> QED BY <3>1, <3>3, <3>4
  <2>8. ~Queued(q, t) /\ ~Hangs(q, t) /\ q.susp[t] = 0
    BY <2>3, <2>4 DEF Requeued
  <2>9. /\ SleepOK(r) /\ SameSleep(q, r) /\ r.running = q.running /\ r.cprio = q.cprio
        /\ r.rs = [q.rs EXCEPT ![t] = "RUNNABLE"]
        /\ CrabsKept(q, r) /\ \A m : DueOK(q, m) => DueOK(r, m)
        /\ \A u : (Queued(r, u) <=> Queued(q, u)) /\ (Hangs(r, u) <=> Hangs(q, u))
    BY <2>1, <2>4, <2>5, <2>6, <2>7, <2>8, MakeRunDoes
  <2>10. q.rs \in [Threads -> RunState]
    BY <1>1, <1>3, <2>4 DEF SameRun
  <2>11. r.rs[t] = "RUNNABLE" /\ \A u \in Threads \ {t} : r.rs[u] = q.rs[u]
    BY <2>9, <2>10
  <2>12. \A u \in Threads \ {t} : Passes(s, r, u, n)
    <3> TAKE u \in Threads \ {t}
    <3>1. ExactSame(q, r, u)
      BY <2>9, <2>11, SameExactly
    <3>2. ExactSame(s, b, u) /\ ExactSame(b, q, u)
      BY <1>6, <2>4
    <3> QED BY <3>1, <3>2 DEF Passes, ExactSame, SameThread
  <2>13. Requeued(s, r, t) /\ r.susp[t] = 0
    BY <1>3, <1>5, <2>4, <2>8, <2>9 DEF Requeued, SameSleep
  <2>14. CrabsKept(s, r)
    <3>1. CrabsKept(s, q)
      BY <1>1, <1>5, <2>4, CrabsKeptTwice
    <3> QED BY <1>1, <2>9, <3>1, CrabsKeptTwice
  <2>15. DueOK(r, n)
    BY <1>5, <2>4, <2>9
  <2>16. r.running = s.running
    BY <1>3, <2>4, <2>9 DEF SameRun
  <2> QED BY <2>9, <2>11, <2>12, <2>13, <2>14, <2>15, <2>16 DEF Lawful
<1>10. CASE s.rs[t] # "RUNNABLE" /\ ~(HasAbove(s, t) /\ s.rs[t] # "NEEDSRUN")
  <2>1. r = b
    BY <1>4, <1>10
  <2>2. QueueHolds(b)
    <3>1. \A u \in Runnable(s) : b.cprio[u] = s.cprio[u]
      BY <1>2, <1>3, <1>10 DEF Runnable
    <3>2. s.runq \in Seq(Threads) /\ Stands(s.runq, s.cprio, Runnable(s))
      BY <1>1, SleepFields DEF QueueHolds
    <3>3. Stands(s.runq, b.cprio, Runnable(s))
      BY ONLY <3>1, <3>2, StandsByPrio
    <3> QED BY <1>3, <1>7, <3>3 DEF QueueHolds
  <2>3. SleepOK(b)
    BY <1>1, <1>3, <1>5, <1>6, <2>2 DEF SleepOK, RunningMarked
  <2> QED BY <1>3, <1>5, <1>6, <2>1, <2>3 DEF Lawful, Passes, ExactSame
<1> QED BY <1>8, <1>9, <1>10

\* Records that differ in what a wait is about.
LEMMA SameCore ==
  ASSUME NEW s, SleepOK(s), NEW r \in SleepType, SameRun(s, r), r.sleepq = s.sleepq,
         r.hang = s.hang, r.wakeup = s.wakeup, r.susp = s.susp, r.crab = s.crab,
         r.needsleep \subseteq s.needsleep
  PROVE  /\ SleepOK(r) /\ CrabsKept(s, r) /\ \A n : DueOK(s, n) => DueOK(r, n)
         /\ \A u : (Queued(r, u) <=> Queued(s, u)) /\ (Hangs(r, u) <=> Hangs(s, u))
<1>1. BedsOK(s) /\ QueueHolds(s) /\ RunningMarked(s) /\ \A u \in Threads : StateOK(s, u)
  BY DEF SleepOK
<1>2. /\ BedsOK(r) /\ CrabsKept(s, r) /\ \A n : DueOK(s, n) => DueOK(r, n)
      /\ \A u : (Queued(r, u) <=> Queued(s, u)) /\ (Hangs(r, u) <=> Hangs(s, u))
  BY <1>1, SameBeds
<1>3. Runnable(r) = Runnable(s)
  BY DEF Runnable, SameRun
<1>4. QueueHolds(r) /\ RunningMarked(r)
  BY <1>1, <1>3 DEF QueueHolds, RunningMarked, SameRun
<1>5. \A u \in Threads : StateOK(r, u)
  BY <1>1, <1>2 DEF StateOK, SameRun
<1> QED BY <1>2, <1>4, <1>5 DEF SleepOK

\* The wait of t ends; nothing else changes.
EndedWait(s, r, t) ==
  /\ SleepOK(r) /\ SameRun(s, r) /\ CrabsKept(s, r) /\ \A n : DueOK(s, n) => DueOK(r, n)
  /\ \A u : (Queued(r, u) <=> Queued(s, u)) /\ (Hangs(r, u) <=> Hangs(s, u))
  /\ r.susp = s.susp /\ r.wait = s.wait /\ r.lpce = s.lpce /\ r.needsleep = s.needsleep
  /\ r.wakeup = s.wakeup /\ r.live = [s.live EXCEPT ![t] = FALSE] /\ ~r.live[t]
  /\ \A u \in Threads \ {t} : ExactSame(s, r, u)

\* EndWait clears the mark of live proxies of one thread, and nothing else.
LEMMA EndWaitDoes ==
  ASSUME NEW s, SleepOK(s), NEW t \in Threads
  PROVE  EndedWait(s, EndWait(s, t), t)
<1> DEFINE l == [s.live EXCEPT ![t] = FALSE]
           r == EndWait(s, t)
<1>1. s \in SleepType /\ s.live \in [Threads -> BOOLEAN]
  BY OKFields
<1>2. l \in [Threads -> BOOLEAN] /\ ~l[t] /\ \A u \in Threads \ {t} : l[u] = s.live[u]
  BY <1>1
<1>3. r = [s EXCEPT !.live = l]
  BY DEF EndWait
<1>4. l = [s.live EXCEPT ![t] = FALSE]
  OBVIOUS
<1> HIDE DEF r, l
<1>5. /\ r \in SleepType /\ SameRun(s, r) /\ r.sleepq = s.sleepq /\ r.hang = s.hang
      /\ r.wakeup = s.wakeup /\ r.susp = s.susp /\ r.crab = s.crab /\ r.needsleep = s.needsleep
      /\ r.wait = s.wait /\ r.lpce = s.lpce /\ r.live = l
  BY <1>1, <1>2, <1>3 DEF SleepType, SameRun
<1>6. /\ SleepOK(r) /\ CrabsKept(s, r) /\ \A n : DueOK(s, n) => DueOK(r, n)
      /\ \A u : (Queued(r, u) <=> Queued(s, u)) /\ (Hangs(r, u) <=> Hangs(s, u))
  BY <1>5, SameCore
<1>7. \A u \in Threads \ {t} : ExactSame(s, r, u)
  BY <1>2, <1>5, <1>6 DEF ExactSame, SameThread, SameRun
<1> QED BY <1>2, <1>4, <1>5, <1>6, <1>7 DEF EndedWait, r

\* A thread is taken out of its bed, if it is in one, and runs.
Woken(s, r, t) ==
  /\ ~Queued(r, t) /\ ~Hangs(r, t)
  /\ r.wait[t] = s.wait[t] /\ r.lpce[t] = s.lpce[t] /\ r.susp[t] = s.susp[t]
  /\ r.live[t] = s.live[t] /\ r.wakeup[t] = s.wakeup[t]
  /\ (t \in r.needsleep <=> t \in s.needsleep)
  /\ r.rs[t] = IF s.susp[t] = 0 THEN "RUNNABLE" ELSE "BLOCKED"

WokenUp(s, r, t, n) ==
  /\ Lawful(s, r, n) /\ r.running = s.running
  /\ Woken(s, r, t) /\ \A u \in Threads \ {t} : ExactSame(s, r, u)

\* SleepqDequeue and MakeRun of a thread that does not run: it is in no bed.
LEMMA OutOfBedDoes ==
  ASSUME NEW s, SleepOK(s), NEW n, DueOK(s, n), NEW t \in Threads,
         s.rs[t] \in {"BLOCKED", "NEEDSRUN"},
         NEW q, q = IF Sleeping(s, t) THEN SleepqDequeue(s, t) ELSE s
  PROVE  WokenUp(s, MakeRunnable(q, t), t, n)
<1> DEFINE r == MakeRunnable(q, t)
<1>1. /\ s \in SleepType /\ BedsOK(s) /\ QueueHolds(s) /\ RunningMarked(s)
      /\ s.rs \in [Threads -> RunState] /\ \A u \in Threads : StateOK(s, u)
  BY OKFields
<1>2. /\ BedsOK(q) /\ SameRun(s, q) /\ q.wakeup = s.wakeup
      /\ q.needsleep = s.needsleep /\ q.susp = s.susp /\ q.live = s.live /\ q.wait = s.wait
      /\ q.lpce = s.lpce /\ CrabsKept(s, q)
      /\ \A u : (Queued(q, u) <=> Queued(s, u) /\ u # t) /\ (Hangs(q, u) <=> Hangs(s, u) /\ u # t)
      /\ \A u \in Threads : s.hang[u] = << >> => q.hang[u] = << >>
  <2>1. CASE Sleeping(s, t)
    BY <1>1, <2>1, SleepqDequeueDoes
  <2>2. CASE ~Sleeping(s, t)
    <3>1. q = s /\ ~Queued(s, t) /\ ~Hangs(s, t)
      BY <1>1, <2>2, SleepingIs
    <3>2. CrabsKept(s, s)
      BY <1>1, CrabsByNone
    <3> QED BY <1>1, <3>1, <3>2 DEF SameRun
  <2> QED BY <2>1, <2>2
<1>3. \A u \in Threads \ {t} : StateOK(q, u) /\ ExactSame(s, q, u)
  BY <1>1, <1>2 DEF StateOK, SameRun, ExactSame, SameThread
<1>4. QueueHolds(q) /\ RunningMarked(q) /\ q.rs = s.rs
  <2>1. Runnable(q) = Runnable(s)
    BY <1>2 DEF Runnable, SameRun
  <2> QED BY <1>1, <1>2, <2>1 DEF QueueHolds, RunningMarked, SameRun
<1>5. /\ SleepOK(r) /\ SameSleep(q, r) /\ r.running = q.running /\ r.cprio = q.cprio
      /\ r.rs = [q.rs EXCEPT ![t] = IF q.susp[t] = 0 THEN "RUNNABLE" ELSE "BLOCKED"]
      /\ CrabsKept(q, r) /\ \A m : DueOK(q, m) => DueOK(r, m)
      /\ \A u : (Queued(r, u) <=> Queued(q, u)) /\ (Hangs(r, u) <=> Hangs(q, u))
  BY <1>2, <1>3, <1>4, MakeRunnableDoes, SMTT(30)
<1> HIDE DEF r
<1>6. DueOK(r, n)
  BY <1>2, <1>5 DEF DueOK
<1>7. CrabsKept(s, r)
  BY <1>1, <1>2, <1>5, CrabsKeptTwice
<1>8. Woken(s, r, t)
  BY <1>1, <1>2, <1>4, <1>5 DEF Woken, SameSleep
<1>9. \A u \in Threads \ {t} : ExactSame(s, r, u)
  BY <1>1, <1>3, <1>4, <1>5 DEF ExactSame, SameThread, SameSleep
<1> QED BY <1>2, <1>5, <1>6, <1>7, <1>8, <1>9 DEF WokenUp, Lawful, SameRun, r

\* MakeRunIfNeeded.
LEMMA WakeIfNeededDoes ==
  ASSUME NEW s, SleepOK(s), NEW n, DueOK(s, n), NEW t \in Threads
  PROVE  IF s.rs[t] = "NEEDSRUN" THEN WokenUp(s, WakeIfNeeded(s, t), t, n)
         ELSE WakeIfNeeded(s, t) = s
BY OutOfBedDoes DEF WakeIfNeeded

\* An interrupt's waiter that has blocked.
IntrWakes(s, w) ==
  MakeRunnable(IF Sleeping(s, w) THEN SleepqDequeue(EndWait(s, w), w) ELSE EndWait(s, w), w)

\* The interrupt that ends a wait takes its waiter out of its bed and runs it.
LEMMA IntrWakesDoes ==
  ASSUME NEW s, SleepOK(s), NEW n, DueOK(s, n), NEW w \in Threads,
         s.rs[w] \in {"BLOCKED", "NEEDSRUN"}, NEW r, r = IntrWakes(s, w)
  PROVE  /\ Lawful(s, r, n) /\ r.running = s.running /\ \A u \in Threads \ {w} : ExactSame(s, r, u)
         /\ Woken(EndWait(s, w), r, w) /\ EndedWait(s, EndWait(s, w), w)
<1> DEFINE e == EndWait(s, w)
<1>1. EndedWait(s, e, w)
  BY EndWaitDoes
<1>2. s \in SleepType /\ BedsOK(s)
  BY OKFields
<1>3. e \in SleepType
  BY <1>1 DEF EndedWait, SleepOK, BedsOK
<1>4. Sleeping(s, w) <=> Sleeping(e, w)
  BY <1>1, <1>2, <1>3, SleepingIs DEF EndedWait
<1> DEFINE q == IF Sleeping(e, w) THEN SleepqDequeue(e, w) ELSE e
<1>5. r = MakeRunnable(q, w)
  BY <1>4 DEF IntrWakes
<1> HIDE DEF e
<1>6. SleepOK(e) /\ DueOK(e, n) /\ e.rs[w] \in {"BLOCKED", "NEEDSRUN"}
  BY <1>1 DEF EndedWait, SameRun
<1>7. WokenUp(e, r, w, n)
  BY <1>5, <1>6, OutOfBedDoes
<1>8. CrabsKept(s, r)
  BY <1>1, <1>2, <1>7, CrabsKeptTwice DEF EndedWait, WokenUp, Lawful
<1>9. \A u \in Threads \ {w} : ExactSame(s, r, u)
  BY <1>1, <1>7 DEF EndedWait, WokenUp, ExactSame, SameThread
<1> QED BY <1>1, <1>7, <1>8, <1>9 DEF WokenUp, Lawful, EndedWait, SameRun, e

\* What the run queue and the running thread are changes, for t alone.
RunChange(s, r, t) ==
  /\ SleepOK(r) /\ SameSleep(s, r) /\ CrabsKept(s, r) /\ \A n : DueOK(s, n) => DueOK(r, n)
  /\ \A u : (Queued(r, u) <=> Queued(s, u)) /\ (Hangs(r, u) <=> Hangs(s, u))
  /\ \A u \in Threads \ {t} : ExactSame(s, r, u)

\* Who changes the run queue in order, and one thread with it, keeps the beds.
LEMMA RunChangeDoes ==
  ASSUME NEW s, SleepOK(s), NEW r \in SleepType, SameSleep(s, r), NEW t,
         QueueHolds(r), RunningMarked(r), \A u \in Threads \ {t} : r.rs[u] = s.rs[u],
         t \in Threads =>
           r.rs[t] \in {"BLOCKED", "NEEDSRUN"} \/ (~Queued(s, t) /\ ~Hangs(s, t) /\ s.susp[t] = 0),
         t \in Threads => (r.rs[t] = "RUNNING" => s.hang[t] = << >>)
  PROVE  RunChange(s, r, t)
<1>1. BedsOK(s) /\ \A u \in Threads : StateOK(s, u)
  BY DEF SleepOK
<1>2. s.susp \in [Threads -> Nat]
  BY OKFields
<1>3. /\ BedsOK(r) /\ CrabsKept(s, r) /\ \A n : DueOK(s, n) => DueOK(r, n)
      /\ \A u : (Queued(r, u) <=> Queued(s, u)) /\ (Hangs(r, u) <=> Hangs(s, u))
  BY <1>1, SameBeds DEF SameSleep
<1>4. \A u \in Threads \ {t} : ExactSame(s, r, u)
  BY SameExactly
<1>5. \A u \in Threads : StateOK(r, u)
  <2> TAKE u \in Threads
  <2>1. CASE u = t
    <3>1. StateOK(s, t) /\ r.susp[t] = s.susp[t] /\ t \in Threads /\ r.hang[t] = s.hang[t]
      BY <1>1, <2>1 DEF SameSleep
    <3>2. Queued(s, t) \/ Hangs(s, t) => r.susp[t] = 0 /\ t \notin r.needsleep
      BY <3>1 DEF StateOK, SameSleep
    <3>3. r.susp[t] > 0 => r.rs[t] \in {"BLOCKED", "NEEDSRUN"}
      BY <1>2, <3>1
    <3> QED BY <1>3, <2>1, <3>1, <3>2, <3>3 DEF StateOK
  <2>2. CASE u # t
    BY <1>1, <1>3, <2>2 DEF StateOK, SameSleep
  <2> QED BY <2>1, <2>2
<1> QED BY <1>3, <1>4, <1>5 DEF RunChange, SleepOK

\* The running thread is in no bed and not suspended, and nobody hangs on it.
LEMMA RunningIsUp ==
  ASSUME NEW s, SleepOK(s), s.running \in Threads
  PROVE  /\ s.rs[s.running] = "RUNNING" /\ s.susp[s.running] = 0 /\ s.hang[s.running] = << >>
         /\ ~Queued(s, s.running) /\ ~Hangs(s, s.running) /\ s.running \notin Runnable(s)
<1>1. s.rs[s.running] = "RUNNING" /\ StateOK(s, s.running) /\ s.susp[s.running] \in Nat
  BY OKFields DEF RunningMarked
<1> QED BY <1>1 DEF StateOK, Runnable

\* Blocking the running thread.
LEMMA BlockCurrentDoes ==
  ASSUME NEW s, SleepOK(s), NEW t \in Threads, s.running = t, NEW r, r = BlockCurrent(s)
  PROVE  RunChange(s, r, t) /\ r.running = NoThread /\ r.rs[t] = "BLOCKED"
<1>1. s \in SleepType /\ QueueHolds(s) /\ RunningMarked(s) /\ s.rs \in [Threads -> RunState]
  BY OKFields
<1>2. /\ s.rs[t] = "RUNNING" /\ t \notin Runnable(s)
  BY RunningIsUp
<1> DEFINE x == [s.rs EXCEPT ![t] = "BLOCKED"]
<1>3. x \in [Threads -> RunState] /\ x[t] = "BLOCKED" /\ \A u \in Threads \ {t} : x[u] = s.rs[u]
  BY <1>1 DEF RunState
<1>4. r = [s EXCEPT !.rs = x, !.running = NoThread, !.resched = TRUE]
  BY DEF BlockCurrent
<1> HIDE DEF x
<1>5. /\ r \in SleepType /\ SameSleep(s, r) /\ r.rs = x /\ r.running = NoThread
      /\ r.runq = s.runq /\ r.cprio = s.cprio
  BY <1>1, <1>3, <1>4 DEF SleepType, SameSleep
<1>6. Runnable(r) = Runnable(s)
  BY <1>2, <1>3, <1>5 DEF Runnable
<1>7. QueueHolds(r) /\ RunningMarked(r)
  BY <1>1, <1>3, <1>5, <1>6, NoThreadAssumption DEF QueueHolds, RunningMarked
<1> QED BY <1>3, <1>5, <1>7, RunChangeDoes

\* ThreadYield.
LEMMA ThreadYieldDoes ==
  ASSUME NEW s, SleepOK(s), NEW t \in Threads, s.running = t, NEW r, r = ThreadYield(s)
  PROVE  RunChange(s, r, t) /\ r.running = NoThread /\ r.rs[t] = "RUNNABLE"
<1>1. /\ s \in SleepType /\ QueueHolds(s) /\ RunningMarked(s) /\ s.rs \in [Threads -> RunState]
      /\ s.runq \in Seq(Threads) /\ s.cprio \in Priorities
  BY OKFields
<1>2. /\ s.rs[t] = "RUNNING" /\ t \notin Runnable(s) /\ s.susp[t] = 0 /\ s.hang[t] = << >>
      /\ ~Queued(s, t) /\ ~Hangs(s, t)
  BY RunningIsUp
<1> DEFINE i == [s EXCEPT !.running = NoThread, !.resched = TRUE]
<1>3. /\ i \in SleepType /\ SameSleep(s, i) /\ i.rs = s.rs /\ i.running = NoThread
      /\ i.runq = s.runq /\ i.cprio = s.cprio
  BY <1>1 DEF SleepType, SameSleep
<1>4. r = MakeRun(i, t)
  BY DEF ThreadYield, SetReschedule
<1> HIDE DEF i
<1>5. /\ r \in SleepType /\ SameSleep(i, r) /\ r.running = i.running /\ r.cprio = i.cprio
      /\ r.runq = InsertBehind(i.runq, i.cprio, t) /\ r.rs = [i.rs EXCEPT ![t] = "RUNNABLE"]
  BY <1>3, <1>4, MakeRunSets
<1>6. r.rs[t] = "RUNNABLE" /\ \A u \in Threads \ {t} : r.rs[u] = s.rs[u]
  BY <1>1, <1>3, <1>5
<1>7. Runnable(r) = Runnable(s) \union {t}
  BY <1>2, <1>6 DEF Runnable
<1>8. Stands(InsertBehind(s.runq, s.cprio, t), s.cprio, Runnable(s) \union {t})
  BY <1>1, <1>2, InsertionStands DEF QueueHolds
<1>9. QueueHolds(r) /\ RunningMarked(r)
  BY <1>1, <1>3, <1>5, <1>6, <1>7, <1>8, NoThreadAssumption DEF QueueHolds, RunningMarked
<1>10. SameSleep(s, r)
  BY <1>3, <1>5 DEF SameSleep
<1> QED BY <1>2, <1>3, <1>5, <1>6, <1>9, <1>10, RunChangeDoes

\* The running thread's priority changes.
LEMMA RunningPrioDoes ==
  ASSUME NEW s, SleepOK(s), NEW t \in Threads, s.running = t,
         NEW r \in SleepType, SameSleep(s, r), r.rs = s.rs, r.running = s.running,
         r.runq = s.runq, \A u \in Threads \ {t} : r.cprio[u] = s.cprio[u]
  PROVE  RunChange(s, r, t) /\ r.running = t /\ r.rs = s.rs
<1>1. QueueHolds(s) /\ RunningMarked(s) /\ s.runq \in Seq(Threads)
  BY OKFields
<1>2. /\ s.rs[t] = "RUNNING" /\ t \notin Runnable(s) /\ s.susp[t] = 0 /\ s.hang[t] = << >>
      /\ ~Queued(s, t) /\ ~Hangs(s, t)
  BY RunningIsUp
<1>3. Runnable(r) = Runnable(s) /\ \A u \in Runnable(s) : r.cprio[u] = s.cprio[u]
  BY <1>2 DEF Runnable
<1>4. Stands(s.runq, r.cprio, Runnable(s))
  BY <1>1, <1>3, StandsByPrio DEF QueueHolds
<1>5. QueueHolds(r) /\ RunningMarked(r)
  BY <1>1, <1>3, <1>4 DEF QueueHolds, RunningMarked
<1> QED BY <1>2, <1>5, RunChangeDoes

\* SetThreadBasePrio of the running thread leaves everybody where he is.
LEMMA SetRunningPrioDoes ==
  ASSUME NEW s, SleepOK(s), NEW t \in Threads, s.running = t, NEW prio \in Priority,
         NEW r, r = SetRunningPrio(s, prio)
  PROVE  RunChange(s, r, t) /\ r.running = t /\ r.rs = s.rs
<1>1. s \in SleepType /\ s.cprio \in Priorities
  BY OKFields
<1> DEFINE p == [s.cprio EXCEPT ![t] = prio]
<1>2. p \in Priorities /\ \A u \in Threads \ {t} : p[u] = s.cprio[u]
  BY <1>1 DEF Priorities
<1>3. r = [s EXCEPT !.cprio = p, !.resched = TRUE] \/ r = [s EXCEPT !.cprio = p]
  BY <1>1 DEF SetRunningPrio, SetReschedule
<1> HIDE DEF p
<1>4. /\ r \in SleepType /\ SameSleep(s, r) /\ r.rs = s.rs /\ r.running = s.running
      /\ r.runq = s.runq /\ r.cprio = p
  BY <1>1, <1>2, <1>3, ZenonT(30) DEF SleepType, SameSleep
<1> QED BY <1>2, <1>4, RunningPrioDoes

\* KCNextThread, first half: the running thread may be put back.
LEMMA PutBackDoes ==
  ASSUME NEW s, SleepOK(s), NEW r, r = PutBackCurrent([s EXCEPT !.resched = FALSE], FALSE)
  PROVE  /\ RunChange(s, r, s.running)
         /\ \/ r.running = s.running /\ r.rs = s.rs
            \/ /\ s.running \in Threads /\ r.running = NoThread
               /\ r.rs[s.running] = "RUNNABLE" /\ s.rs[s.running] = "RUNNING"
<1>1. /\ s \in SleepType /\ QueueHolds(s) /\ RunningMarked(s) /\ s.rs \in [Threads -> RunState]
      /\ s.runq \in Seq(Threads) /\ s.cprio \in Priorities
      /\ s.running \in Threads \union {NoThread} /\ \A u \in Threads : StateOK(s, u)
  BY OKFields
<1> DEFINE i == [s EXCEPT !.resched = FALSE]
           t == s.running
<1>2. /\ i \in SleepType /\ SameSleep(s, i) /\ i.rs = s.rs /\ i.running = t
      /\ i.runq = s.runq /\ i.cprio = s.cprio
  BY <1>1 DEF SleepType, SameSleep
<1>3. r = PutBackCurrent(i, FALSE)
  OBVIOUS
<1>4. r = i \/ /\ t \in Threads
               /\ r = [i EXCEPT !.running = NoThread, !.rs[t] = "RUNNABLE",
                                !.runq = InsertAhead(s.runq, s.cprio, t)]
  BY <1>1, <1>2, <1>3 DEF PutBackCurrent
<1> HIDE DEF i
<1>5. CASE r = i
  <2>1. QueueHolds(r) /\ RunningMarked(r)
    BY <1>1, <1>2, <1>5 DEF QueueHolds, RunningMarked, Runnable
  <2>2. t \in Threads => ~Queued(s, t) /\ ~Hangs(s, t) /\ s.susp[t] = 0 /\ s.hang[t] = << >>
    BY RunningIsUp
  <2> HIDE DEF t
  <2>3. RunChange(s, r, t)
    BY <1>2, <1>5, <2>1, <2>2, RunChangeDoes
  <2> QED BY <1>2, <1>5, <2>3 DEF t
<1>6. CASE r # i
  <2>1. /\ t \in Threads
        /\ r = [i EXCEPT !.running = NoThread, !.rs[t] = "RUNNABLE",
                         !.runq = InsertAhead(s.runq, s.cprio, t)]
    BY <1>4, <1>6
  <2>2. /\ s.rs[t] = "RUNNING" /\ t \notin Runnable(s) /\ s.susp[t] = 0 /\ s.hang[t] = << >>
        /\ ~Queued(s, t) /\ ~Hangs(s, t)
    BY <2>1, RunningIsUp
  <2> DEFINE x == [s.rs EXCEPT ![t] = "RUNNABLE"]
             q == InsertAhead(s.runq, s.cprio, t)
  <2>3. x \in [Threads -> RunState] /\ x[t] = "RUNNABLE" /\ \A u \in Threads \ {t} : x[u] = s.rs[u]
    BY <1>1, <2>1 DEF RunState
  <2>4. q \in Seq(Threads) /\ Stands(q, s.cprio, Runnable(s) \union {t})
    BY <1>1, <2>1, <2>2, InsertionStands DEF QueueHolds
  <2>5. r = [i EXCEPT !.running = NoThread, !.rs = x, !.runq = q]
    BY <1>2, <2>1
  <2> HIDE DEF x, q
  <2>6. /\ r \in SleepType /\ SameSleep(s, r) /\ r.rs = x /\ r.running = NoThread
        /\ r.runq = q /\ r.cprio = s.cprio
    BY <1>2, <2>3, <2>4, <2>5, ZenonT(30) DEF SleepType, SameSleep
  <2>7. Runnable(r) = Runnable(s) \union {t}
    BY <2>1, <2>3, <2>6 DEF Runnable
  <2>8. QueueHolds(r) /\ RunningMarked(r)
    BY <1>1, <2>1, <2>3, <2>4, <2>6, <2>7, NoThreadAssumption DEF QueueHolds, RunningMarked
  <2> HIDE DEF t
  <2>9. RunChange(s, r, t)
    BY <2>2, <2>3, <2>6, <2>8, RunChangeDoes
  <2> QED BY <2>1, <2>2, <2>3, <2>6, <2>9 DEF t
<1> QED BY <1>5, <1>6

\* KCNextThread, second half: whoever hangs on the thread that is dispatched, and
\* is due, runs.
LEMMA DispatchTailDoes ==
  ASSUME NEW s, SleepOK(s), NEW n, DueOK(s, n), Dispatches(s), NEW prioCalc \in Priorities,
         NEW r, r = DispatchTail(s, prioCalc)
  PROVE  /\ Lawful(s, r, n) /\ \A u \in Threads : Passes(s, r, u, n)
         /\ r.running = Head(s.runq) /\ s.rs[r.running] = "RUNNABLE"
<1>1. /\ s \in SleepType /\ BedsOK(s) /\ QueueHolds(s) /\ RunningMarked(s)
      /\ s.rs \in [Threads -> RunState]
      /\ s.runq \in Seq(Threads) /\ s.cprio \in Priorities
      /\ \A u \in Threads : StateOK(s, u)
  BY OKFields
<1> DEFINE t == Head(s.runq)
<1>2. t \in Threads /\ t \in Runnable(s) /\ s.running = NoThread
  BY <1>1, HeadStands DEF QueueHolds, Dispatches
<1> DEFINE x == [s.rs EXCEPT ![t] = "RUNNING"]
           a == [s EXCEPT !.running = t, !.rs[t] = "RUNNING"]
           g == RunqDequeueTail(a, t, s.cprio[t])
           p == prioCalc[t]
<1>3. x \in [Threads -> RunState] /\ x[t] = "RUNNING" /\ \A u \in Threads \ {t} : x[u] = s.rs[u]
  BY <1>1, <1>2 DEF RunState
<1>4. a = [s EXCEPT !.running = t, !.rs = x]
  OBVIOUS
<1>5. r = IF p > s.cprio[t] THEN SetRunningPrio(g, p) ELSE g
  BY DEF DispatchTail
<1>6. p \in Priority
  BY <1>2 DEF Priorities
<1> HIDE DEF t, x, a, g, p
<1>7. /\ a \in SleepType /\ SameSleep(s, a) /\ a.rs = x /\ a.running = t
      /\ a.runq = s.runq /\ a.cprio = s.cprio
  BY <1>1, <1>2, <1>3, <1>4 DEF SleepType, SameSleep
<1>8. /\ BedsOK(a) /\ CrabsKept(s, a) /\ DueOK(a, n)
      /\ \A u : (Queued(a, u) <=> Queued(s, u)) /\ (Hangs(a, u) <=> Hangs(s, u))
  BY <1>1, <1>7, SameBeds DEF SameSleep
<1>9. \A u \in Threads \ {t} : StateOK(a, u) /\ ExactSame(s, a, u)
  <2> TAKE u \in Threads \ {t}
  <2>1. StateOK(s, u) /\ a.rs[u] = s.rs[u]
    BY <1>1, <1>3, <1>7
  <2>2. ExactSame(s, a, u)
    BY <1>7, <2>1, SameExactly
  <2> QED BY <1>7, <1>8, <2>1, <2>2 DEF StateOK, SameSleep
<1>10. Runnable(a) \union {t} = Runnable(s)
  BY <1>2, <1>3, <1>7 DEF Runnable
<1>11. TailReady(a, t, s.cprio, n)
  BY <1>1, <1>7, <1>8, <1>9, <1>10 DEF TailReady, QueueHolds
<1>12. TailDone(a, t, n, g)
  BY <1>2, <1>11, RunqDequeueTailDoes DEF g
<1>13. /\ BedsOK(g) /\ g.running = t /\ g.cprio = s.cprio
       /\ Stands(g.runq, g.cprio, Runnable(g) \ {t}) /\ g.hang[t] = << >> /\ CrabsKept(a, g)
       /\ \A u \in Threads : Passes(a, g, u, n) /\ (g.rs[u] = a.rs[u] \/ Expires(a, g, u, n))
       /\ SameThread(a, g, t) /\ g.rs[t] = "RUNNING"
       /\ \A u \in Threads : a.hang[u] = << >> /\ g.rs[u] = "RUNNING" => g.hang[u] = << >>
       /\ DueOK(g, n)
  <2>1. /\ BedsOK(g) /\ g.running = t /\ g.cprio = s.cprio
        /\ Stands(g.runq, g.cprio, Runnable(g) \ {t}) /\ g.hang[t] = << >> /\ CrabsKept(a, g)
        /\ \A u \in Threads : Passes(a, g, u, n) /\ (g.rs[u] = a.rs[u] \/ Expires(a, g, u, n))
        /\ SameThread(a, g, t) /\ g.rs[t] = "RUNNING"
        /\ \A u \in Threads : a.hang[u] = << >> /\ g.rs[u] = "RUNNING" => g.hang[u] = << >>
    BY <1>3, <1>7, <1>12 DEF TailDone
  <2>2. g.wakeup = a.wakeup /\ \A u : Hangs(g, u) => Hangs(a, u)
    BY <1>12 DEF TailDone
  <2> QED BY <1>8, <2>1, <2>2 DEF DueOK
<1>14. \A u \in Threads \ {t} : StateOK(g, u) /\ (g.rs[u] = "RUNNING" <=> s.rs[u] = "RUNNING")
  BY <1>3, <1>7, <1>9, <1>13, PassesState
<1>15. StateOK(g, t)
  <2>1. StateOK(s, t) /\ s.rs[t] = "RUNNABLE" /\ s.susp[t] \in Nat
    BY <1>1, <1>2, SleepFields DEF Runnable
  <2>2. s.susp[t] = 0 /\ ~Queued(s, t) /\ ~Hangs(s, t)
    BY <2>1 DEF StateOK
  <2> QED BY <1>7, <1>8, <1>13, <2>2 DEF StateOK, SameThread, SameSleep
<1>16. QueueHolds(g)
  <2>1. Runnable(g) \ {t} = Runnable(g)
    BY <1>13 DEF Runnable
  <2> QED BY <1>13, <2>1 DEF QueueHolds
<1>17. RunningMarked(g)
  <2>1. \A u \in Threads : s.rs[u] # "RUNNING"
    BY <1>1, <1>2, NoThreadAssumption DEF RunningMarked
  <2> QED BY <1>13, <1>14, <2>1 DEF RunningMarked
<1>18. SleepOK(g)
  BY <1>13, <1>14, <1>15, <1>16, <1>17 DEF SleepOK
<1>19. SameThread(s, g, t)
  BY <1>2, <1>7, <1>8, <1>13 DEF SameThread, SameSleep, Runnable
<1>20. \A u \in Threads : Passes(s, g, u, n)
  <2> TAKE u \in Threads
  <2>1. CASE u = t
    BY <1>19, <2>1 DEF Passes
  <2>2. CASE u # t
    BY <1>9, <1>13, <2>2, SameThenPasses
  <2> QED BY <2>1, <2>2
<1>21. CrabsKept(s, g)
  BY <1>1, <1>8, <1>13, CrabsKeptTwice
<1>22. s.rs[t] = "RUNNABLE"
  BY <1>2 DEF Runnable
<1>23. CASE r = g
  BY <1>13, <1>18, <1>20, <1>21, <1>22, <1>23 DEF Lawful, t
<1>24. CASE r = SetRunningPrio(g, p)
  <2>1. RunChange(g, r, t) /\ r.running = t /\ r.rs = g.rs
    BY <1>2, <1>6, <1>13, <1>18, <1>24, SetRunningPrioDoes
  <2>2. \A u \in Threads : ExactSame(g, r, u)
    BY <2>1, SameExactly DEF RunChange
  <2>3. \A u \in Threads : Passes(s, r, u, n)
    BY <1>20, <2>2, PassesThenSame
  <2>4. CrabsKept(s, r)
    BY <1>1, <1>21, <2>1, CrabsKeptTwice DEF RunChange
  <2> QED BY <1>13, <1>22, <2>1, <2>3, <2>4 DEF Lawful, RunChange, t
<1> QED BY <1>5, <1>23, <1>24

\* KCNextThread.
NextThread(s, prioCalc) ==
  LET back == PutBackCurrent([s EXCEPT !.resched = FALSE], FALSE)
  IN  IF Dispatches(back) THEN DispatchTail(back, prioCalc) ELSE back

\* KCNextThread: threads expire, boost or run, but the lists stay in order.
LEMMA NextThreadDoes ==
  ASSUME NEW s, SleepOK(s), NEW n, DueOK(s, n), NEW prioCalc \in Priorities,
         NEW r, r = NextThread(s, prioCalc)
  PROVE  Lawful(s, r, n) /\ \A u \in Threads : Passes(s, r, u, n)
<1> DEFINE b == PutBackCurrent([s EXCEPT !.resched = FALSE], FALSE)
<1>1. r = IF Dispatches(b) THEN DispatchTail(b, prioCalc) ELSE b
  BY DEF NextThread
<1>2. /\ RunChange(s, b, s.running)
      /\ \/ b.running = s.running /\ b.rs = s.rs
         \/ /\ s.running \in Threads /\ b.running = NoThread
            /\ b.rs[s.running] = "RUNNABLE" /\ s.rs[s.running] = "RUNNING"
  BY PutBackDoes
<1>3. BedsOK(s)
  BY OKFields
<1> HIDE DEF b
<1>4. \A u \in Threads : SameThread(s, b, u)
  <2> TAKE u \in Threads
  <2>1. CASE u # s.running
    BY <1>2, <2>1 DEF RunChange, ExactSame
  <2>2. CASE u = s.running
    BY <1>2, <2>2 DEF RunChange, SameThread, SameSleep
  <2> QED BY <2>1, <2>2
<1>5. Lawful(s, b, n)
  BY <1>2 DEF RunChange, Lawful
<1>6. CASE ~Dispatches(b)
  BY <1>1, <1>4, <1>5, <1>6 DEF Passes
<1>7. CASE Dispatches(b)
  <2>1. Lawful(b, r, n) /\ \A u \in Threads : Passes(b, r, u, n)
    BY <1>1, <1>5, <1>7, DispatchTailDoes DEF Lawful
  <2>2. \A u \in Threads : Passes(s, r, u, n)
    <3> TAKE u \in Threads
    <3>1. SameThread(s, b, u) /\ Passes(b, r, u, n) /\ StateOK(b, u) /\ b.susp[u] \in Nat
      BY <1>4, <1>5, <2>1, OKFields DEF Lawful
    <3> QED BY <3>1 DEF Passes, SameThread, Expires, Slips, StateOK
  <2>3. CrabsKept(s, r)
    BY <1>3, <1>5, <2>1, CrabsKeptTwice DEF Lawful
  <2> QED BY <2>1, <2>2, <2>3 DEF Lawful
<1> QED BY <1>6, <1>7

\* The first ring leaves the queue: its head is up, the rest hang on it.
RingUp(s, t, r) ==
  /\ BedsOK(r) /\ t \in Threads /\ Queued(s, t) /\ ~Queued(r, t) /\ ~Hangs(r, t)
  /\ \A h \in Heads(s.sleepq) : h # t => h \in Heads(r.sleepq)
  /\ \A u : Queued(r, u) => Queued(s, u)
  /\ \A u : Hangs(s, u) => Hangs(r, u)
  /\ \A u : Hangs(r, u) => Hangs(s, u) \/ (Queued(s, u) /\ ~Queued(r, u)
                                           /\ s.wakeup[u] = s.wakeup[t])
  /\ \A u : Queued(s, u) => Queued(r, u) \/ u = t \/ Hangs(r, u)
  /\ \A u \in Threads \ {t} : s.hang[u] = << >> => r.hang[u] = << >>

\* NextThread hangs the rest of the first ring on its head, and loses nobody.
LEMMA TimerHangs ==
  ASSUME NEW s, BedsOK(s), s.sleepq # << >>, NEW t, t = Head(Head(s.sleepq)),
         NEW r \in SleepType, r.sleepq = Tail(s.sleepq), r.wakeup = s.wakeup,
         r.hang[t] = Tail(Head(s.sleepq)), \A u \in Threads \ {t} : r.hang[u] = s.hang[u]
  PROVE  RingUp(s, t, r)
<1> DEFINE ring == Head(s.sleepq)
           R == ToSet(ring)
<1>1. /\ s \in SleepType /\ QueueOK(s.sleepq, s.wakeup) /\ Sleepers(s.sleepq) \subseteq Threads
      /\ \A v \in Threads : s.hang[v] \in Seq(Threads) /\ NoDuplicates(s.hang[v])
      /\ \A v \in Threads : \A u \in ToSet(s.hang[v]) :
              u \in Threads /\ ~Queued(s, u) /\ s.hang[u] = << >> /\ ~Queued(s, v) /\ u # v
      /\ s.wakeup \in Times
  BY BedFacts, SleepFields
<1>2. /\ QueueOK(r.sleepq, s.wakeup) /\ Sleepers(r.sleepq) = Sleepers(s.sleepq) \ R
      /\ \A h \in Heads(s.sleepq) : h # t => h \in Heads(r.sleepq)
      /\ ring = s.sleepq[1] /\ 1 \in 1 .. Len(s.sleepq)
  BY <1>1, QueueTail
<1>3. /\ ring \in Seq(Threads) /\ R \subseteq Sleepers(s.sleepq)
      /\ ring # << >> /\ NoDuplicates(ring) /\ \A u \in R : s.wakeup[u] = s.wakeup[t]
  <2>1. /\ ring \in Seq(Threads)
        /\ Sleepers(s.sleepq) = UNION {ToSet(s.sleepq[i]) : i \in 1 .. Len(s.sleepq)}
    BY <1>1, <1>2, QueueSets
  <2>2. ring # << >> /\ NoDuplicates(ring) /\ \A u \in R : s.wakeup[u] = s.wakeup[t]
    BY <1>1, <1>2 DEF QueueOK
  <2>3. R \subseteq Sleepers(s.sleepq)
    BY <1>2, <2>1
  <2> QED BY <2>1, <2>2, <2>3
<1>4. /\ t \in R /\ t \in Threads /\ Tail(ring) \in Seq(Threads) /\ NoDuplicates(Tail(ring))
      /\ ToSet(Tail(ring)) = R \ {t}
  BY <1>3, RingTail
<1> HIDE DEF ring, R
<1>5. \A u : Queued(r, u) <=> Queued(s, u) /\ u \notin R
  BY <1>2 DEF Queued
<1>6. \A u \in R : Queued(s, u) /\ u \in Threads
  BY <1>1, <1>3 DEF Queued
<1>7. \A u : Queued(s, u) => u \in Threads /\ s.hang[u] = << >>
  BY <1>1 DEF Queued, BedsOK, HangsOK
<1>8. r.hang[t] = Tail(ring)
  BY DEF ring
<1>9. \A v \in Threads : \A u \in ToSet(r.hang[v]) :
        IF v = t THEN u \in R \ {t} ELSE u \in ToSet(s.hang[v]) /\ ~Queued(s, u)
  BY <1>1, <1>4, <1>8
<1>10. \A v \in Threads : HangsOK(r, v)
  <2> TAKE v \in Threads
  <2>1. NoDuplicates(r.hang[v])
    BY <1>1, <1>4, <1>8
  <2>2. r.hang[v] # << >> => ~Queued(r, v)
    BY <1>4, <1>5, <1>7
  <2>3. ASSUME NEW u \in ToSet(r.hang[v])
        PROVE  ~Queued(r, u) /\ r.hang[u] = << >> /\ \A x \in Threads : u \in ToSet(r.hang[x]) => x = v
    <3>1. ~Queued(r, u)
      BY <1>5, <1>9, <2>3
    <3>2. u \in Threads \ {t} /\ s.hang[u] = << >>
      BY <1>1, <1>4, <1>6, <1>7, <1>9, <2>3
    <3>3. r.hang[u] = << >>
      BY <3>2
    <3>4. ASSUME NEW x \in Threads, u \in ToSet(r.hang[x]), x # v PROVE FALSE
      <4>1. CASE v = t \/ x = t
        BY <1>6, <1>9, <2>3, <3>4, <4>1
      <4>2. CASE v # t /\ x # t
        <5>1. u \in ToSet(s.hang[v]) /\ u \in ToSet(s.hang[x])
          BY <1>9, <2>3, <3>4, <4>2
        <5> QED BY <3>4, <5>1 DEF BedsOK, HangsOK
      <4> QED BY <4>1, <4>2
    <3> QED BY <3>1, <3>3, <3>4
  <2> QED BY <2>1, <2>2, <2>3 DEF HangsOK
<1>11. BedsOK(r)
  BY <1>2, <1>10 DEF BedsOK
<1>12. \A u : Hangs(r, u) => Hangs(s, u) \/ u \in R \ {t}
  BY <1>9 DEF Hangs
<1>13. \A u : Hangs(s, u) => Hangs(r, u)
  <2> SUFFICES ASSUME NEW u, NEW v \in Threads, u \in ToSet(s.hang[v]) PROVE Hangs(r, u)
    BY DEF Hangs
  <2>1. v # t
    BY <1>1, <1>4, <1>6
  <2> QED BY <2>1 DEF Hangs
<1>14. \A u \in R \ {t} : Hangs(r, u)
  BY <1>4, <1>8 DEF Hangs
<1>15. ~Hangs(r, t)
  BY <1>1, <1>4, <1>6, <1>9 DEF Hangs
<1> QED BY <1>2, <1>3, <1>4, <1>5, <1>6, <1>11, <1>12, <1>13, <1>14, <1>15 DEF RingUp

\* The timer.
LEMMA TimerWakesDoes ==
  ASSUME NEW s, SleepOK(s), NEW n \in Nat, DueOK(s, n), RingDue(s, n), NEW r, r = TimerWakes(s)
  PROVE  /\ Lawful(s, r, n) /\ r.running = s.running /\ \A u \in Threads : Passes(s, r, u, n)
<1>1. /\ s \in SleepType /\ BedsOK(s) /\ QueueHolds(s) /\ RunningMarked(s)
      /\ s.rs \in [Threads -> RunState] /\ s.sleepq \in Seq(Ring) /\ s.hang \in [Threads -> Ring]
      /\ s.wakeup \in Times /\ s.live \in [Threads -> BOOLEAN] /\ s.susp \in [Threads -> Nat]
      /\ \A u \in Threads : StateOK(s, u)
  BY OKFields
<1> DEFINE t == Head(Head(s.sleepq))
           h == [s.hang EXCEPT ![t] = Tail(Head(s.sleepq))]
           sq == Tail(s.sleepq)
           a == [s EXCEPT !.sleepq = sq, !.hang = h]
           m == Moved(a, t)
           l == [m.live EXCEPT ![t] = FALSE]
           q == EndWait(m, t)
<1>2. s.sleepq # << >> /\ n >= s.wakeup[t]
  BY DEF RingDue
<1>3. Head(s.sleepq) \in Ring /\ sq \in Seq(Ring) /\ t \in Threads
      /\ Tail(Head(s.sleepq)) \in Ring
  <2>1. /\ QueueOK(s.sleepq, s.wakeup)
    BY <1>1 DEF BedsOK
  <2>2. Len(s.sleepq) \in Nat \ {0} /\ Head(s.sleepq) = s.sleepq[1] /\ sq \in Seq(Ring)
    BY <1>1, <1>2
  <2>3. Head(s.sleepq) \in Seq(Threads) /\ Head(s.sleepq) # << >> /\ NoDuplicates(Head(s.sleepq))
    <3>1. 1 \in 1 .. Len(s.sleepq)
      BY <2>2
    <3>2. s.sleepq[1] \in Seq(Threads)
      BY <2>1, <3>1, QueueSets
    <3> QED BY <2>1, <2>2, <3>1, <3>2 DEF QueueOK
  <2> QED BY <2>2, <2>3, RingTail DEF Ring
<1>4. /\ h \in [Threads -> Ring] /\ h[t] = Tail(Head(s.sleepq))
      /\ \A u \in Threads \ {t} : h[u] = s.hang[u]
  BY <1>1, <1>3
<1>5. r = IF s.rs[t] = "NEEDSRUN" THEN q ELSE MakeRunnable(q, t)
  BY DEF TimerWakes
<1>6. t = Head(Head(s.sleepq)) /\ sq = Tail(s.sleepq)
  OBVIOUS
<1> HIDE DEF t, h, sq
<1>7. /\ a \in SleepType /\ a.sleepq = sq /\ a.hang = h /\ SameRun(s, a) /\ a.wakeup = s.wakeup
      /\ a.needsleep = s.needsleep /\ a.crab = s.crab /\ a.susp = s.susp /\ a.live = s.live
      /\ a.wait = s.wait /\ a.lpce = s.lpce
  BY <1>1, <1>3, <1>4 DEF SleepType, SameRun
<1> HIDE DEF a
<1>8. /\ m \in SleepType /\ SameRun(a, m)
      /\ m.sleepq = a.sleepq /\ m.hang = a.hang /\ m.wakeup = a.wakeup
      /\ m.needsleep = a.needsleep /\ m.susp = a.susp /\ m.live = a.live /\ m.wait = a.wait
      /\ m.lpce = a.lpce
      /\ \A u \in Threads : /\ m.crab[u].at = a.crab[u].at /\ m.crab[u].down = a.crab[u].down
                            /\ m.crab[u].stale = (a.crab[u].stale \/ a.crab[u].at = t)
  BY <1>7, MovedSets
<1> HIDE DEF m
<1>9. l \in [Threads -> BOOLEAN] /\ ~l[t] /\ \A u \in Threads \ {t} : l[u] = s.live[u]
  BY <1>1, <1>3, <1>7, <1>8
<1>10. q = [m EXCEPT !.live = l]
  BY DEF EndWait
<1> HIDE DEF l, q
<1>11. /\ q \in SleepType /\ SameRun(s, q) /\ q.sleepq = sq /\ q.hang = h /\ q.wakeup = s.wakeup
       /\ q.needsleep = s.needsleep /\ q.susp = s.susp /\ q.live = l /\ q.wait = s.wait
       /\ q.lpce = s.lpce /\ q.crab = m.crab
  BY <1>7, <1>8, <1>9, <1>10 DEF SleepType, SameRun
<1>12. /\ BedsOK(q) /\ Queued(s, t) /\ ~Queued(q, t) /\ ~Hangs(q, t)
       /\ \A x \in Heads(s.sleepq) : x # t => x \in Heads(q.sleepq)
       /\ \A u : Queued(q, u) => Queued(s, u)
       /\ \A u : Hangs(s, u) => Hangs(q, u)
       /\ \A u : Hangs(q, u) => Hangs(s, u) \/ (Queued(s, u) /\ ~Queued(q, u)
                                                /\ s.wakeup[u] = s.wakeup[t])
       /\ \A u : Queued(s, u) => Queued(q, u) \/ u = t \/ Hangs(q, u)
       /\ \A u \in Threads \ {t} : s.hang[u] = << >> => q.hang[u] = << >>
  <2>1. /\ q.sleepq = Tail(s.sleepq) /\ q.hang[t] = Tail(Head(s.sleepq))
        /\ \A u \in Threads \ {t} : q.hang[u] = s.hang[u]
    BY <1>4, <1>6, <1>11
  <2>2. q \in SleepType /\ q.wakeup = s.wakeup
    BY <1>11
  <2>3. BedsOK(s) /\ s.sleepq # << >>
    BY <1>1, <1>2
  <2>4. RingUp(s, t, q)
    BY ONLY <1>6, <2>1, <2>2, <2>3, TimerHangs
  <2> QED BY <2>4 DEF RingUp
<1>13. CrabsKept(s, q)
  <2>1. \A u : u # t /\ (Queued(s, u) \/ Hangs(s, u)) =>
            (Queued(q, u) \/ Hangs(q, u)) /\ q.wakeup[u] = s.wakeup[u]
    BY <1>11, <1>12
  <2>2. \A u \in Threads : /\ q.crab[u].at = s.crab[u].at /\ q.crab[u].down = s.crab[u].down
                            /\ q.crab[u].stale = (s.crab[u].stale \/ s.crab[u].at = t)
    BY <1>7, <1>8, <1>11
  <2>3. s \in SleepType /\ q \in SleepType
    BY <1>1, <1>11
  <2>4. \A x \in Heads(s.sleepq) : x # t => x \in Heads(q.sleepq)
    BY <1>12
  <2> QED BY ONLY <1>3, <2>1, <2>2, <2>3, <2>4, CrabsByMove
<1>14. DueOK(q, n)
  BY <1>2, <1>11, <1>12 DEF DueOK
<1>15. /\ \A u \in Threads \ {t} : q.rs[u] = s.rs[u] /\ (SameThread(s, q, u) \/ Slips(s, q, u, n))
       /\ s.rs[t] \in {"BLOCKED", "NEEDSRUN"} /\ s.susp[t] = 0
  <2>1. s.rs[t] \in {"BLOCKED", "NEEDSRUN"} /\ s.susp[t] = 0
    BY <1>1, <1>3, <1>12 DEF StateOK
  <2>2. ASSUME NEW u \in Threads \ {t} PROVE SameThread(s, q, u) \/ Slips(s, q, u, n)
    <3>1. ~(Hangs(s, u) /\ Queued(s, u))
      BY <1>1, BedFacts
    <3>2. s.wakeup[u] <= n \/ ~Hangs(q, u)
      BY <1>11, <1>14 DEF DueOK
    <3>3. q.live[u] = s.live[u]
      BY <1>9, <1>11
    <3>4. BedsOK(q) /\ ~(Hangs(q, u) /\ Queued(q, u))
      BY <1>12, BedFacts
    <3>5. CASE Queued(s, u) /\ ~Queued(q, u)
      BY <1>11, <1>12, <3>2, <3>3, <3>5 DEF Slips, SameRun
    <3>6. CASE ~(Queued(s, u) /\ ~Queued(q, u))
      BY <1>11, <1>12, <3>1, <3>3, <3>4, <3>6 DEF SameThread, SameRun
    <3> QED BY <3>5, <3>6
  <2> QED BY <1>11, <2>1, <2>2 DEF SameRun
<1>16. \A u \in Threads \ {t} : StateOK(q, u)
  <2> TAKE u \in Threads \ {t}
  <2> QED BY <1>1, <1>11, <1>12 DEF StateOK, SameRun
<1>17. QueueHolds(q) /\ RunningMarked(q)
  <2>1. Runnable(q) = Runnable(s)
    BY <1>11 DEF Runnable, SameRun
  <2> QED BY <1>1, <1>11, <2>1 DEF QueueHolds, RunningMarked, SameRun
<1>18. CASE s.rs[t] = "NEEDSRUN"
  <2>1. r = q
    BY <1>5, <1>18
  <2>2. StateOK(q, t)
    BY <1>11, <1>12, <1>15, <1>18 DEF StateOK, SameRun
  <2>3. SleepOK(q)
    BY <1>12, <1>16, <1>17, <2>2 DEF SleepOK
  <2>4. Expires(s, q, t, n)
    BY <1>2, <1>9, <1>11, <1>12, <1>15, <1>18 DEF Expires, SameRun
  <2>5. \A u \in Threads : Passes(s, q, u, n)
    BY <1>15, <2>4 DEF Passes
  <2> QED BY <1>11, <1>13, <1>14, <2>1, <2>3, <2>5 DEF Lawful, SameRun
<1>19. CASE s.rs[t] # "NEEDSRUN"
  <2>1. r = MakeRunnable(q, t)
    BY <1>5, <1>19
  <2>2. /\ SleepOK(r) /\ SameSleep(q, r) /\ r.running = q.running /\ r.cprio = q.cprio
        /\ r.rs = [q.rs EXCEPT ![t] = IF q.susp[t] = 0 THEN "RUNNABLE" ELSE "BLOCKED"]
        /\ CrabsKept(q, r) /\ \A x : DueOK(q, x) => DueOK(r, x)
        /\ \A u : (Queued(r, u) <=> Queued(q, u)) /\ (Hangs(r, u) <=> Hangs(q, u))
    <3>1. q.rs[t] \in {"BLOCKED", "NEEDSRUN"}
      BY <1>11, <1>15 DEF SameRun
    <3> QED BY <1>3, <1>12, <1>16, <1>17, <2>1, <3>1, MakeRunnableDoes
  <2>3. r.rs[t] = "RUNNABLE" /\ \A u \in Threads \ {t} : r.rs[u] = q.rs[u]
    BY <1>1, <1>3, <1>11, <1>15, <2>2 DEF SameRun
  <2>4. Expires(s, r, t, n)
    BY <1>2, <1>9, <1>11, <1>12, <1>15, <1>19, <2>2, <2>3 DEF Expires, SameRun, SameSleep
  <2>5. \A u \in Threads \ {t} : Passes(s, r, u, n)
    <3> TAKE u \in Threads \ {t}
    <3>1. ExactSame(q, r, u)
      BY <2>2, <2>3, SameExactly
    <3>2. Passes(s, q, u, n)
      BY <1>15 DEF Passes
    <3> QED BY <3>1, <3>2, PassesThenSame
  <2>6. CrabsKept(s, r)
    BY <1>1, <1>13, <2>2, CrabsKeptTwice
  <2>7. \A u \in Threads : Passes(s, r, u, n)
    BY <2>4, <2>5 DEF Passes
  <2> QED BY <1>11, <1>14, <2>2, <2>6, <2>7 DEF Lawful, SameRun
<1> QED BY <1>18, <1>19

\* A thread in no bed changes, and nothing else.
OwnOnly(s, r, t) ==
  /\ r \in SleepType /\ r.sleepq = s.sleepq /\ r.hang = s.hang
  /\ \A u \in Threads \ {t} :
       /\ r.wakeup[u] = s.wakeup[u] /\ r.crab[u] = s.crab[u] /\ r.susp[u] = s.susp[u]
       /\ r.live[u] = s.live[u] /\ r.wait[u] = s.wait[u] /\ r.lpce[u] = s.lpce[u]
       /\ (u \in r.needsleep <=> u \in s.needsleep) /\ r.rs[u] = s.rs[u]

OwnChange(s, r, t) ==
  /\ SleepOK(r) /\ \A n : DueOK(s, n) => DueOK(r, n)
  /\ \A u : (Queued(r, u) <=> Queued(s, u)) /\ (Hangs(r, u) <=> Hangs(s, u))
  /\ \A u \in Threads \ {t} : ExactSame(s, r, u) /\ CrabKept(s, r, u)

\* Who changes one thread outside the beds alone keeps the others and the lists.
LEMMA OwnChangeDoes ==
  ASSUME NEW s, SleepOK(s), NEW t \in Threads, ~Queued(s, t), ~Hangs(s, t),
         NEW r, OwnOnly(s, r, t), QueueHolds(r), RunningMarked(r),
         r.susp[t] > 0 => r.rs[t] \in {"BLOCKED", "NEEDSRUN"},
         r.rs[t] = "RUNNING" => s.hang[t] = << >>
  PROVE  OwnChange(s, r, t)
<1>1. /\ s \in SleepType /\ BedsOK(s) /\ s.wakeup \in Times
      /\ \A u \in Threads : StateOK(s, u)
  BY OKFields
<1>2. r \in SleepType /\ r.sleepq = s.sleepq /\ r.hang = s.hang /\ r.wakeup \in Times
  BY SleepFields DEF OwnOnly
<1>3. \A u : (Queued(r, u) <=> Queued(s, u)) /\ (Hangs(r, u) <=> Hangs(s, u))
  BY <1>2 DEF Queued, Hangs
<1>4. \A u : Queued(s, u) \/ Hangs(s, u) => u \in Threads \ {t}
  BY <1>1, BedFacts DEF Queued
<1>5. QueueOK(r.sleepq, r.wakeup)
  <2> DEFINE q == s.sleepq
  <2>1. QueueOK(q, s.wakeup)
    BY <1>1 DEF BedsOK
  <2>2. \A i \in 1 .. Len(q) : \A u \in ToSet(q[i]) : r.wakeup[u] = s.wakeup[u]
    <3> TAKE i \in 1 .. Len(q)
    <3> TAKE u \in ToSet(q[i])
    <3>1. u \in Sleepers(q)
      BY <2>1, QueueSets
    <3>2. u \in Threads \ {t}
      BY <1>4, <3>1 DEF Queued
    <3> QED BY <3>2 DEF OwnOnly
  <2>3. \A i \in 1 .. Len(q) : Head(q[i]) \in ToSet(q[i])
    BY <2>1, QueueSets
  <2> HIDE DEF q
  <2>4. \A i \in 1 .. Len(q) : r.wakeup[Head(q[i])] = s.wakeup[Head(q[i])]
    BY <2>2, <2>3
  <2>5. QueueOK(q, r.wakeup)
    BY <2>1, <2>2, <2>4 DEF QueueOK
  <2> QED BY <1>2, <2>5 DEF q
<1>6. BedsOK(r)
  BY <1>1, <1>2, <1>3, <1>5 DEF BedsOK, HangsOK
<1>7. \A u \in Threads \ {t} : ExactSame(s, r, u)
  BY <1>3 DEF OwnOnly, ExactSame, SameThread
<1>8. \A u \in Threads \ {t} : CrabKept(s, r, u)
  <2> TAKE u \in Threads \ {t}
  <2>1. r.crab[u] = s.crab[u]
    BY DEF OwnOnly
  <2>2. \A a : Queued(s, a) \/ Hangs(s, a) => r.wakeup[a] = s.wakeup[a]
    BY <1>4 DEF OwnOnly
  <2> QED BY <1>2, <1>3, <2>1, <2>2 DEF CrabKept
<1>9. \A n : DueOK(s, n) => DueOK(r, n)
  BY <1>3, <1>4 DEF DueOK, OwnOnly
<1>10. \A u \in Threads : StateOK(r, u)
  <2> TAKE u \in Threads
  <2>1. CASE u = t
    BY <1>2, <1>3, <2>1 DEF StateOK
  <2>2. CASE u # t
    <3>1. StateOK(s, u) /\ ExactSame(s, r, u)
      BY <1>1, <1>7, <2>2
    <3> QED BY <1>2, <3>1 DEF StateOK, ExactSame, SameThread
  <2> QED BY <2>1, <2>2
<1> QED BY <1>3, <1>6, <1>7, <1>8, <1>9, <1>10 DEF OwnChange, SleepOK

\* ... the same, when t runs and goes on running.
LEMMA RunningChangeDoes ==
  ASSUME NEW s, SleepOK(s), NEW t \in Threads, s.running = t, NEW r, OwnOnly(s, r, t),
         SameRun(s, r), r.susp[t] = 0
  PROVE  OwnChange(s, r, t) /\ r.running = t
<1>1. QueueHolds(s) /\ RunningMarked(s)
  BY OKFields
<1>2. /\ s.rs[t] = "RUNNING" /\ s.hang[t] = << >> /\ ~Queued(s, t) /\ ~Hangs(s, t)
  BY RunningIsUp
<1>3. Runnable(r) = Runnable(s)
  BY DEF Runnable, SameRun
<1>4. QueueHolds(r) /\ RunningMarked(r)
  BY <1>1, <1>3 DEF QueueHolds, RunningMarked, SameRun
<1>5. r.running = t
  BY DEF SameRun
<1> QED BY <1>2, <1>4, <1>5, OwnChangeDoes

\* ... and when it blocks.
LEMMA RunningBlocksDoes ==
  ASSUME NEW s, SleepOK(s), NEW t \in Threads, s.running = t, NEW r, OwnOnly(s, r, t),
         r.running = NoThread, r.rs[t] = "BLOCKED", r.runq = s.runq, r.cprio = s.cprio
  PROVE  OwnChange(s, r, t)
<1>1. QueueHolds(s) /\ RunningMarked(s)
  BY OKFields
<1>2. /\ s.rs[t] = "RUNNING" /\ ~Queued(s, t) /\ ~Hangs(s, t) /\ t \notin Runnable(s)
  BY RunningIsUp
<1>3. \A u \in Threads \ {t} : r.rs[u] = s.rs[u]
  BY DEF OwnOnly
<1>4. Runnable(r) = Runnable(s)
  BY <1>2, <1>3 DEF Runnable
<1>5. QueueHolds(r) /\ RunningMarked(r)
  BY <1>1, <1>3, <1>4, NoThreadAssumption DEF QueueHolds, RunningMarked
<1> QED BY <1>2, <1>5, OwnChangeDoes

\* A thread that has not been marked to be made to run is suspended: it is
\* blocked and in no bed, and if it slept it has to go back to sleep.
Suspended(s, r, t, n) ==
  /\ SleepOK(r) /\ DueOK(r, n)
  /\ \A u \in Threads \ {t} : Passes(s, r, u, n) /\ CrabKept(s, r, u)
  /\ r.running = IF s.running = t THEN NoThread ELSE s.running
  /\ r.susp[t] = s.susp[t] + 1 /\ r.rs[t] = "BLOCKED" /\ ~Queued(r, t) /\ ~Hangs(r, t)
  /\ r.lpce[t] = s.lpce[t] /\ r.live[t] = s.live[t] /\ r.wakeup[t] = s.wakeup[t]
  /\ IF Queued(s, t) \/ Hangs(s, t)
     THEN t \in r.needsleep /\ r.wait[t] = IF s.lpce[t] THEN "PROCESSING" ELSE s.wait[t]
     ELSE (t \in r.needsleep <=> t \in s.needsleep) /\ r.wait[t] = s.wait[t]
  /\ CrabKept(s, r, t)

\* ThreadSuspend takes its thread out of bed and marks that it must return.
LEMMA SuspendNowDoes ==
  ASSUME NEW s, SleepOK(s), NEW n, DueOK(s, n), NEW t \in Threads, s.rs[t] # "NEEDSRUN",
         NEW r, r = SuspendNow(s, t)
  PROVE  Suspended(s, r, t, n)
<1>1. /\ s \in SleepType /\ BedsOK(s) /\ QueueHolds(s) /\ RunningMarked(s)
      /\ s.rs \in [Threads -> RunState] /\ s.susp \in [Threads -> Nat] /\ s.cprio \in Priorities
      /\ \A u \in Threads : StateOK(s, u)
  BY OKFields
<1>2. s.rs[t] \in {"RUNNING", "RUNNABLE", "BLOCKED"} /\ s.susp[t] \in Nat
  BY <1>1 DEF RunState
<1> DEFINE x == [s.susp EXCEPT ![t] = @ + 1]
           a == [s EXCEPT !.susp = x]
           y == [s.rs EXCEPT ![t] = "BLOCKED"]
<1>3. /\ x \in [Threads -> Nat] /\ x[t] = s.susp[t] + 1
      /\ \A u \in Threads \ {t} : x[u] = s.susp[u]
  BY <1>1
<1>4. /\ y \in [Threads -> RunState] /\ y[t] = "BLOCKED"
      /\ \A u \in Threads \ {t} : y[u] = s.rs[u]
  BY <1>1 DEF RunState
<1>5. y = [s.rs EXCEPT ![t] = "BLOCKED"] /\ a = [s EXCEPT !.susp[t] = @ + 1]
  OBVIOUS
<1> HIDE DEF x, y
<1>6. /\ a \in SleepType /\ SameRun(s, a) /\ a.susp = x /\ a.sleepq = s.sleepq /\ a.hang = s.hang
      /\ a.wakeup = s.wakeup /\ a.needsleep = s.needsleep /\ a.crab = s.crab /\ a.live = s.live
      /\ a.wait = s.wait /\ a.lpce = s.lpce
  BY <1>1, <1>3 DEF SleepType, SameRun
<1>7. Sleeping(s, t) <=> Queued(s, t) \/ Hangs(s, t)
  BY <1>1, SleepingIs
<1> HIDE DEF a
<1>8. CASE /\ ~Queued(s, t) /\ ~Hangs(s, t)
           /\ r \in SleepType /\ r.susp = x /\ r.sleepq = s.sleepq /\ r.hang = s.hang
           /\ r.wakeup = s.wakeup /\ r.needsleep = s.needsleep /\ r.crab = s.crab
           /\ r.live = s.live /\ r.wait = s.wait /\ r.lpce = s.lpce
           /\ r.rs = y /\ QueueHolds(r) /\ RunningMarked(r)
           /\ r.running = IF s.running = t THEN NoThread ELSE s.running
  <2>1. OwnOnly(s, r, t)
    BY <1>3, <1>4, <1>8 DEF OwnOnly
  <2>2. OwnChange(s, r, t)
    BY <1>4, <1>8, <2>1, OwnChangeDoes
  <2>3. CrabKept(s, r, t)
    BY <1>8 DEF CrabKept, Queued, Hangs
  <2> QED BY <1>3, <1>4, <1>8, <2>2, <2>3 DEF OwnChange, Suspended, Passes, ExactSame
<1>9. CASE s.susp[t] > 0 \/ (s.rs[t] = "BLOCKED" /\ ~Sleeping(s, t))
  <2>1. s.rs[t] = "BLOCKED" /\ ~Queued(s, t) /\ ~Hangs(s, t)
    BY <1>1, <1>2, <1>7, <1>9 DEF StateOK
  <2>2. y = s.rs
    BY <1>1, <1>5, <2>1
  <2>3. r = a \/ r = [a EXCEPT !.rs = y]
    <3>1. r = a \/ r = [a EXCEPT !.rs[t] = "BLOCKED"]
      BY <1>2, <1>5, <1>7, <1>9, <2>1 DEF SuspendNow
    <3>2. [a.rs EXCEPT ![t] = "BLOCKED"] = y
      BY <1>5, <1>6 DEF SameRun
    <3> QED BY <3>1, <3>2
  <2>4. r = a
    BY <1>6, <2>2, <2>3 DEF SameRun, SleepType
  <2>5. Runnable(r) = Runnable(s)
    BY <1>6, <2>4 DEF Runnable, SameRun
  <2>6. QueueHolds(r) /\ RunningMarked(r)
    BY <1>1, <1>6, <2>4, <2>5 DEF QueueHolds, RunningMarked, SameRun
  <2>7. s.running # t
    BY <1>1, <2>1 DEF RunningMarked
  <2> QED BY <1>6, <1>8, <2>1, <2>2, <2>4, <2>6, <2>7 DEF SameRun
<1>10. CASE s.susp[t] = 0 /\ s.rs[t] = "RUNNING"
  <2>1. r = [a EXCEPT !.running = NoThread, !.resched = TRUE, !.rs = y]
    <3>1. r = [[a EXCEPT !.running = NoThread, !.resched = TRUE] EXCEPT !.rs[t] = "BLOCKED"]
      BY <1>5, <1>10 DEF SuspendNow
    <3>2. [a.rs EXCEPT ![t] = "BLOCKED"] = y
      BY <1>5, <1>6 DEF SameRun
    <3> QED BY <1>6, <3>1, <3>2 DEF SleepType
  <2>2. /\ r \in SleepType /\ r.susp = x /\ r.sleepq = s.sleepq /\ r.hang = s.hang
        /\ r.wakeup = s.wakeup /\ r.needsleep = s.needsleep /\ r.crab = s.crab
        /\ r.live = s.live /\ r.wait = s.wait /\ r.lpce = s.lpce
        /\ r.rs = y /\ r.running = NoThread /\ r.runq = s.runq /\ r.cprio = s.cprio
    <3>1. y \in [Threads -> RunState] /\ a \in SleepType
      BY <1>4, <1>6
    <3>2. /\ r \in SleepType /\ SameSleep(a, r) /\ r.rs = y /\ r.running = NoThread
          /\ r.runq = a.runq /\ r.cprio = a.cprio
      BY ONLY <2>1, <3>1 DEF SleepType, SameSleep
    <3> QED BY <1>6, <3>2 DEF SameSleep, SameRun
  <2>3. s.running = t
    BY <1>1, <1>10 DEF RunningMarked
  <2>4. ~Queued(s, t) /\ ~Hangs(s, t) /\ t \notin Runnable(s)
    BY <2>3, RunningIsUp
  <2>5. Runnable(r) = Runnable(s)
    BY <1>4, <2>2, <2>4 DEF Runnable
  <2>6. QueueHolds(r) /\ RunningMarked(r)
    BY <1>1, <1>4, <2>2, <2>3, <2>5, NoThreadAssumption DEF QueueHolds, RunningMarked
  <2> QED BY <1>8, <2>2, <2>3, <2>4, <2>6
<1>11. CASE s.susp[t] = 0 /\ s.rs[t] = "RUNNABLE"
  <2> DEFINE g == RunqDequeueTail(a, t, s.cprio[t])
  <2>1. r = [g EXCEPT !.rs[t] = "BLOCKED"]
    BY <1>5, <1>11 DEF SuspendNow
  <2> HIDE DEF g
  <2>2. /\ BedsOK(a) /\ DueOK(a, n) /\ CrabsKept(s, a)
        /\ \A u : (Queued(a, u) <=> Queued(s, u)) /\ (Hangs(a, u) <=> Hangs(s, u))
    BY <1>1, <1>6, SameBeds
  <2>3. \A u \in Threads \ {t} : StateOK(a, u) /\ ExactSame(s, a, u)
    BY <1>1, <1>3, <1>6, <2>2 DEF StateOK, SameRun, ExactSame, SameThread
  <2>4. Runnable(a) \union {t} = Runnable(s) /\ t \in Runnable(s)
    BY <1>6, <1>11 DEF SameRun, Runnable
  <2>5. TailReady(a, t, s.cprio, n)
    BY <1>1, <1>6, <2>2, <2>3, <2>4 DEF TailReady, QueueHolds, SameRun
  <2>6. TailDone(a, t, n, g)
    BY <2>5, RunqDequeueTailDoes DEF g
  <2>7. /\ BedsOK(g) /\ g.running = s.running /\ g.cprio = s.cprio /\ g.wakeup = s.wakeup
        /\ g.needsleep = s.needsleep /\ g.susp = x /\ g.wait = s.wait /\ g.lpce = s.lpce
        /\ Stands(g.runq, g.cprio, Runnable(g) \ {t}) /\ g.hang[t] = << >> /\ CrabsKept(a, g)
        /\ \A u \in Threads : Passes(a, g, u, n) /\ (g.rs[u] = s.rs[u] \/ Expires(a, g, u, n))
        /\ SameThread(a, g, t) /\ g.rs[t] = "RUNNABLE"
        /\ \A u \in Threads : s.hang[u] = << >> /\ g.rs[u] = "RUNNING" => g.hang[u] = << >>
        /\ DueOK(g, n)
    <3>1. /\ BedsOK(g) /\ g.running = s.running /\ g.cprio = s.cprio /\ g.wakeup = s.wakeup
          /\ g.needsleep = s.needsleep /\ g.susp = x /\ g.wait = s.wait /\ g.lpce = s.lpce
          /\ Stands(g.runq, g.cprio, Runnable(g) \ {t}) /\ g.hang[t] = << >> /\ CrabsKept(a, g)
          /\ \A u \in Threads : Passes(a, g, u, n) /\ (g.rs[u] = s.rs[u] \/ Expires(a, g, u, n))
          /\ SameThread(a, g, t) /\ g.rs[t] = "RUNNABLE"
          /\ \A u \in Threads : s.hang[u] = << >> /\ g.rs[u] = "RUNNING" => g.hang[u] = << >>
      BY <1>6, <1>11, <2>6 DEF TailDone, SameRun
    <3>2. g.wakeup = a.wakeup /\ \A u : Hangs(g, u) => Hangs(a, u)
      BY <2>6 DEF TailDone
    <3> QED BY <2>2, <3>1, <3>2 DEF DueOK
  <2>8. ~Queued(s, t) /\ ~Hangs(s, t) /\ ~Queued(g, t) /\ ~Hangs(g, t)
    BY <1>1, <1>11, <2>2, <2>7 DEF StateOK, SameThread
  <2> DEFINE z == [g.rs EXCEPT ![t] = "BLOCKED"]
  <2>9. g \in SleepType /\ g.rs \in [Threads -> RunState]
    BY <2>7, SleepFields DEF BedsOK
  <2>10. /\ z \in [Threads -> RunState] /\ z[t] = "BLOCKED"
         /\ \A u \in Threads \ {t} : z[u] = g.rs[u]
    BY <2>9 DEF RunState
  <2>11. r = [g EXCEPT !.rs = z]
    BY <2>1
  <2> HIDE DEF z
  <2>12. /\ r \in SleepType /\ SameSleep(g, r) /\ r.rs = z /\ r.running = g.running
         /\ r.runq = g.runq /\ r.cprio = g.cprio
    BY <2>9, <2>10, <2>11 DEF SleepType, SameSleep
  <2>13. /\ BedsOK(r) /\ CrabsKept(g, r) /\ DueOK(r, n)
         /\ \A u : (Queued(r, u) <=> Queued(g, u)) /\ (Hangs(r, u) <=> Hangs(g, u))
    BY <2>7, <2>12, SameBeds DEF SameSleep
  <2>14. \A u \in Threads \ {t} : StateOK(g, u) /\ (g.rs[u] = "RUNNING" <=> a.rs[u] = "RUNNING")
    BY <1>6, <2>3, <2>7, PassesState DEF SameRun
  <2>15. \A u \in Threads : StateOK(r, u)
    <3> TAKE u \in Threads
    <3>1. CASE u = t
      BY <2>8, <2>10, <2>12, <2>13, <3>1 DEF StateOK
    <3>2. CASE u # t
      <4>1. StateOK(g, u) /\ r.rs[u] = g.rs[u]
        BY <2>10, <2>12, <2>14, <3>2
      <4> QED BY <2>12, <2>13, <4>1 DEF StateOK, SameSleep
    <3> QED BY <3>1, <3>2
  <2>16. Runnable(r) = Runnable(g) \ {t}
    BY <2>10, <2>12 DEF Runnable
  <2>17. s.running # t
    BY <1>1, <1>11 DEF RunningMarked
  <2>18. RunningMarked(r)
    BY <1>1, <1>6, <2>7, <2>10, <2>12, <2>14, <2>17 DEF RunningMarked, SameRun
  <2>19. SleepOK(r)
    BY <2>7, <2>12, <2>13, <2>15, <2>16, <2>18 DEF SleepOK, QueueHolds
  <2>20. CrabsKept(s, r)
    <3>1. CrabsKept(s, g)
      BY <1>1, <2>2, <2>7, CrabsKeptTwice
    <3> QED BY <1>1, <2>13, <3>1, CrabsKeptTwice
  <2>21. \A u \in Threads \ {t} : Passes(s, r, u, n)
    <3> TAKE u \in Threads \ {t}
    <3>1. ExactSame(g, r, u)
      BY <2>10, <2>12, SameExactly
    <3>2. Passes(a, r, u, n)
      BY <2>7, <3>1, PassesThenSame
    <3> QED BY <2>3, <3>2, SameThenPasses
  <2>22. r.live[t] = s.live[t]
    BY <1>6, <2>7, <2>12 DEF SameSleep, SameThread
  <2> QED BY <1>3, <2>7, <2>8, <2>10, <2>12, <2>13, <2>17, <2>19, <2>20, <2>21, <2>22
          DEF Suspended, SameSleep, CrabsKept
<1>12. CASE s.susp[t] = 0 /\ s.rs[t] = "BLOCKED" /\ Sleeping(s, t)
  <2>1. r = DequeuedForNow(a, t)
    <3>1. r = [SleepqDequeue(a, t) EXCEPT
                     !.needsleep = @ \union {t},
                     !.wait[t] = IF s.lpce[t] THEN "PROCESSING" ELSE @]
      BY <1>5, <1>12 DEF SuspendNow
    <3> QED BY <1>6, <3>1 DEF DequeuedForNow
  <2>2. /\ BedsOK(a) /\ DueOK(a, n) /\ CrabsKept(s, a)
        /\ \A u : (Queued(a, u) <=> Queued(s, u)) /\ (Hangs(a, u) <=> Hangs(s, u))
    BY <1>1, <1>6, SameBeds
  <2>3. a.rs[t] = "BLOCKED" /\ (Queued(a, t) \/ Hangs(a, t))
    BY <1>6, <1>7, <1>12, <2>2 DEF SameRun
  <2>4. ToReturn(a, t, r)
    BY <2>1, <2>2, <2>3, DequeuedToReturn
  <2>5. /\ BedsOK(r) /\ SameRun(a, r) /\ r.susp = x /\ CrabsKept(a, r)
        /\ Requeued(a, r, t) /\ \A u \in Threads \ {t} : ExactSame(a, r, u)
        /\ DueOK(r, n) /\ \A u \in Threads : s.hang[u] = << >> => r.hang[u] = << >>
    BY <1>6, <2>2, <2>4 DEF ToReturn
  <2>6. \A u \in Threads \ {t} : ExactSame(s, r, u)
    BY <1>3, <1>6, <2>2, <2>5 DEF ExactSame, SameThread, SameRun
  <2>7. r.rs = s.rs /\ r.running = s.running /\ r.runq = s.runq /\ r.cprio = s.cprio
    BY <1>6, <2>5 DEF SameRun
  <2>8. \A u \in Threads : StateOK(r, u)
    <3> TAKE u \in Threads
    <3>1. CASE u = t
      BY <1>12, <2>5, <2>7, <3>1 DEF StateOK, Requeued
    <3>2. CASE u # t
      <4>1. StateOK(s, u) /\ ExactSame(s, r, u)
        BY <1>1, <2>6, <3>2
      <4> QED BY <2>5, <4>1 DEF StateOK, ExactSame, SameThread
    <3> QED BY <3>1, <3>2
  <2>9. Runnable(r) = Runnable(s)
    BY <2>7 DEF Runnable
  <2>10. SleepOK(r)
    BY <1>1, <2>5, <2>7, <2>8, <2>9 DEF SleepOK, QueueHolds, RunningMarked
  <2>11. CrabsKept(s, r)
    BY <1>1, <2>2, <2>5, CrabsKeptTwice
  <2>12. s.running # t
    BY <1>1, <1>12 DEF RunningMarked
  <2>13. /\ r.lpce[t] = s.lpce[t] /\ r.live[t] = s.live[t] /\ r.wakeup[t] = s.wakeup[t]
         /\ ~Queued(r, t) /\ ~Hangs(r, t) /\ t \in r.needsleep
         /\ r.wait[t] = IF s.lpce[t] THEN "PROCESSING" ELSE s.wait[t]
    BY <1>6, <2>5 DEF Requeued
  <2>14. Queued(s, t) \/ Hangs(s, t)
    BY <1>7, <1>12
  <2> QED BY <1>3, <1>12, <2>5, <2>6, <2>7, <2>10, <2>11, <2>12, <2>13, <2>14
          DEF Suspended, Passes, ExactSame, CrabsKept
<1> QED BY <1>2, <1>9, <1>10, <1>11, <1>12

\* ThreadResume of a suspended thread: it may run again when the last
\* suspension is taken back.
Resumed(s, r, t, hasProxy) ==
  /\ SleepOK(r) /\ CrabsKept(s, r) /\ \A n : DueOK(s, n) => DueOK(r, n)
  /\ \A u \in Threads \ {t} : ExactSame(s, r, u)
  /\ r.running = s.running /\ r.susp[t] = s.susp[t] - 1
  /\ ~Queued(s, t) /\ ~Hangs(s, t) /\ ~Queued(r, t) /\ ~Hangs(r, t)
  /\ r.lpce[t] = s.lpce[t] /\ r.live[t] = s.live[t] /\ r.wakeup[t] = s.wakeup[t]
  /\ (t \in r.needsleep <=> t \in s.needsleep) /\ r.wait[t] = s.wait[t]
  /\ r.rs[t] = IF s.susp[t] = 1 /\ s.rs[t] = "BLOCKED" /\ (~hasProxy \/ t \in s.needsleep)
               THEN "RUNNABLE" ELSE s.rs[t]

\* ThreadResume: who has a proxy and need not return stays blocked.
LEMMA ResumeNowDoes ==
  ASSUME NEW s, SleepOK(s), NEW t \in Threads, s.susp[t] > 0,
         NEW hasProxy \in BOOLEAN, NEW r, r = ResumeNow(s, t, hasProxy)
  PROVE  Resumed(s, r, t, hasProxy)
<1>1. /\ s \in SleepType /\ BedsOK(s) /\ QueueHolds(s) /\ RunningMarked(s)
      /\ s.rs \in [Threads -> RunState] /\ s.susp \in [Threads -> Nat]
      /\ \A u \in Threads : StateOK(s, u)
  BY OKFields
<1>2. /\ s.rs[t] \in {"BLOCKED", "NEEDSRUN"} /\ s.susp[t] \in Nat /\ ~Queued(s, t) /\ ~Hangs(s, t)
      /\ s.running # t /\ t \notin Runnable(s)
  BY <1>1 DEF StateOK, RunningMarked, Runnable
<1> DEFINE x == [s.susp EXCEPT ![t] = @ - 1]
           a == [s EXCEPT !.susp = x]
<1>3. /\ x \in [Threads -> Nat] /\ x[t] = s.susp[t] - 1
      /\ \A u \in Threads \ {t} : x[u] = s.susp[u]
  BY <1>1, <1>2
<1>4. r = IF s.susp[t] = 1 /\ s.rs[t] = "BLOCKED" /\ (~hasProxy \/ t \in s.needsleep)
          THEN MakeRun(a, t) ELSE a
  BY DEF ResumeNow
<1> HIDE DEF x
<1>5. /\ a \in SleepType /\ SameRun(s, a) /\ a.susp = x /\ a.sleepq = s.sleepq /\ a.hang = s.hang
      /\ a.wakeup = s.wakeup /\ a.needsleep = s.needsleep /\ a.crab = s.crab /\ a.live = s.live
      /\ a.wait = s.wait /\ a.lpce = s.lpce
  BY <1>1, <1>3 DEF SleepType, SameRun
<1> HIDE DEF a
<1>6. OwnOnly(s, a, t)
  BY <1>3, <1>5 DEF OwnOnly, SameRun
<1>7. Runnable(a) = Runnable(s)
  BY <1>5 DEF Runnable, SameRun
<1>8. QueueHolds(a) /\ RunningMarked(a)
  BY <1>1, <1>5, <1>7 DEF QueueHolds, RunningMarked, SameRun
<1>9. OwnChange(s, a, t)
  BY <1>2, <1>5, <1>6, <1>8, OwnChangeDoes DEF SameRun
<1>10. CrabsKept(s, a)
  BY <1>1, <1>5, CrabsByNone
<1>11. \A u \in Threads \ {t} : ExactSame(s, a, u)
  BY <1>9 DEF OwnChange
<1>12. ~Queued(a, t) /\ ~Hangs(a, t)
  BY <1>2, <1>9 DEF OwnChange
<1>13. CASE ~(s.susp[t] = 1 /\ s.rs[t] = "BLOCKED" /\ (~hasProxy \/ t \in s.needsleep))
  <2>1. r = a
    BY <1>4, <1>13
  <2> QED BY <1>2, <1>3, <1>5, <1>9, <1>10, <1>11, <1>12, <1>13, <2>1
          DEF Resumed, OwnChange, SameRun
<1>14. CASE s.susp[t] = 1 /\ s.rs[t] = "BLOCKED" /\ (~hasProxy \/ t \in s.needsleep)
  <2>1. r = MakeRun(a, t)
    BY <1>4, <1>14
  <2>2. a.susp[t] = 0 /\ a.running # t
    BY <1>2, <1>3, <1>5, <1>14 DEF SameRun
  <2>3. BedsOK(a) /\ \A u \in Threads \ {t} : StateOK(a, u) /\ (a.rs[u] = "RUNNING" <=> a.running = u)
    BY <1>9, OKFields DEF OwnChange, RunningMarked
  <2>4. Runnable(a) \ {t} = Runnable(a)
    BY <1>2, <1>7
  <2>5. Stands(a.runq, a.cprio, Runnable(a) \ {t})
    BY <1>8, <2>4 DEF QueueHolds
  <2>6. /\ SleepOK(r) /\ SameSleep(a, r) /\ r.running = a.running /\ r.cprio = a.cprio
        /\ r.rs = [a.rs EXCEPT ![t] = "RUNNABLE"]
        /\ CrabsKept(a, r) /\ \A n : DueOK(a, n) => DueOK(r, n)
        /\ \A u : (Queued(r, u) <=> Queued(a, u)) /\ (Hangs(r, u) <=> Hangs(a, u))
    BY <1>12, <2>1, <2>2, <2>3, <2>5, MakeRunDoes
  <2>7. r.rs[t] = "RUNNABLE" /\ \A u \in Threads \ {t} : r.rs[u] = a.rs[u]
    BY <1>1, <1>5, <2>6 DEF SameRun
  <2>8. \A u \in Threads \ {t} : ExactSame(s, r, u)
    <3> TAKE u \in Threads \ {t}
    <3>1. ExactSame(a, r, u)
      BY <2>6, <2>7, SameExactly
    <3> QED BY <1>11, <3>1 DEF ExactSame, SameThread
  <2>9. CrabsKept(s, r)
    BY <1>1, <1>10, <2>6, CrabsKeptTwice
  <2>10. \A n : DueOK(s, n) => DueOK(r, n)
    BY <1>9, <2>6 DEF OwnChange
  <2>11. /\ r.susp[t] = s.susp[t] - 1 /\ r.lpce[t] = s.lpce[t] /\ r.live[t] = s.live[t]
         /\ r.wakeup[t] = s.wakeup[t] /\ r.needsleep = s.needsleep /\ r.wait[t] = s.wait[t]
         /\ r.running = s.running
    BY <1>3, <1>5, <2>6 DEF SameSleep, SameRun
  <2> QED BY <1>2, <1>12, <1>14, <2>6, <2>7, <2>8, <2>9, <2>10, <2>11 DEF Resumed
<1> QED BY <1>13, <1>14

\* A signal ends the wait of a thread that has blocked: it is marked, and stays
\* where it is.
Marked(s, r, t) ==
  /\ SleepOK(r) /\ CrabsKept(s, r) /\ \A n : DueOK(s, n) => DueOK(r, n)
  /\ \A u : (Queued(r, u) <=> Queued(s, u)) /\ (Hangs(r, u) <=> Hangs(s, u))
  /\ \A u \in Threads \ {t} : ExactSame(s, r, u)
  /\ r.running = s.running /\ r.susp = s.susp /\ r.lpce = s.lpce /\ r.wakeup = s.wakeup
  /\ r.needsleep = s.needsleep /\ ~r.live[t]
  /\ IF s.wait[t] = "BLOCKED" THEN r.rs[t] = "NEEDSRUN" /\ r.wait[t] = "BLOCKED"
     ELSE r.rs[t] = s.rs[t] /\ r.wait[t] = "SIGNALLED"

\* A signal that finds its waiter blocked marks it, otherwise it says SIGNALLED.
LEMMA DeliverDoes ==
  ASSUME NEW s, SleepOK(s), NEW t \in Threads, s.wait[t] = "BLOCKED" => s.rs[t] = "BLOCKED",
         NEW r, r = IF s.wait[t] = "BLOCKED" THEN [EndWait(s, t) EXCEPT !.rs[t] = "NEEDSRUN"]
                    ELSE [EndWait(s, t) EXCEPT !.wait[t] = "SIGNALLED"]
  PROVE  Marked(s, r, t)
<1>1. /\ s \in SleepType /\ BedsOK(s) /\ QueueHolds(s) /\ RunningMarked(s)
      /\ s.rs \in [Threads -> RunState] /\ s.wait \in [Threads -> WaitState]
      /\ \A u \in Threads : StateOK(s, u)
  BY OKFields
<1> DEFINE e == EndWait(s, t)
<1>2. EndedWait(s, e, t)
  BY EndWaitDoes
<1> HIDE DEF e
<1>3. /\ SleepOK(e) /\ SameRun(s, e) /\ CrabsKept(s, e) /\ \A n : DueOK(s, n) => DueOK(e, n)
      /\ \A u : (Queued(e, u) <=> Queued(s, u)) /\ (Hangs(e, u) <=> Hangs(s, u))
      /\ e.susp = s.susp /\ e.wait = s.wait /\ e.lpce = s.lpce /\ e.needsleep = s.needsleep
      /\ e.wakeup = s.wakeup /\ ~e.live[t]
      /\ \A u \in Threads \ {t} : ExactSame(s, e, u)
  BY <1>2 DEF EndedWait
<1>4. /\ e \in SleepType /\ BedsOK(e) /\ QueueHolds(e) /\ RunningMarked(e)
      /\ \A u \in Threads : StateOK(e, u)
  BY <1>3, OKFields
<1>5. CASE s.wait[t] = "BLOCKED"
  <2> DEFINE x == [e.rs EXCEPT ![t] = "NEEDSRUN"]
  <2>1. r = [e EXCEPT !.rs = x]
    BY <1>5 DEF e
  <2>2. e.rs = s.rs /\ s.rs[t] = "BLOCKED"
    BY <1>3, <1>5 DEF SameRun
  <2>3. /\ x \in [Threads -> RunState] /\ x[t] = "NEEDSRUN"
        /\ \A u \in Threads \ {t} : x[u] = s.rs[u]
    BY <1>1, <2>2 DEF RunState
  <2> HIDE DEF x
  <2>4. /\ r \in SleepType /\ SameSleep(e, r) /\ r.rs = x /\ r.running = e.running
        /\ r.runq = e.runq /\ r.cprio = e.cprio
    BY <1>4, <2>1, <2>3 DEF SleepType, SameSleep
  <2>5. /\ BedsOK(r) /\ CrabsKept(e, r) /\ \A n : DueOK(e, n) => DueOK(r, n)
        /\ \A u : (Queued(r, u) <=> Queued(e, u)) /\ (Hangs(r, u) <=> Hangs(e, u))
    BY <1>4, <2>4, SameBeds DEF SameSleep
  <2>6. Runnable(r) = Runnable(e)
    BY <2>2, <2>3, <2>4 DEF Runnable
  <2>7. QueueHolds(r)
    BY <1>4, <2>4, <2>6 DEF QueueHolds
  <2>8. RunningMarked(r)
    BY <1>4, <2>2, <2>3, <2>4 DEF RunningMarked
  <2>9. \A u \in Threads : StateOK(r, u)
    <3> TAKE u \in Threads
    <3>1. StateOK(e, u)
      BY <1>4
    <3> QED BY <2>2, <2>3, <2>4, <2>5, <3>1 DEF StateOK, SameSleep
  <2>10. SleepOK(r)
    BY <2>5, <2>7, <2>8, <2>9 DEF SleepOK
  <2>11. \A u \in Threads \ {t} : ExactSame(s, r, u)
    <3> TAKE u \in Threads \ {t}
    <3>1. ExactSame(e, r, u)
      BY <2>2, <2>3, <2>4, SameExactly
    <3> QED BY <1>3, <3>1 DEF ExactSame, SameThread
  <2>12. CrabsKept(s, r)
    BY <1>1, <1>3, <2>5, CrabsKeptTwice
  <2>13. /\ r.running = s.running /\ r.susp = s.susp /\ r.lpce = s.lpce /\ r.wakeup = s.wakeup
         /\ r.needsleep = s.needsleep /\ ~r.live[t] /\ r.wait[t] = "BLOCKED" /\ r.rs[t] = "NEEDSRUN"
    BY <1>3, <1>5, <2>3, <2>4 DEF SameSleep, SameRun
  <2> QED BY <1>3, <1>5, <2>5, <2>10, <2>11, <2>12, <2>13 DEF Marked
<1>6. CASE s.wait[t] # "BLOCKED"
  <2> DEFINE w == [e.wait EXCEPT ![t] = "SIGNALLED"]
  <2>1. r = [e EXCEPT !.wait = w]
    BY <1>6 DEF e
  <2>2. /\ w \in [Threads -> WaitState] /\ w[t] = "SIGNALLED"
        /\ \A u \in Threads \ {t} : w[u] = s.wait[u]
    BY <1>1, <1>3 DEF WaitState
  <2> HIDE DEF w
  <2>3. /\ r \in SleepType /\ SameRun(e, r) /\ r.sleepq = e.sleepq /\ r.hang = e.hang
        /\ r.wakeup = e.wakeup /\ r.susp = e.susp /\ r.crab = e.crab /\ r.needsleep = e.needsleep
        /\ r.wait = w /\ r.lpce = e.lpce /\ r.live = e.live
    BY <1>4, <2>1, <2>2 DEF SleepType, SameRun
  <2>4. r.needsleep \subseteq e.needsleep
    BY <2>3
  <2>5. /\ SleepOK(r) /\ CrabsKept(e, r) /\ \A n : DueOK(e, n) => DueOK(r, n)
        /\ \A u : (Queued(r, u) <=> Queued(e, u)) /\ (Hangs(r, u) <=> Hangs(e, u))
    BY ONLY <1>3, <2>3, <2>4, SameCore
  <2>6. \A u \in Threads \ {t} : ExactSame(s, r, u)
    <3> TAKE u \in Threads \ {t}
    <3>1. ExactSame(s, e, u) /\ r.wait[u] = s.wait[u]
      BY <1>3, <2>2, <2>3
    <3> QED BY <2>3, <2>5, <3>1 DEF ExactSame, SameThread, SameRun
  <2>7. CrabsKept(s, r)
    BY <1>1, <1>3, <2>5, CrabsKeptTwice
  <2> QED BY <1>3, <1>6, <2>2, <2>3, <2>5, <2>6, <2>7 DEF Marked, SameRun
<1> QED BY <1>5, <1>6

\* Where the search of the running thread leads in one step: further on, or to
\* a bed.
Searched(s, r, t, time) ==
  /\ SleepOK(r) /\ \A n : DueOK(s, n) => DueOK(r, n)
  /\ \A u \in Threads \ {t} : ExactSame(s, r, u) /\ CrabKept(s, r, u)
  /\ r.susp[t] = s.susp[t] /\ r.live[t] = s.live[t] /\ r.wait[t] = s.wait[t]
  /\ r.lpce[t] = s.lpce[t] /\ r.needsleep = s.needsleep
  /\ CrabOK(r, t, time) /\ ~Hangs(r, t)
  /\ \/ r.running = t /\ r.rs[t] = "RUNNING" /\ ~Queued(r, t)
     \/ r.running = NoThread /\ r.rs[t] = "BLOCKED" /\ Queued(r, t) /\ r.wakeup[t] = time

\* Further on.
LEMMA GoesOnDoes ==
  ASSUME NEW s, SleepOK(s), NEW t \in Threads, s.running = t, NEW time, NEW p \in Place,
         NEW r, r = [s EXCEPT !.crab[t] = p],
         p.down \/ p.stale => p.at # NoThread,
         p.at # NoThread /\ ~p.stale =>
           IF p.down THEN Queued(s, p.at) /\ s.wakeup[p.at] = time
           ELSE p.at \in Heads(s.sleepq) /\ s.wakeup[p.at] < time
  PROVE  Searched(s, r, t, time)
<1>1. s \in SleepType /\ s.crab \in [Threads -> Place]
  BY OKFields
<1> DEFINE c == [s.crab EXCEPT ![t] = p]
<1>2. c \in [Threads -> Place] /\ c[t] = p /\ \A u \in Threads \ {t} : c[u] = s.crab[u]
  BY <1>1
<1>3. r = [s EXCEPT !.crab = c]
  OBVIOUS
<1> HIDE DEF c
<1>4. /\ r \in SleepType /\ SameRun(s, r) /\ r.sleepq = s.sleepq /\ r.hang = s.hang
      /\ r.wakeup = s.wakeup /\ r.susp = s.susp /\ r.crab = c /\ r.needsleep = s.needsleep
      /\ r.wait = s.wait /\ r.lpce = s.lpce /\ r.live = s.live
  BY <1>1, <1>2, <1>3 DEF SleepType, SameRun
<1>5. s.susp[t] = 0 /\ s.rs[t] = "RUNNING" /\ ~Queued(s, t) /\ ~Hangs(s, t)
  BY RunningIsUp
<1>6. OwnOnly(s, r, t)
  BY <1>2, <1>4 DEF OwnOnly, SameRun
<1>7. OwnChange(s, r, t) /\ r.running = t
  <2>1. SameRun(s, r) /\ r.susp[t] = 0
    BY <1>4, <1>5
  <2> QED BY <1>6, <2>1, RunningChangeDoes
<1>8. CrabOK(r, t, time)
  BY <1>2, <1>4 DEF CrabOK, Queued
<1> QED BY <1>4, <1>5, <1>7, <1>8 DEF Searched, OwnChange, SameRun

\* To a bed: H holds the head of a ring that got a new one, if there is such.
ToBed(s, r, t, time, q, H) ==
  /\ QueueOK(q, r.wakeup) /\ r.wakeup \in Times /\ Sleepers(q) = Sleepers(s.sleepq) \union {t}
  /\ r.wakeup[t] = time /\ \A u \in Threads \ {t} : r.wakeup[u] = s.wakeup[u]
  /\ \A y \in Heads(s.sleepq) : y \in H \/ y \in Heads(q)
  /\ r \in SleepType /\ r.sleepq = q /\ r.hang = s.hang /\ r.runq = s.runq
  /\ r.cprio = s.cprio /\ r.running = NoThread /\ r.needsleep = s.needsleep /\ r.susp = s.susp
  /\ r.live = s.live /\ r.wait = s.wait /\ r.lpce = s.lpce /\ r.crab[t] = NoPlace
  /\ r.rs = [s.rs EXCEPT ![t] = "BLOCKED"]
  /\ \A u \in Threads \ {t} : /\ r.crab[u].at = s.crab[u].at /\ r.crab[u].down = s.crab[u].down
                              /\ r.crab[u].stale = (s.crab[u].stale \/ s.crab[u].at \in H)

\* Whoever finds its place in the sleep queue blocks there, and the lists hold.
LEMMA AsleepDoes ==
  ASSUME NEW s, SleepOK(s), NEW t \in Threads, s.running = t, t \notin s.needsleep,
         NEW time, NEW q, NEW H \in SUBSET Threads, NEW r, ToBed(s, r, t, time, q, H)
  PROVE  Searched(s, r, t, time)
<1>0. /\ QueueOK(q, r.wakeup) /\ Sleepers(q) = Sleepers(s.sleepq) \union {t}
      /\ r.wakeup[t] = time /\ \A u \in Threads \ {t} : r.wakeup[u] = s.wakeup[u]
      /\ \A y \in Heads(s.sleepq) : y \in H \/ y \in Heads(q)
      /\ r \in SleepType /\ r.sleepq = q /\ r.hang = s.hang /\ r.runq = s.runq
      /\ r.cprio = s.cprio /\ r.running = NoThread /\ r.needsleep = s.needsleep /\ r.susp = s.susp
      /\ r.live = s.live /\ r.wait = s.wait /\ r.lpce = s.lpce /\ r.crab[t] = NoPlace
      /\ r.rs = [s.rs EXCEPT ![t] = "BLOCKED"]
      /\ \A u \in Threads \ {t} : /\ r.crab[u].at = s.crab[u].at /\ r.crab[u].down = s.crab[u].down
                                  /\ r.crab[u].stale = (s.crab[u].stale \/ s.crab[u].at \in H)
  BY DEF ToBed
<1>1. /\ s \in SleepType /\ BedsOK(s) /\ QueueHolds(s) /\ RunningMarked(s)
      /\ s.rs \in [Threads -> RunState] /\ \A u \in Threads : StateOK(s, u)
  BY OKFields
<1>2. /\ s.rs[t] = "RUNNING" /\ s.susp[t] = 0 /\ s.hang[t] = << >>
      /\ ~Queued(s, t) /\ ~Hangs(s, t) /\ t \notin Runnable(s)
  BY RunningIsUp
<1>3. r.rs[t] = "BLOCKED" /\ \A u \in Threads \ {t} : r.rs[u] = s.rs[u]
  BY <1>0, <1>1
<1>4. \A u : (Queued(r, u) <=> Queued(s, u) \/ u = t) /\ (Hangs(r, u) <=> Hangs(s, u))
  BY <1>0 DEF Queued, Hangs
<1>5. BedsOK(r)
  <2>1. \A v \in Threads : HangsOK(r, v)
    <3> TAKE v \in Threads
    <3>1. HangsOK(s, v)
      BY <1>1 DEF BedsOK
    <3>2. \A u \in ToSet(s.hang[v]) : u # t
      BY <1>2 DEF Hangs
    <3> QED BY <1>0, <1>2, <1>4, <3>1, <3>2 DEF HangsOK
  <2> QED BY <1>0, <2>1 DEF BedsOK
<1>6. Runnable(r) = Runnable(s)
  BY <1>2, <1>3 DEF Runnable
<1>7. QueueHolds(r) /\ RunningMarked(r)
  BY <1>0, <1>1, <1>3, <1>6, NoThreadAssumption DEF QueueHolds, RunningMarked
<1>8. \A u \in Threads : StateOK(r, u)
  <2> TAKE u \in Threads
  <2>1. CASE u = t
    BY <1>0, <1>2, <1>3, <1>4, <2>1 DEF StateOK
  <2>2. CASE u # t
    BY <1>0, <1>1, <1>3, <1>4, <2>2 DEF StateOK
  <2> QED BY <2>1, <2>2
<1>9. \A u \in Threads \ {t} : ExactSame(s, r, u)
  BY <1>0, <1>3, <1>4 DEF ExactSame, SameThread
<1>10. \A u : Queued(s, u) \/ Hangs(s, u) => r.wakeup[u] = s.wakeup[u]
  <2>1. \A u : Queued(s, u) \/ Hangs(s, u) => u \in Threads \ {t}
    BY <1>1, <1>2, BedFacts DEF Queued
  <2> QED BY <1>0, <2>1
<1>11. \A u \in Threads \ {t} : CrabKept(s, r, u)
  <2> TAKE u \in Threads \ {t}
  <2>1. /\ r.crab[u].at = s.crab[u].at /\ r.crab[u].down = s.crab[u].down
        /\ r.crab[u].stale = (s.crab[u].stale \/ s.crab[u].at \in H)
        /\ s.crab[u].stale \in BOOLEAN /\ NoThread \notin H
    BY <1>0, <1>1, SleepFields, NoThreadAssumption DEF Place
  <2> QED BY <1>0, <1>4, <1>10, <2>1 DEF CrabKept
<1>12. \A n : DueOK(s, n) => DueOK(r, n)
  BY <1>4, <1>10 DEF DueOK
<1>13. CrabOK(r, t, time)
  BY <1>0 DEF CrabOK, NoPlace
<1> QED BY <1>0, <1>2, <1>3, <1>4, <1>5, <1>7, <1>8, <1>9, <1>11, <1>12, <1>13 DEF Searched, SleepOK

\* SleepOneMore of the running thread, which has not got to return to sleep any
\* more, before its time.
Searching(s, t, time, n) ==
  /\ SleepOK(s) /\ s.running = t /\ t \in Threads /\ t \notin s.needsleep
  /\ CrabOK(s, t, time) /\ time \in Nat /\ n < time /\ DueOK(s, n) /\ n \in Nat

\* What Asleep sets.
SetAsleep(m, t, time, q, r) ==
  /\ r \in SleepType /\ r.sleepq = q /\ r.wakeup = [m.wakeup EXCEPT ![t] = time]
  /\ r.hang = m.hang /\ r.runq = m.runq /\ r.cprio = m.cprio /\ r.running = NoThread
  /\ r.needsleep = m.needsleep /\ r.susp = m.susp /\ r.live = m.live /\ r.wait = m.wait
  /\ r.lpce = m.lpce /\ r.rs = [m.rs EXCEPT ![t] = "BLOCKED"]
  /\ r.crab = [m.crab EXCEPT ![t] = NoPlace]

\* The fields that Asleep sets are of their types.
LEMMA AsleepSets ==
  ASSUME NEW m \in SleepType, NEW t \in Threads, NEW time \in Nat, NEW q \in Seq(Ring),
         NEW r, r = Asleep(m, t, time, q)
  PROVE  SetAsleep(m, t, time, q, r)
<1> DEFINE x == [m.wakeup EXCEPT ![t] = time]
           y == [m.rs EXCEPT ![t] = "BLOCKED"]
           c == [m.crab EXCEPT ![t] = NoPlace]
<1>1. /\ m.wakeup \in [Threads -> Nat] /\ m.rs \in [Threads -> RunState]
      /\ m.crab \in [Threads -> Place]
  BY SleepFields DEF Times
<1>2. x \in Times /\ y \in [Threads -> RunState]
  BY <1>1 DEF RunState, Times
<1>3. c \in [Threads -> Place]
  <2>1. NoPlace \in Place
    BY DEF NoPlace, Place
  <2> QED BY <1>1, <2>1
<1>4. r = [m EXCEPT !.sleepq = q, !.wakeup = x, !.crab = c, !.running = NoThread,
                    !.resched = TRUE, !.rs = y]
  BY DEF Asleep
<1>5. /\ x = [m.wakeup EXCEPT ![t] = time] /\ y = [m.rs EXCEPT ![t] = "BLOCKED"]
      /\ c = [m.crab EXCEPT ![t] = NoPlace]
  OBVIOUS
<1> HIDE DEF x, y, c
<1>6. r \in SleepType
  BY <1>2, <1>3, <1>4, ZenonT(30) DEF SleepType
<1> QED BY <1>4, <1>5, <1>6 DEF SleepType, SetAsleep

\* What is known before the step.
LEMMA SearchFacts ==
  ASSUME NEW s, NEW t, NEW time, NEW n, Searching(s, t, time, n)
  PROVE  /\ s \in SleepType /\ BedsOK(s) /\ QueueOK(s.sleepq, s.wakeup) /\ s.cprio \in Priorities
         /\ s.wakeup \in Times /\ s.crab \in [Threads -> Place] /\ s.rs \in [Threads -> RunState]
         /\ \A u \in Threads : s.cprio[u] \in Int
         /\ s.sleepq \in Seq(Ring) /\ Len(s.sleepq) \in Nat /\ DOMAIN s.sleepq = 1 .. Len(s.sleepq)
         /\ \A i \in 1 .. Len(s.sleepq) :
              /\ s.sleepq[i] \in Seq(Threads) /\ s.sleepq[i] # << >> /\ NoDuplicates(s.sleepq[i])
              /\ Head(s.sleepq[i]) \in ToSet(s.sleepq[i]) /\ Head(s.sleepq[i]) \in Threads
              /\ s.wakeup[Head(s.sleepq[i])] \in Nat /\ Head(s.sleepq[i]) \in Heads(s.sleepq)
              /\ t \notin ToSet(s.sleepq[i])
              /\ \A u \in ToSet(s.sleepq[i]) : /\ Queued(s, u) /\ u \in Threads
                                               /\ s.wakeup[u] = s.wakeup[Head(s.sleepq[i])]
         /\ \A i, j \in 1 .. Len(s.sleepq) :
              i < j => s.wakeup[Head(s.sleepq[i])] < s.wakeup[Head(s.sleepq[j])]
         /\ t \notin Sleepers(s.sleepq)
<1>1. SleepOK(s) /\ s.running = t /\ t \in Threads
  BY DEF Searching
<1>2. /\ s \in SleepType /\ BedsOK(s) /\ s.wakeup \in Times /\ s.sleepq \in Seq(Ring)
      /\ s.crab \in [Threads -> Place] /\ s.rs \in [Threads -> RunState] /\ s.cprio \in Priorities
      /\ \A u \in Threads : s.cprio[u] \in Int
  BY <1>1, OKFields, SleepFields
<1>3. QueueOK(s.sleepq, s.wakeup) /\ t \notin Sleepers(s.sleepq)
  BY <1>1, <1>2, RunningIsUp DEF BedsOK, Queued
<1> DEFINE q == s.sleepq
<1>4. /\ Len(q) \in Nat /\ DOMAIN q = 1 .. Len(q)
      /\ \A i \in 1 .. Len(q) : /\ q[i] \in Seq(Threads) /\ ToSet(q[i]) \subseteq Threads
                                /\ Head(q[i]) \in ToSet(q[i])
      /\ Sleepers(q) = UNION {ToSet(q[i]) : i \in 1 .. Len(q)}
      /\ Heads(q) = {Head(q[i]) : i \in 1 .. Len(q)}
  BY <1>3, QueueSets
<1> HIDE DEF q
<1>5. /\ \A i \in 1 .. Len(q) : /\ q[i] # << >> /\ NoDuplicates(q[i])
                                /\ \A u \in ToSet(q[i]) : s.wakeup[u] = s.wakeup[Head(q[i])]
      /\ \A i, j \in 1 .. Len(q) : i < j => s.wakeup[Head(q[i])] < s.wakeup[Head(q[j])]
  BY <1>3 DEF QueueOK, q
<1>6. \A i \in 1 .. Len(q) : Head(q[i]) \in Threads /\ s.wakeup[Head(q[i])] \in Nat
  BY <1>2, <1>4 DEF Times
<1>7. \A i \in 1 .. Len(q) : Head(q[i]) \in Heads(q) /\ t \notin ToSet(q[i])
  BY <1>3, <1>4 DEF q
<1>8. \A i \in 1 .. Len(q) : \A u \in ToSet(q[i]) : Queued(s, u) /\ u \in Threads
  BY <1>4 DEF Queued, q
<1> QED BY <1>2, <1>3, <1>4, <1>5, <1>6, <1>7, <1>8 DEF q

\* Down a ring.
LEMMA SearchDownDoes ==
  ASSUME NEW s, NEW t, NEW time, NEW n, Searching(s, t, time, n),
         s.crab[t].down, ~Restarts(s, t), NEW r, r = SearchDown(s, t, time)
  PROVE  Searched(s, r, t, time)
<1>1. /\ SleepOK(s) /\ s.running = t /\ t \in Threads /\ t \notin s.needsleep
      /\ CrabOK(s, t, time) /\ time \in Nat /\ n < time /\ DueOK(s, n) /\ n \in Nat
  BY DEF Searching
<1>2. /\ s \in SleepType /\ BedsOK(s) /\ QueueOK(s.sleepq, s.wakeup) /\ s.cprio \in Priorities
      /\ s.wakeup \in Times /\ s.crab \in [Threads -> Place] /\ s.rs \in [Threads -> RunState]
      /\ \A u \in Threads : s.cprio[u] \in Int
      /\ s.sleepq \in Seq(Ring) /\ Len(s.sleepq) \in Nat /\ DOMAIN s.sleepq = 1 .. Len(s.sleepq)
      /\ \A k \in 1 .. Len(s.sleepq) :
           /\ s.sleepq[k] \in Seq(Threads) /\ s.sleepq[k] # << >> /\ NoDuplicates(s.sleepq[k])
           /\ Head(s.sleepq[k]) \in ToSet(s.sleepq[k])
           /\ t \notin ToSet(s.sleepq[k])
           /\ \A u \in ToSet(s.sleepq[k]) : /\ Queued(s, u) /\ u \in Threads
                                            /\ s.wakeup[u] = s.wakeup[Head(s.sleepq[k])]
      /\ t \notin Sleepers(s.sleepq)
  BY SearchFacts
<1> DEFINE at == s.crab[t].at
           i == RingOf(s, at)
           ring == s.sleepq[i]
           below == 1 + IndexOf(ring, at)
           q == [s.sleepq EXCEPT ![i] = InsertAt(ring, below, t)]
<1>3. at # NoThread /\ ~s.crab[t].stale /\ s.crab[t].down /\ s.wakeup[at] = time
      /\ (Queued(s, at) \/ Hangs(s, at))
  BY <1>1 DEF Restarts, CrabOK
<1>4. Queued(s, at)
  <2>1. ~Hangs(s, at)
    <3>1. SUFFICES ASSUME Hangs(s, at) PROVE FALSE
      OBVIOUS
    <3>2. s.wakeup[at] <= n
      BY <1>1, <3>1 DEF DueOK
    <3> QED BY <1>1, <1>3, <3>2
  <2> QED BY <1>3, <2>1
<1>5. i \in 1 .. Len(s.sleepq) /\ at \in ToSet(ring)
  BY <1>2, <1>4, QueuePlaces DEF Queued
<1>6. /\ ring \in Seq(Threads) /\ ring # << >> /\ NoDuplicates(ring) /\ t \notin ToSet(ring)
      /\ Head(ring) \in ToSet(ring) /\ at \in Threads /\ s.wakeup[Head(ring)] = time
      /\ \A u \in ToSet(ring) : Queued(s, u) /\ u \in Threads /\ s.wakeup[u] = time
  BY <1>2, <1>3, <1>5
<1>7. /\ IndexOf(ring, at) \in 1 .. Len(ring) /\ Len(ring) \in Nat
      /\ \A j \in 1 .. Len(ring) : ring[j] \in ToSet(ring)
  <2>1. /\ Len(ring) \in Nat /\ DOMAIN ring = 1 .. Len(ring)
        /\ ToSet(ring) = {ring[j] : j \in 1 .. Len(ring)}
    BY <1>6, Members
  <2>2. \E j \in DOMAIN ring : ring[j] = at
    BY <1>5, <2>1
  <2>3. IndexOf(ring, at) \in DOMAIN ring
    BY <2>2 DEF IndexOf
  <2> QED BY <2>1, <2>3
<1>8. r = IF s.cprio[t] < s.cprio[at] THEN [s EXCEPT !.crab[t] = NoPlace]
          ELSE IF below <= Len(ring) /\ s.cprio[t] >= s.cprio[ring[below]]
          THEN [s EXCEPT !.crab[t].at = ring[below]]
          ELSE Asleep(s, t, time, q)
  BY DEF SearchDown
<1>9. below \in 2 .. Len(ring) + 1
  BY <1>7
<1>10. at \in ToSet(ring) /\ q = [s.sleepq EXCEPT ![i] = InsertAt(ring, below, t)]
  BY <1>5
<1>11. ring = s.sleepq[i]
  OBVIOUS
<1> HIDE DEF at, i, ring, below, q
<1>12. CASE r = [s EXCEPT !.crab[t] = NoPlace]
  <2>1. NoPlace \in Place /\ ~NoPlace.down /\ ~NoPlace.stale /\ NoPlace.at = NoThread
    BY DEF NoPlace, Place
  <2> QED BY <1>1, <1>12, <2>1, GoesOnDoes
<1>13. CASE r = [s EXCEPT !.crab[t].at = ring[below]] /\ below <= Len(ring)
  <2> DEFINE p == [s.crab[t] EXCEPT !.at = ring[below]]
  <2>1. ring[below] \in ToSet(ring)
    BY <1>7, <1>9, <1>13
  <2>2. p \in Place /\ p.at = ring[below] /\ p.down /\ ~p.stale
    <3>1. s.crab[t] \in Place /\ ring[below] \in Threads
      BY <1>1, <1>2, <1>6, <2>1
    <3> QED BY <1>3, <3>1 DEF Place
  <2>3. r = [s EXCEPT !.crab[t] = p]
    BY <1>13
  <2>4. Queued(s, ring[below]) /\ s.wakeup[ring[below]] = time /\ ring[below] # NoThread
    BY <1>6, <2>1, NoThreadAssumption
  <2> HIDE DEF p
  <2> QED BY <1>1, <2>2, <2>3, <2>4, GoesOnDoes
<1>14. CASE r = Asleep(s, t, time, q)
  <2> DEFINE x == [s.wakeup EXCEPT ![t] = time]
             new == InsertAt(ring, below, t)
  <2>1. /\ x \in Times /\ x[t] = time /\ x[t] = s.wakeup[Head(s.sleepq[i])]
        /\ \A u \in Threads \ {t} : x[u] = s.wakeup[u]
    BY <1>1, <1>2, <1>6, <1>11 DEF Times
  <2>2. /\ new \in Seq(Threads) /\ NoDuplicates(new) /\ ToSet(new) = ToSet(ring) \union {t}
        /\ new # << >> /\ Head(new) = Head(ring)
    BY <1>1, <1>6, <1>7, <1>9, RingInsert
  <2>3. /\ q \in Seq(Ring) /\ Len(q) = Len(s.sleepq) /\ q[i] = new
        /\ \A k \in 1 .. Len(s.sleepq) : k # i => q[k] = s.sleepq[k]
    <3>1. new \in Ring
      BY <2>2 DEF Ring
    <3> HIDE DEF new
    <3>2. q = [s.sleepq EXCEPT ![i] = new]
      BY <1>10 DEF new
    <3> QED BY <1>2, <1>5, <3>1, <3>2
  <2> HIDE DEF x, new
  <2>4. Joined(s.sleepq, t, {Head(s.sleepq[i])} \ {Head(new)}, q, x)
    <3>1. ToSet(new) = ToSet(s.sleepq[i]) \union {t}
      BY <1>11, <2>2
    <3>2. s.wakeup \in Times /\ QueueOK(s.sleepq, s.wakeup) /\ t \notin Sleepers(s.sleepq)
      BY <1>2
    <3>3. t \in Threads
      BY <1>1
    <3> QED BY ONLY <1>5, <2>1, <2>2, <2>3, <3>1, <3>2, <3>3, QueueJoinsRing
  <2>5. Joined(s.sleepq, t, {}, q, x)
    BY <1>11, <2>2, <2>4 DEF Joined
  <2>6. SetAsleep(s, t, time, q, r)
    <3>1. s \in SleepType /\ t \in Threads /\ time \in Nat /\ q \in Seq(Ring)
      BY <1>1, <1>2, <2>3
    <3> QED BY <1>14, <3>1, AsleepSets
  <2>7. /\ r.crab[t] = NoPlace
        /\ \A u \in Threads \ {t} : /\ r.crab[u].at = s.crab[u].at /\ r.crab[u].down = s.crab[u].down
                                    /\ r.crab[u].stale = (s.crab[u].stale \/ s.crab[u].at \in {})
    <3>1. r.crab[t] = NoPlace /\ \A u \in Threads \ {t} : r.crab[u] = s.crab[u]
      BY <1>1, <1>2, <2>6 DEF SetAsleep
    <3>2. \A u \in Threads : s.crab[u].stale \in BOOLEAN
      BY <1>2 DEF Place
    <3> QED BY <3>1, <3>2
  <2>8. ToBed(s, r, t, time, q, {})
    <3>1. r.wakeup = x
      BY <2>6 DEF SetAsleep, x
    <3>2. /\ QueueOK(q, r.wakeup) /\ r.wakeup \in Times /\ Sleepers(q) = Sleepers(s.sleepq) \union {t}
          /\ r.wakeup[t] = time /\ \A u \in Threads \ {t} : r.wakeup[u] = s.wakeup[u]
          /\ \A y \in Heads(s.sleepq) : y \in {} \/ y \in Heads(q)
      BY <2>1, <2>5, <3>1 DEF Joined
    <3> QED BY <2>6, <2>7, <3>2 DEF ToBed, SetAsleep
  <2> QED BY <1>1, <2>8, AsleepDoes
<1> QED BY <1>8, <1>12, <1>13, <1>14

\* Across the rings: a new ring between two others, a ring gets a new head, or
\* the search goes on at the ring or down it.
LEMMA SearchAcrossDoes ==
  ASSUME NEW s, NEW t, NEW time, NEW n, Searching(s, t, time, n),
         ~s.crab[t].down, ~Restarts(s, t), NEW r, r = SearchAcross(s, t, time)
  PROVE  Searched(s, r, t, time)
<1>1. /\ SleepOK(s) /\ s.running = t /\ t \in Threads /\ t \notin s.needsleep
      /\ CrabOK(s, t, time) /\ time \in Nat /\ n < time /\ DueOK(s, n) /\ n \in Nat
  BY DEF Searching
<1>2. /\ s \in SleepType /\ BedsOK(s) /\ QueueOK(s.sleepq, s.wakeup) /\ s.cprio \in Priorities
      /\ s.wakeup \in Times /\ s.crab \in [Threads -> Place] /\ s.rs \in [Threads -> RunState]
      /\ \A u \in Threads : s.cprio[u] \in Int
      /\ s.sleepq \in Seq(Ring) /\ Len(s.sleepq) \in Nat /\ DOMAIN s.sleepq = 1 .. Len(s.sleepq)
      /\ \A k \in 1 .. Len(s.sleepq) :
           /\ s.sleepq[k] \in Seq(Threads) /\ s.sleepq[k] # << >> /\ NoDuplicates(s.sleepq[k])
           /\ Head(s.sleepq[k]) \in ToSet(s.sleepq[k]) /\ Head(s.sleepq[k]) \in Threads
           /\ s.wakeup[Head(s.sleepq[k])] \in Nat /\ Head(s.sleepq[k]) \in Heads(s.sleepq)
           /\ t \notin ToSet(s.sleepq[k])
           /\ \A u \in ToSet(s.sleepq[k]) : /\ Queued(s, u) /\ u \in Threads
                                            /\ s.wakeup[u] = s.wakeup[Head(s.sleepq[k])]
      /\ \A j, k \in 1 .. Len(s.sleepq) :
           j < k => s.wakeup[Head(s.sleepq[j])] < s.wakeup[Head(s.sleepq[k])]
      /\ t \notin Sleepers(s.sleepq)
  BY SearchFacts
<1> DEFINE at == s.crab[t].at
           i == 1 + (IF at = NoThread THEN 0 ELSE RingOf(s, at))
           head == Head(s.sleepq[i])
           apart == InsertAt(s.sleepq, i, <<t>>)
           push == [s.sleepq EXCEPT ![i] = <<t>> \o s.sleepq[i]]
           goOn(down) == [s EXCEPT !.crab[t] = [at |-> head, down |-> down, stale |-> FALSE]]
<1>3. i \in 1 .. Len(s.sleepq) + 1 /\ \A j \in 1 .. Len(s.sleepq) : j < i => s.wakeup[Head(s.sleepq[j])] < time
  <2>1. CASE at = NoThread
    <3>1. i = 1
      BY <2>1
    <3> QED BY <1>2, <3>1
  <2>2. CASE at # NoThread
    <3>1. ~s.crab[t].stale
      BY <2>2 DEF Restarts
    <3>2. at \in Heads(s.sleepq) /\ s.wakeup[at] < time
      BY <1>1, <2>2, <3>1 DEF CrabOK
    <3> DEFINE j == RingOf(s, at)
    <3>3. at \in Sleepers(s.sleepq)
      BY <1>2, <3>2, QueueSets
    <3>4. j \in 1 .. Len(s.sleepq) /\ at = Head(s.sleepq[j])
      BY <1>2, <3>2, <3>3, QueuePlaces
    <3>5. i = 1 + j
      BY <2>2
    <3> HIDE DEF j, i, at
    <3>6. \A k \in 1 .. Len(s.sleepq) : k < i => k = j \/ k < j
      BY <1>2, <3>4, <3>5
    <3>7. i \in 1 .. Len(s.sleepq) + 1
      BY <1>2, <3>4, <3>5
    <3>8. \A k \in 1 .. Len(s.sleepq) : k < i => s.wakeup[Head(s.sleepq[k])] < time
      <4> TAKE k \in 1 .. Len(s.sleepq)
      <4> HAVE k < i
      <4>1. CASE k = j
        BY <3>2, <3>4, <4>1
      <4>2. CASE k < j
        <5> DEFINE wk == s.wakeup[Head(s.sleepq[k])]
                   wj == s.wakeup[Head(s.sleepq[j])]
        <5>1. wk < wj /\ wj < time /\ wk \in Nat /\ wj \in Nat
          BY <1>2, <3>2, <3>4, <4>2
        <5> HIDE DEF wk, wj
        <5>2. wk < time
          BY <1>1, <5>1
        <5> QED BY <5>2 DEF wk
      <4> QED BY <3>6, <4>1, <4>2
    <3> QED BY <3>7, <3>8
  <2> QED BY <2>1, <2>2
<1>4. r = IF i > Len(s.sleepq) \/ s.wakeup[head] > time THEN Asleep(s, t, time, apart)
          ELSE IF s.wakeup[head] < time THEN goOn(FALSE)
          ELSE IF s.cprio[t] >= s.cprio[head] THEN goOn(TRUE)
          ELSE Asleep(Moved(s, head), t, time, push)
  BY DEF SearchAcross
<1>5. /\ apart = InsertAt(s.sleepq, i, <<t>>) /\ head = Head(s.sleepq[i])
      /\ push = [s.sleepq EXCEPT ![i] = <<t>> \o s.sleepq[i]]
      /\ \A d : goOn(d) = [s EXCEPT !.crab[t] = [at |-> head, down |-> d, stale |-> FALSE]]
  OBVIOUS
<1> HIDE DEF at, i, head, apart, push, goOn
<1>6. i \in 1 .. Len(s.sleepq) \/ i > Len(s.sleepq)
  BY <1>2, <1>3
<1>7. i \in 1 .. Len(s.sleepq) =>
        /\ s.wakeup[head] \in Nat /\ head \in Heads(s.sleepq) /\ head \in Threads /\ Queued(s, head)
        /\ head # NoThread
  <2> HAVE i \in 1 .. Len(s.sleepq)
  <2> QED BY <1>2, <1>5, NoThreadAssumption
<1> DEFINE x == [s.wakeup EXCEPT ![t] = time]
<1>8. x \in Times /\ x[t] = time /\ \A u \in Threads \ {t} : x[u] = s.wakeup[u]
  BY <1>1, <1>2 DEF Times
<1>9. x = [s.wakeup EXCEPT ![t] = time]
  OBVIOUS
<1> HIDE DEF x
<1>10. CASE r = Asleep(s, t, time, apart) /\ (i \in 1 .. Len(s.sleepq) => s.wakeup[head] > time)
  <2>1. \A j \in 1 .. Len(s.sleepq) : j >= i => time < s.wakeup[Head(s.sleepq[j])]
    <3> TAKE j \in 1 .. Len(s.sleepq)
    <3> HAVE j >= i
    <3>1. i \in 1 .. Len(s.sleepq) /\ (j = i \/ i < j)
      BY <1>2, <1>3
    <3>2. CASE j = i
      BY <1>5, <1>7, <1>10, <1>1, <3>1, <3>2
    <3>3. CASE i < j
      <4> DEFINE wi == s.wakeup[Head(s.sleepq[i])]
                 wj == s.wakeup[Head(s.sleepq[j])]
      <4>1. wi < wj /\ wi > time /\ wi \in Nat /\ wj \in Nat
        BY <1>2, <1>5, <1>10, <3>1, <3>3
      <4> HIDE DEF wi, wj
      <4>2. time < wj
        BY <1>1, <4>1
      <4> QED BY <4>2 DEF wj
    <3> QED BY <3>1, <3>2, <3>3
  <2> DEFINE c == <<t>>
  <2>2. c \in Seq(Threads) /\ NoDuplicates(c) /\ ToSet(c) = {t} /\ c # << >> /\ Head(c) = t
    BY <1>1, SingleRing
  <2>3. apart = InsertAt(s.sleepq, i, c)
    BY <1>5
  <2> HIDE DEF c
  <2>4. Joined(s.sleepq, t, {}, apart, x)
    <3>1. s.wakeup \in Times /\ QueueOK(s.sleepq, s.wakeup) /\ t \notin Sleepers(s.sleepq)
      BY <1>2
    <3>2. t \in Threads /\ time \in Nat
      BY <1>1
    <3> QED BY ONLY <1>3, <1>8, <2>1, <2>2, <2>3, <3>1, <3>2, QueueJoinsApart
  <2>5. SetAsleep(s, t, time, apart, r)
    <3>1. s \in SleepType /\ t \in Threads /\ time \in Nat /\ apart \in Seq(Ring)
      BY <1>1, <1>2, <2>4 DEF Joined, QueueOK
    <3> QED BY <1>10, <3>1, AsleepSets
  <2>6. /\ r.crab[t] = NoPlace
        /\ \A u \in Threads \ {t} : /\ r.crab[u].at = s.crab[u].at /\ r.crab[u].down = s.crab[u].down
                                    /\ r.crab[u].stale = (s.crab[u].stale \/ s.crab[u].at \in {})
    <3>1. r.crab[t] = NoPlace /\ \A u \in Threads \ {t} : r.crab[u] = s.crab[u]
      BY <1>1, <1>2, <2>5 DEF SetAsleep
    <3>2. \A u \in Threads : s.crab[u].stale \in BOOLEAN
      BY <1>2 DEF Place
    <3> QED BY <3>1, <3>2
  <2>7. ToBed(s, r, t, time, apart, {})
    <3>1. r.wakeup = x
      BY <1>9, <2>5 DEF SetAsleep
    <3>2. /\ QueueOK(apart, r.wakeup) /\ r.wakeup \in Times
          /\ Sleepers(apart) = Sleepers(s.sleepq) \union {t}
          /\ r.wakeup[t] = time /\ \A u \in Threads \ {t} : r.wakeup[u] = s.wakeup[u]
          /\ \A y \in Heads(s.sleepq) : y \in {} \/ y \in Heads(apart)
      BY <1>8, <2>4, <3>1 DEF Joined
    <3> QED BY <2>5, <2>6, <3>2 DEF ToBed, SetAsleep
  <2> QED BY <1>1, <2>7, AsleepDoes
<1>11. CASE i \in 1 .. Len(s.sleepq) /\ r = goOn(FALSE) /\ s.wakeup[head] < time
  <2> DEFINE p == [at |-> head, down |-> FALSE, stale |-> FALSE]
  <2>1. p \in Place /\ ~p.down /\ ~p.stale /\ p.at = head
    BY <1>7, <1>11 DEF Place
  <2>2. r = [s EXCEPT !.crab[t] = p]
    BY <1>5, <1>11
  <2> HIDE DEF p
  <2> QED BY <1>1, <1>7, <1>11, <2>1, <2>2, GoesOnDoes
<1>12. CASE i \in 1 .. Len(s.sleepq) /\ r = goOn(TRUE) /\ s.wakeup[head] = time
  <2> DEFINE p == [at |-> head, down |-> TRUE, stale |-> FALSE]
  <2>1. p \in Place /\ p.down /\ ~p.stale /\ p.at = head
    BY <1>7, <1>12 DEF Place
  <2>2. r = [s EXCEPT !.crab[t] = p]
    BY <1>5, <1>12
  <2> HIDE DEF p
  <2> QED BY <1>1, <1>7, <1>12, <2>1, <2>2, GoesOnDoes
<1>13. CASE i \in 1 .. Len(s.sleepq) /\ s.wakeup[head] = time /\ r = Asleep(Moved(s, head), t, time, push)
  <2> DEFINE m == Moved(s, head)
             new == <<t>> \o s.sleepq[i]
  <2>1. /\ m \in SleepType /\ SameRun(s, m)
        /\ m.sleepq = s.sleepq /\ m.hang = s.hang /\ m.wakeup = s.wakeup
        /\ m.needsleep = s.needsleep /\ m.susp = s.susp /\ m.live = s.live /\ m.wait = s.wait
        /\ m.lpce = s.lpce
        /\ \A u \in Threads : /\ m.crab[u].at = s.crab[u].at /\ m.crab[u].down = s.crab[u].down
                              /\ m.crab[u].stale = (s.crab[u].stale \/ s.crab[u].at = head)
    BY <1>2, MovedSets
  <2>2. /\ new \in Seq(Threads) /\ NoDuplicates(new) /\ ToSet(new) = ToSet(s.sleepq[i]) \union {t}
        /\ new # << >> /\ Head(new) = t
    <3>1. s.sleepq[i] \in Seq(Threads) /\ NoDuplicates(s.sleepq[i]) /\ t \notin ToSet(s.sleepq[i])
      BY <1>2, <1>13
    <3>2. t \in Threads /\ new = <<t>> \o s.sleepq[i]
      BY <1>1
    <3> HIDE DEF new
    <3> QED BY ONLY <3>1, <3>2, RingPush
  <2>3. /\ push \in Seq(Ring) /\ Len(push) = Len(s.sleepq) /\ push[i] = new
        /\ \A k \in 1 .. Len(s.sleepq) : k # i => push[k] = s.sleepq[k]
    <3>1. new \in Ring
      BY <2>2 DEF Ring
    <3>2. push = [s.sleepq EXCEPT ![i] = new]
      BY <1>5
    <3> HIDE DEF new
    <3> QED BY <1>2, <1>13, <3>1, <3>2
  <2> HIDE DEF new, m
  <2>4. Joined(s.sleepq, t, {Head(s.sleepq[i])} \ {Head(new)}, push, x)
    <3>1. s.wakeup \in Times /\ QueueOK(s.sleepq, s.wakeup) /\ t \notin Sleepers(s.sleepq)
      BY <1>2
    <3>2. t \in Threads /\ i \in 1 .. Len(s.sleepq)
      BY <1>1, <1>13
    <3>3. x[t] = s.wakeup[Head(s.sleepq[i])]
      BY <1>5, <1>8, <1>13
    <3> QED BY ONLY <1>8, <2>2, <2>3, <3>1, <3>2, <3>3, QueueJoinsRing
  <2>5. Joined(s.sleepq, t, {head}, push, x)
    BY <1>5, <2>4 DEF Joined
  <2>6. SetAsleep(m, t, time, push, r)
    <3>1. m \in SleepType /\ t \in Threads /\ time \in Nat /\ push \in Seq(Ring)
      BY <1>1, <2>1, <2>3
    <3>2. r = Asleep(m, t, time, push)
      BY <1>13 DEF m
    <3> QED BY <3>1, <3>2, AsleepSets
  <2>7. /\ r.crab[t] = NoPlace
        /\ \A u \in Threads \ {t} : /\ r.crab[u].at = s.crab[u].at /\ r.crab[u].down = s.crab[u].down
                                    /\ r.crab[u].stale = (s.crab[u].stale \/ s.crab[u].at \in {head})
    <3>1. m.crab \in [Threads -> Place]
      BY <2>1, SleepFields
    <3>2. r.crab[t] = NoPlace /\ \A u \in Threads \ {t} : r.crab[u] = m.crab[u]
      BY <1>1, <2>6, <3>1 DEF SetAsleep
    <3> QED BY <2>1, <3>2
  <2>8. ToBed(s, r, t, time, push, {head})
    <3>1. r.wakeup = x
      BY <1>9, <2>1, <2>6 DEF SetAsleep
    <3>2. /\ QueueOK(push, r.wakeup) /\ r.wakeup \in Times
          /\ Sleepers(push) = Sleepers(s.sleepq) \union {t}
          /\ r.wakeup[t] = time /\ \A u \in Threads \ {t} : r.wakeup[u] = s.wakeup[u]
          /\ \A y \in Heads(s.sleepq) : y \in {head} \/ y \in Heads(push)
      BY <1>8, <2>5, <3>1 DEF Joined
    <3> QED BY <2>1, <2>6, <2>7, <3>2 DEF ToBed, SetAsleep, SameRun
  <2>9. {head} \in SUBSET Threads
    BY <1>7, <1>13
  <2> QED BY <1>1, <2>8, <2>9, AsleepDoes
<1>14. i \in 1 .. Len(s.sleepq) =>
         \/ s.wakeup[head] > time \/ s.wakeup[head] < time \/ s.wakeup[head] = time
  BY <1>1, <1>7
<1>15. i \in 1 .. Len(s.sleepq) => ~(i > Len(s.sleepq))
  BY <1>2
<1>16. CASE i \in 1 .. Len(s.sleepq)
  BY <1>4, <1>10, <1>11, <1>12, <1>13, <1>14, <1>15, <1>16
<1>17. CASE i > Len(s.sleepq)
  BY <1>4, <1>10, <1>15, <1>17
<1> QED BY <1>6, <1>16, <1>17

\* Any step of the search.
LEMMA SleepOneMoreDoes ==
  ASSUME NEW s, NEW t, NEW time, NEW n, Searching(s, t, time, n),
         NEW r, r = SleepOneMore(s, t, time)
  PROVE  Searched(s, r, t, time)
<1>1. SleepOK(s) /\ s.running = t /\ t \in Threads
  BY DEF Searching
<1>2. CASE Restarts(s, t)
  <2>1. NoPlace \in Place /\ ~NoPlace.down /\ ~NoPlace.stale /\ NoPlace.at = NoThread
    BY DEF NoPlace, Place
  <2>2. r = [s EXCEPT !.crab[t] = NoPlace]
    BY <1>2 DEF SleepOneMore
  <2> QED BY <1>1, <2>1, <2>2, GoesOnDoes
<1>3. CASE ~Restarts(s, t) /\ s.crab[t].down
  BY <1>3, SearchDownDoes DEF SleepOneMore
<1>4. CASE ~Restarts(s, t) /\ ~s.crab[t].down
  BY <1>4, SearchAcrossDoes DEF SleepOneMore
<1> QED BY <1>2, <1>3, <1>4
=============================================================================
