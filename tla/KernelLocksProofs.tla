------------------------- MODULE KernelLocksProofs -------------------------
(***************************************************************************)
(* For any number of threads: the kernel's locks exclude each other, and   *)
(* nobody waits except for a holder an interrupt has hit in its section.   *)
(*                                                                         *)
(* The first lemmas say what pushing, popping and replacing the innermost  *)
(* section of a stack does to its sections and their nesting; each action  *)
(* is then one of these on the stack of the thread on the CPU.             *)
(***************************************************************************)
EXTENDS KernelLocks, SequenceTheorems, TLAPS

-----------------------------------------------------------------------------
(* What the operations of the ready queue do to membership and to the       *)
(* absence of duplicates, as in SchedulerProofs.                            *)

(* RemoveAt, the unlinking of rq_remove, drops position k and shifts what   *)
(* was behind it.                                                           *)
LEMMA RemoveAtShape ==
  ASSUME NEW T, NEW q \in Seq(T), NEW k \in 1 .. Len(q)
  PROVE  /\ RemoveAt(q, k) \in Seq(T)
         /\ Len(RemoveAt(q, k)) = Len(q) - 1
         /\ \A j \in 1 .. Len(q) - 1 : RemoveAt(q, k)[j] = IF j < k THEN q[j] ELSE q[j + 1]
<1> DEFINE a == SubSeq(q, 1, k - 1)
           b == SubSeq(q, k + 1, Len(q))
<1>1. a \in Seq(T) /\ Len(a) = k - 1 /\ \A i \in 1 .. k - 1 : a[i] = q[i]
  OBVIOUS
<1>2. b \in Seq(T) /\ Len(b) = Len(q) - k /\ \A i \in 1 .. Len(q) - k : b[i] = q[i + k]
  OBVIOUS
<1>3. RemoveAt(q, k) = a \o b
  BY DEF RemoveAt
<1> HIDE DEF a, b
<1>4. a \o b \in Seq(T)
  BY <1>1, <1>2, ConcatProperties
<1>5. Len(a \o b) = Len(a) + Len(b)
  BY <1>1, <1>2, ConcatProperties
<1>6. \A i \in 1 .. Len(a) + Len(b) : (a \o b)[i] = IF i <= Len(a) THEN a[i] ELSE b[i - Len(a)]
  BY <1>1, <1>2, ConcatProperties
<1>7. Len(q) \in Nat
  OBVIOUS
<1>8. ASSUME NEW j \in 1 .. Len(q) - 1
      PROVE  (a \o b)[j] = IF j < k THEN q[j] ELSE q[j + 1]
  <2>1. CASE j < k
    BY <2>1, <1>1, <1>2, <1>6, <1>7
  <2>2. CASE ~(j < k)
    <3>1. j - Len(a) \in 1 .. Len(q) - k /\ (j - Len(a)) + k = j + 1
      BY <2>2, <1>1, <1>7
    <3>2. (a \o b)[j] = b[j - Len(a)]
      BY <2>2, <1>1, <1>2, <1>6, <1>7
    <3> QED BY <3>1, <3>2, <1>2, <2>2
  <2> QED BY <2>1, <2>2
<1> QED BY <1>1, <1>2, <1>3, <1>4, <1>5, <1>7, <1>8

(* A queued thread has a position. *)
LEMMA PosOfQueued ==
  ASSUME NEW q, NEW t, Contains(q, t)
  PROVE  PosOf(q, t) \in 1 .. Len(q) /\ q[PosOf(q, t)] = t
BY DEF Contains, PosOf

(* rq_remove / wake_list_remove takes out exactly the given thread. *)
LEMMA UnlinkFacts ==
  ASSUME NEW T, NEW q \in Seq(T), NEW t, Distinct(q)
  PROVE  /\ Unlink(q, t) \in Seq(T)
         /\ Distinct(Unlink(q, t))
         /\ \A u \in T : Contains(Unlink(q, t), u) <=> Contains(q, u) /\ u # t
<1>1. CASE ~Contains(q, t)
  BY <1>1 DEF Unlink
<1>2. CASE Contains(q, t)
  <2> DEFINE k == PosOf(q, t)
             r == RemoveAt(q, k)
  <2>1. k \in 1 .. Len(q) /\ q[k] = t
    BY <1>2, PosOfQueued
  <2>2. Unlink(q, t) = r
    BY <1>2 DEF Unlink
  <2> HIDE DEF k
  <2>3. /\ r \in Seq(T) /\ Len(r) = Len(q) - 1
        /\ \A j \in 1 .. Len(q) - 1 : r[j] = IF j < k THEN q[j] ELSE q[j + 1]
    BY <2>1, RemoveAtShape
  <2> HIDE DEF r
  <2>4. Distinct(r)
    <3>1. SUFFICES ASSUME NEW i \in 1 .. Len(r), NEW j \in 1 .. Len(r), r[i] = r[j]
                   PROVE  i = j
      BY DEF Distinct
    <3>2. Len(q) \in Nat /\ k \in Int /\ i \in Int /\ j \in Int
      BY <2>1, <2>3
    <3>3. i \in 1 .. Len(q) - 1 /\ j \in 1 .. Len(q) - 1
      BY <2>3
    <3> DEFINE old(n) == IF n < k THEN n ELSE n + 1
    <3>4. old(i) \in 1 .. Len(q) /\ old(j) \in 1 .. Len(q)
      BY <3>2, <3>3
    <3>5. r[i] = q[old(i)] /\ r[j] = q[old(j)]
      BY <2>3, <3>3
    <3>6. old(i) = old(j)
      <4> HIDE DEF old
      <4> QED BY <3>1, <3>4, <3>5 DEF Distinct
    <3> QED BY <3>2, <3>6
  <2>5. ASSUME NEW u \in T, Contains(r, u)
        PROVE  Contains(q, u) /\ u # t
    BY <2>1, <2>3, <2>5 DEF Contains, Distinct
  <2>6. ASSUME NEW u \in T, Contains(q, u), u # t
        PROVE  Contains(r, u)
    <3>1. PICK i \in 1 .. Len(q) : q[i] = u
      BY <2>6 DEF Contains
    <3>2. CASE i < k
      <4>1. i \in 1 .. Len(q) - 1 /\ r[i] = u
        BY <3>1, <3>2, <2>1, <2>3
      <4> QED BY <4>1, <2>3 DEF Contains
    <3>3. CASE i > k
      <4>1. i - 1 \in 1 .. Len(q) - 1 /\ r[i - 1] = u
        BY <3>1, <3>3, <2>1, <2>3
      <4> QED BY <4>1, <2>3 DEF Contains
    <3> QED BY <3>1, <3>2, <3>3, <2>1, <2>6
  <2> QED BY <2>2, <2>3, <2>4, <2>5, <2>6
<1> QED BY <1>1, <1>2

(* rq_enqueue / wake_list_add puts in exactly the given thread. *)
LEMMA EnqueueFacts ==
  ASSUME NEW T, NEW q \in Seq(T), NEW t \in T, Distinct(q)
  PROVE  /\ Enqueue(q, t) \in Seq(T)
         /\ Distinct(Enqueue(q, t))
         /\ \A u \in T : Contains(Enqueue(q, t), u) <=> Contains(q, u) \/ u = t
         /\ Enqueue(q, t) # <<>>
<1>1. CASE Contains(q, t)
  BY <1>1 DEF Enqueue, Contains
<1>2. CASE ~Contains(q, t)
  <2> DEFINE r == Append(q, t)
  <2>1. Enqueue(q, t) = r
    BY <1>2 DEF Enqueue
  <2>2. /\ r \in Seq(T) /\ Len(r) = Len(q) + 1 /\ r[Len(q) + 1] = t
        /\ \A i \in 1 .. Len(q) : r[i] = q[i]
    OBVIOUS
  <2> HIDE DEF r
  <2>3. Distinct(r)
    BY <1>2, <2>2 DEF Distinct, Contains
  <2>4. \A u \in T : Contains(r, u) <=> Contains(q, u) \/ u = t
    BY <2>2 DEF Contains
  <2>5. r # <<>>
    BY <2>2
  <2> QED BY <2>1, <2>2, <2>3, <2>4, <2>5
<1> QED BY <1>1, <1>2

(* rq_dequeue takes out exactly the first thread. *)
LEMMA DequeueFacts ==
  ASSUME NEW T, NEW q \in Seq(T), q # <<>>, Distinct(q)
  PROVE  /\ Head(q) \in T
         /\ Contains(q, Head(q))
         /\ Tail(q) \in Seq(T)
         /\ Distinct(Tail(q))
         /\ \A u \in T : Contains(Tail(q), u) <=> Contains(q, u) /\ u # Head(q)
<1>1. /\ Len(q) \in Nat \ {0} /\ Head(q) = q[1] /\ Head(q) \in T
      /\ Tail(q) \in Seq(T) /\ Len(Tail(q)) = Len(q) - 1
      /\ \A i \in 1 .. Len(q) - 1 : Tail(q)[i] = q[i + 1]
  BY HeadTailProperties
<1>2. Contains(q, Head(q))
  BY <1>1 DEF Contains
<1>3. Distinct(Tail(q))
  BY <1>1 DEF Distinct
<1>4. ASSUME NEW u \in T, Contains(Tail(q), u)
      PROVE  Contains(q, u) /\ u # Head(q)
  BY <1>1, <1>4 DEF Contains, Distinct
<1>5. ASSUME NEW u \in T, Contains(q, u), u # Head(q)
      PROVE  Contains(Tail(q), u)
  <2>1. PICK i \in 1 .. Len(q) : q[i] = u
    BY <1>5 DEF Contains
  <2>2. i - 1 \in 1 .. Len(q) - 1 /\ Tail(q)[i - 1] = u
    BY <2>1, <1>1, <1>5
  <2> QED BY <2>2, <1>1 DEF Contains
<1> QED BY <1>1, <1>2, <1>3, <1>4, <1>5

-----------------------------------------------------------------------------
USE MaxThreadsAssumption

(* The innermost section, popped and replaced. *)
SetTop(s, f) == [s EXCEPT ![Len(s)] = f]

LEMMA LockOfType == \A op : LockOf(op) \in Locks
BY DEF LockOf, Locks

-----------------------------------------------------------------------------
(* Stacks *)

LEMMA PushFacts ==
  ASSUME NEW s \in Seq(Section), NEW f \in Section
  PROVE  /\ Append(s, f) \in Seq(Section)
         /\ Append(s, f) # <<>> /\ Last(Append(s, f)) = f
         /\ Len(Append(s, f)) = Len(s) + 1
         /\ Append(s, f)[Len(s) + 1] = f
         /\ \A i \in 1 .. Len(s) : Append(s, f)[i] = s[i]
BY DEF Last

LEMMA PopFacts ==
  ASSUME NEW s \in Seq(Section), s # <<>>
  PROVE  /\ Front(s) \in Seq(Section)
         /\ Len(Front(s)) = Len(s) - 1
         /\ \A i \in 1 .. Len(s) - 1 : Front(s)[i] = s[i]
         /\ Last(s) \in Section /\ Len(s) \in DOMAIN s
<1>1. Len(s) \in Nat \ {0} /\ DOMAIN s = 1 .. Len(s)
  OBVIOUS
<1>2. \A i \in 1 .. Len(s) - 1 : s[i] \in Section
  BY <1>1
<1>3. /\ SubSeq(s, 1, Len(s) - 1) \in Seq(Section)
      /\ Len(SubSeq(s, 1, Len(s) - 1)) = IF 1 <= Len(s) - 1 THEN Len(s) - 1 - 1 + 1 ELSE 0
      /\ \A i \in 1 .. Len(s) - 1 - 1 + 1 : SubSeq(s, 1, Len(s) - 1)[i] = s[1 + i - 1]
  BY <1>1, <1>2, SubSeqProperties
<1>4. Len(Front(s)) = Len(s) - 1
  BY <1>1, <1>3 DEF Front
<1>5. \A i \in 1 .. Len(s) - 1 : Front(s)[i] = s[i]
  BY <1>1, <1>3 DEF Front
<1>6. Last(s) \in Section /\ Len(s) \in DOMAIN s
  BY <1>1 DEF Last
<1> QED
  BY <1>3, <1>4, <1>5, <1>6 DEF Front

LEMMA SetTopFacts ==
  ASSUME NEW s \in Seq(Section), s # <<>>, NEW f \in Section
  PROVE  /\ SetTop(s, f) \in Seq(Section)
         /\ SetTop(s, f) # <<>> /\ Last(SetTop(s, f)) = f
         /\ Len(SetTop(s, f)) = Len(s)
         /\ SetTop(s, f)[Len(s)] = f
         /\ \A i \in 1 .. Len(s) - 1 : SetTop(s, f)[i] = s[i]
<1>1. Len(s) \in Nat \ {0} /\ DOMAIN s = 1 .. Len(s)
  OBVIOUS
<1>2. SetTop(s, f) \in [1 .. Len(s) -> Section]
  BY <1>1 DEF SetTop
<1>3. SetTop(s, f) \in Seq(Section) /\ Len(SetTop(s, f)) = Len(s)
  BY <1>1, <1>2
<1>4. SetTop(s, f)[Len(s)] = f
  BY <1>1 DEF SetTop
<1>5. ASSUME NEW i \in 1 .. Len(s) - 1 PROVE SetTop(s, f)[i] = s[i]
  <2>1. i \in 1 .. Len(s)
    BY <1>1
  <2>2. \A n \in Nat : \A j \in 1 .. n - 1 : j # n
    OBVIOUS
  <2>3. i # Len(s)
    BY <1>1, <2>2
  <2> QED
    BY <1>1, <2>1, <2>3 DEF SetTop
<1>6. SetTop(s, f) # <<>>
  BY <1>1, <1>3
<1>7. Last(SetTop(s, f)) = f
  BY <1>3, <1>4 DEF Last
<1> QED
  BY <1>3, <1>4, <1>5, <1>6, <1>7

(* Section f counts for lock l. *)
Counts(f, l) == f.in /\ f.op # "timerEnd" /\ LockOf(f.op) = l

LEMMA PushSections ==
  ASSUME NEW s \in Seq(Section), NEW f \in Section, NEW l
  PROVE  SectionsOf(Append(s, f), l) =
           SectionsOf(s, l) \cup IF Counts(f, l) THEN {Len(s) + 1} ELSE {}
<1> DEFINE a == Append(s, f)
<1>1. DOMAIN s = 1 .. Len(s) /\ DOMAIN a = 1 .. Len(s) + 1 /\ Len(s) \in Nat
  BY PushFacts
<1>2. a[Len(s) + 1] = f /\ \A i \in 1 .. Len(s) : a[i] = s[i]
  BY PushFacts
<1> HIDE DEF a
<1>3. \A i \in 1 .. Len(s) : i \in SectionsOf(a, l) <=> i \in SectionsOf(s, l)
  BY <1>1, <1>2 DEF SectionsOf
<1>4. Len(s) + 1 \in SectionsOf(a, l) <=> Counts(f, l)
  BY <1>1, <1>2 DEF SectionsOf, Counts
<1>5. SectionsOf(s, l) \subseteq 1 .. Len(s) /\ SectionsOf(a, l) \subseteq (1 .. Len(s)) \cup {Len(s) + 1}
  BY <1>1 DEF SectionsOf
<1>6. SectionsOf(a, l) = SectionsOf(s, l) \cup IF Counts(f, l) THEN {Len(s) + 1} ELSE {}
  BY <1>3, <1>4, <1>5, <1>1
<1> QED
  BY <1>6 DEF a

LEMMA PopSections ==
  ASSUME NEW s \in Seq(Section), s # <<>>, NEW l
  PROVE  SectionsOf(Front(s), l) = SectionsOf(s, l) \ {Len(s)}
<1>1. DOMAIN s = 1 .. Len(s) /\ DOMAIN Front(s) = 1 .. Len(s) - 1 /\ Len(s) \in Nat \ {0}
  BY PopFacts
<1>2. \A i \in 1 .. Len(s) - 1 : Front(s)[i] = s[i]
  BY PopFacts
<1>3. \A i \in 1 .. Len(s) - 1 : i \in SectionsOf(Front(s), l) <=> i \in SectionsOf(s, l)
  BY <1>1, <1>2 DEF SectionsOf
<1>4. SectionsOf(s, l) \subseteq 1 .. Len(s) /\ SectionsOf(Front(s), l) \subseteq 1 .. Len(s) - 1
  BY <1>1 DEF SectionsOf
<1> QED
  BY <1>1, <1>3, <1>4

LEMMA SetTopSections ==
  ASSUME NEW s \in Seq(Section), s # <<>>, NEW f \in Section, NEW l
  PROVE  SectionsOf(SetTop(s, f), l) =
           (SectionsOf(s, l) \ {Len(s)}) \cup IF Counts(f, l) THEN {Len(s)} ELSE {}
<1> DEFINE a == SetTop(s, f)
<1>1. DOMAIN s = 1 .. Len(s) /\ DOMAIN a = 1 .. Len(s) /\ Len(s) \in Nat \ {0}
  <2>1. a \in Seq(Section) /\ Len(a) = Len(s)
    BY SetTopFacts
  <2> QED
    BY <2>1
<1>2. a[Len(s)] = f /\ \A i \in 1 .. Len(s) - 1 : a[i] = s[i]
  BY SetTopFacts
<1> HIDE DEF a
<1>3. \A i \in 1 .. Len(s) - 1 : i \in SectionsOf(a, l) <=> i \in SectionsOf(s, l)
  BY <1>1, <1>2 DEF SectionsOf
<1>4. Len(s) \in SectionsOf(a, l) <=> Counts(f, l)
  BY <1>1, <1>2 DEF SectionsOf, Counts
<1>5. SectionsOf(s, l) \subseteq 1 .. Len(s) /\ SectionsOf(a, l) \subseteq 1 .. Len(s)
  BY <1>1 DEF SectionsOf
<1>6. SectionsOf(a, l) = (SectionsOf(s, l) \ {Len(s)}) \cup IF Counts(f, l) THEN {Len(s)} ELSE {}
  BY <1>1, <1>3, <1>4, <1>5
<1> QED
  BY <1>6 DEF a

(* The innermost section counts for its own lock. *)
LEMMA TopSection ==
  ASSUME NEW s \in Seq(Section), s # <<>>, NEW l
  PROVE  Len(s) \in SectionsOf(s, l) <=> Counts(Last(s), l)
BY PopFacts DEF SectionsOf, Counts, Last

(* What may be pushed on a well nested stack. *)
MayLieOn(f, s) ==
  s # <<>> => /\ Last(s).op # "timerEnd"
              /\ \/ f.op \in IrqOps
                 \/ f.op = "heap" /\ Last(s).in /\ LockOf(Last(s).op) = "thread"

LEMMA PushNested ==
  ASSUME NEW s \in Seq(Section), NEW f \in Section, WellNested(s),
         f.op \in {"timer", "timerEnd"} => f.in,
         MayLieOn(f, s)
  PROVE  WellNested(Append(s, f))
<1> DEFINE a == Append(s, f)
<1>1. DOMAIN a = 1 .. Len(s) + 1 /\ Len(a) = Len(s) + 1 /\ DOMAIN s = 1 .. Len(s) /\ Len(s) \in Nat
  BY PushFacts
<1>2. a[Len(s) + 1] = f /\ \A i \in 1 .. Len(s) : a[i] = s[i]
  BY PushFacts
<1>3. s # <<>> => Last(s) = s[Len(s)] /\ Len(s) > 0
  BY DEF Last
<1>4. s = <<>> => Len(s) = 0
  OBVIOUS
<1> SUFFICES ASSUME NEW i \in DOMAIN a
             PROVE  /\ i > 1 => a[i].op \in IrqOps \cup {"heap"}
                    /\ a[i].op \in {"timer", "timerEnd"} => a[i].in
                    /\ a[i].op = "timerEnd" => i = Len(a)
                    /\ i < Len(a) /\ (~a[i].in \/ LockOf(a[i].op) # "thread") => a[i + 1].op \in IrqOps
  BY DEF WellNested
<1> HIDE DEF a
<1>5. CASE i = Len(s) + 1
  BY <1>1, <1>2, <1>3, <1>4, <1>5 DEF MayLieOn
<1>6. CASE i = Len(s)
  <2>1. i \in DOMAIN s /\ s # <<>> /\ a[i] = s[i] /\ Last(s) = s[i] /\ a[i + 1] = f
    BY <1>1, <1>2, <1>3, <1>4, <1>6
  <2>2. /\ i > 1 => s[i].op \in IrqOps \cup {"heap"}
        /\ s[i].op \in {"timer", "timerEnd"} => s[i].in
    BY <2>1 DEF WellNested
  <2>3. (~s[i].in \/ LockOf(s[i].op) # "thread") => f.op \in IrqOps
    BY <2>1 DEF MayLieOn
  <2>4. s[i].op # "timerEnd"
    BY <2>1 DEF MayLieOn
  <2> QED
    BY <1>1, <2>1, <2>2, <2>3, <2>4
<1>7. CASE i < Len(s)
  <2>1. i \in 1 .. Len(s) /\ i + 1 \in 1 .. Len(s)
    BY <1>1, <1>7
  <2> QED
    BY <1>1, <1>2, <1>7, <2>1 DEF WellNested
<1> QED
  BY <1>1, <1>5, <1>6, <1>7

LEMMA PopNested ==
  ASSUME NEW s \in Seq(Section), s # <<>>, WellNested(s)
  PROVE  WellNested(Front(s)) /\ \A i \in DOMAIN Front(s) : Front(s)[i].op # "timerEnd"
<1>1. Len(s) \in Nat \ {0} /\ DOMAIN s = 1 .. Len(s) /\ DOMAIN Front(s) = 1 .. Len(s) - 1
  BY PopFacts
<1>2. Len(Front(s)) = Len(s) - 1 /\ \A i \in 1 .. Len(s) - 1 : Front(s)[i] = s[i]
  BY PopFacts
<1> QED
  BY <1>1, <1>2 DEF WellNested

LEMMA SetTopNested ==
  ASSUME NEW s \in Seq(Section), s # <<>>, NEW f \in Section, WellNested(s),
         f.op = Last(s).op \/ Last(s).op \notin IrqOps \cup {"heap"},
         f.op \in {"timer", "timerEnd"} => f.in
  PROVE  WellNested(SetTop(s, f))
<1> DEFINE a == SetTop(s, f)
<1>1. DOMAIN a = 1 .. Len(s) /\ Len(a) = Len(s) /\ DOMAIN s = 1 .. Len(s) /\ Len(s) \in Nat \ {0}
  BY SetTopFacts
<1>2. a[Len(s)] = f /\ \A i \in 1 .. Len(s) - 1 : a[i] = s[i]
  BY SetTopFacts
<1>3. Last(s) = s[Len(s)] /\ Len(s) \in DOMAIN s
  BY <1>1 DEF Last
<1>4. Last(s).op \notin IrqOps \cup {"heap"} => Len(s) = 1
  BY <1>1, <1>3 DEF WellNested
<1> SUFFICES ASSUME NEW i \in DOMAIN a
             PROVE  /\ i > 1 => a[i].op \in IrqOps \cup {"heap"}
                    /\ a[i].op \in {"timer", "timerEnd"} => a[i].in
                    /\ a[i].op = "timerEnd" => i = Len(a)
                    /\ i < Len(a) /\ (~a[i].in \/ LockOf(a[i].op) # "thread") => a[i + 1].op \in IrqOps
  BY DEF WellNested
<1> HIDE DEF a
<1>5. CASE i = Len(s)
  BY <1>1, <1>2, <1>3, <1>4, <1>5 DEF WellNested
<1>6. CASE i + 1 = Len(s)
  BY <1>1, <1>2, <1>3, <1>4, <1>6 DEF WellNested
<1>7. CASE i + 1 < Len(s)
  <2>1. i \in 1 .. Len(s) - 1 /\ i + 1 \in 1 .. Len(s) - 1 /\ i \in DOMAIN s
    BY <1>1, <1>7
  <2> QED
    BY <1>1, <1>2, <1>7, <2>1 DEF WellNested
<1> QED
  BY <1>1, <1>5, <1>6, <1>7

-----------------------------------------------------------------------------
(* The queue *)

LEMMA TidFacts == 0 \in Tid /\ Free \notin Tid /\ "thread" \in Locks
BY DEF Tid, Free, Locks

(* A thread can be chosen. *)
LEMMA QueueReady ==
  ASSUME TypeOK, SomebodyRuns
  PROVE  /\ Requeued \in Seq(Tid) /\ Distinct(Requeued) /\ Contains(Requeued, 0)
         /\ Requeued # <<>>
<1>1. /\ Enqueue(rq, cpu) \in Seq(Tid) /\ Distinct(Enqueue(rq, cpu))
      /\ \A u \in Tid : Contains(Enqueue(rq, cpu), u) <=> Contains(rq, u) \/ u = cpu
  BY EnqueueFacts DEF TypeOK, SomebodyRuns
<1>2. Requeued \in Seq(Tid) /\ Distinct(Requeued) /\ Contains(Requeued, 0)
  BY <1>1, TidFacts DEF Requeued, TypeOK, SomebodyRuns
<1>3. Requeued # <<>>
  BY <1>2 DEF Contains
<1> QED
  BY <1>2, <1>3

-----------------------------------------------------------------------------
(* One step on the executing stack.  In all of them only that stack changes *)
(* and the other parts of the invariant follow from what its innermost      *)
(* section was and is.                                                      *)

(* stack' is stack with s on the CPU. *)
LEMMA BecomesFacts ==
  ASSUME TypeOK, NEW s \in Seq(Section), Becomes(s)
  PROVE  /\ stack' \in [Tid -> Seq(Section)]
         /\ stack'[cpu] = s
         /\ \A t \in Tid \ {cpu} : stack'[t] = stack[t]
BY DEF TypeOK, Becomes

LEMMA BecomesNested ==
  ASSUME TypeOK, Nesting, NEW s \in Seq(Section), Becomes(s), WellNested(s),
         cpu = 0 => NeverEnds(s)
  PROVE  Nesting'
BY BecomesFacts DEF Nesting, TypeOK

(* No lock changes and no section is counted or discounted. *)
LEMMA SameSections ==
  ASSUME TypeOK, LocksMatchSections, NEW s \in Seq(Section), Becomes(s), UNCHANGED lock,
         \A l \in Locks : SectionsOf(s, l) = SectionsOf(Here, l)
  PROVE  LocksMatchSections'
<1>1. \A l \in Locks : \A t \in Tid : SectionsOf(stack'[t], l) = SectionsOf(stack[t], l)
  BY BecomesFacts DEF Here, TypeOK
<1> SUFFICES ASSUME NEW l \in Locks, NEW t \in Tid
             PROVE  /\ lock'[l] = t <=> SectionsOf(stack'[t], l) # {}
                    /\ \A i, j \in SectionsOf(stack'[t], l) : i = j
  BY DEF LocksMatchSections
<1>2. SectionsOf(stack'[t], l) = SectionsOf(stack[t], l) /\ lock' = lock
  BY <1>1
<1> QED
  BY <1>2 DEF LocksMatchSections

(* Section k of lock m ends with its lock. *)
LEMMA SectionLeft ==
  ASSUME TypeOK, LocksMatchSections, NEW s \in Seq(Section), Becomes(s), NEW m \in Locks, Unlock(m),
         NEW k \in SectionsOf(Here, m),
         \A l \in Locks : SectionsOf(s, l) = SectionsOf(Here, l) \ {k}
  PROVE  LocksMatchSections'
<1>1. lock' \in [Locks -> Tid \cup {Free}] /\ lock'[m] = Free /\ \A l \in Locks \ {m} : lock'[l] = lock[l]
  BY DEF Unlock, TypeOK
<1>2. lock[m] = cpu
  BY DEF LocksMatchSections, Here, TypeOK
<1>3. \A l \in Locks \ {m} : k \notin SectionsOf(Here, l)
  BY DEF SectionsOf
<1> SUFFICES ASSUME NEW l \in Locks, NEW t \in Tid
             PROVE  /\ lock'[l] = t <=> SectionsOf(stack'[t], l) # {}
                    /\ \A i, j \in SectionsOf(stack'[t], l) : i = j
  BY DEF LocksMatchSections
<1>4. CASE t # cpu
  <2>1. stack'[t] = stack[t]
    BY <1>4, BecomesFacts
  <2>2. lock'[l] = t <=> lock[l] = t
    BY <1>1, <1>2, <1>4, TidFacts
  <2> QED
    BY <2>1, <2>2 DEF LocksMatchSections
<1>5. CASE t = cpu
  <2>1. SectionsOf(stack'[t], l) = SectionsOf(stack[t], l) \ {k}
    BY <1>5, BecomesFacts DEF Here
  <2>2. CASE l = m
    <3>1. \A i, j \in SectionsOf(stack[t], l) : i = j
      BY DEF LocksMatchSections
    <3>2. SectionsOf(stack'[t], l) = {}
      BY <1>5, <2>1, <2>2, <3>1 DEF Here
    <3>3. lock'[l] # t
      BY <1>1, <2>2, TidFacts
    <3> QED
      BY <3>2, <3>3
  <2>3. CASE l # m
    <3>1. k \notin SectionsOf(stack[t], l)
      BY <1>3, <1>5, <2>3 DEF Here
    <3>2. SectionsOf(stack'[t], l) = SectionsOf(stack[t], l)
      BY <2>1, <3>1
    <3>3. lock'[l] = lock[l]
      BY <1>1, <2>3
    <3> QED
      BY <3>2, <3>3 DEF LocksMatchSections
  <2> QED
    BY <2>2, <2>3
<1> QED
  BY <1>4, <1>5

(* Stack s is the executing one with section k of lock m besides. *)
WithSection(s, m, k) ==
  \A l \in Locks : SectionsOf(s, l) = SectionsOf(Here, l) \cup IF l = m THEN {k} ELSE {}

(* A section of the free lock m is entered. *)
LEMMA SectionEntered ==
  ASSUME TypeOK, LocksMatchSections, NEW s \in Seq(Section), Becomes(s), NEW m \in Locks,
         lock[m] = Free, lock' = [lock EXCEPT ![m] = cpu], NEW k,
         WithSection(s, m, k)
  PROVE  LocksMatchSections'
<1>1. lock'[m] = cpu /\ \A l \in Locks \ {m} : lock'[l] = lock[l]
  BY DEF TypeOK
<1>2. \A t \in Tid : SectionsOf(stack[t], m) = {}
  BY TidFacts DEF LocksMatchSections
<1> SUFFICES ASSUME NEW l \in Locks, NEW t \in Tid
             PROVE  /\ lock'[l] = t <=> SectionsOf(stack'[t], l) # {}
                    /\ \A i, j \in SectionsOf(stack'[t], l) : i = j
  BY DEF LocksMatchSections
<1>3. CASE t # cpu
  <2>1. stack'[t] = stack[t]
    BY <1>3, BecomesFacts
  <2>2. CASE l = m
    <3>1. lock'[l] # t
      BY <1>1, <1>3, <2>2
    <3> QED
      BY <1>2, <2>1, <2>2, <3>1
  <2>3. CASE l # m
    <3>1. lock'[l] = lock[l]
      BY <1>1, <2>3
    <3> QED
      BY <2>1, <3>1 DEF LocksMatchSections
  <2> QED
    BY <2>2, <2>3
<1>4. CASE t = cpu
  <2>1. SectionsOf(stack'[t], l) = SectionsOf(stack[t], l) \cup IF l = m THEN {k} ELSE {}
    BY <1>4, BecomesFacts DEF Here, WithSection
  <2>2. CASE l = m
    <3>1. SectionsOf(stack'[t], l) = {k}
      BY <1>2, <2>1, <2>2
    <3>2. lock'[l] = t
      BY <1>1, <1>4, <2>2
    <3> QED
      BY <3>1, <3>2
  <2>3. CASE l # m
    <3>1. lock'[l] = lock[l] /\ SectionsOf(stack'[t], l) = SectionsOf(stack[t], l)
      BY <1>1, <2>1, <2>3
    <3> QED
      BY <3>1 DEF LocksMatchSections
  <2> QED
    BY <2>2, <2>3
<1> QED
  BY <1>3, <1>4

-----------------------------------------------------------------------------
(* The two halves of the invariant: the stacks with their locks, and the    *)
(* threads with their queue.                                                *)

StacksOK ==
  /\ stack \in [Tid -> Seq(Section)]
  /\ lock \in [Locks -> Tid \cup {Free}]
  /\ Nesting /\ OffCpu /\ ThreadLockHere /\ LocksMatchSections

QueueOK ==
  /\ state \in [Tid -> {"NULL", "READY", "RUNNING", "TERMINATED"}]
  /\ rq \in Seq(Tid)
  /\ next_id \in 1 .. MaxThreads
  /\ cpu \in Tid
  /\ isr \in BOOLEAN
  /\ SomebodyRuns

LEMMA Halves == IInv <=> StacksOK /\ QueueOK
BY DEF IInv, TypeOK, StacksOK, QueueOK

LEMMA HalvesPrime == StacksOK' /\ QueueOK' => IInv'
BY DEF IInv, TypeOK, StacksOK, QueueOK

(* What is known of the executing stack. *)
LEMMA HereFacts ==
  ASSUME IInv
  PROVE  /\ Here \in Seq(Section) /\ WellNested(Here)
         /\ cpu \in Tid /\ (cpu = 0 => NeverEnds(Here))
         /\ Here # <<>> => /\ Last(Here) \in Section
                           /\ Len(Here) \in DOMAIN Here /\ Last(Here) = Here[Len(Here)]
                           /\ Last(Here).op \in {"timer", "timerEnd"} => Last(Here).in
                           /\ cpu = 0 => Last(Here).op # "exit"
<1>1. /\ Here \in Seq(Section) /\ WellNested(Here) /\ cpu \in Tid
      /\ cpu = 0 => NeverEnds(Here)
  BY DEF IInv, TypeOK, Nesting, Here
<1>2. ASSUME Here # <<>>
      PROVE  /\ Last(Here) \in Section
             /\ Len(Here) \in DOMAIN Here /\ Last(Here) = Here[Len(Here)]
  BY <1>1, <1>2, PopFacts DEF Last
<1> QED
  BY <1>1, <1>2 DEF WellNested, NeverEnds

(* A section that only starts on an empty stack is alone on it. *)
LEMMA Alone ==
  ASSUME IInv, Here # <<>>, Last(Here).op \notin IrqOps \cup {"heap"}
  PROVE  Len(Here) = 1
<1>1. Len(Here) \in DOMAIN Here /\ Last(Here) = Here[Len(Here)] /\ WellNested(Here)
  BY HereFacts
<1>2. Len(Here) \in Nat \ {0}
  BY HereFacts
<1>3. Len(Here) > 1 => Here[Len(Here)].op \in IrqOps \cup {"heap"}
  BY <1>1 DEF WellNested
<1>4. ~(Len(Here) > 1)
  BY <1>1, <1>3
<1>5. \A n \in Nat \ {0} : ~(n > 1) => n = 1
  OBVIOUS
<1> QED
  BY <1>2, <1>4, <1>5

(* The thread on the CPU stays there. *)
LEMMA StaysOnCpu ==
  ASSUME IInv, NEW s \in Seq(Section), Becomes(s), UNCHANGED cpu,
         lock'["thread"] \in {cpu, Free},
         s # <<>> => Last(s).op # "timerEnd"
  PROVE  OffCpu' /\ ThreadLockHere'
<1>1. stack'[cpu] = s /\ \A t \in Tid \ {cpu} : stack'[t] = stack[t]
  BY BecomesFacts DEF IInv
<1>2. OffCpu'
  BY <1>1 DEF IInv, OffCpu
<1>3. ~Inside("timerEnd")'
  BY <1>1 DEF Inside, Here
<1> QED
  BY <1>2, <1>3 DEF ThreadLockHere

(* A section is pushed and waits for its lock. *)
LEMMA Pushed ==
  ASSUME IInv, NEW f \in Section, ~f.in, f.op \notin {"timer", "timerEnd"},
         cpu = 0 => f.op # "exit",
         MayLieOn(f, Here),
         Becomes(Append(Here, f)), UNCHANGED <<lock, cpu>>
  PROVE  StacksOK'
<1> DEFINE s == Append(Here, f)
<1>1. s \in Seq(Section) /\ s # <<>> /\ Last(s) = f /\ DOMAIN s = 1 .. Len(Here) + 1
      /\ s[Len(Here) + 1] = f /\ \A i \in 1 .. Len(Here) : s[i] = Here[i]
  BY HereFacts, PushFacts
<1>2. WellNested(s)
  BY HereFacts, PushNested
<1>3. cpu = 0 => NeverEnds(s)
  BY <1>1, HereFacts DEF NeverEnds
<1>4. \A l \in Locks : SectionsOf(s, l) = SectionsOf(Here, l)
  <2> TAKE l \in Locks
  <2>1. ~Counts(f, l)
    BY DEF Counts
  <2>2. SectionsOf(s, l) = SectionsOf(Here, l) \cup IF Counts(f, l) THEN {Len(Here) + 1} ELSE {}
    BY HereFacts, PushSections
  <2> QED
    BY <2>1, <2>2
<1>5. lock'["thread"] \in {cpu, Free}
  BY DEF IInv, ThreadLockHere
<1> HIDE DEF s
<1>6. Becomes(s)
  BY DEF s
<1>7. stack' \in [Tid -> Seq(Section)]
  BY <1>1, <1>6, BecomesFacts DEF IInv
<1>8. Nesting'
  BY <1>1, <1>2, <1>3, <1>6, BecomesNested DEF IInv
<1>9. OffCpu' /\ ThreadLockHere'
  BY <1>1, <1>5, <1>6, StaysOnCpu
<1>10. LocksMatchSections'
  BY <1>1, <1>4, <1>6, SameSections DEF IInv
<1> QED
  BY <1>7, <1>8, <1>9, <1>10 DEF StacksOK, IInv, TypeOK

(* What lies under a section survives it. *)
LEMMA UnderTop ==
  ASSUME IInv, Here # <<>>
  PROVE  /\ Front(Here) \in Seq(Section) /\ WellNested(Front(Here))
         /\ cpu = 0 => NeverEnds(Front(Here))
         /\ Front(Here) # <<>> => Last(Front(Here)).op # "timerEnd"
<1>1. Front(Here) \in Seq(Section) /\ WellNested(Front(Here))
      /\ \A i \in DOMAIN Front(Here) : Front(Here)[i].op # "timerEnd"
  BY HereFacts, PopFacts, PopNested
<1>2. Len(Here) \in Nat /\ DOMAIN Here = 1 .. Len(Here) /\ DOMAIN Front(Here) = 1 .. Len(Here) - 1
  BY HereFacts, PopFacts
<1>3. \A i \in 1 .. Len(Here) - 1 : Front(Here)[i] = Here[i]
  BY HereFacts, PopFacts
<1>4. cpu = 0 => NeverEnds(Front(Here))
  BY <1>2, <1>3, HereFacts DEF NeverEnds
<1>5. ASSUME Front(Here) # <<>> PROVE Last(Front(Here)).op # "timerEnd"
  BY <1>1, <1>5, PopFacts DEF Last
<1> QED
  BY <1>1, <1>4, <1>5

(* A section is left and its lock cleared. *)
LEMMA Left ==
  ASSUME IInv, Here # <<>>, Last(Here).in, Last(Here).op # "timerEnd",
         Return, Unlock(LockOf(Last(Here).op)), UNCHANGED cpu
  PROVE  StacksOK'
<1> DEFINE m == LockOf(Last(Here).op)
<1>1. m \in Locks
  BY LockOfType
<1>2. lock' \in [Locks -> Tid \cup {Free}] /\ lock'["thread"] \in {cpu, Free}
  BY <1>1, TidFacts DEF IInv, TypeOK, ThreadLockHere, Unlock
<1>3. Len(Here) \in SectionsOf(Here, m)
  BY HereFacts, TopSection DEF Counts
<1>4. \A l \in Locks : SectionsOf(Front(Here), l) = SectionsOf(Here, l) \ {Len(Here)}
  BY HereFacts, PopSections
<1>5. Becomes(Front(Here))
  BY DEF Return
<1>6. stack' \in [Tid -> Seq(Section)]
  BY <1>5, UnderTop, BecomesFacts DEF IInv
<1>7. Nesting'
  BY <1>5, UnderTop, BecomesNested DEF IInv
<1>8. OffCpu' /\ ThreadLockHere'
  BY <1>2, <1>5, UnderTop, StaysOnCpu
<1>9. LocksMatchSections'
  <2>1. Unlock(m)
    OBVIOUS
  <2> HIDE DEF m
  <2> QED
    BY <1>1, <1>3, <1>4, <1>5, <2>1, UnderTop, SectionLeft DEF IInv
<1> QED
  BY <1>2, <1>6, <1>7, <1>8, <1>9 DEF StacksOK

(* The innermost section is replaced by f, with no lock taken or cleared.   *)
LEMMA Replaced ==
  ASSUME IInv, Here # <<>>, NEW f \in Section,
         Last(Here).op \notin IrqOps \cup {"heap"}, f.op \notin {"timer", "timerEnd", "exit"},
         \A l \in Locks : Counts(f, l) <=> Counts(Last(Here), l),
         Becomes(SetTop(Here, f)), UNCHANGED <<lock, cpu>>
  PROVE  StacksOK'
<1> DEFINE s == SetTop(Here, f)
<1>1. s \in Seq(Section) /\ s # <<>> /\ Last(s) = f /\ Len(s) = Len(Here) /\ DOMAIN s = DOMAIN Here
      /\ s[Len(Here)] = f /\ \A i \in 1 .. Len(Here) - 1 : s[i] = Here[i]
  BY HereFacts, SetTopFacts
<1>2. WellNested(s)
  BY HereFacts, SetTopNested
<1>3. Len(Here) = 1
  BY Alone
<1>4. NeverEnds(s)
  BY <1>1, <1>3 DEF NeverEnds
<1>5. ASSUME NEW l \in Locks PROVE SectionsOf(s, l) = SectionsOf(Here, l)
  <2>1. SectionsOf(s, l) = (SectionsOf(Here, l) \ {Len(Here)}) \cup IF Counts(f, l) THEN {Len(Here)} ELSE {}
    BY HereFacts, SetTopSections
  <2>2. Len(Here) \in SectionsOf(Here, l) <=> Counts(f, l)
    BY HereFacts, TopSection
  <2> QED
    BY <2>1, <2>2
<1>6. lock'["thread"] \in {cpu, Free}
  BY DEF IInv, ThreadLockHere
<1> HIDE DEF s
<1>7. Becomes(s)
  BY DEF s
<1>8. stack' \in [Tid -> Seq(Section)]
  BY <1>1, <1>7, BecomesFacts DEF IInv
<1>9. Nesting'
  BY <1>1, <1>2, <1>4, <1>7, BecomesNested DEF IInv
<1>10. OffCpu' /\ ThreadLockHere'
  BY <1>1, <1>6, <1>7, StaysOnCpu
<1>11. LocksMatchSections'
  BY <1>1, <1>5, <1>7, SameSections DEF IInv
<1> QED
  BY <1>8, <1>9, <1>10, <1>11 DEF StacksOK, IInv, TypeOK

-----------------------------------------------------------------------------
(* The actions *)

LEMMA InitInv == Init => IInv
<1> SUFFICES ASSUME Init PROVE IInv
  OBVIOUS
<1>1. TypeOK
  BY DEF Init, TypeOK, Tid
<1>2. SomebodyRuns
  BY TidFacts DEF Init, SomebodyRuns, Distinct
<1>3. \A t \in Tid : stack[t] = <<>>
  BY DEF Init
<1>4. Nesting /\ OffCpu
  BY <1>3 DEF Nesting, OffCpu, WellNested, NeverEnds
<1>5. ThreadLockHere
  BY <1>3, TidFacts DEF Init, ThreadLockHere, Inside, Here
<1>6. LocksMatchSections
  BY <1>3, TidFacts DEF Init, LocksMatchSections, SectionsOf
<1> QED
  BY <1>1, <1>2, <1>4, <1>5, <1>6 DEF IInv

LEMMA AcquireInv == IInv /\ Acquire => IInv'
<1> SUFFICES ASSUME IInv, Acquire PROVE IInv'
  OBVIOUS
<1> DEFINE n == Len(Here)
           f == [Last(Here) EXCEPT !.in = TRUE]
           s == SetTop(Here, f)
<1>1. /\ Here # <<>> /\ ~Last(Here).in /\ lock[Wanted] = Free
      /\ lock' = [lock EXCEPT ![Wanted] = cpu]
      /\ UNCHANGED <<state, rq, next_id, cpu, isr>>
  BY DEF Acquire, Waits
<1>2. Here \in Seq(Section) /\ Last(Here) \in Section /\ Last(Here) = Here[n]
      /\ Last(Here).op \notin {"timer", "timerEnd"} /\ n \in DOMAIN Here
  BY <1>1, HereFacts
<1>3. f \in Section /\ f.in /\ f.op = Last(Here).op
  BY <1>2 DEF Section
<1>4. Becomes(s)
  BY <1>2 DEF Acquire, SetTop
<1> HIDE DEF f
<1>5. s \in Seq(Section) /\ s # <<>> /\ Last(s) = f /\ DOMAIN s = DOMAIN Here
      /\ s[n] = f /\ \A i \in 1 .. n - 1 : s[i] = Here[i]
  BY <1>1, <1>2, <1>3, SetTopFacts
<1>6. WellNested(s)
  BY <1>1, <1>2, <1>3, HereFacts, SetTopNested
<1>7. ASSUME cpu = 0 PROVE NeverEnds(s)
  <2>1. NeverEnds(Here) /\ DOMAIN Here = 1 .. n /\ n \in Nat
    BY <1>2, <1>7, HereFacts
  <2>2. \A k \in Nat : \A i \in 1 .. k : i \in 1 .. k - 1 \/ i = k
    OBVIOUS
  <2>3. \A i \in 1 .. n : s[i].op = Here[i].op
    BY <1>2, <1>3, <1>5, <2>1, <2>2
  <2> QED
    BY <1>5, <2>1, <2>3 DEF NeverEnds
<1>8. WithSection(s, Wanted, n)
  <2>1. \A l \in Locks : Counts(f, l) <=> l = Wanted
    BY <1>2, <1>3 DEF Counts, Wanted
  <2>2. \A l \in Locks : n \notin SectionsOf(Here, l)
    BY <1>1, <1>2 DEF SectionsOf
  <2>3. \A l \in Locks : SectionsOf(s, l) = (SectionsOf(Here, l) \ {n}) \cup IF Counts(f, l) THEN {n} ELSE {}
    BY <1>1, <1>2, <1>3, SetTopSections
  <2> QED
    BY <2>1, <2>2, <2>3 DEF WithSection
<1>9. Wanted \in Locks
  BY LockOfType DEF Wanted
<1>10. lock' \in [Locks -> Tid \cup {Free}] /\ lock'["thread"] \in {cpu, Free}
  BY <1>1, <1>9, TidFacts, HereFacts DEF IInv, TypeOK, ThreadLockHere
<1> HIDE DEF s, n
<1>11. stack' \in [Tid -> Seq(Section)]
  BY <1>4, <1>5, BecomesFacts DEF IInv
<1>12. Nesting'
  BY <1>4, <1>5, <1>6, <1>7, BecomesNested DEF IInv
<1>13. OffCpu' /\ ThreadLockHere'
  BY <1>1, <1>2, <1>3, <1>4, <1>5, <1>10, StaysOnCpu
<1>14. LocksMatchSections'
  BY <1>1, <1>4, <1>5, <1>8, <1>9, SectionEntered DEF IInv
<1>15. QueueOK'
  BY <1>1, Halves DEF QueueOK, SomebodyRuns
<1> QED
  BY <1>10, <1>11, <1>12, <1>13, <1>14, <1>15, HalvesPrime DEF StacksOK

LEMMA CallInv == \A op \in UserOps : IInv /\ Call(op) => IInv'
<1> SUFFICES ASSUME NEW op \in UserOps, IInv, Call(op) PROVE IInv'
  OBVIOUS
<1> DEFINE f == Wait(op, CallsOf(op))
<1>1. f \in Section /\ ~f.in /\ f.op = op
  BY DEF Wait, CallsOf, Section, Ops
<1>2. op \notin {"timer", "timerEnd"} /\ (cpu = 0 => op # "exit")
  BY DEF Call, UserOps
<1>3. Here = <<>> /\ Becomes(<<f>>) /\ UNCHANGED <<state, rq, next_id, cpu, lock, isr>>
  BY DEF Call
<1>4. Append(Here, f) = <<f>>
  BY <1>3
<1> HIDE DEF f
<1>5. StacksOK'
  BY <1>1, <1>2, <1>3, <1>4, Pushed DEF MayLieOn
<1>6. QueueOK'
  BY <1>3, Halves DEF QueueOK, SomebodyRuns
<1> QED
  BY <1>5, <1>6, HalvesPrime

(* The operations whose section is theirs to leave. *)
LEMMA InsideFacts ==
  ASSUME NEW op, Inside(op)
  PROVE  Here # <<>> /\ Last(Here).in /\ Last(Here).op = op
BY DEF Inside

LEMMA LeaveInv == \A op \in Ops \ {"timerEnd"} : IInv /\ Leave(op) => IInv'
<1> SUFFICES ASSUME NEW op \in Ops \ {"timerEnd"}, IInv, Leave(op) PROVE IInv'
  OBVIOUS
<1>1. Here # <<>> /\ Last(Here).in /\ Last(Here).op = op
  BY InsideFacts DEF Leave
<1>2. StacksOK'
  BY <1>1, Left DEF Leave
<1>3. QueueOK'
  BY Halves DEF Leave, QueueOK, SomebodyRuns
<1> QED
  BY <1>2, <1>3, HalvesPrime

LEMMA CreateAllocInv == IInv /\ CreateAlloc => IInv'
<1> SUFFICES ASSUME IInv, CreateAlloc PROVE IInv'
  OBVIOUS
<1> DEFINE f == [Last(Here) EXCEPT !.left = @ - 1]
           h == SetTop(Here, f)
           w == Wait("heap", 0)
           s == Append(h, w)
<1>1. /\ Here # <<>> /\ Last(Here).in /\ Last(Here).op \in {"create", "uncreate"}
      /\ Last(Here).left > 0 /\ UNCHANGED <<state, rq, next_id, cpu, lock, isr>>
  BY DEF CreateAlloc, Inside
<1>2. Here \in Seq(Section) /\ Last(Here) \in Section /\ Last(Here) = Here[Len(Here)]
      /\ Len(Here) \in DOMAIN Here
  BY <1>1, HereFacts
<1>3. f \in Section /\ f.in /\ f.op = Last(Here).op
  BY <1>1, <1>2 DEF Section
<1>4. w \in Section /\ ~w.in /\ w.op = "heap"
  BY DEF Wait, Section, Ops, UserOps
<1>5. Becomes(s)
  BY <1>2 DEF CreateAlloc, SetTop
<1> HIDE DEF f, w
<1>6. h \in Seq(Section) /\ h # <<>> /\ Last(h) = f
  BY <1>1, <1>2, <1>3, SetTopFacts
<1>7. WellNested(h)
  BY <1>1, <1>2, <1>3, HereFacts, SetTopNested DEF IrqOps
<1>8. LockOf(Last(h).op) = "thread" /\ Last(h).in /\ Last(h).op # "timerEnd"
  BY <1>1, <1>3, <1>6 DEF LockOf
<1>9. \A l \in Locks : SectionsOf(h, l) = SectionsOf(Here, l)
  <2> TAKE l \in Locks
  <2>1. SectionsOf(h, l) = (SectionsOf(Here, l) \ {Len(Here)}) \cup IF Counts(f, l) THEN {Len(Here)} ELSE {}
    BY <1>1, <1>2, <1>3, SetTopSections
  <2>2. Len(Here) \in SectionsOf(Here, l) <=> Counts(f, l)
    BY <1>1, <1>2, <1>3, TopSection DEF Counts
  <2> QED
    BY <2>1, <2>2
<1>10. ASSUME cpu = 0 PROVE NeverEnds(s)
  <2>1. Len(Here) = 1
    BY <1>1, Alone DEF IrqOps
  <2>2. Len(h) = Len(Here) /\ h[Len(Here)] = f
    BY <1>1, <1>2, <1>3, SetTopFacts
  <2>3. s[1] = f /\ s[2] = w /\ DOMAIN s = 1 .. 2
    <3> HIDE DEF h
    <3>1. Len(h) = 1 /\ h[1] = f
      BY <2>1, <2>2
    <3>2. /\ s \in Seq(Section) /\ Len(s) = Len(h) + 1 /\ s[Len(h) + 1] = w
          /\ \A i \in 1 .. Len(h) : s[i] = h[i]
      BY <1>4, <1>6, PushFacts
    <3> HIDE DEF s
    <3>3. s[1] = f /\ s[2] = w /\ Len(s) = 2
      BY <3>1, <3>2
    <3>4. DOMAIN s = 1 .. Len(s)
      BY <3>2
    <3> QED
      BY <3>3, <3>4
  <2>4. \A i \in 1 .. 2 : i = 1 \/ i = 2
    OBVIOUS
  <2> QED
    BY <1>1, <1>3, <1>4, <2>3, <2>4 DEF NeverEnds
<1> HIDE DEF h
<1>11. WellNested(s)
  BY <1>4, <1>6, <1>7, <1>8, PushNested DEF MayLieOn
<1>12. \A l \in Locks : SectionsOf(s, l) = SectionsOf(Here, l)
  <2> TAKE l \in Locks
  <2>1. ~Counts(w, l)
    BY <1>4 DEF Counts
  <2>2. SectionsOf(s, l) = SectionsOf(h, l) \cup IF Counts(w, l) THEN {Len(h) + 1} ELSE {}
    BY <1>4, <1>6, PushSections
  <2> QED
    BY <1>9, <2>1, <2>2
<1>13. s \in Seq(Section) /\ s # <<>> /\ Last(s).op = "heap"
  BY <1>4, <1>6, PushFacts
<1> HIDE DEF s
<1>14. lock'["thread"] \in {cpu, Free} /\ UNCHANGED <<lock, cpu>>
  BY <1>1 DEF IInv, ThreadLockHere
<1>15. stack' \in [Tid -> Seq(Section)]
  BY <1>5, <1>13, BecomesFacts DEF IInv
<1>16. Nesting'
  BY <1>5, <1>10, <1>11, <1>13, BecomesNested DEF IInv
<1>17. OffCpu' /\ ThreadLockHere'
  BY <1>5, <1>13, <1>14, StaysOnCpu
<1>18. LocksMatchSections'
  BY <1>5, <1>12, <1>13, <1>14, SameSections DEF IInv
<1>19. StacksOK'
  BY <1>14, <1>15, <1>16, <1>17, <1>18 DEF StacksOK, IInv, TypeOK
<1>20. QueueOK'
  BY <1>1, Halves DEF QueueOK, SomebodyRuns
<1> QED
  BY <1>19, <1>20, HalvesPrime

(* The queue loses a thread that is neither 0 nor on the CPU as thread 0.   *)
LEMMA ThreadEnds ==
  ASSUME QueueOK, NEW v \in Tid \ {0},
         state' = [state EXCEPT ![v] = "TERMINATED"], rq' = Unlink(rq, v),
         UNCHANGED <<next_id, cpu, isr>>
  PROVE  QueueOK'
<1>1. /\ rq' \in Seq(Tid) /\ Distinct(rq')
      /\ \A u \in Tid : Contains(rq', u) <=> Contains(rq, u) /\ u # v
  BY UnlinkFacts DEF QueueOK, SomebodyRuns
<1>2. state' \in [Tid -> {"NULL", "READY", "RUNNING", "TERMINATED"}] /\ state'[0] = state[0]
  BY TidFacts DEF QueueOK
<1>3. SomebodyRuns'
  BY <1>1, <1>2, TidFacts DEF SomebodyRuns, QueueOK
<1> QED
  BY <1>1, <1>2, <1>3 DEF QueueOK

LEMMA CreateOkInv == IInv /\ CreateOk => IInv'
<1> SUFFICES ASSUME IInv, CreateOk PROVE IInv'
  OBVIOUS
<1>1. Here # <<>> /\ Last(Here).in /\ Last(Here).op = "create"
  BY InsideFacts DEF CreateOk
<1>2. StacksOK'
  BY <1>1, Left DEF CreateOk, LockOf
<1>3. next_id \in Tid \ {0} /\ next_id' \in 1 .. MaxThreads
  BY DEF CreateOk, IInv, TypeOK, Tid
<1>4. /\ rq' \in Seq(Tid) /\ Distinct(rq')
      /\ \A u \in Tid : Contains(rq', u) <=> Contains(rq, u) \/ u = next_id
  BY <1>3, EnqueueFacts DEF CreateOk, IInv, TypeOK, SomebodyRuns
<1>5. /\ state' \in [Tid -> {"NULL", "READY", "RUNNING", "TERMINATED"}] /\ state'[0] = state[0]
      /\ UNCHANGED <<cpu, isr>>
  BY <1>3, TidFacts DEF CreateOk, IInv, TypeOK
<1>6. QueueOK'
  BY <1>3, <1>4, <1>5, TidFacts, Halves DEF QueueOK, SomebodyRuns
<1> QED
  BY <1>2, <1>6, HalvesPrime

LEMMA CreateNoStackInv == IInv /\ CreateNoStack => IInv'
<1> SUFFICES ASSUME IInv, CreateNoStack PROVE IInv'
  OBVIOUS
<1> DEFINE f == [op |-> "uncreate", in |-> TRUE, left |-> 1]
<1>1. Here # <<>> /\ Last(Here).in /\ Last(Here).op = "create"
  BY InsideFacts DEF CreateNoStack
<1>2. f \in Section /\ f.op = "uncreate"
  BY DEF Section, Ops
<1>3. \A l \in Locks : Counts(f, l) <=> Counts(Last(Here), l)
  BY <1>1 DEF Counts, LockOf
<1>4. Becomes(SetTop(Here, f)) /\ UNCHANGED <<lock, cpu>>
  BY DEF CreateNoStack, SetTop
<1> HIDE DEF f
<1>5. StacksOK'
  BY <1>1, <1>2, <1>3, <1>4, Replaced DEF IrqOps
<1>6. next_id' \in 1 .. MaxThreads /\ UNCHANGED <<state, rq, cpu, isr>>
  BY DEF CreateNoStack, IInv, TypeOK
<1>7. QueueOK'
  BY <1>6, Halves DEF QueueOK, SomebodyRuns
<1> QED
  BY <1>5, <1>7, HalvesPrime

LEMMA CreateFailInv == IInv /\ CreateFail => IInv'
<1> SUFFICES ASSUME IInv, CreateFail PROVE IInv'
  OBVIOUS
<1>1. Here # <<>> /\ Last(Here).in /\ Last(Here).op \in {"create", "uncreate"}
  BY DEF CreateFail, Inside
<1>2. StacksOK'
  BY <1>1, Left DEF CreateFail, LockOf
<1>3. QueueOK'
  BY Halves DEF CreateFail, QueueOK, SomebodyRuns
<1> QED
  BY <1>2, <1>3, HalvesPrime

LEMMA KillInv == IInv /\ Kill => IInv'
<1> SUFFICES ASSUME IInv, Kill PROVE IInv'
  OBVIOUS
<1>1. Here # <<>> /\ Last(Here).in /\ Last(Here).op = "kill"
  BY InsideFacts DEF Kill
<1>2. StacksOK'
  BY <1>1, Left DEF Kill, LockOf
<1>3. PICK v \in Tid \ {0, cpu} : state' = [state EXCEPT ![v] = "TERMINATED"] /\ rq' = Unlink(rq, v)
  BY DEF Kill
<1>4. QueueOK'
  BY <1>3, ThreadEnds, Halves DEF Kill
<1> QED
  BY <1>2, <1>4, HalvesPrime

LEMMA ExitInv == IInv /\ Exit => IInv'
<1> SUFFICES ASSUME IInv, Exit PROVE IInv'
  OBVIOUS
<1> DEFINE f == Wait("sched", 0)
           s == SetTop(Here, f)
<1>1. Here # <<>> /\ Last(Here).in /\ Last(Here).op = "exit"
  BY InsideFacts DEF Exit
<1>2. f \in Section /\ f.op = "sched" /\ ~f.in
  BY DEF Wait, Section, Ops, UserOps
<1>3. Becomes(s) /\ Unlock("thread") /\ UNCHANGED cpu
  BY DEF Exit, SetTop
<1> HIDE DEF f
<1>4. s \in Seq(Section) /\ s # <<>> /\ Last(s) = f /\ Len(s) = Len(Here)
      /\ DOMAIN s = DOMAIN Here /\ s[Len(Here)] = f
  BY <1>1, <1>2, HereFacts, SetTopFacts
<1>5. WellNested(s)
  BY <1>1, <1>2, HereFacts, SetTopNested DEF IrqOps
<1>6. Len(Here) = 1
  BY <1>1, Alone DEF IrqOps
<1>7. NeverEnds(s)
  BY <1>2, <1>4, <1>6 DEF NeverEnds
<1>8. \A l \in Locks : SectionsOf(s, l) = SectionsOf(Here, l) \ {Len(Here)}
  <2>1. \A l \in Locks : ~Counts(f, l)
    BY <1>2 DEF Counts
  <2> QED
    BY <1>1, <1>2, <2>1, HereFacts, SetTopSections
<1>9. Len(Here) \in SectionsOf(Here, "thread")
  BY <1>1, HereFacts, TopSection DEF Counts, LockOf
<1> HIDE DEF s
<1>10. lock' \in [Locks -> Tid \cup {Free}] /\ lock'["thread"] \in {cpu, Free}
  BY <1>3, TidFacts DEF IInv, TypeOK, Unlock
<1>11. stack' \in [Tid -> Seq(Section)]
  BY <1>3, <1>4, BecomesFacts DEF IInv
<1>12. Nesting'
  BY <1>3, <1>4, <1>5, <1>7, BecomesNested DEF IInv
<1>13. OffCpu' /\ ThreadLockHere'
  BY <1>2, <1>3, <1>4, <1>10, StaysOnCpu
<1>14. LocksMatchSections'
  BY <1>3, <1>4, <1>8, <1>9, TidFacts, SectionLeft DEF IInv
<1>15. cpu \in Tid \ {0}
  BY <1>1, HereFacts
<1>16. QueueOK'
  BY <1>15, ThreadEnds, Halves DEF Exit
<1> QED
  BY <1>10, <1>11, <1>12, <1>13, <1>14, <1>16, HalvesPrime DEF StacksOK

LEMMA ReapInv == IInv /\ Reap => IInv'
<1> SUFFICES ASSUME IInv, Reap PROVE IInv'
  OBVIOUS
<1> DEFINE f == Wait("heap", 0)
<1>1. Here # <<>> /\ Last(Here).in /\ Last(Here).op \in {"sched", "timer"}
  BY DEF Reap, Scheduling, Inside
<1>2. f \in Section /\ f.op = "heap" /\ ~f.in
  BY DEF Wait, Section, Ops, UserOps
<1>3. Becomes(Append(Here, f)) /\ UNCHANGED <<lock, cpu>>
  BY DEF Reap
<1>4. LockOf(Last(Here).op) = "thread"
  BY <1>1 DEF LockOf
<1> HIDE DEF f
<1>5. StacksOK'
  BY <1>1, <1>2, <1>3, <1>4, Pushed DEF MayLieOn
<1>6. /\ state' \in [Tid -> {"NULL", "READY", "RUNNING", "TERMINATED"}]
      /\ state'[cpu] = state[cpu]
      /\ UNCHANGED <<rq, next_id, cpu, isr>>
  BY DEF Reap, Corpses, IInv, TypeOK
<1>7. QueueOK'
  BY <1>6, Halves DEF QueueOK, SomebodyRuns
<1> QED
  BY <1>5, <1>7, HalvesPrime

LEMMA TimerIrqInv == IInv /\ TimerIrq => IInv'
<1> SUFFICES ASSUME IInv, TimerIrq PROVE IInv'
  OBVIOUS
<1> DEFINE f == [op |-> "timer", in |-> TRUE, left |-> 0]
           s == Append(Here, f)
           n == Len(Here) + 1
<1>1. /\ lock["thread"] = Free /\ lock' = [lock EXCEPT !["thread"] = cpu] /\ isr' = TRUE
      /\ Becomes(s) /\ UNCHANGED <<state, rq, next_id, cpu>>
  BY DEF TimerIrq
<1>2. f \in Section /\ f.op = "timer" /\ f.in /\ f.op \in IrqOps
  BY DEF Section, Ops, IrqOps
<1>3. Here # <<>> => Last(Here).op # "timerEnd"
  BY HereFacts DEF TimerIrq, Interruptible, InIrq, IrqOps
<1> HIDE DEF f
<1>4. s \in Seq(Section) /\ s # <<>> /\ Last(s) = f /\ DOMAIN s = 1 .. Len(Here) + 1
      /\ s[Len(Here) + 1] = f /\ \A i \in 1 .. Len(Here) : s[i] = Here[i]
  BY <1>2, HereFacts, PushFacts
<1>5. WellNested(s)
  <2>1. (f.op \in {"timer", "timerEnd"} => f.in) /\ MayLieOn(f, Here)
    BY <1>2, <1>3 DEF MayLieOn
  <2> QED
    BY <1>2, <2>1, HereFacts, PushNested
<1>6. cpu = 0 => NeverEnds(s)
  BY <1>2, <1>4, HereFacts DEF NeverEnds
<1>7. WithSection(s, "thread", n)
  <2>1. \A l \in Locks : Counts(f, l) <=> l = "thread"
    BY <1>2 DEF Counts, LockOf
  <2> QED
    BY <1>2, <2>1, HereFacts, PushSections DEF WithSection
<1> HIDE DEF s, n
<1>8. lock' \in [Locks -> Tid \cup {Free}] /\ lock'["thread"] \in {cpu, Free}
  BY <1>1, TidFacts DEF IInv, TypeOK
<1>9. stack' \in [Tid -> Seq(Section)]
  BY <1>1, <1>4, BecomesFacts DEF IInv
<1>10. Nesting'
  BY <1>1, <1>4, <1>5, <1>6, BecomesNested DEF IInv
<1>11. OffCpu' /\ ThreadLockHere'
  BY <1>1, <1>2, <1>4, <1>8, StaysOnCpu
<1>12. LocksMatchSections'
  <2>1. TypeOK /\ LocksMatchSections /\ "thread" \in Locks
    BY TidFacts DEF IInv
  <2> QED
    BY <1>1, <1>4, <1>7, <2>1, SectionEntered
<1>13. QueueOK'
  BY <1>1, Halves DEF QueueOK, SomebodyRuns
<1> QED
  BY <1>8, <1>9, <1>10, <1>11, <1>12, <1>13, HalvesPrime DEF StacksOK

LEMMA KeyIrqInv == IInv /\ KeyIrq => IInv'
<1> SUFFICES ASSUME IInv, KeyIrq PROVE IInv'
  OBVIOUS
<1> DEFINE f == Wait("key", 0)
<1>1. f \in Section /\ f.op = "key" /\ ~f.in /\ f.op \in IrqOps
  BY DEF Wait, Section, Ops, IrqOps
<1>2. Becomes(Append(Here, f)) /\ UNCHANGED <<state, rq, next_id, cpu, lock, isr>>
  BY DEF KeyIrq
<1>3. Here # <<>> => Last(Here).op # "timerEnd"
  BY HereFacts DEF KeyIrq, Interruptible, InIrq, IrqOps
<1> HIDE DEF f
<1>4. f.op \notin {"timer", "timerEnd"} /\ (cpu = 0 => f.op # "exit") /\ MayLieOn(f, Here)
  BY <1>1, <1>3 DEF MayLieOn
<1>5. StacksOK'
  BY <1>1, <1>2, <1>4, Pushed
<1>6. QueueOK'
  BY <1>2, Halves DEF QueueOK, SomebodyRuns
<1> QED
  BY <1>5, <1>6, HalvesPrime

(* The second unlock of a preempted thread finds the lock clear already.    *)
LEMMA TimerEndInv == IInv /\ TimerEnd => IInv'
<1> SUFFICES ASSUME IInv, TimerEnd PROVE IInv'
  OBVIOUS
<1>1. Here # <<>> /\ Last(Here).in /\ Last(Here).op = "timerEnd"
  BY InsideFacts DEF TimerEnd
<1>2. lock["thread"] = Free
  BY DEF TimerEnd, IInv, ThreadLockHere
<1>3. lock' = lock /\ Becomes(Front(Here)) /\ UNCHANGED <<state, rq, next_id, cpu>> /\ isr' = FALSE
  BY <1>2 DEF TimerEnd, Unlock, Return, IInv, TypeOK
<1>4. \A l \in Locks : SectionsOf(Front(Here), l) = SectionsOf(Here, l)
  <2> TAKE l \in Locks
  <2>1. Len(Here) \notin SectionsOf(Here, l)
    BY <1>1, HereFacts, TopSection DEF Counts
  <2>2. SectionsOf(Front(Here), l) = SectionsOf(Here, l) \ {Len(Here)}
    BY <1>1, HereFacts, PopSections
  <2> QED
    BY <2>1, <2>2
<1>5. stack' \in [Tid -> Seq(Section)]
  BY <1>1, <1>3, UnderTop, BecomesFacts DEF IInv
<1>6. Nesting'
  BY <1>1, <1>3, UnderTop, BecomesNested DEF IInv
<1>7. OffCpu' /\ ThreadLockHere'
  BY <1>1, <1>2, <1>3, UnderTop, StaysOnCpu
<1>8. LocksMatchSections'
  BY <1>1, <1>3, <1>4, UnderTop, SameSections DEF IInv
<1>9. StacksOK'
  BY <1>3, <1>5, <1>6, <1>7, <1>8 DEF StacksOK, IInv, TypeOK
<1>10. QueueOK'
  BY <1>3, Halves DEF QueueOK, SomebodyRuns
<1> QED
  BY <1>9, <1>10, HalvesPrime

-----------------------------------------------------------------------------
(* The switch *)

(* The queue after a switch. *)
LEMMA DispatchQueue == IInv /\ Dispatch => QueueOK' /\ cpu' = Head(Requeued)
<1> SUFFICES ASSUME IInv, Dispatch PROVE QueueOK' /\ cpu' = Head(Requeued)
  OBVIOUS
<1> DEFINE next == Head(Requeued)
<1>1. /\ rq' = Tail(Requeued) /\ cpu' = next /\ next_id' = next_id
      /\ state' = [state EXCEPT ![cpu] = IF @ = "RUNNING" THEN "READY" ELSE @,
                                ![next] = "RUNNING"]
      /\ isr' = (isr /\ ~(Inside("timer") /\ next = cpu))
  BY DEF Dispatch
<1>2. /\ Requeued \in Seq(Tid) /\ Distinct(Requeued) /\ Contains(Requeued, 0) /\ Requeued # <<>>
  BY QueueReady DEF IInv
<1>3. /\ next \in Tid /\ rq' \in Seq(Tid) /\ Distinct(rq')
      /\ \A u \in Tid : Contains(rq', u) <=> Contains(Requeued, u) /\ u # next
  BY <1>1, <1>2, DequeueFacts
<1>4. state' \in [Tid -> {"NULL", "READY", "RUNNING", "TERMINATED"}] /\ state'[next] = "RUNNING"
  BY <1>1, <1>3 DEF IInv, TypeOK
<1>5. isr' \in BOOLEAN
  BY <1>1 DEF IInv, TypeOK
<1> HIDE DEF next
<1>6. SomebodyRuns'
  BY <1>1, <1>2, <1>3, <1>4, TidFacts DEF SomebodyRuns
<1>7. QueueOK'
  BY <1>1, <1>3, <1>4, <1>5, <1>6 DEF QueueOK, IInv, TypeOK
<1> QED
  BY <1>1, <1>7 DEF next

(* The stack that is left: the section of the scheduler is over, and a      *)
(* preempted thread owes its end of interrupt.                              *)
LEMMA DispatchStacks == IInv /\ Dispatch => StacksOK'
<1> SUFFICES ASSUME IInv, Dispatch PROVE StacksOK'
  OBVIOUS
<1> DEFINE n == Len(Here)
           a == Append(Front(Here), Owed)
<1>1. Here # <<>> /\ Last(Here).in /\ Last(Here).op \in {"sched", "timer"} /\ Unlock("thread")
  BY DEF Dispatch, Scheduling, Inside
<1>2. cpu' \in Tid
  BY DispatchQueue DEF QueueOK
<1>3. n \in SectionsOf(Here, "thread")
  BY <1>1, HereFacts, TopSection DEF Counts, LockOf
<1>4. \A l \in Locks : SectionsOf(Front(Here), l) = SectionsOf(Here, l) \ {n}
  BY <1>1, HereFacts, PopSections
<1>5. Owed \in Section /\ Owed.op = "timerEnd" /\ Owed.in /\ Owed.op \in IrqOps
  BY DEF Owed, Section, Ops, IrqOps
<1>6. /\ Front(Here) \in Seq(Section) /\ WellNested(Front(Here))
      /\ cpu = 0 => NeverEnds(Front(Here))
      /\ Front(Here) # <<>> => Last(Front(Here)).op # "timerEnd"
  BY <1>1, UnderTop
<1>7. /\ a \in Seq(Section) /\ a # <<>> /\ Last(a) = Owed /\ DOMAIN a = 1 .. Len(Front(Here)) + 1
      /\ a[Len(Front(Here)) + 1] = Owed /\ \A i \in 1 .. Len(Front(Here)) : a[i] = Front(Here)[i]
  BY <1>5, <1>6, PushFacts
<1>8. WellNested(a)
  <2>1. (Owed.op \in {"timer", "timerEnd"} => Owed.in) /\ MayLieOn(Owed, Front(Here))
    BY <1>5, <1>6 DEF MayLieOn
  <2> QED
    BY <1>5, <1>6, <2>1, PushNested
<1>9. cpu = 0 => NeverEnds(a)
  BY <1>5, <1>6, <1>7 DEF NeverEnds
<1>10. \A l \in Locks : SectionsOf(a, l) = SectionsOf(Here, l) \ {n}
  <2> TAKE l \in Locks
  <2>1. ~Counts(Owed, l)
    BY <1>5 DEF Counts
  <2>2. SectionsOf(a, l) = SectionsOf(Front(Here), l) \cup IF Counts(Owed, l) THEN {Len(Front(Here)) + 1} ELSE {}
    BY <1>5, <1>6, PushSections
  <2> QED
    BY <1>4, <2>1, <2>2
(* Either stack is fit to be left, and the one of a yielding thread is empty. *)
<1>11. PICK s \in Seq(Section) :
         /\ Becomes(s) /\ WellNested(s) /\ (cpu = 0 => NeverEnds(s))
         /\ \A l \in Locks : SectionsOf(s, l) = SectionsOf(Here, l) \ {n}
         /\ cpu' # cpu => s = <<>> \/ Last(s).op = "timerEnd"
  <2>1. CASE Inside("sched") \/ cpu' = cpu
    <3>1. Becomes(Front(Here))
      BY <2>1, DispatchQueue DEF Dispatch, Return
    <3>2. ASSUME cpu' # cpu PROVE Front(Here) = <<>>
      <4>1. Last(Here).op = "sched"
        BY <2>1, <3>2 DEF Inside
      <4>2. Len(Here) = 1
        BY <1>1, <4>1, Alone DEF IrqOps
      <4>3. Len(Front(Here)) = Len(Here) - 1
        BY <1>1, HereFacts, PopFacts
      <4> QED
        BY <1>6, <4>2, <4>3
    <3> QED
      BY <1>4, <1>6, <3>1, <3>2
  <2>2. CASE ~(Inside("sched") \/ cpu' = cpu)
    <3>1. Becomes(a)
      BY <2>2, DispatchQueue DEF Dispatch
    <3> HIDE DEF a
    <3> QED
      BY <1>5, <1>7, <1>8, <1>9, <1>10, <2>2, <3>1
  <2> QED
    BY <2>1, <2>2
<1> HIDE DEF a, n
<1>12. /\ stack' \in [Tid -> Seq(Section)] /\ stack'[cpu] = s
       /\ \A t \in Tid \ {cpu} : stack'[t] = stack[t]
  BY <1>11, BecomesFacts DEF IInv
<1>13. lock' \in [Locks -> Tid \cup {Free}] /\ lock'["thread"] = Free
  BY <1>1, TidFacts DEF IInv, TypeOK, Unlock
<1>14. Nesting'
  BY <1>11, BecomesNested DEF IInv
<1>15. OffCpu'
  BY <1>11, <1>12 DEF IInv, OffCpu
<1>16. ThreadLockHere'
  BY <1>13 DEF ThreadLockHere
<1>17. LocksMatchSections'
  BY <1>1, <1>3, <1>11, TidFacts, SectionLeft DEF IInv
<1> QED
  BY <1>12, <1>13, <1>14, <1>15, <1>16, <1>17 DEF StacksOK

-----------------------------------------------------------------------------
(* The theorems *)

LEMMA NextInv == IInv /\ [Next]_vars => IInv'
<1> SUFFICES ASSUME IInv, [Next]_vars PROVE IInv'
  OBVIOUS
<1>1. CASE Code
  <2>1. ASSUME NEW op \in {"heap", "keys", "range", "look", "key", "kill"}, Leave(op) PROVE IInv'
    BY <2>1, LeaveInv DEF Ops, UserOps, IrqOps
  <2>2. ASSUME Dispatch PROVE IInv'
    BY <2>2, DispatchQueue, DispatchStacks, HalvesPrime
  <2> QED
    BY <1>1, <2>1, <2>2, AcquireInv, CreateAllocInv, CreateOkInv, CreateNoStackInv,
       CreateFailInv, KillInv, ExitInv, ReapInv, TimerEndInv DEF Code, Leaves
<1>2. CASE \E op \in UserOps : Call(op)
  BY <1>2, CallInv
<1>3. CASE TimerIrq \/ KeyIrq
  BY <1>3, TimerIrqInv, KeyIrqInv
<1>4. CASE UNCHANGED vars
  BY <1>4 DEF vars, IInv, TypeOK, SomebodyRuns, Nesting, OffCpu, ThreadLockHere,
     LocksMatchSections, Inside, Here
<1> QED
  BY <1>1, <1>2, <1>3, <1>4 DEF Next

(* The inductive invariant holds in every state of the kernel.              *)
THEOREM SpecIInv == Spec => []IInv
BY InitInv, NextInv, PTL DEF Spec

(* Every lock names the stack in its section, and a section is entered once *)
(* although timer_handler clears g_thread_lock again on its way back.       *)
THEOREM SpecLocksMatchSections == Spec => []LocksMatchSections
<1>1. IInv => LocksMatchSections
  BY DEF IInv
<1> QED
  BY <1>1, SpecIInv, PTL

(* A lock the code on the CPU waits for: its holder was interrupted.        *)
LEMMA WaitsInv == IInv => WaitsOnlyForInterrupted
<1> SUFFICES ASSUME IInv, Waits, lock[Wanted] # Free
             PROVE  Wanted # "thread" /\ InterruptedIn(lock[Wanted], Wanted)
  BY DEF WaitsOnlyForInterrupted
<1> DEFINE m == Wanted
           h == lock[m]
<1>1. m \in Locks /\ h \in Tid
  BY LockOfType DEF Wanted, IInv, TypeOK
<1>2. Here # <<>> /\ ~Last(Here).in /\ m = LockOf(Last(Here).op)
  BY DEF Waits, Wanted
<1>3. PICK i \in DOMAIN stack[h] : stack[h][i].in /\ stack[h][i].op # "timerEnd" /\ LockOf(stack[h][i].op) = m
  BY <1>1 DEF IInv, LocksMatchSections, SectionsOf
<1>4. stack[h] \in Seq(Section) /\ WellNested(stack[h])
  BY <1>1 DEF IInv, TypeOK, Nesting
<1>5. /\ Len(Here) \in DOMAIN Here /\ Last(Here) = Here[Len(Here)] /\ Last(Here) \in Section
      /\ Last(Here).op \notin {"timer", "timerEnd"}
  BY <1>2, HereFacts
<1>6. m # "thread"
  <2> SUFFICES ASSUME m = "thread" PROVE FALSE
    OBVIOUS
  <2>1. h = cpu
    BY <1>1, TidFacts DEF IInv, ThreadLockHere
  <2>2. Last(Here).op \notin IrqOps \cup {"heap"}
    BY <1>2, <1>5 DEF LockOf, IrqOps
  <2>3. Len(Here) = 1
    BY <1>2, <2>2, Alone
  <2>4. i = 1
    BY <1>3, <2>1, <2>3 DEF Here
  <2> QED
    BY <1>2, <1>3, <1>5, <2>1, <2>3, <2>4 DEF Here
<1>7. \E j \in DOMAIN stack[h] : i < j /\ stack[h][j].op \in IrqOps
  <2>1. CASE h = cpu
    <3>1. i # Len(stack[h])
      BY <1>2, <1>3, <1>5, <2>1 DEF Here
    <3>2. i \in 1 .. Len(stack[h]) /\ Len(stack[h]) \in Nat
      BY <1>3, <1>4
    <3>3. i < Len(stack[h]) /\ i + 1 \in DOMAIN stack[h] /\ i < i + 1
      BY <1>4, <3>1, <3>2
    <3>4. stack[h][i + 1].op \in IrqOps
      BY <1>3, <1>4, <1>6, <3>3 DEF WellNested
    <3> QED
      BY <3>3, <3>4
  <2>2. CASE h # cpu
    <3>1. stack[h] # <<>>
      BY <1>3
    <3>2. Last(stack[h]).op = "timerEnd"
      BY <1>1, <2>2, <3>1 DEF IInv, OffCpu
    <3>3. Len(stack[h]) \in DOMAIN stack[h] /\ Last(stack[h]) = stack[h][Len(stack[h])]
      BY <1>4, <3>1, PopFacts DEF Last
    <3>4. i # Len(stack[h])
      BY <1>3, <3>2, <3>3
    <3>5. i \in 1 .. Len(stack[h]) /\ Len(stack[h]) \in Nat
      BY <1>3, <1>4
    <3>6. i < Len(stack[h])
      BY <3>4, <3>5
    <3> QED
      BY <3>2, <3>3, <3>6 DEF IrqOps
  <2> QED
    BY <2>1, <2>2
<1> QED
  BY <1>3, <1>6, <1>7 DEF InterruptedIn

(* Nobody waits for g_thread_lock, and any other lock is waited for only    *)
(* when an interrupt hit its holder: kmalloc in thread_create, kfree in the *)
(* reaper and the reaper in the timer interrupt make no other deadlock.     *)
THEOREM SpecWaitsOnlyForInterrupted == Spec => []WaitsOnlyForInterrupted
BY SpecIInv, WaitsInv, PTL
=============================================================================
