---------------------------- MODULE MemoryProofs ----------------------------
(***************************************************************************)
(* Proofs about the two heaps for every size of the address space, of the  *)
(* chunks and of the requests, and any number of frames and programs.      *)
(*                                                                         *)
(* The first part says what the operations of the list of free blocks do,  *)
(* for the sequence as a set of blocks and for the cells of these blocks;  *)
(* it is shared by both heaps, as the code is.                             *)
(***************************************************************************)
EXTENDS Memory, SequenceTheorems, FiniteSetTheorems, WellFoundedInduction, TLAPS

USE PageAssumption

-----------------------------------------------------------------------------
(* Lists                                                                    *)

Once(l)  == \A i, j \in DOMAIN l : l[i] = l[j] => i = j

(* Unlinking the block at place k. *)
LEMMA RemoveAtFacts ==
  ASSUME NEW T, NEW q \in Seq(T), NEW k \in DOMAIN q, Once(q)
  PROVE  /\ RemoveAt(q, k) \in Seq(T)
         /\ Once(RemoveAt(q, k))
         /\ Range(RemoveAt(q, k)) = Range(q) \ {q[k]}
         /\ Len(RemoveAt(q, k)) = Len(q) - 1
         /\ \A i \in 1 .. k - 1 : RemoveAt(q, k)[i] = q[i]
<1> DEFINE a == SubSeq(q, 1, k - 1)
           b == SubSeq(q, k + 1, Len(q))
           r == RemoveAt(q, k)
<1>1. k \in 1 .. Len(q) /\ Len(q) \in Nat /\ DOMAIN q = 1 .. Len(q)
  OBVIOUS
<1>2. a \in Seq(T) /\ Len(a) = k - 1 /\ \A i \in 1 .. k - 1 : a[i] = q[i]
  BY <1>1
<1>3. b \in Seq(T) /\ Len(b) = Len(q) - k /\ \A i \in 1 .. Len(q) - k : b[i] = q[i + k]
  BY <1>1
<1>4. r = a \o b
  BY DEF RemoveAt
<1> HIDE DEF a, b, r
<1>5. /\ a \o b \in Seq(T) /\ Len(a \o b) = Len(a) + Len(b)
      /\ \A i \in 1 .. Len(a) + Len(b) : (a \o b)[i] = IF i <= Len(a) THEN a[i] ELSE b[i - Len(a)]
  BY <1>2, <1>3, ConcatProperties
<1>6. r \in Seq(T) /\ DOMAIN r = 1 .. Len(q) - 1 /\ Len(r) = Len(q) - 1
  <2>1. r \in Seq(T) /\ Len(r) = Len(a) + Len(b)
    BY <1>4, <1>5
  <2>2. Len(r) = Len(q) - 1
    BY <2>1, <1>1, <1>2, <1>3
  <2>3. DOMAIN r = 1 .. Len(r)
    BY <2>1
  <2> QED
    BY <2>1, <2>2, <2>3
<1>7. ASSUME NEW i \in 1 .. k - 1 PROVE r[i] = q[i]
  <2>1. i \in 1 .. Len(a) + Len(b) /\ i <= Len(a)
    BY <1>1, <1>2, <1>3
  <2>2. r[i] = a[i]
    BY <2>1, <1>4, <1>5
  <2> QED
    BY <2>2, <1>2
<1>8. ASSUME NEW i \in k .. Len(q) - 1 PROVE r[i] = q[i + 1]
  <2>1. i - (k - 1) \in 1 .. Len(q) - k /\ i - (k - 1) + k = i + 1
    <3>1. k \in Int /\ i \in Int /\ Len(q) \in Int /\ k <= i /\ i <= Len(q) - 1
      BY <1>1
    <3> QED
      BY <3>1
  <2>2. r[i] = b[i - (k - 1)]
    <3>1. i \in 1 .. Len(a) + Len(b) /\ ~(i <= Len(a)) /\ i - Len(a) = i - (k - 1)
      BY <1>1, <1>2, <1>3
    <3> QED
      BY <3>1, <1>4, <1>5
  <2> QED
    BY <2>1, <2>2, <1>3
<1>9. Once(r)
  <2> DEFINE old(i) == IF i < k THEN i ELSE i + 1
  <2> SUFFICES ASSUME NEW i \in 1 .. Len(q) - 1, NEW j \in 1 .. Len(q) - 1, r[i] = r[j]
               PROVE  i = j
    BY <1>6 DEF Once
  <2>1. r[i] = q[old(i)] /\ r[j] = q[old(j)]
    BY <1>1, <1>7, <1>8
  <2>2. old(i) \in DOMAIN q /\ old(j) \in DOMAIN q
    BY <1>1
  <2>3. old(i) = old(j)
    <3> HIDE DEF old
    <3> QED BY <2>1, <2>2 DEF Once
  <2> QED
    BY <2>3, <1>1
<1>10. ASSUME NEW i \in DOMAIN r PROVE r[i] \in Range(q) \ {q[k]}
  <2>1. CASE i < k
    <3>1. i \in 1 .. k - 1 /\ i \in DOMAIN q /\ i # k
      BY <1>1, <1>6, <2>1
    <3> QED
      BY <3>1, <1>7 DEF Range, Once
  <2>2. CASE ~(i < k)
    <3>1. i \in k .. Len(q) - 1 /\ i + 1 \in DOMAIN q /\ i + 1 # k
      BY <1>1, <1>6, <2>2
    <3> QED
      BY <3>1, <1>8 DEF Range, Once
  <2> QED
    BY <2>1, <2>2
<1>11. ASSUME NEW x \in Range(q) \ {q[k]} PROVE \E i \in DOMAIN r : r[i] = x
  <2>1. PICK i \in DOMAIN q : q[i] = x
    BY DEF Range
  <2>2. CASE i < k
    <3>1. i \in 1 .. k - 1 /\ i \in DOMAIN r
      BY <1>1, <1>6, <2>2
    <3> QED
      BY <3>1, <2>1, <1>7
  <2>3. CASE i > k
    <3>1. i - 1 \in k .. Len(q) - 1 /\ i - 1 \in DOMAIN r /\ i - 1 + 1 = i
      BY <1>1, <1>6, <2>3
    <3> QED
      BY <3>1, <2>1, <1>8
  <2> QED
    BY <1>1, <2>1, <2>2, <2>3
<1>12. Range(r) = Range(q) \ {q[k]}
  BY <1>10, <1>11, Zenon DEF Range
<1> QED
  BY <1>6, <1>7, <1>9, <1>12 DEF r

(* Linking a block that is not on the list in at place k. *)
LEMMA InsertAtFacts ==
  ASSUME NEW T, NEW q \in Seq(T), NEW k \in 1 .. Len(q) + 1, NEW x \in T,
         Once(q), x \notin Range(q)
  PROVE  /\ InsertAt(q, k, x) \in Seq(T)
         /\ Once(InsertAt(q, k, x))
         /\ Range(InsertAt(q, k, x)) = Range(q) \cup {x}
         /\ DOMAIN InsertAt(q, k, x) = 1 .. Len(q) + 1
         /\ InsertAt(q, k, x)[k] = x
         /\ \A i \in 1 .. k - 1 : InsertAt(q, k, x)[i] = q[i]
<1> DEFINE a == SubSeq(q, 1, k - 1)
           b == SubSeq(q, k, Len(q))
           c == a \o <<x>>
           r == InsertAt(q, k, x)
<1>1. k \in Nat /\ Len(q) \in Nat /\ DOMAIN q = 1 .. Len(q)
  OBVIOUS
<1>2. a \in Seq(T) /\ Len(a) = k - 1 /\ \A i \in 1 .. k - 1 : a[i] = q[i]
  BY <1>1
<1>3. b \in Seq(T) /\ Len(b) = Len(q) - k + 1 /\ \A i \in 1 .. Len(q) - k + 1 : b[i] = q[i + k - 1]
  BY <1>1
<1>4. <<x>> \in Seq(T) /\ Len(<<x>>) = 1 /\ <<x>>[1] = x
  OBVIOUS
<1>5. r = c \o b
  BY DEF InsertAt
<1> HIDE DEF a, b, r
<1>6. /\ c \in Seq(T) /\ Len(c) = Len(a) + 1
      /\ \A i \in 1 .. Len(a) + 1 : c[i] = IF i <= Len(a) THEN a[i] ELSE x
  <2>1. /\ a \o <<x>> \in Seq(T) /\ Len(a \o <<x>>) = Len(a) + Len(<<x>>)
        /\ \A i \in 1 .. Len(a) + Len(<<x>>) :
             (a \o <<x>>)[i] = IF i <= Len(a) THEN a[i] ELSE <<x>>[i - Len(a)]
    BY <1>2, <1>4, ConcatProperties
  <2>2. ASSUME NEW i \in 1 .. Len(a) + 1, ~(i <= Len(a)) PROVE i - Len(a) = 1
    BY <1>1, <1>2, <2>2
  <2> QED
    BY <2>1, <2>2, <1>4
<1> HIDE DEF c
<1>7. /\ c \o b \in Seq(T) /\ Len(c \o b) = Len(c) + Len(b)
      /\ \A i \in 1 .. Len(c) + Len(b) : (c \o b)[i] = IF i <= Len(c) THEN c[i] ELSE b[i - Len(c)]
  BY <1>3, <1>6, ConcatProperties
<1>8. r \in Seq(T) /\ DOMAIN r = 1 .. Len(q) + 1
  BY <1>1, <1>2, <1>3, <1>5, <1>6, <1>7
<1>9. ASSUME NEW i \in 1 .. k - 1 PROVE r[i] = q[i]
  <2>1. i \in 1 .. Len(c) + Len(b) /\ i <= Len(c) /\ i \in 1 .. Len(a) + 1 /\ i <= Len(a)
    BY <1>1, <1>2, <1>3, <1>6
  <2>2. r[i] = c[i] /\ c[i] = a[i]
    BY <2>1, <1>5, <1>6, <1>7
  <2> QED
    BY <2>2, <1>2
<1>10. r[k] = x
  BY <1>1, <1>2, <1>3, <1>5, <1>6, <1>7
<1>11. ASSUME NEW i \in k + 1 .. Len(q) + 1 PROVE r[i] = q[i - 1]
  <2>1. i - k \in 1 .. Len(q) - k + 1 /\ i - k + k - 1 = i - 1
    BY <1>1
  <2>2. r[i] = b[i - k]
    BY <1>1, <1>2, <1>3, <1>5, <1>6, <1>7
  <2> QED
    BY <2>1, <2>2, <1>3
<1>12. ASSUME NEW i \in 1 .. Len(q) + 1, i # k
       PROVE  LET o == IF i < k THEN i ELSE i - 1 IN o \in DOMAIN q /\ r[i] = q[o]
  BY <1>1, <1>9, <1>11, <1>12
<1>13. ASSUME NEW i \in 1 .. Len(q) + 1, i # k PROVE r[i] # x
  BY <1>12, <1>13 DEF Range
<1>14. Once(r)
  <2> DEFINE old(i) == IF i < k THEN i ELSE i - 1
  <2> SUFFICES ASSUME NEW i \in 1 .. Len(q) + 1, NEW j \in 1 .. Len(q) + 1, r[i] = r[j]
               PROVE  i = j
    BY <1>8 DEF Once
  <2>1. CASE i = k \/ j = k
    BY <2>1, <1>10, <1>13
  <2>2. CASE i # k /\ j # k
    <3>1. r[i] = q[old(i)] /\ r[j] = q[old(j)] /\ old(i) \in DOMAIN q /\ old(j) \in DOMAIN q
      BY <1>12, <2>2
    <3>2. old(i) = old(j)
      <4> HIDE DEF old
      <4> QED BY <3>1 DEF Once
    <3> QED
      BY <3>2, <2>2, <1>1
  <2> QED
    BY <2>1, <2>2
<1>15. ASSUME NEW i \in DOMAIN r PROVE r[i] \in Range(q) \cup {x}
  <2>1. CASE i = k
    BY <2>1, <1>10
  <2>2. CASE i # k
    BY <2>2, <1>8, <1>12 DEF Range
  <2> QED
    BY <2>1, <2>2
<1>16. ASSUME NEW y \in Range(q) \cup {x} PROVE \E i \in DOMAIN r : r[i] = y
  <2>1. CASE y = x
    BY <2>1, <1>1, <1>8, <1>10
  <2>2. CASE y # x
    <3>1. PICK i \in DOMAIN q : q[i] = y
      BY <2>2 DEF Range
    <3>2. CASE i < k
      BY <3>1, <3>2, <1>1, <1>8, <1>9
    <3>3. CASE ~(i < k)
      <4>1. i + 1 \in k + 1 .. Len(q) + 1 /\ i + 1 - 1 = i
        BY <3>3, <1>1
      <4>2. r[i + 1] = y /\ i + 1 \in DOMAIN r
        BY <4>1, <3>1, <1>1, <1>8, <1>11
      <4> QED
        BY <4>2
    <3> QED
      BY <3>2, <3>3
  <2> QED
    BY <2>1, <2>2
<1>17. Range(r) = Range(q) \cup {x}
  BY <1>15, <1>16, Zenon DEF Range
<1> QED
  BY <1>8, <1>9, <1>10, <1>14, <1>17 DEF r

(* The list r holds the blocks S, each of them once. *)
Holds(T, r, S) == r \in Seq(T) /\ Once(r) /\ Range(r) = S

(* The header at place k moves to x. *)
LEMMA ReplaceFacts ==
  ASSUME NEW T, NEW q \in Seq(T), NEW k \in DOMAIN q, NEW x \in T, Once(q), x \notin Range(q)
  PROVE  Holds(T, [q EXCEPT ![k] = x], (Range(q) \ {q[k]}) \cup {x})
<1> DEFINE r == [q EXCEPT ![k] = x]
<1>1. r \in Seq(T) /\ DOMAIN r = DOMAIN q /\ r[k] = x /\ \A i \in DOMAIN q \ {k} : r[i] = q[i]
  OBVIOUS
<1> HIDE DEF r
<1>2. Once(r)
  BY <1>1 DEF Once, Range
<1>3. Range(r) = (Range(q) \ {q[k]}) \cup {x}
  BY <1>1 DEF Once, Range
<1> QED
  BY <1>1, <1>2, <1>3 DEF r, Holds

(* The block put in front of all others. *)
LEMMA PrependFacts ==
  ASSUME NEW T, NEW q \in Seq(T), NEW x \in T, Once(q), x \notin Range(q)
  PROVE  /\ <<x>> \o q \in Seq(T)
         /\ Once(<<x>> \o q)
         /\ Range(<<x>> \o q) = Range(q) \cup {x}
<1> DEFINE r == <<x>> \o q
<1>1. <<x>> \in Seq(T) /\ Len(<<x>>) = 1 /\ <<x>>[1] = x /\ Len(q) \in Nat /\ DOMAIN q = 1 .. Len(q)
  OBVIOUS
<1>2. /\ r \in Seq(T) /\ Len(r) = 1 + Len(q)
      /\ \A i \in 1 .. 1 + Len(q) : r[i] = IF i <= 1 THEN <<x>>[i] ELSE q[i - 1]
  BY <1>1, ConcatProperties
<1> HIDE DEF r
<1>3. DOMAIN r = 1 .. Len(q) + 1 /\ r[1] = x /\ \A i \in 1 .. Len(q) : r[i + 1] = q[i]
  BY <1>1, <1>2
<1>4. \A i \in DOMAIN r : i = 1 \/ (i - 1 \in DOMAIN q /\ r[i] = q[i - 1])
  BY <1>1, <1>2
<1>5. Once(r)
  BY <1>1, <1>3, <1>4 DEF Once, Range
<1>6. Range(r) \subseteq Range(q) \cup {x}
  BY <1>1, <1>3, <1>4 DEF Range
<1>7. ASSUME NEW y \in Range(q) PROVE y \in Range(r)
  <2>1. PICK i \in DOMAIN q : q[i] = y
    BY DEF Range
  <2>2. i + 1 \in DOMAIN r /\ r[i + 1] = y
    BY <2>1, <1>1, <1>3
  <2> QED
    BY <2>2 DEF Range
<1>8. x \in Range(r)
  BY <1>1, <1>3 DEF Range
<1> QED
  BY <1>2, <1>5, <1>6, <1>7, <1>8 DEF r

(* First names the least member of a set of numbers that is not empty.      *)
LEMMA FirstFacts ==
  ASSUME NEW S \in SUBSET Nat, S # {}
  PROVE  First(S) \in S /\ \A i \in S : First(S) <= i
<1> DEFINE R == OpToRel(<, Nat)
<1>1. ASSUME NEW a \in Nat, NEW b \in Nat, a < b PROVE <<a, b>> \in R
  BY <1>1 DEF OpToRel
<1>2. IsWellFoundedOn(R, Nat)
  BY NatLessThanWellFounded
<1> HIDE DEF R
<1>3. PICK p \in S : \A q \in S : ~ (<<q, p>> \in R)
  BY <1>2, WFMin
<1>4. ASSUME NEW q \in S PROVE p <= q
  <2>1. ~ (<<q, p>> \in R)
    BY <1>3
  <2>2. ~ (q < p)
    BY <2>1, <1>1
  <2> QED
    BY <2>2
<1> QED
  BY <1>3, <1>4, Zenon DEF First

(* A block has a place in the list. *)
LEMMA PlaceFacts ==
  ASSUME NEW D, NEW l \in Seq(D), NEW b
  PROVE  Place(l, b) \in 1 .. Len(l) + 1
<1> DEFINE above == { i \in DOMAIN l : l[i] > b }
<1>1. DOMAIN l = 1 .. Len(l) /\ Len(l) \in Nat
  OBVIOUS
<1>2. above \in SUBSET Nat /\ above \subseteq 1 .. Len(l)
  BY <1>1
<1>3. Place(l, b) = IF above = {} THEN Len(l) + 1 ELSE First(above)
  BY Zenon DEF Place
<1> HIDE DEF above
<1>4. CASE above = {}
  BY <1>1, <1>3, <1>4
<1>5. CASE above # {}
  <2>1. First(above) \in above
    BY <1>2, <1>5, FirstFacts
  <2>2. First(above) \in 1 .. Len(l)
    BY <2>1, <1>2
  <2> QED
    BY <1>1, <1>3, <1>5, <2>2
<1> QED
  BY <1>4, <1>5

-----------------------------------------------------------------------------
(* Blocks and their cells                                                   *)

CellsOf(s, B) == UNION { b .. BlockEnd(s, b) - 1 : b \in B }

(* The sizes after x has taken in its neighbour y. *)
JoinedSizes(s, x, y) == [s EXCEPT ![x] = @ + Hdr + s[y], ![y] = 0]

(* x and y are two of the blocks B, which lie apart, and x ends where y starts. *)
Touch(D, s, B, x, y) ==
  /\ D \subseteq Nat /\ s \in [D -> Nat] /\ B \subseteq D /\ Apart(s, B)
  /\ x \in B /\ y \in B /\ y = BlockEnd(s, x)

(* With the sizes t, x holds what x and y held. *)
OneBlock(D, s, B, x, y, t) ==
  /\ t \in [D -> Nat]
  /\ \A z \in D \ {x, y} : t[z] = s[z]
  /\ BlockEnd(t, x) = BlockEnd(s, y)
  /\ Apart(t, B \ {y})
  /\ CellsOf(t, B \ {y}) = CellsOf(s, B)

(* Two blocks that touch become one: the blocks still lie apart and hold    *)
(* the same cells.                                                          *)
LEMMA Joined ==
  ASSUME NEW D, NEW s, NEW B, NEW x, NEW y, Touch(D, s, B, x, y)
  PROVE  OneBlock(D, s, B, x, y, JoinedSizes(s, x, y))
<1> DEFINE t == JoinedSizes(s, x, y)
<1>0. /\ D \subseteq Nat /\ s \in [D -> Nat] /\ B \subseteq D /\ Apart(s, B)
      /\ x \in B /\ y \in B /\ y = BlockEnd(s, x)
  BY DEF Touch
<1> USE <1>0
<1>1. x \in Nat /\ y \in Nat /\ x \in D /\ y \in D /\ s[x] \in Nat /\ s[y] \in Nat /\ y = x + 2 + s[x]
  BY <1>0 DEF BlockEnd, Hdr
<1>2. x # y /\ t \in [D -> Nat] /\ t[x] = s[x] + 2 + s[y] /\ \A z \in D \ {x, y} : t[z] = s[z]
  BY <1>0, <1>1 DEF Hdr, JoinedSizes
<1> HIDE DEF t
<1>3. BlockEnd(t, x) = BlockEnd(s, y)
  BY <1>1, <1>2 DEF BlockEnd, Hdr
<1>4. ASSUME NEW z \in D \ {x, y} PROVE BlockEnd(t, z) = BlockEnd(s, z)
  BY <1>2 DEF BlockEnd
<1>5. ASSUME NEW z \in B PROVE z \in Nat /\ BlockEnd(s, z) \in Nat /\ z < BlockEnd(s, z)
  BY DEF BlockEnd, Hdr
<1>6. ASSUME NEW z \in B \ {x, y} PROVE BlockEnd(t, x) <= z \/ BlockEnd(t, z) <= x
  <2>1. BlockEnd(s, x) <= z \/ BlockEnd(s, z) <= x
    BY DEF Apart
  <2>2. BlockEnd(s, y) <= z \/ BlockEnd(s, z) <= y
    BY DEF Apart
  <2>3. /\ z \in Nat /\ BlockEnd(s, z) \in Nat /\ z < BlockEnd(s, z)
        /\ BlockEnd(s, y) \in Nat /\ BlockEnd(t, z) = BlockEnd(s, z)
    BY <1>4, <1>5
  <2> QED
    BY <2>1, <2>2, <2>3, <1>1, <1>3
<1>7. Apart(t, B \ {y})
  <2> SUFFICES ASSUME NEW b \in B \ {y}, NEW c \in B \ {y}, b # c
               PROVE  BlockEnd(t, b) <= c \/ BlockEnd(t, c) <= b
    BY DEF Apart
  <2>1. CASE b = x \/ c = x
    BY <2>1, <1>6
  <2>2. CASE b # x /\ c # x
    BY <2>2, <1>4 DEF Apart
  <2> QED
    BY <2>1, <2>2
<1>8. ASSUME NEW a PROVE a \in x .. BlockEnd(t, x) - 1 <=> a \in x .. BlockEnd(s, x) - 1 \/ a \in y .. BlockEnd(s, y) - 1
  BY <1>1, <1>3, <1>5
<1>9. ASSUME NEW a \in CellsOf(t, B \ {y}) PROVE a \in CellsOf(s, B)
  <2>1. PICK b \in B \ {y} : a \in b .. BlockEnd(t, b) - 1
    BY DEF CellsOf
  <2>2. CASE b = x
    BY <2>1, <2>2, <1>8 DEF CellsOf
  <2>3. CASE b # x
    BY <2>1, <2>3, <1>4 DEF CellsOf
  <2> QED
    BY <2>2, <2>3
<1>10. ASSUME NEW a \in CellsOf(s, B) PROVE a \in CellsOf(t, B \ {y})
  <2>1. PICK b \in B : a \in b .. BlockEnd(s, b) - 1
    BY DEF CellsOf
  <2>2. CASE b \in {x, y}
    BY <2>1, <2>2, <1>2, <1>8 DEF CellsOf
  <2>3. CASE b \notin {x, y}
    BY <2>1, <2>3, <1>4 DEF CellsOf
  <2> QED
    BY <2>2, <2>3
<1>11. CellsOf(t, B \ {y}) = CellsOf(s, B)
  BY <1>9, <1>10
<1> QED
  BY <1>2, <1>3, <1>7, <1>11 DEF t, OneBlock

(* A merge of the block at place i of list l gives the list r and sizes t. *)
MergeOf(D, s, l, i, r, t) ==
  /\ D \subseteq Nat /\ s \in [D -> Nat] /\ l \in Seq(D) /\ Once(l) /\ i \in Nat \ {0}
  /\ MergeNext(l, s, i) = [list |-> r, size |-> t]

(* MergeNext leaves list and sizes alone or joins the block at place i with *)
(* the one it touches, which leaves the list.                               *)
LEMMA MergeNextFacts ==
  ASSUME NEW D, NEW s, NEW l, NEW i, NEW r, NEW t, MergeOf(D, s, l, i, r, t)
  PROVE  /\ r \in Seq(D) /\ Once(r)
         /\ \A j \in 1 .. i : j <= Len(l) => j <= Len(r) /\ r[j] = l[j]
         /\ \/ t = s /\ r = l
            \/ \E x, y \in Range(l) :
                  /\ i < Len(l) /\ x = l[i] /\ y = l[i + 1]
                  /\ y = BlockEnd(s, x)
                  /\ t = JoinedSizes(s, x, y)
                  /\ Range(r) = Range(l) \ {y}
<1> USE DEF MergeOf
<1>1. DOMAIN l = 1 .. Len(l) /\ Len(l) \in Nat
  OBVIOUS
<1>2. CASE ~(i < Len(l) /\ BlockEnd(s, l[i]) = l[i + 1])
  <2>1. [list |-> r, size |-> t] = [list |-> l, size |-> s]
    BY <1>2 DEF MergeNext
  <2>2. r = l /\ t = s
    BY <2>1
  <2> QED
    BY <2>2
<1>3. CASE i < Len(l) /\ BlockEnd(s, l[i]) = l[i + 1]
  <2> DEFINE x == l[i]
             y == l[i + 1]
             u == RemoveAt(l, i + 1)
             v == JoinedSizes(s, x, y)
  <2>1. i \in DOMAIN l /\ i + 1 \in DOMAIN l
    BY <1>1, <1>3
  <2>2. [list |-> r, size |-> t] = [list |-> u, size |-> v]
    BY <1>3 DEF MergeNext, JoinedSizes
  <2> HIDE DEF u, v
  <2>3. r = u /\ t = v
    BY <2>2
  <2>4. /\ r \in Seq(D) /\ Once(r) /\ Range(r) = Range(l) \ {y} /\ Len(r) = Len(l) - 1
        /\ \A j \in 1 .. i + 1 - 1 : r[j] = l[j]
    <3>1. /\ u \in Seq(D) /\ Once(u) /\ Range(u) = Range(l) \ {l[i + 1]} /\ Len(u) = Len(l) - 1
          /\ \A j \in 1 .. i + 1 - 1 : u[j] = l[j]
      BY <2>1, RemoveAtFacts DEF u
    <3> QED
      BY <3>1, <2>3
  <2>5. \A j \in 1 .. i : j <= Len(r) /\ r[j] = l[j]
    BY <1>1, <1>3, <2>4
  <2>6. x \in Range(l) /\ y \in Range(l)
    BY <2>1 DEF Range
  <2>7. y = BlockEnd(s, x) /\ t = JoinedSizes(s, x, y)
    BY <1>3, <2>3 DEF v
  <2> QED
    BY <1>3, <2>4, <2>5, <2>6, <2>7
<1> QED
  BY <1>2, <1>3

(* Of the blocks S of B some are taken in by others, which leaves the list  *)
(* r, the sizes t and the blocks C.                                         *)
Coalesced(D, S, s, B, r, t, C) ==
  /\ r \in Seq(D) /\ Once(r) /\ t \in [D -> Nat]
  /\ Range(r) \subseteq S
  /\ C = B \ (S \ Range(r))
  /\ Apart(t, C) /\ CellsOf(t, C) = CellsOf(s, B)
  /\ \A z \in D \ S : t[z] = s[z]
  /\ \A z \in Range(r) : \E e \in S : BlockEnd(t, z) = BlockEnd(s, e)

LEMMA MergeKeeps ==
  ASSUME NEW D \in SUBSET Nat, NEW s \in [D -> Nat], NEW l \in Seq(D), Once(l), NEW i \in Nat \ {0},
         NEW B \in SUBSET D, Range(l) \subseteq B, Apart(s, B),
         NEW r, NEW t, MergeNext(l, s, i) = [list |-> r, size |-> t]
  PROVE  Coalesced(D, Range(l), s, B, r, t, B \ (Range(l) \ Range(r)))
<1> DEFINE C == B \ (Range(l) \ Range(r))
<1>0. MergeOf(D, s, l, i, r, t)
  BY DEF MergeOf
<1>1. r \in Seq(D) /\ Once(r)
  BY <1>0, MergeNextFacts
<1>2. CASE t = s /\ r = l
  <2>1. C = B
    BY <1>2
  <2> QED
    BY <1>1, <1>2, <2>1 DEF Coalesced
<1>3. ASSUME NEW x \in Range(l), NEW y \in Range(l), y = BlockEnd(s, x),
             t = JoinedSizes(s, x, y),
             Range(r) = Range(l) \ {y}
      PROVE  Coalesced(D, Range(l), s, B, r, t, C)
  <2>1. C = B \ {y}
    BY <1>3
  <2>2. x \in B /\ y \in B
    OBVIOUS
  <2>3. /\ t \in [D -> Nat]
        /\ \A z \in D \ {x, y} : t[z] = s[z]
        /\ BlockEnd(t, x) = BlockEnd(s, y)
        /\ Apart(t, B \ {y})
        /\ CellsOf(t, B \ {y}) = CellsOf(s, B)
    <3>1. Touch(D, s, B, x, y)
      BY <1>3, <2>2 DEF Touch
    <3>2. OneBlock(D, s, B, x, y, JoinedSizes(s, x, y))
      BY <3>1, Joined, Zenon
    <3>3. OneBlock(D, s, B, x, y, t)
      BY <3>2, <1>3, Zenon
    <3> QED
      BY <3>3 DEF OneBlock
  <2>4. ASSUME NEW z \in Range(r) PROVE \E e \in Range(l) : BlockEnd(t, z) = BlockEnd(s, e)
    <3>1. CASE z = x
      BY <3>1, <2>3
    <3>2. CASE z # x
      <4>1. z \in Range(l) /\ z \in D \ {x, y}
        BY <3>2, <1>3
      <4>2. BlockEnd(t, z) = BlockEnd(s, z)
        BY <4>1, <2>3 DEF BlockEnd
      <4> QED
        BY <4>1, <4>2
    <3> QED
      BY <3>1, <3>2
  <2>5. \A z \in D \ Range(l) : t[z] = s[z]
    BY <2>3
  <2> QED
    BY <1>1, <1>3, <2>1, <2>3, <2>4, <2>5 DEF Coalesced
<1>4. \/ t = s /\ r = l
      \/ \E x, y \in Range(l) :
            /\ y = BlockEnd(s, x)
            /\ t = JoinedSizes(s, x, y)
            /\ Range(r) = Range(l) \ {y}
  <2>1. \/ t = s /\ r = l
        \/ \E x, y \in Range(l) :
              /\ i < Len(l) /\ x = l[i] /\ y = l[i + 1]
              /\ y = BlockEnd(s, x)
              /\ t = JoinedSizes(s, x, y)
              /\ Range(r) = Range(l) \ {y}
    BY <1>0, MergeNextFacts
  <2> QED
    BY <2>1, Zenon
<1> QED
  BY <1>2, <1>3, <1>4

(* A merge after a merge. *)
LEMMA CoalescedTwice ==
  ASSUME NEW D, NEW S, NEW s, NEW B, NEW r, NEW t, NEW C, NEW q, NEW v, NEW E,
         S \subseteq B, S \subseteq D,
         Coalesced(D, S, s, B, r, t, C), Coalesced(D, Range(r), t, C, q, v, E)
  PROVE  Coalesced(D, S, s, B, q, v, E)
<1>1. Range(q) \subseteq Range(r) /\ Range(r) \subseteq S
  BY DEF Coalesced
<1>2. E = B \ (S \ Range(q))
  BY <1>1 DEF Coalesced
<1>3. ASSUME NEW z \in Range(q) PROVE \E e \in S : BlockEnd(v, z) = BlockEnd(s, e)
  <2>1. PICK y \in Range(r) : BlockEnd(v, z) = BlockEnd(t, y)
    BY DEF Coalesced
  <2>2. PICK e \in S : BlockEnd(t, y) = BlockEnd(s, e)
    BY DEF Coalesced
  <2> QED
    BY <2>1, <2>2
<1>4. \A z \in D \ S : v[z] = s[z]
  BY <1>1 DEF Coalesced
<1> QED
  BY <1>1, <1>2, <1>3, <1>4 DEF Coalesced

(* A block comes back to the list: insertion and the two merges. *)
LEMMA ReturnedKeeps ==
  ASSUME NEW D \in SUBSET Nat, NEW s \in [D -> Nat], NEW l \in Seq(D), Once(l),
         NEW b \in D, b \notin Range(l),
         NEW B \in SUBSET D, Range(l) \cup {b} \subseteq B, Apart(s, B),
         NEW r, NEW t, r = Returned(l, s, b).list, t = Returned(l, s, b).size
  PROVE  Coalesced(D, Range(l) \cup {b}, s, B, r, t, B \ ((Range(l) \cup {b}) \ Range(r)))
<1> DEFINE S == Range(l) \cup {b}
           i == Place(l, b)
           q == InsertAt(l, i, b)
           next == MergeNext(q, s, i)
           C == B \ (S \ Range(next.list))
<1>1. i \in 1 .. Len(l) + 1 /\ i \in Nat \ {0}
  <2>1. i \in 1 .. Len(l) + 1
    BY PlaceFacts
  <2> QED
    BY <2>1
<1> HIDE DEF i
<1>2. q \in Seq(D) /\ Once(q) /\ Range(q) = S
  BY <1>1, InsertAtFacts
<1>3. Returned(l, s, b) = IF i > 1 THEN MergeNext(next.list, next.size, i - 1) ELSE next
  BY Zenon DEF Returned, i
<1> HIDE DEF q
<1>4. next = [list |-> next.list, size |-> next.size]
  BY DEF MergeNext
<1>5. Coalesced(D, Range(q), s, B, next.list, next.size, B \ (Range(q) \ Range(next.list)))
  BY <1>1, <1>2, <1>4, MergeKeeps
<1>6. Coalesced(D, S, s, B, next.list, next.size, C)
  BY <1>2, <1>5
<1> HIDE DEF next
<1>7. CASE ~(i > 1)
  BY <1>3, <1>6, <1>7
<1>8. CASE i > 1
  <2> DEFINE m == next.list
             u == next.size
  <2>1. /\ m \in Seq(D) /\ Once(m) /\ u \in [D -> Nat] /\ Range(m) \subseteq S
        /\ Apart(u, C) /\ C = B \ (S \ Range(m))
    BY <1>6 DEF Coalesced
  <2>2. Range(m) \subseteq C /\ C \in SUBSET D
    BY <2>1
  <2>3. i - 1 \in Nat \ {0}
    BY <1>1, <1>8
  <2>4. MergeNext(m, u, i - 1) = [list |-> r, size |-> t]
    <3>1. MergeNext(m, u, i - 1) = [list |-> MergeNext(m, u, i - 1).list, size |-> MergeNext(m, u, i - 1).size]
      BY DEF MergeNext
    <3>2. r = MergeNext(m, u, i - 1).list /\ t = MergeNext(m, u, i - 1).size
      BY <1>3, <1>8
    <3> QED
      BY <3>1, <3>2
  <2> HIDE DEF m, u, C
  <2>5. Coalesced(D, Range(m), u, C, r, t, C \ (Range(m) \ Range(r)))
    BY <2>1, <2>2, <2>3, <2>4, MergeKeeps
  <2>6. Coalesced(D, S, s, B, m, u, C)
    BY <1>6 DEF m, u
  <2>7. Coalesced(D, S, s, B, r, t, C \ (Range(m) \ Range(r)))
    <3>1. S \subseteq B /\ S \subseteq D
      OBVIOUS
    <3> QED
      BY <2>5, <2>6, <3>1, CoalescedTwice
  <2> QED
    BY <2>7 DEF Coalesced
<1> QED
  BY <1>7, <1>8

(* The blocks that the return of b can join: those before its place, and a  *)
(* block that starts where b ends.                                          *)
Joining(l, s, b) ==
  {b} \cup { l[i] : i \in 1 .. Place(l, b) - 1 } \cup { a \in Range(l) : a = BlockEnd(s, b) }

(* A block x grown by its neighbour y holds the cells of the two. *)
Joins(D, s, x, y, t) ==
  D \subseteq Nat /\ s \in [D -> Nat] /\ x \in D /\ y \in D /\ y = BlockEnd(s, x) /\ t = JoinedSizes(s, x, y)

Spans(D, s, x, y, t) ==
  /\ t \in [D -> Nat] /\ x # y /\ \A z \in D \ {x, y} : t[z] = s[z]
  /\ x .. BlockEnd(t, x) - 1 = (x .. BlockEnd(s, x) - 1) \cup (y .. BlockEnd(s, y) - 1)

LEMMA JoinedSpan ==
  ASSUME NEW D, NEW s, NEW x, NEW y, NEW t, Joins(D, s, x, y, t)
  PROVE  Spans(D, s, x, y, t)
<1> USE DEF Joins
<1>1. x \in Nat /\ y \in Nat /\ s[x] \in Nat /\ s[y] \in Nat /\ y = x + 2 + s[x] /\ x # y
  BY DEF BlockEnd, Hdr
<1>2. t \in [D -> Nat] /\ t[x] = s[x] + 2 + s[y] /\ \A z \in D \ {x, y} : t[z] = s[z]
  BY <1>1 DEF JoinedSizes, Hdr
<1>3. BlockEnd(t, x) = y + 2 + s[y] /\ BlockEnd(s, x) = y /\ BlockEnd(s, y) = y + 2 + s[y]
  BY <1>1, <1>2 DEF BlockEnd, Hdr
<1>4. x .. BlockEnd(t, x) - 1 = (x .. BlockEnd(s, x) - 1) \cup (y .. BlockEnd(s, y) - 1)
  BY <1>1, <1>3
<1> QED
  BY <1>1, <1>2, <1>4 DEF Spans

(* What is on the list after b has come back to it: blocks that were on it  *)
(* and are as they were, and cells of the blocks that b can join.           *)
LEMMA ReturnedFrom ==
  ASSUME NEW D \in SUBSET Nat, NEW s \in [D -> Nat], NEW l \in Seq(D), Once(l),
         NEW b \in D, b \notin Range(l),
         NEW r, NEW t, r = Returned(l, s, b).list, t = Returned(l, s, b).size
  PROVE  /\ Range(r) # {}
         /\ \A z \in Range(r) : \/ z \in Range(l) /\ t[z] = s[z]
                                \/ z .. BlockEnd(t, z) - 1 \subseteq CellsOf(s, Joining(l, s, b))
<1> DEFINE S == Range(l) \cup {b}
           i == Place(l, b)
           q == InsertAt(l, i, b)
           next == MergeNext(q, s, i)
           m == next.list
           u == next.size
           W == Joining(l, s, b)
<1>1. i \in 1 .. Len(l) + 1 /\ i \in Nat \ {0} /\ Len(l) \in Nat
  <2>1. i \in 1 .. Len(l) + 1
    BY PlaceFacts
  <2> QED
    BY <2>1
<1>2. b \in W /\ (\A j \in 1 .. i - 1 : l[j] \in W) /\ (\A a \in Range(l) : a = BlockEnd(s, b) => a \in W)
  BY DEF Joining
<1> HIDE DEF i, W
<1>14. S \subseteq D
  BY DEF Range
<1>3. /\ q \in Seq(D) /\ Once(q) /\ Range(q) = S /\ DOMAIN q = 1 .. Len(l) + 1
      /\ q[i] = b /\ \A j \in 1 .. i - 1 : q[j] = l[j]
  BY <1>1, InsertAtFacts
<1>4. Returned(l, s, b) = IF i > 1 THEN MergeNext(next.list, next.size, i - 1) ELSE next
  BY Zenon DEF Returned, i
<1> HIDE DEF q
<1>5. next = [list |-> m, size |-> u]
  BY DEF MergeNext
<1>6. Len(q) = Len(l) + 1
  BY <1>1, <1>3
<1> HIDE DEF next
<1>7. MergeNext(q, s, i) = [list |-> m, size |-> u]
  BY <1>5 DEF next
<1> HIDE DEF m, u
<1>8. /\ m \in Seq(D) /\ Once(m)
      /\ \A j \in 1 .. i : j <= Len(q) => j <= Len(m) /\ m[j] = q[j]
      /\ \/ u = s /\ m = q
         \/ \E x, y \in Range(q) :
               /\ i < Len(q) /\ x = q[i] /\ y = q[i + 1]
               /\ y = BlockEnd(s, x)
               /\ u = JoinedSizes(s, x, y)
               /\ Range(m) = Range(q) \ {y}
  <2>1. MergeOf(D, s, q, i, m, u)
    BY <1>1, <1>3, <1>7 DEF MergeOf
  <2> QED
    BY <2>1, MergeNextFacts
<1> DEFINE Sound(w, z) == \/ z \in Range(l) /\ w[z] = s[z]
                          \/ z .. BlockEnd(w, z) - 1 \subseteq CellsOf(s, W)
<1>9. /\ u \in [D -> Nat] /\ Range(m) \subseteq S
      /\ \A z \in Range(m) \ {b} : z \in Range(l) /\ u[z] = s[z]
      /\ b .. BlockEnd(u, b) - 1 \subseteq CellsOf(s, W)
  <2>1. CASE u = s /\ m = q
    BY <2>1, <1>2, <1>3 DEF CellsOf
  <2>2. ASSUME NEW y \in Range(q), y = BlockEnd(s, b), u = JoinedSizes(s, b, y), Range(m) = Range(q) \ {y}
        PROVE  /\ u \in [D -> Nat] /\ Range(m) \subseteq S
               /\ \A z \in Range(m) \ {b} : z \in Range(l) /\ u[z] = s[z]
               /\ b .. BlockEnd(u, b) - 1 \subseteq CellsOf(s, W)
    <3>1. y \in D
      BY <1>3, <1>14
    <3>2. Joins(D, s, b, y, u)
      BY <2>2, <3>1 DEF Joins
    <3>10. Spans(D, s, b, y, u)
      BY <3>2, JoinedSpan
    <3>3. /\ u \in [D -> Nat] /\ b # y /\ \A z \in D \ {b, y} : u[z] = s[z]
          /\ b .. BlockEnd(u, b) - 1 = (b .. BlockEnd(s, b) - 1) \cup (y .. BlockEnd(s, y) - 1)
      BY <3>10 DEF Spans
    <3>4. y \in Range(l) /\ y \in W
      BY <1>2, <1>3, <2>2, <3>3
    <3>5. b .. BlockEnd(u, b) - 1 \subseteq CellsOf(s, W)
      BY <1>2, <3>3, <3>4 DEF CellsOf
    <3> QED
      BY <1>3, <1>14, <2>2, <3>3, <3>5
  <2> QED
    BY <1>3, <1>8, <2>1, <2>2
<1>10. ASSUME NEW z \in Range(m) PROVE Sound(u, z)
  BY <1>9
<1>11. Len(m) \in Nat /\ i <= Len(m) /\ DOMAIN m = 1 .. Len(m)
  BY <1>1, <1>6, <1>8
<1>12. CASE ~(i > 1)
  <2>1. r = m /\ t = u
    BY <1>4, <1>12 DEF m, u
  <2>2. m[i] \in Range(m)
    BY <1>1, <1>11 DEF Range
  <2> QED
    BY <2>1, <2>2, <1>10 DEF W
<1>13. CASE i > 1
  <2> DEFINE k == i - 1
  <2>1. k \in Nat \ {0} /\ k \in 1 .. i - 1 /\ k <= Len(m) /\ k + 1 = i /\ k <= Len(q)
    BY <1>1, <1>6, <1>11, <1>13
  <2>2. MergeNext(m, u, k) = [list |-> r, size |-> t]
    <3>1. MergeNext(m, u, k) = [list |-> MergeNext(m, u, k).list, size |-> MergeNext(m, u, k).size]
      BY DEF MergeNext
    <3>2. r = MergeNext(m, u, k).list /\ t = MergeNext(m, u, k).size
      BY <1>4, <1>13 DEF m, u
    <3> QED
      BY <3>1, <3>2
  <2>3. m[k] = l[k] /\ m[k + 1] = b /\ m[k] \in W /\ m[k] \in Range(m)
    <3>1. m[k] = q[k] /\ m[i] = q[i]
      BY <1>1, <1>6, <1>8, <2>1
    <3>2. m[k] \in Range(m)
      BY <1>11, <2>1 DEF Range
    <3> QED
      BY <1>2, <1>3, <2>1, <3>1, <3>2
  <2> HIDE DEF k
  <2>4. /\ r \in Seq(D) /\ k <= Len(r) /\ r[k] = m[k]
        /\ \/ t = u /\ r = m
           \/ \E x, y \in Range(m) :
                 /\ k < Len(m) /\ x = m[k] /\ y = m[k + 1]
                 /\ y = BlockEnd(u, x)
                 /\ t = JoinedSizes(u, x, y)
                 /\ Range(r) = Range(m) \ {y}
    <3>1. /\ r \in Seq(D) /\ Once(r)
          /\ \A j \in 1 .. k : j <= Len(m) => j <= Len(r) /\ r[j] = m[j]
          /\ \/ t = u /\ r = m
             \/ \E x, y \in Range(m) :
                   /\ k < Len(m) /\ x = m[k] /\ y = m[k + 1]
                   /\ y = BlockEnd(u, x)
                   /\ t = JoinedSizes(u, x, y)
                   /\ Range(r) = Range(m) \ {y}
      <4>1. MergeOf(D, u, m, k, r, t)
        BY <1>8, <1>9, <2>1, <2>2 DEF MergeOf
      <4> QED
        BY <4>1, MergeNextFacts
    <3>2. k \in 1 .. k
      BY <2>1
    <3> QED
      BY <2>1, <3>1, <3>2
  <2>5. Range(r) # {}
    <3>1. k \in DOMAIN r
      BY <2>1, <2>4
    <3> QED
      BY <3>1 DEF Range
  <2>6. CASE t = u /\ r = m
    BY <2>5, <2>6, <1>10 DEF W
  <2>7. ASSUME NEW x \in Range(m), x = m[k], b \in Range(m), b = BlockEnd(u, x),
               t = JoinedSizes(u, x, b), Range(r) = Range(m) \ {b}
        PROVE  \A z \in Range(r) : Sound(t, z)
    <3>1. x \in D /\ Range(m) \subseteq D
      BY <1>9, <1>14
    <3>7. Joins(D, u, x, b, t)
      BY <1>9, <2>7, <3>1 DEF Joins
    <3>10. Spans(D, u, x, b, t)
      BY <3>7, JoinedSpan
    <3>2. /\ x # b
          /\ \A z \in D \ {x, b} : t[z] = u[z]
          /\ x .. BlockEnd(t, x) - 1 = (x .. BlockEnd(u, x) - 1) \cup (b .. BlockEnd(u, b) - 1)
      BY <3>10 DEF Spans
    <3>3. BlockEnd(u, x) = BlockEnd(s, x)
      BY <1>9, <3>2 DEF BlockEnd
    <3>4. x .. BlockEnd(s, x) - 1 \subseteq CellsOf(s, W)
      BY <2>3, <2>7 DEF CellsOf
    <3>5. x .. BlockEnd(t, x) - 1 \subseteq CellsOf(s, W)
      BY <1>9, <3>2, <3>3, <3>4
    <3>6. ASSUME NEW z \in Range(r), z # x PROVE z \in Range(l) /\ t[z] = s[z]
      BY <1>9, <2>7, <3>1, <3>2, <3>6
    <3> QED
      BY <3>5, <3>6
  <2>8. CASE \E x, y \in Range(m) :
                 /\ k < Len(m) /\ x = m[k] /\ y = m[k + 1]
                 /\ y = BlockEnd(u, x)
                 /\ t = JoinedSizes(u, x, y)
                 /\ Range(r) = Range(m) \ {y}
    <3>1. \A z \in Range(r) : Sound(t, z)
      BY <2>3, <2>7, <2>8
    <3> QED
      BY <2>5, <3>1 DEF W
  <2> QED
    BY <2>4, <2>6, <2>8
<1> QED
  BY <1>12, <1>13

(* The block x becomes x and y. *)
TwoBlocks(D, s, B, x, y, t) ==
  /\ t \in [D -> Nat] /\ y \notin B
  /\ \A z \in D \ {x, y} : t[z] = s[z]
  /\ BlockEnd(t, x) = y /\ BlockEnd(t, y) = BlockEnd(s, x)
  /\ Apart(t, B \cup {y})
  /\ CellsOf(t, B \cup {y}) = CellsOf(s, B)

(* A block is split n units behind its header. *)
LEMMA SplitKeeps ==
  ASSUME NEW D \in SUBSET Nat, NEW s \in [D -> Nat], NEW B \in SUBSET D, Apart(s, B),
         NEW x \in B, NEW n \in Nat \ {0}, s[x] - n >= Smallest, x + Hdr + n \in D,
         NEW t, t = [s EXCEPT ![x] = n, ![x + Hdr + n] = s[x] - n - Hdr]
  PROVE  TwoBlocks(D, s, B, x, x + Hdr + n, t)
<1> DEFINE y == x + Hdr + n
<1>1. x \in Nat /\ y \in Nat /\ y = x + 2 + n /\ x \in D /\ y \in D /\ s[x] \in Nat /\ s[x] >= n + 3
  BY DEF Smallest, Hdr
<1>2. x # y
  BY <1>1
<1>3. t = [s EXCEPT ![x] = n, ![y] = s[x] - n - Hdr]
  OBVIOUS
<1> HIDE DEF y
<1>4. t \in [D -> Nat] /\ t[x] = n /\ t[y] = s[x] - n - 2 /\ \A z \in D \ {x, y} : t[z] = s[z]
  BY <1>1, <1>2, <1>3 DEF Hdr
<1>5. BlockEnd(t, x) = y /\ BlockEnd(t, y) = BlockEnd(s, x) /\ y < BlockEnd(s, x) /\ x < y
  BY <1>1, <1>4 DEF BlockEnd, Hdr
<1>6. ASSUME NEW z \in D \ {x, y} PROVE BlockEnd(t, z) = BlockEnd(s, z)
  BY <1>4 DEF BlockEnd
<1>7. ASSUME NEW z \in B PROVE z \in Nat /\ BlockEnd(s, z) \in Nat /\ z < BlockEnd(s, z)
  BY DEF BlockEnd, Hdr
<1>8. y \notin B
  <2> SUFFICES ASSUME y \in B PROVE FALSE
    OBVIOUS
  <2>1. BlockEnd(s, x) <= y \/ BlockEnd(s, y) <= x
    BY <1>2 DEF Apart
  <2>2. BlockEnd(s, x) \in Nat /\ BlockEnd(s, y) \in Nat /\ y < BlockEnd(s, y)
    BY <1>7
  <2> QED
    BY <2>1, <2>2, <1>1, <1>5
<1>9. ASSUME NEW z \in B \ {x}
      PROVE  /\ BlockEnd(t, x) <= z \/ BlockEnd(t, z) <= x
             /\ BlockEnd(t, y) <= z \/ BlockEnd(t, z) <= y
  <2>1. BlockEnd(s, x) <= z \/ BlockEnd(s, z) <= x
    BY DEF Apart
  <2>2. BlockEnd(t, z) = BlockEnd(s, z) /\ z \in Nat /\ BlockEnd(s, z) \in Nat /\ BlockEnd(s, x) \in Nat
    BY <1>6, <1>7, <1>8
  <2> QED
    BY <2>1, <2>2, <1>1, <1>5
<1>10. Apart(t, B \cup {y})
  <2> SUFFICES ASSUME NEW b \in B \cup {y}, NEW c \in B \cup {y}, b # c
               PROVE  BlockEnd(t, b) <= c \/ BlockEnd(t, c) <= b
    BY DEF Apart
  <2>1. CASE b \in {x, y} /\ c \in {x, y}
    BY <2>1, <1>1, <1>5
  <2>2. CASE b \in {x, y} /\ c \notin {x, y}
    BY <2>2, <1>9
  <2>3. CASE b \notin {x, y} /\ c \in {x, y}
    BY <2>3, <1>9
  <2>4. CASE b \notin {x, y} /\ c \notin {x, y}
    BY <2>4, <1>6 DEF Apart
  <2> QED
    BY <2>1, <2>2, <2>3, <2>4
<1>11. ASSUME NEW a
       PROVE  a \in x .. BlockEnd(s, x) - 1 <=> a \in x .. BlockEnd(t, x) - 1 \/ a \in y .. BlockEnd(t, y) - 1
  <2>1. BlockEnd(s, x) \in Nat
    BY <1>7
  <2> QED
    BY <2>1, <1>1, <1>5
<1>12. ASSUME NEW a \in CellsOf(t, B \cup {y}) PROVE a \in CellsOf(s, B)
  <2>1. PICK b \in B \cup {y} : a \in b .. BlockEnd(t, b) - 1
    BY DEF CellsOf
  <2>2. CASE b \in {x, y}
    BY <2>1, <2>2, <1>11 DEF CellsOf
  <2>3. CASE b \notin {x, y}
    BY <2>1, <2>3, <1>6 DEF CellsOf
  <2> QED
    BY <2>2, <2>3
<1>13. ASSUME NEW a \in CellsOf(s, B) PROVE a \in CellsOf(t, B \cup {y})
  <2>1. PICK b \in B : a \in b .. BlockEnd(s, b) - 1
    BY DEF CellsOf
  <2>2. CASE b = x
    BY <2>1, <2>2, <1>11 DEF CellsOf
  <2>3. CASE b # x
    BY <2>1, <2>3, <1>6, <1>8 DEF CellsOf
  <2> QED
    BY <2>2, <2>3
<1>14. CellsOf(t, B \cup {y}) = CellsOf(s, B)
  BY <1>12, <1>13
<1> QED
  BY <1>4, <1>5, <1>8, <1>10, <1>14 DEF TwoBlocks, y

(* x joins the blocks B, with n units. *)
Added(D, s, B, x, n, t) ==
  /\ t \in [D -> Nat] /\ x \notin B
  /\ \A z \in D \ {x} : t[z] = s[z]
  /\ BlockEnd(t, x) = x + Hdr + n
  /\ Apart(t, B \cup {x})
  /\ CellsOf(t, B \cup {x}) = CellsOf(s, B) \cup x .. x + Hdr + n - 1

(* A block is cut from memory behind all others. *)
LEMMA AddKeeps ==
  ASSUME NEW D \in SUBSET Nat, NEW s \in [D -> Nat], NEW B \in SUBSET D, Apart(s, B),
         NEW x \in D, NEW n \in Nat, \A b \in B : BlockEnd(s, b) <= x,
         NEW t, t = [s EXCEPT ![x] = n]
  PROVE  Added(D, s, B, x, n, t)
<1>1. ASSUME NEW z \in B PROVE z \in Nat /\ BlockEnd(s, z) \in Nat /\ z < BlockEnd(s, z) /\ BlockEnd(s, z) <= x
  BY DEF BlockEnd, Hdr
<1>2. x \in Nat /\ x \notin B
  BY <1>1
<1>3. t \in [D -> Nat] /\ t[x] = n /\ \A z \in D \ {x} : t[z] = s[z]
  OBVIOUS
<1>4. BlockEnd(t, x) = x + Hdr + n
  BY <1>3 DEF BlockEnd
<1>5. ASSUME NEW z \in B PROVE BlockEnd(t, z) = BlockEnd(s, z)
  BY <1>2, <1>3 DEF BlockEnd
<1>6. Apart(t, B \cup {x})
  BY <1>1, <1>5 DEF Apart
<1>7. CellsOf(t, B \cup {x}) = CellsOf(s, B) \cup x .. x + Hdr + n - 1
  <2>1. ASSUME NEW a \in CellsOf(t, B \cup {x}) PROVE a \in CellsOf(s, B) \cup x .. x + Hdr + n - 1
    <3>1. PICK b \in B \cup {x} : a \in b .. BlockEnd(t, b) - 1
      BY DEF CellsOf
    <3>2. CASE b = x
      BY <3>1, <3>2, <1>4 DEF Hdr
    <3>3. CASE b # x
      BY <3>1, <3>3, <1>5 DEF CellsOf
    <3> QED
      BY <3>2, <3>3
  <2>2. ASSUME NEW a \in CellsOf(s, B) PROVE a \in CellsOf(t, B \cup {x})
    <3>1. PICK b \in B : a \in b .. BlockEnd(s, b) - 1
      BY DEF CellsOf
    <3> QED
      BY <3>1, <1>5 DEF CellsOf
  <2>3. x .. x + Hdr + n - 1 \subseteq CellsOf(t, B \cup {x})
    <3>1. x .. BlockEnd(t, x) - 1 \subseteq CellsOf(t, B \cup {x})
      BY Zenon DEF CellsOf
    <3>2. x + Hdr + n - 1 = BlockEnd(t, x) - 1
      BY <1>2, <1>4 DEF Hdr
    <3> QED
      BY <3>1, <3>2
  <2> QED
    BY <2>1, <2>2, <2>3
<1> QED
  BY <1>2, <1>3, <1>4, <1>6, <1>7 DEF Added

-----------------------------------------------------------------------------
(* The kernel heap                                                          *)

Blocks == live \cup Range(free)

LEMMA SpaceNat == Space \in SUBSET Nat
  BY UnitsAssumption DEF Space

(* A request of one byte or more takes a unit or more. *)
LEMMA UnitsOf ==
  ASSUME NEW n \in Nat \ {0} PROVE Align8(n) \in Nat \ {0}
  BY DEF Align8

(* HeapInv in the words of the lemmas above. *)
HeapShape ==
  /\ free \in Seq(Space) /\ Once(free) /\ live \subseteq Space /\ size \in [Space -> Nat]
  /\ live \cap Range(free) = {} /\ Blocks \in SUBSET Space
  /\ Apart(size, Blocks)
  /\ \A b \in Blocks : PageUnits <= b /\ BlockEnd(size, b) <= heap_cur
  /\ heap_cur \in Nat /\ heap_end \in Nat /\ next_page \in Nat /\ heap_cur <= heap_end
  /\ heap_end # 0 => heap_end = next_page /\ next_page <= MaxUnits /\ PageUnits <= heap_cur
  /\ heap_end = 0 => chunks = {} /\ Blocks = {} /\ next_page = PageUnits
  /\ chunks \subseteq Nat \X Nat /\ AllCells = PageUnits .. next_page - 1
  /\ \A c \in chunks : c[1] .. c[2] - Smallest \subseteq BumpCells \cup CellsOf(size, Blocks)

LEMMA ListRange == OnList = Range(free)
  BY DEF OnList, Range

LEMMA CellsAre ==
  ASSUME NEW s \in [Space -> Nat], NEW B \in SUBSET Space
  PROVE  UNION { b .. b + Hdr + s[b] - 1 : b \in B } = CellsOf(s, B)
<1>1. ASSUME NEW b \in B PROVE b .. b + Hdr + s[b] - 1 = b .. BlockEnd(s, b) - 1
  <2>1. b \in Nat /\ s[b] \in Nat
    BY SpaceNat
  <2> QED
    BY <2>1 DEF BlockEnd, Hdr
<1> QED
  BY <1>1 DEF CellsOf

LEMMA ShapeOfInv == HeapInv /\ ~shared => HeapShape
<1> SUFFICES ASSUME HeapInv, ~shared PROVE HeapShape
  OBVIOUS
<1>1. Once(free)
  BY DEF HeapInv, Once
<1>2. Blocks = live \cup OnList
  BY ListRange DEF Blocks
<1>3. Range(free) \subseteq Space
  BY DEF HeapInv, Range
<1>4. ASSUME NEW b \in Blocks PROVE b \in Nat /\ b < BlockEnd(size, b) /\ BlockEnd(size, b) \in Nat
  BY <1>3, SpaceNat DEF HeapInv, Blocks, BlockEnd, Hdr
<1>5. heap_end = 0 => chunks = {} /\ Blocks = {} /\ next_page = PageUnits
  <2> SUFFICES ASSUME heap_end = 0 PROVE chunks = {} /\ Blocks = {} /\ next_page = PageUnits
    OBVIOUS
  <2>1. heap_cur = 0
    BY DEF HeapInv
  <2>2. Blocks = {}
    BY <1>2, <1>4, <2>1 DEF HeapInv
  <2>3. CASE chunks = {} /\ heap_end = 0 /\ next_page = PageUnits
    BY <2>2, <2>3
  <2>4. CASE chunks # {} /\ heap_end = next_page /\ next_page \in PageUnits + 1 .. MaxUnits /\ PageUnits <= heap_cur
    BY <2>4, UnitsAssumption
  <2> QED
    BY <2>3, <2>4 DEF HeapInv
<1>6. heap_end # 0 => heap_end = next_page /\ next_page <= MaxUnits /\ PageUnits <= heap_cur
  BY UnitsAssumption DEF HeapInv
<1>7. Known = BumpCells \cup CellsOf(size, Blocks)
  <2>1. UNION { Cells(b) : b \in Blocks } = CellsOf(size, Blocks)
    BY <1>2, <1>3, ListRange, CellsAre DEF HeapInv, Cells
  <2> QED
    BY <2>1, <1>2 DEF Known
<1> QED
  BY <1>1, <1>2, <1>3, <1>5, <1>6, <1>7, ListRange DEF HeapInv, HeapShape, Blocks

LEMMA IntervalSplit ==
  ASSUME NEW x \in Nat, NEW y \in Nat, NEW z \in Nat
  PROVE  x .. z - 1 \subseteq y .. z - 1 \cup x .. y - 1
OBVIOUS

(* What the heap knows after a step. *)
LEMMA KnownNext ==
  ASSUME free' \in Seq(Space), live' \subseteq Space, size' \in [Space -> Nat]
  PROVE  Known' = BumpCells' \cup CellsOf(size', live' \cup Range(free'))
<1> DEFINE B == live' \cup Range(free')
           s == size'
<1>1. B \in SUBSET Space /\ s \in [Space -> Nat]
  BY DEF Range
<1>2. Known' = BumpCells' \cup UNION { b .. b + Hdr + s[b] - 1 : b \in B }
  <2>1. OnList' = Range(free')
    BY DEF OnList, Range
  <2> QED
    BY <2>1 DEF Known, Cells
<1> HIDE DEF B, s
<1>3. UNION { b .. b + Hdr + s[b] - 1 : b \in B } = CellsOf(s, B)
  BY <1>1, CellsAre
<1> QED
  BY <1>2, <1>3 DEF B, s

(* What a step within the present chunks has to keep. *)
LEMMA StepKeeps ==
  ASSUME HeapInv, ~shared, ~shared', shared' \in BOOLEAN, UNCHANGED <<heap_end, next_page, chunks>>,
         free' \in Seq(Space), Once(free'), live' \subseteq Space, size' \in [Space -> Nat],
         heap_cur' \in heap_cur .. heap_end, live' \cap Range(free') = {},
         Apart(size', live' \cup Range(free')),
         \A b \in live' \cup Range(free') : PageUnits <= b /\ BlockEnd(size', b) <= heap_cur',
         CellsOf(size, Blocks) \cup heap_cur .. heap_cur' - 1 \subseteq CellsOf(size', live' \cup Range(free'))
  PROVE  HeapInv'
<1>1. HeapShape
  BY ShapeOfInv
<1>2. OnList' = Range(free')
  BY DEF OnList, Range
<1>3. Blocks' = live' \cup Range(free')
  BY DEF Blocks
<1>4. Range(free') \subseteq Space
  BY DEF Range
<1>5. Known' = BumpCells' \cup CellsOf(size', live' \cup Range(free'))
  BY KnownNext
<1>6. BumpCells \subseteq BumpCells' \cup heap_cur .. heap_cur' - 1
  <2>1. heap_cur \in Nat /\ heap_end \in Nat /\ heap_cur' \in Nat /\ heap_end' = heap_end
    BY <1>1 DEF HeapShape
  <2>2. BumpCells = heap_cur .. heap_end - 1 /\ BumpCells' = heap_cur' .. heap_end - 1
    BY <2>1 DEF BumpCells
  <2>3. heap_cur .. heap_end - 1 \subseteq heap_cur' .. heap_end - 1 \cup heap_cur .. heap_cur' - 1
    BY <2>1, IntervalSplit
  <2> QED
    BY <2>2, <2>3
<1>7. \A c \in chunks' : c[1] .. c[2] - Smallest \subseteq Known'
  BY <1>1, <1>5, <1>6 DEF HeapShape
<1>8. AllCells' = AllCells
  BY DEF AllCells
<1>9. \A i, j \in DOMAIN free' : free'[i] = free'[j] => i = j
  BY DEF Once
<1>10. heap_cur' \in Nat /\ heap_cur' <= heap_end'
  BY <1>1 DEF HeapShape
<1>11. /\ live' \cap OnList' = {} /\ Apart(size', live' \cup OnList')
       /\ \A b \in live' \cup OnList' : PageUnits <= b /\ BlockEnd(size', b) <= heap_cur'
  BY <1>2
<1>12. /\ \/ chunks' = {} /\ heap_end' = 0 /\ next_page' = PageUnits
          \/ chunks' # {} /\ heap_end' = next_page' /\ next_page' \in PageUnits + 1 .. MaxUnits
             /\ PageUnits <= heap_cur'
       /\ AllCells' = PageUnits .. next_page' - 1
       /\ heap_end' \in Nat /\ next_page' \in Nat /\ chunks' \subseteq Nat \X Nat
  BY <1>1, <1>8, <1>10 DEF HeapInv, HeapShape
<1> QED
  BY <1>7, <1>9, <1>10, <1>11, <1>12 DEF HeapInv, Apart

(* What a call does to the blocks in use: one more of n units or more, and  *)
(* the others keep their sizes.                                             *)
SizesKept(L) == \A b \in L : size'[b] = size[b]

HandsOut(n) ==
  /\ ~shared /\ ~shared'
  /\ \E x \in Space \ live : live' = live \cup {x} /\ size'[x] >= n
  /\ SizesKept(live)

(* What First picks from the list is a block of the list that is large      *)
(* enough.                                                                  *)
LEMMA Fitting ==
  ASSUME HeapShape, NEW n \in Nat \ {0}, KFits(n) # {}
  PROVE  /\ First(KFits(n)) \in DOMAIN free
         /\ free[First(KFits(n))] \in Range(free)
         /\ size[free[First(KFits(n))]] >= n
<1>1. DOMAIN free \in SUBSET Nat
  <2>1. DOMAIN free = 1 .. Len(free) /\ Len(free) \in Nat
    BY DEF HeapShape
  <2> QED
    BY <2>1
<1>2. KFits(n) \in SUBSET Nat /\ KFits(n) = { i \in DOMAIN free : size[free[i]] >= n }
  BY <1>1 DEF KFits, Fits
<1>3. First(KFits(n)) \in KFits(n)
  BY <1>2, FirstFacts
<1> QED
  BY <1>2, <1>3 DEF Range

(* While there is a block, the heap has a chunk. *)
LEMMA BlockInHeap ==
  ASSUME HeapShape, NEW b \in Blocks
  PROVE  /\ b \in Nat /\ b \in Space /\ size[b] \in Nat /\ heap_end <= MaxUnits
         /\ BlockEnd(size, b) = b + Hdr + size[b] /\ BlockEnd(size, b) <= heap_end
<1>1. b \in Space /\ PageUnits <= b /\ BlockEnd(size, b) <= heap_cur /\ heap_cur <= heap_end /\ heap_cur \in Nat /\ heap_end \in Nat
  BY DEF HeapShape
<1>2. b \in Nat /\ size[b] \in Nat /\ BlockEnd(size, b) = b + Hdr + size[b]
  BY <1>1, SpaceNat DEF HeapShape, BlockEnd
<1>3. heap_end # 0 /\ BlockEnd(size, b) <= heap_end
  BY <1>1, <1>2 DEF Hdr
<1> QED
  BY <1>1, <1>2, <1>3 DEF HeapShape

LEMMA TakeSplitInv ==
  ASSUME HeapInv, NEW n \in Nat \ {0}, TakeSplit(n)
  PROVE  HeapInv' /\ HandsOut(n)
<1> DEFINE i == First(KFits(n))
           b == free[i]
           y == b + Hdr + n
<1>1. HeapShape /\ KFits(n) # {} /\ ~shared /\ ~shared' /\ shared' \in BOOLEAN
  BY ShapeOfInv DEF TakeSplit, HeapInv
<1>2. /\ size[b] - n >= Smallest
      /\ free' = [free EXCEPT ![i] = y]
      /\ size' = [size EXCEPT ![b] = n, ![y] = size[b] - n - Hdr]
      /\ live' = live \cup {b}
      /\ UNCHANGED <<heap_cur, heap_end, next_page, chunks>>
  BY DEF TakeSplit
<1>3. i \in DOMAIN free /\ b \in Range(free)
  BY <1>1, Fitting
<1> HIDE DEF i
<1>4. b \in Blocks
  BY <1>3 DEF Blocks
<1>5. y \in Space
  <2>1. b \in Nat /\ size[b] \in Nat /\ b + Hdr + size[b] <= heap_end /\ heap_end <= MaxUnits /\ heap_end \in Nat
    BY <1>1, <1>4, BlockInHeap DEF HeapShape
  <2> HIDE DEF b
  <2>2. y \in Nat /\ y <= MaxUnits
    BY <2>1, <1>2, UnitsAssumption DEF Smallest, Hdr
  <2> QED
    BY <2>2, UnitsAssumption DEF Space
<1>6. TwoBlocks(Space, size, Blocks, b, y, size')
  <2>1. size \in [Space -> Nat] /\ Blocks \in SUBSET Space /\ Apart(size, Blocks)
    BY <1>1 DEF HeapShape
  <2> QED
    BY <2>1, <1>2, <1>4, <1>5, SpaceNat, SplitKeeps
<1> HIDE DEF b, y
<1>7. /\ free' \in Seq(Space) /\ Once(free') /\ Range(free') = (Range(free) \ {b}) \cup {y}
  <2>1. free \in Seq(Space) /\ Once(free)
    BY <1>1 DEF HeapShape
  <2>2. y \notin Range(free)
    BY <1>6 DEF TwoBlocks, Blocks
  <2>3. b = free[i]
    BY DEF b
  <2> DEFINE q == [free EXCEPT ![i] = y]
  <2>4. free' = q
    BY <1>2
  <2>5. Holds(Space, q, (Range(free) \ {free[i]}) \cup {y})
    BY <2>1, <2>2, <1>3, <1>5, ReplaceFacts
  <2> HIDE DEF q
  <2> QED
    BY <2>3, <2>4, <2>5 DEF Holds
<1>8. live' \cup Range(free') = Blocks \cup {y} /\ live' \cap Range(free') = {}
  <2>1. y \notin Blocks
    BY <1>6 DEF TwoBlocks
  <2>2. live \cap Range(free) = {}
    BY <1>1 DEF HeapShape
  <2> QED
    BY <2>1, <2>2, <1>2, <1>3, <1>7 DEF Blocks
<1>9. /\ size' \in [Space -> Nat] /\ Apart(size', Blocks \cup {y})
      /\ CellsOf(size', Blocks \cup {y}) = CellsOf(size, Blocks)
  BY <1>6 DEF TwoBlocks
<1>10. ASSUME NEW c \in Blocks \cup {y} PROVE PageUnits <= c /\ BlockEnd(size', c) <= heap_cur'
  <2>1. PageUnits <= b /\ BlockEnd(size, b) <= heap_cur /\ heap_cur \in Nat /\ b \in Nat /\ size[b] \in Nat
    BY <1>1, <1>4, BlockInHeap DEF HeapShape
  <2>2. /\ y = b + 2 + n /\ BlockEnd(size', b) = y /\ BlockEnd(size', y) = BlockEnd(size, b)
        /\ size[b] - n >= 3 /\ BlockEnd(size, b) = b + 2 + size[b]
    BY <1>2, <1>6 DEF TwoBlocks, y, Hdr, Smallest, BlockEnd
  <2>3. CASE c \in {b, y}
    BY <1>2, <2>1, <2>2, <2>3
  <2>4. CASE c \notin {b, y}
    <3>1. c \in Blocks /\ size'[c] = size[c]
      BY <2>4, <1>1, <1>6 DEF TwoBlocks, HeapShape
    <3> QED
      BY <3>1, <1>1, <1>2 DEF HeapShape, BlockEnd
  <2> QED
    BY <2>3, <2>4
<1>11. live' \subseteq Space
  BY <1>1, <1>2, <1>4 DEF HeapShape
<1>12. heap_cur' \in heap_cur .. heap_end /\ heap_cur .. heap_cur' - 1 = {}
  BY <1>1, <1>2 DEF HeapShape
<1>13. HandsOut(n)
  <2>1. b \in Space \ live /\ live \subseteq Space /\ size \in [Space -> Nat] /\ y # b
    BY <1>1, <1>3, <1>4, <1>6 DEF HeapShape, TwoBlocks
  <2>2. size'[b] = n
    BY <2>1, <1>2, <1>5
  <2>3. SizesKept(live)
    BY <2>1, <1>6 DEF SizesKept, TwoBlocks, Blocks
  <2> QED
    BY <2>1, <2>2, <2>3, <1>1, <1>2 DEF HandsOut
<1>14. HeapInv'
  BY <1>1, <1>2, <1>7, <1>8, <1>9, <1>10, <1>11, <1>12, StepKeeps
<1> QED
  BY <1>13, <1>14

LEMMA TakeWholeInv ==
  ASSUME HeapInv, NEW n \in Nat \ {0}, TakeWhole(n)
  PROVE  HeapInv' /\ HandsOut(n)
<1> DEFINE i == First(KFits(n))
           b == free[i]
<1>1. HeapShape /\ KFits(n) # {} /\ ~shared /\ ~shared' /\ shared' \in BOOLEAN
  BY ShapeOfInv DEF TakeWhole, HeapInv
<1>2. /\ free' = RemoveAt(free, i)
      /\ live' = live \cup {b}
      /\ UNCHANGED <<size, heap_cur, heap_end, next_page, chunks>>
  BY DEF TakeWhole
<1>3. i \in DOMAIN free /\ b \in Range(free)
  BY <1>1, Fitting
<1> HIDE DEF i
<1>4. /\ free' \in Seq(Space) /\ Once(free') /\ Range(free') = Range(free) \ {b}
  BY <1>1, <1>2, <1>3, RemoveAtFacts DEF HeapShape
<1> HIDE DEF b
<1>5. live' \cup Range(free') = Blocks /\ live' \cap Range(free') = {}
  BY <1>1, <1>2, <1>3, <1>4 DEF Blocks, HeapShape
<1>6. /\ size' \in [Space -> Nat] /\ Apart(size', Blocks) /\ live' \subseteq Space
      /\ \A c \in Blocks : PageUnits <= c /\ BlockEnd(size', c) <= heap_cur'
      /\ CellsOf(size', Blocks) = CellsOf(size, Blocks)
  BY <1>1, <1>2, <1>3 DEF HeapShape, Blocks
<1>7. heap_cur' \in heap_cur .. heap_end /\ heap_cur .. heap_cur' - 1 = {}
  BY <1>1, <1>2 DEF HeapShape
<1>8. HandsOut(n)
  <2>1. b \in Space \ live /\ size[b] >= n
    BY <1>1, <1>3, Fitting DEF HeapShape, Blocks, b, i
  <2> QED
    BY <2>1, <1>1, <1>2 DEF HandsOut, SizesKept
<1>9. HeapInv'
  BY <1>1, <1>2, <1>4, <1>5, <1>6, <1>7, StepKeeps
<1> QED
  BY <1>8, <1>9

LEMMA BumpInv ==
  ASSUME HeapInv, NEW n \in Nat \ {0}, Bump(n)
  PROVE  HeapInv' /\ HandsOut(n)
<1>1. HeapShape /\ ~shared /\ ~shared' /\ shared' \in BOOLEAN
  BY ShapeOfInv DEF Bump, HeapInv
<1>2. /\ heap_cur + Hdr + n <= heap_end
      /\ size' = [size EXCEPT ![heap_cur] = n]
      /\ live' = live \cup {heap_cur}
      /\ heap_cur' = heap_cur + Hdr + n
      /\ UNCHANGED <<free, heap_end, next_page, chunks>>
  BY DEF Bump
<1>3. /\ heap_cur \in Nat /\ heap_end \in Nat /\ heap_end # 0 /\ heap_end <= MaxUnits /\ PageUnits <= heap_cur
      /\ heap_cur' \in heap_cur .. heap_end
  BY <1>1, <1>2 DEF HeapShape, Hdr
<1>4. heap_cur \in Space
  BY <1>2, <1>3, UnitsAssumption DEF Space, Hdr
<1>5. Added(Space, size, Blocks, heap_cur, n, size')
  <2>1. /\ size \in [Space -> Nat] /\ Blocks \in SUBSET Space /\ Apart(size, Blocks)
        /\ \A b \in Blocks : BlockEnd(size, b) <= heap_cur
    BY <1>1 DEF HeapShape
  <2> QED
    BY <2>1, <1>2, <1>4, SpaceNat, AddKeeps
<1>6. /\ free' \in Seq(Space) /\ Once(free') /\ live' \subseteq Space
  BY <1>1, <1>2, <1>4 DEF HeapShape
<1>7. live' \cup Range(free') = Blocks \cup {heap_cur} /\ live' \cap Range(free') = {}
  BY <1>1, <1>2, <1>5 DEF Blocks, HeapShape, Added
<1>8. /\ size' \in [Space -> Nat] /\ Apart(size', Blocks \cup {heap_cur})
      /\ CellsOf(size', Blocks \cup {heap_cur}) = CellsOf(size, Blocks) \cup heap_cur .. heap_cur' - 1
  <2>1. heap_cur' - 1 = heap_cur + Hdr + n - 1
    BY <1>2, <1>3 DEF Hdr
  <2> QED
    BY <2>1, <1>5 DEF Added
<1>9. ASSUME NEW c \in Blocks \cup {heap_cur} PROVE PageUnits <= c /\ BlockEnd(size', c) <= heap_cur'
  <2>1. CASE c = heap_cur
    BY <2>1, <1>2, <1>3, <1>5 DEF Added
  <2>2. CASE c # heap_cur
    <3>1. c \in Blocks /\ size'[c] = size[c] /\ PageUnits <= c /\ BlockEnd(size, c) <= heap_cur
      BY <2>2, <1>1, <1>5 DEF Added, HeapShape
    <3>2. BlockEnd(size', c) = BlockEnd(size, c) /\ BlockEnd(size, c) \in Nat
      BY <3>1, <1>1, BlockInHeap DEF BlockEnd, Hdr
    <3> QED
      BY <3>1, <3>2, <1>3
  <2> QED
    BY <2>1, <2>2
<1>10. HandsOut(n)
  <2>1. heap_cur \in Space \ live /\ live \subseteq Space /\ size \in [Space -> Nat]
    BY <1>1, <1>4, <1>5 DEF HeapShape, Added, Blocks
  <2> QED
    BY <2>1, <1>1, <1>2 DEF HandsOut, SizesKept
<1>11. HeapInv'
  BY <1>1, <1>2, <1>3, <1>6, <1>7, <1>8, <1>9, StepKeeps
<1> QED
  BY <1>10, <1>11

LEMMA KfreeInv ==
  ASSUME HeapInv, NEW b \in live, Kfree(b)
  PROVE  HeapInv' /\ live' = live \ {b} /\ SizesKept(live')
<1>1. HeapShape /\ ~shared /\ ~shared' /\ shared' \in BOOLEAN
  BY ShapeOfInv DEF Kfree, HeapInv
<1>2. /\ free' = Returned(free, size, b).list /\ size' = Returned(free, size, b).size
      /\ live' = live \ {b}
      /\ UNCHANGED <<heap_cur, heap_end, next_page, chunks>>
  BY DEF Kfree
<1> DEFINE S == Range(free) \cup {b}
           C == Blocks \ (S \ Range(free'))
<1>3. Coalesced(Space, S, size, Blocks, free', size', C)
  <2>1. /\ size \in [Space -> Nat] /\ free \in Seq(Space) /\ Once(free) /\ b \in Space /\ b \notin Range(free)
        /\ Blocks \in SUBSET Space /\ S \subseteq Blocks /\ Apart(size, Blocks)
    BY <1>1 DEF HeapShape, Blocks
  <2> QED
    BY <2>1, <1>2, SpaceNat, ReturnedKeeps
<1>4. /\ free' \in Seq(Space) /\ Once(free') /\ size' \in [Space -> Nat] /\ Range(free') \subseteq S
      /\ Apart(size', C) /\ CellsOf(size', C) = CellsOf(size, Blocks)
  BY <1>3 DEF Coalesced
<1>5. live' \cup Range(free') = C /\ live' \cap Range(free') = {} /\ live' \subseteq Space
  BY <1>1, <1>2, <1>4 DEF Blocks, HeapShape
<1>6. ASSUME NEW c \in C PROVE PageUnits <= c /\ BlockEnd(size', c) <= heap_cur'
  <2>1. c \in Blocks /\ PageUnits <= c
    BY <1>1, <1>4 DEF HeapShape, Blocks
  <2>2. CASE c \in Range(free')
    <3>1. PICK e \in S : BlockEnd(size', c) = BlockEnd(size, e)
      BY <2>2, <1>3 DEF Coalesced
    <3> QED
      BY <3>1, <2>1, <1>1, <1>2 DEF HeapShape, Blocks
  <2>3. CASE c \notin Range(free')
    <3>1. c \in Space \ S
      BY <2>1, <2>3, <1>1 DEF HeapShape
    <3>2. BlockEnd(size', c) = BlockEnd(size, c)
      BY <3>1, <1>3 DEF Coalesced, BlockEnd
    <3> QED
      BY <2>1, <3>2, <1>1, <1>2 DEF HeapShape
  <2> QED
    BY <2>2, <2>3
<1>7. heap_cur' \in heap_cur .. heap_end /\ heap_cur .. heap_cur' - 1 = {}
  BY <1>1, <1>2 DEF HeapShape
<1>8. SizesKept(live')
  <2>1. \A z \in Space \ S : size'[z] = size[z]
    BY <1>3 DEF Coalesced
  <2>2. live' \subseteq Space \ S
    BY <1>1, <1>2 DEF HeapShape
  <2> QED
    BY <2>1, <2>2 DEF SizesKept
<1> HIDE DEF C
<1>9. HeapInv'
  BY <1>1, <1>2, <1>4, <1>5, <1>6, <1>7, StepKeeps
<1> QED
  BY <1>2, <1>8, <1>9

(* The list, the sizes and the blocks once grow_heap has put the rest of    *)
(* the old chunk on the list, or has dropped it.                            *)
RestShape ==
  LET B == live \cup Range(FreeWithRest)
  IN  /\ FreeWithRest \in Seq(Space) /\ Once(FreeWithRest) /\ SizeWithRest \in [Space -> Nat]
      /\ B \in SUBSET Space /\ live \cap Range(FreeWithRest) = {}
      /\ Apart(SizeWithRest, B)
      /\ \A b \in B : PageUnits <= b /\ BlockEnd(SizeWithRest, b) <= heap_end
      /\ CellsOf(size, Blocks) \subseteq CellsOf(SizeWithRest, B)
      /\ RestKept => BumpCells \subseteq CellsOf(SizeWithRest, B)
      /\ \A b \in live : SizeWithRest[b] = size[b]

LEMMA RestFacts == HeapShape => RestShape
<1> SUFFICES ASSUME HeapShape PROVE RestShape
  OBVIOUS
<1>0. /\ heap_cur \in Nat /\ heap_end \in Nat /\ heap_cur <= heap_end
      /\ free \in Seq(Space) /\ Once(free) /\ size \in [Space -> Nat]
      /\ live \cap Range(free) = {} /\ Blocks \in SUBSET Space /\ Apart(size, Blocks)
      /\ \A b \in Blocks : PageUnits <= b /\ BlockEnd(size, b) <= heap_cur
  BY DEF HeapShape
<1>1. CASE ~RestKept
  <2>1. FreeWithRest = free /\ SizeWithRest = size
    BY <1>1 DEF FreeWithRest, SizeWithRest
  <2>2. live \cup Range(free) = Blocks
    BY DEF Blocks
  <2>3. ASSUME NEW b \in Blocks PROVE BlockEnd(size, b) <= heap_end
    BY BlockInHeap
  <2> QED
    BY <1>0, <1>1, <2>1, <2>2, <2>3 DEF RestShape
<1>2. CASE RestKept
  <2> DEFINE m == heap_end - heap_cur - Hdr
             f == <<heap_cur>> \o free
             s == [size EXCEPT ![heap_cur] = m]
  <2>1. FreeWithRest = f /\ SizeWithRest = s
    BY <1>2 DEF FreeWithRest, SizeWithRest
  <2>2. m \in Nat /\ heap_cur + Hdr + m = heap_end /\ heap_end # 0
    BY <1>0, <1>2 DEF RestKept, Smallest, Hdr
  <2>3. PageUnits <= heap_cur /\ heap_cur \in Space
    <3>1. PageUnits <= heap_cur /\ heap_end <= MaxUnits
      BY <2>2 DEF HeapShape
    <3> QED
      BY <3>1, <1>0, UnitsAssumption DEF Space
  <2>4. Added(Space, size, Blocks, heap_cur, m, s)
    BY <1>0, <2>2, <2>3, SpaceNat, AddKeeps
  <2>5. heap_cur \notin Blocks
    BY <2>4 DEF Added
  <2>6. heap_cur \notin Range(free) /\ heap_cur \notin live
    BY <2>5 DEF Blocks
  <2>7. f \in Seq(Space) /\ Once(f) /\ Range(f) = Range(free) \cup {heap_cur}
    BY <1>0, <2>3, <2>6, PrependFacts
  <2> HIDE DEF f, s
  <2>8. live \cup Range(f) = Blocks \cup {heap_cur} /\ live \cap Range(f) = {}
    BY <1>0, <2>6, <2>7 DEF Blocks
  <2>9. /\ s \in [Space -> Nat] /\ Apart(s, Blocks \cup {heap_cur})
        /\ CellsOf(s, Blocks \cup {heap_cur}) = CellsOf(size, Blocks) \cup BumpCells
    <3>1. heap_cur .. heap_cur + Hdr + m - 1 = BumpCells
      <4>1. heap_cur + Hdr + m - 1 = heap_end - 1
        BY <1>0, <2>2 DEF Hdr
      <4> QED
        BY <4>1 DEF BumpCells
    <3> QED
      BY <3>1, <2>4 DEF Added
  <2>10. ASSUME NEW b \in Blocks \cup {heap_cur} PROVE PageUnits <= b /\ BlockEnd(s, b) <= heap_end
    <3>1. CASE b = heap_cur
      BY <3>1, <1>0, <2>2, <2>3, <2>4 DEF Added
    <3>2. CASE b # heap_cur
      <4>1. b \in Blocks /\ b \in Space \ {heap_cur}
        BY <3>2, <1>0
      <4>2. BlockEnd(s, b) = BlockEnd(size, b)
        BY <4>1, <2>4 DEF Added, BlockEnd
      <4> QED
        BY <4>1, <4>2, <1>0, BlockInHeap
    <3> QED
      BY <3>1, <3>2
  <2>11. ASSUME NEW b \in live PROVE s[b] = size[b]
    <3>1. b \in Space \ {heap_cur}
      BY <1>0, <2>6 DEF Blocks
    <3> QED
      BY <3>1, <2>4 DEF Added
  <2> QED
    BY <1>0, <2>1, <2>3, <2>7, <2>8, <2>9, <2>10, <2>11 DEF RestShape
<1> QED
  BY <1>1, <1>2

(* The pages asked for hold the block. *)
LEMMA PagesHold ==
  ASSUME NEW n \in Nat
  PROVE  /\ PagesFor(n) \in Nat \ {0}
         /\ PagesFor(n) * PageUnits \in Nat /\ Hdr + n <= PagesFor(n) * PageUnits
<1> DEFINE a == Hdr + n + PageUnits - 1
           needed == a \div PageUnits
<1>1. a \in Nat /\ a = n + PageUnits + 1 /\ PageUnits \in Nat \ {0}
  BY DEF Hdr
<1> HIDE DEF a
<1>2. needed \in Nat /\ a < (needed + 1) * PageUnits
  BY <1>1, SMTT(30)
<1>3. PagesFor(n) = IF needed > ChunkPages THEN needed ELSE ChunkPages
  BY DEF PagesFor, a
<1> HIDE DEF needed
<1>4. PagesFor(n) \in Nat \ {0} /\ needed <= PagesFor(n)
  BY <1>2, <1>3, UnitsAssumption
<1> DEFINE p == PagesFor(n)
<1> HIDE DEF p
<1>5. (needed + 1) * PageUnits = needed * PageUnits + PageUnits
  BY <1>1, <1>2
<1>6. p \in Nat /\ needed <= p => needed * PageUnits <= p * PageUnits /\ p * PageUnits \in Nat
  BY <1>1, <1>2, SMTT(30)
<1>7. needed * PageUnits \in Nat
  BY <1>1, <1>2
<1> QED
  BY <1>1, <1>2, <1>4, <1>5, <1>6, <1>7 DEF p, Hdr

(* Memory behind the end of everything: the kernel heap's next chunk. *)
LEMMA ChunkAppended ==
  ASSUME NEW x \in Nat, NEW e \in Nat, NEW p \in Nat, p <= x, x <= e
  PROVE  p .. x - 1 \cup x .. e - 1 = p .. e - 1
OBVIOUS

LEMMA ChunkCells ==
  ASSUME NEW K, NEW x \in Nat, NEW e \in Nat
  PROVE  UNION { c[1] .. c[2] - 1 : c \in K \cup {<<x, e>>} } = (UNION { c[1] .. c[2] - 1 : c \in K }) \cup x .. e - 1
<1> DEFINE cells(c) == c[1] .. c[2] - 1
           p == <<x, e>>
<1>1. p[1] = x /\ p[2] = e
  OBVIOUS
<1> HIDE DEF p
<1>2. cells(p) = x .. e - 1
  BY <1>1
<1> HIDE DEF cells
<1>3. UNION { cells(c) : c \in K \cup {p} } = (UNION { cells(c) : c \in K }) \cup cells(p)
  OBVIOUS
<1>4. UNION { cells(c) : c \in K \cup {p} } = (UNION { cells(c) : c \in K }) \cup x .. e - 1
  BY <1>2, <1>3
<1> QED
  BY <1>4 DEF p, cells

LEMMA LastCells ==
  ASSUME NEW x \in Nat, NEW m \in Nat, NEW e \in Nat, NEW a \in x .. e - Smallest
  PROVE  a \in x .. x + Hdr + m - 1 \/ a \in x + Hdr + m .. e - 1
BY DEF Smallest, Hdr

LEMMA GrowInv ==
  ASSUME HeapInv, NEW n \in Nat \ {0}, Grow(n)
  PROVE  HeapInv' /\ HandsOut(n)
<1> DEFINE x == next_page
           e == next_page + PagesFor(n) * PageUnits
           B == live \cup Range(FreeWithRest)
           C == B \cup {x}
<1>1. HeapShape /\ RestShape /\ ~shared /\ ~shared' /\ shared' \in BOOLEAN
  BY ShapeOfInv, RestFacts DEF Grow, NeedsGrowth, HeapInv
<1>2. /\ e <= MaxUnits /\ free' = FreeWithRest /\ size' = [SizeWithRest EXCEPT ![x] = n]
      /\ heap_cur' = x + Hdr + n /\ heap_end' = e /\ next_page' = e
      /\ chunks' = chunks \cup {<<x, e>>} /\ live' = live \cup {x}
  BY DEF Grow
<1>3. PagesFor(n) * PageUnits \in Nat /\ Hdr + n <= PagesFor(n) * PageUnits
  BY PagesHold
<1>4. /\ x \in Nat /\ e \in Nat /\ x + Hdr + n <= e /\ x < e /\ PageUnits <= x /\ heap_end <= x
      /\ heap_cur \in Nat /\ heap_end \in Nat /\ heap_cur <= heap_end
  <2>1. /\ x \in Nat /\ heap_cur \in Nat /\ heap_end \in Nat /\ heap_cur <= heap_end
        /\ heap_end # 0 => heap_end = x /\ PageUnits <= heap_cur
        /\ heap_end = 0 => x = PageUnits
    BY <1>1 DEF HeapShape
  <2> QED
    BY <2>1, <1>3 DEF Hdr
<1>5. x \in Space
  BY <1>2, <1>4, UnitsAssumption DEF Space
<1>6. /\ FreeWithRest \in Seq(Space) /\ Once(FreeWithRest) /\ SizeWithRest \in [Space -> Nat]
      /\ B \in SUBSET Space /\ live \cap Range(FreeWithRest) = {} /\ Apart(SizeWithRest, B)
      /\ \A b \in B : PageUnits <= b /\ BlockEnd(SizeWithRest, b) <= heap_end
      /\ CellsOf(size, Blocks) \subseteq CellsOf(SizeWithRest, B)
      /\ RestKept => BumpCells \subseteq CellsOf(SizeWithRest, B)
  BY <1>1 DEF RestShape
<1> HIDE DEF e
<1>7. ASSUME NEW b \in B PROVE BlockEnd(SizeWithRest, b) \in Nat /\ BlockEnd(SizeWithRest, b) <= x
  <2>1. b \in Nat /\ SizeWithRest[b] \in Nat /\ BlockEnd(SizeWithRest, b) <= heap_end
    BY <1>6, SpaceNat
  <2> QED
    BY <2>1, <1>4 DEF BlockEnd, Hdr
<1>8. Added(Space, SizeWithRest, B, x, n, size')
  BY <1>2, <1>5, <1>6, <1>7, SpaceNat, AddKeeps
<1>9. x \notin B
  BY <1>8 DEF Added
<1>10. /\ free' \in Seq(Space) /\ Once(free') /\ live' \subseteq Space /\ size' \in [Space -> Nat]
       /\ live' \cup Range(free') = C /\ live' \cap Range(free') = {}
  BY <1>2, <1>5, <1>6, <1>8, <1>9 DEF Added
<1>11. /\ Apart(size', C)
       /\ CellsOf(size', C) = CellsOf(SizeWithRest, B) \cup x .. x + Hdr + n - 1
  BY <1>8 DEF Added
<1>12. ASSUME NEW b \in C PROVE PageUnits <= b /\ BlockEnd(size', b) <= heap_cur'
  <2>1. CASE b = x
    BY <2>1, <1>2, <1>4, <1>8 DEF Added, Hdr
  <2>2. CASE b # x
    <3>1. b \in B /\ b \in Space \ {x} /\ PageUnits <= b
      BY <2>2, <1>6
    <3>2. BlockEnd(size', b) = BlockEnd(SizeWithRest, b)
      BY <3>1, <1>8 DEF Added, BlockEnd
    <3>3. BlockEnd(SizeWithRest, b) \in Nat /\ BlockEnd(SizeWithRest, b) <= x
      BY <3>1, <1>7
    <3> QED
      BY <3>1, <3>2, <3>3, <1>2, <1>4 DEF Hdr
  <2> QED
    BY <2>1, <2>2
<1>13. AllCells' = PageUnits .. e - 1
  <2>1. AllCells' = AllCells \cup x .. e - 1
    <3>1. AllCells' = UNION { c[1] .. c[2] - 1 : c \in chunks \cup {<<x, e>>} }
      BY <1>2, Zenon DEF AllCells
    <3> QED
      BY <3>1, <1>4, ChunkCells DEF AllCells
  <2>2. AllCells = PageUnits .. x - 1
    BY <1>1 DEF HeapShape
  <2> QED
    BY <2>1, <2>2, <1>4, ChunkAppended
<1>14. Known' = heap_cur' .. e - 1 \cup CellsOf(size', C)
  BY <1>2, <1>10, KnownNext DEF BumpCells
<1>15. ASSUME NEW c \in chunks, NEW a \in c[1] .. c[2] - Smallest PROVE a \in CellsOf(SizeWithRest, B)
  <2>1. c[1] \in Nat /\ c[2] \in Nat /\ a \in BumpCells \cup CellsOf(size, Blocks)
    BY <1>1 DEF HeapShape
  <2>2. CASE RestKept \/ a \in CellsOf(size, Blocks)
    BY <2>1, <2>2, <1>6
  <2>3. CASE ~RestKept /\ a \in BumpCells
    <3>1. a \in heap_cur .. heap_end - 1 /\ a \in Nat /\ c[1] <= a /\ a + 3 <= c[2]
      BY <2>1, <2>3 DEF BumpCells, Smallest, Hdr
    <3>2. c[2] - 1 \in AllCells
      <4>1. c[2] - 1 \in c[1] .. c[2] - 1
        BY <2>1, <3>1
      <4> QED
        BY <4>1, Zenon DEF AllCells
    <3>3. c[2] - 1 <= x - 1
      BY <2>1, <3>2, <1>1, <1>4 DEF HeapShape
    <3>4. heap_end # 0
      BY <3>1, <1>4
    <3>5. heap_end = x
      BY <3>4, <1>1 DEF HeapShape
    <3>6. heap_end - heap_cur >= 3
      BY <2>1, <3>1, <3>3, <3>5, <1>4
    <3> QED
      BY <2>3, <3>6 DEF RestKept, Smallest, Hdr
  <2> QED
    BY <2>1, <2>2, <2>3
<1>16. ASSUME NEW c \in chunks' PROVE c[1] .. c[2] - Smallest \subseteq Known'
  <2>1. CASE c \in chunks
    BY <2>1, <1>11, <1>14, <1>15
  <2>2. CASE c = <<x, e>>
    <3>1. c[1] = x /\ c[2] = e /\ heap_cur' = x + Hdr + n
      BY <2>2, <1>2
    <3>2. ASSUME NEW a \in x .. e - Smallest PROVE a \in x .. x + Hdr + n - 1 \/ a \in x + Hdr + n .. e - 1
      BY <1>4, LastCells
    <3> QED
      BY <3>1, <3>2, <1>11, <1>14
  <2> QED
    BY <2>1, <2>2, <1>2
<1>17. chunks' \subseteq Nat \X Nat /\ chunks' # {}
  <2>1. <<x, e>> \in Nat \X Nat
    BY <1>4
  <2>2. chunks \subseteq Nat \X Nat
    BY <1>1 DEF HeapShape
  <2> HIDE DEF x
  <2> QED
    BY <2>1, <2>2, <1>2
<1>18. \A i, j \in DOMAIN free' : free'[i] = free'[j] => i = j
  BY <1>10 DEF Once
<1>19. OnList' = Range(free')
  BY DEF OnList, Range
<1>20. /\ heap_cur' \in Nat /\ heap_end' \in Nat /\ next_page' \in Nat /\ heap_cur' <= heap_end'
       /\ heap_end' = next_page' /\ next_page' \in PageUnits + 1 .. MaxUnits /\ PageUnits <= heap_cur'
  BY <1>2, <1>4, UnitsAssumption DEF Hdr
<1>21. AllCells' = PageUnits .. next_page' - 1
  BY <1>2, <1>13
<1> HIDE DEF C, B, x
<1>22. HandsOut(n)
  <2>1. x \in Space \ live /\ live \subseteq Space
    BY <1>5, <1>6, <1>9 DEF B
  <2>2. size'[x] = n /\ \A b \in live : size'[b] = SizeWithRest[b]
    BY <2>1, <1>2, <1>6
  <2>3. \A b \in live : SizeWithRest[b] = size[b]
    BY <1>1 DEF RestShape
  <2> QED
    BY <2>1, <2>2, <2>3, <1>1, <1>2 DEF HandsOut, SizesKept
<1>23. Apart(size', live' \cup OnList')
  BY <1>10, <1>11, <1>19
<1>24. /\ live' \cap OnList' = {}
       /\ \A b \in live' \cup OnList' : PageUnits <= b /\ BlockEnd(size', b) <= heap_cur'
  BY <1>10, <1>12, <1>19
<1>25. HeapInv'
  BY <1>1, <1>10, <1>16, <1>17, <1>18, <1>20, <1>21, <1>23, <1>24 DEF HeapInv, Apart
<1> QED
  BY <1>22, <1>25

LEMMA GrowFailsInv ==
  ASSUME HeapInv, NEW n \in Nat \ {0}, GrowFails(n)
  PROVE  HeapInv' /\ live' = live /\ SizesKept(live)
<1>1. HeapShape /\ RestShape /\ ~shared
  BY ShapeOfInv, RestFacts DEF GrowFails, NeedsGrowth
<1>2. /\ free' = FreeWithRest /\ size' = SizeWithRest /\ shared' = RestKept
      /\ UNCHANGED <<heap_cur, heap_end, next_page, chunks, live>>
  BY DEF GrowFails
<1>3. CASE RestKept
  <2>1. shared' = TRUE
    BY <1>2, <1>3
  <2>2. free' \in Seq(Space) /\ size' \in [Space -> Nat]
    BY <1>1, <1>2 DEF RestShape
  <2>3. /\ live' \subseteq Space /\ heap_cur' \in Nat /\ heap_end' \in Nat /\ next_page' \in Nat
        /\ chunks' \subseteq Nat \X Nat
    BY <1>2 DEF HeapInv
  <2>4. HeapInv'
    BY <2>1, <2>2, <2>3 DEF HeapInv
  <2>5. SizesKept(live)
    BY <1>1, <1>2 DEF RestShape, SizesKept
  <2> QED
    BY <1>2, <2>4, <2>5
<1>4. CASE ~RestKept
  <2>1. FreeWithRest = free /\ SizeWithRest = size
    BY <1>4 DEF FreeWithRest, SizeWithRest
  <2>2. ~shared' /\ shared' \in BOOLEAN /\ UNCHANGED <<free, size>>
    <3> DEFINE kept == heap_end - heap_cur >= Smallest
    <3>1. shared' = kept /\ ~kept /\ kept \in BOOLEAN
      BY <1>2, <1>4 DEF RestKept
    <3> HIDE DEF kept
    <3> QED
      BY <1>2, <2>1, <3>1
  <2>3. live' \cup Range(free') = Blocks
    BY <1>2, <2>2 DEF Blocks
  <2>4. heap_cur' \in heap_cur .. heap_end /\ heap_cur .. heap_cur' - 1 = {}
    BY <1>1, <1>2 DEF HeapShape
  <2>5. /\ free' \in Seq(Space) /\ Once(free') /\ live' \subseteq Space /\ size' \in [Space -> Nat]
        /\ live' \cap Range(free') = {} /\ Apart(size', Blocks)
        /\ \A b \in Blocks : PageUnits <= b /\ BlockEnd(size', b) <= heap_cur'
    BY <1>1, <1>2, <2>2 DEF HeapShape
  <2>6. CellsOf(size', Blocks) = CellsOf(size, Blocks)
    BY <2>2
  <2>7. HeapInv'
    BY <1>1, <1>2, <2>2, <2>3, <2>4, <2>5, <2>6, StepKeeps
  <2> QED
    BY <1>2, <2>2, <2>7 DEF SizesKept
<1> QED
  BY <1>3, <1>4

LEMMA InitHeapInv == Init => HeapInv
<1> SUFFICES ASSUME Init PROVE HeapInv
  OBVIOUS
<1>1. /\ free = <<>> /\ size = [a \in Space |-> 0] /\ heap_cur = 0 /\ heap_end = 0
      /\ next_page = PageUnits /\ chunks = {} /\ live = {} /\ shared = FALSE
  BY DEF Init
<1>2. free \in Seq(Space) /\ OnList = {} /\ \A i, j \in DOMAIN free : free[i] = free[j] => i = j
  BY <1>1 DEF OnList
<1>3. AllCells = {} /\ PageUnits .. next_page - 1 = {}
  BY <1>1 DEF AllCells
<1>4. size \in [Space -> Nat]
  BY <1>1
<1>5. live \cup OnList = {}
  BY <1>1, <1>2
<1>6. Apart(size, live \cup OnList)
  BY <1>5 DEF Apart
<1>7. live \cap OnList = {} /\ \A b \in live \cup OnList : PageUnits <= b /\ BlockEnd(size, b) <= heap_cur
  BY <1>5
<1>8. live \subseteq Space /\ heap_cur <= heap_end /\ \A c \in chunks : c[1] .. c[2] - Smallest \subseteq Known
  BY <1>1
<1>9. /\ heap_cur \in Nat /\ heap_end \in Nat /\ next_page \in Nat
      /\ chunks \subseteq Nat \X Nat /\ shared \in BOOLEAN
  BY <1>1
<1>10. AllCells = PageUnits .. next_page - 1
  BY <1>3
<1> QED
  BY <1>1, <1>2, <1>4, <1>6, <1>7, <1>8, <1>9, <1>10 DEF HeapInv

LEMMA NextHeapInv == HeapInv /\ [Next]_vars => HeapInv'
<1> SUFFICES ASSUME HeapInv, [Next]_vars PROVE HeapInv'
  OBVIOUS
<1>1. ASSUME NEW n \in Sizes, Kmalloc(Align8(n)) PROVE HeapInv'
  <2> DEFINE m == Align8(n)
  <2>1. m \in Nat \ {0}
    BY SizesAssumption, UnitsOf
  <2> HIDE DEF m
  <2>2. TakeSplit(m) \/ TakeWhole(m) \/ Bump(m) \/ Grow(m) \/ GrowFails(m)
    BY <1>1 DEF Kmalloc, m
  <2> QED
    BY <2>1, <2>2, TakeSplitInv, TakeWholeInv, BumpInv, GrowInv, GrowFailsInv
<1>2. ASSUME NEW b \in live, Kfree(b) PROVE HeapInv'
  BY <1>2, KfreeInv
<1>3. CASE UNCHANGED vars
  <2>1. UNCHANGED <<free, size, heap_cur, heap_end, next_page, chunks, live, shared>>
    BY <1>3 DEF vars
  <2>2. AllCells' = AllCells /\ OnList' = OnList /\ Known' = Known
    BY <2>1 DEF AllCells, OnList, Known, BumpCells, Cells
  <2> QED
    BY <2>1, <2>2 DEF HeapInv
<1> QED
  BY <1>1, <1>2, <1>3 DEF Next

(* The kernel heap's invariant, whatever the size of the address space and  *)
(* the requests.                                                            *)
THEOREM SpecHeapInv == Spec => []HeapInv
  BY InitHeapInv, NextHeapInv, PTL DEF Spec

(* Both heaps together: the kernel heap's steps are among those of Spec. *)
LEMMA MSpecSpec == MSpec => Spec
<1>1. MInit => Init
  BY DEF MInit
<1>2. [MNext]_mem_vars => [Next]_vars
  <2> SUFFICES ASSUME [MNext]_mem_vars PROVE Next \/ UNCHANGED vars
    OBVIOUS
  <2>1. ASSUME NEW n \in Sizes, KernelGrows(Align8(n)) \/ KernelGrowFails(Align8(n)) \/ KernelKeeps(Align8(n))
        PROVE  Next
    <3>1. Kmalloc(Align8(n))
      BY <2>1 DEF KernelGrows, KernelGrowFails, KernelKeeps, Kmalloc
    <3> QED
      BY <3>1 DEF Next
  <2>2. ASSUME NEW b \in live, Kfree(b) PROVE Next
    BY <2>2 DEF Next
  <2>3. CASE UNCHANGED mem_vars
    BY <2>3 DEF mem_vars
  <2> QED
    BY <2>1, <2>2, <2>3, Zenon DEF MNext
<1> QED
  BY <1>1, <1>2, PTL DEF MSpec, Spec

LEMMA CellsApart ==
  ASSUME NEW x \in Nat, NEW y \in Nat, NEW d \in Nat, NEW e \in Nat, d <= y \/ e <= x
  PROVE  (x .. d - 1) \cap (y .. e - 1) = {}
OBVIOUS

LEMMA CellsWithin ==
  ASSUME NEW p \in Nat, NEW x \in Nat, NEW d \in Nat, NEW c \in Nat, NEW e \in Nat, p <= x, d <= c, c <= e
  PROVE  /\ x .. d - 1 \subseteq p .. e - 1
         /\ (x .. d - 1) \cap (c .. e - 1) = {}
OBVIOUS

LEMMA InvSound == HeapInv => HeapSound
<1> SUFFICES ASSUME HeapInv, ~shared PROVE HeapSound
  BY DEF HeapSound
<1>1. HeapShape /\ OnList = Range(free) /\ Blocks = live \cup OnList
  BY ShapeOfInv, ListRange DEF Blocks
<1>2. ASSUME NEW b \in Blocks
      PROVE  /\ b \in Nat /\ BlockEnd(size, b) \in Nat /\ PageUnits <= b /\ BlockEnd(size, b) <= heap_cur
             /\ heap_end = next_page
             /\ Cells(b) = b .. BlockEnd(size, b) - 1
  <2>1. /\ b \in Nat /\ size[b] \in Nat /\ BlockEnd(size, b) = b + Hdr + size[b]
        /\ PageUnits <= b /\ BlockEnd(size, b) <= heap_cur /\ heap_cur <= heap_end /\ heap_cur \in Nat /\ heap_end \in Nat
    BY <1>1, BlockInHeap DEF HeapShape
  <2>2. BlockEnd(size, b) \in Nat /\ heap_end # 0
    BY <2>1 DEF Hdr
  <2>3. heap_end = next_page
    BY <2>2, <1>1 DEF HeapShape
  <2>4. Cells(b) = b .. BlockEnd(size, b) - 1
    <3>1. b + Hdr + size[b] - 1 = BlockEnd(size, b) - 1
      BY <2>1 DEF Hdr
    <3> QED
      BY <3>1 DEF Cells
  <2> QED
    BY <2>1, <2>2, <2>3, <2>4
<1>3. ASSUME NEW b \in Blocks PROVE Cells(b) \subseteq AllCells \ BumpCells
  <2>1. AllCells = PageUnits .. heap_end - 1 /\ BumpCells = heap_cur .. heap_end - 1
    BY <1>1, <1>2 DEF HeapShape, BumpCells
  <2>2. heap_cur \in Nat /\ heap_end \in Nat /\ heap_cur <= heap_end
    BY <1>1 DEF HeapShape
  <2>3. /\ b .. BlockEnd(size, b) - 1 \subseteq PageUnits .. heap_end - 1
        /\ (b .. BlockEnd(size, b) - 1) \cap (heap_cur .. heap_end - 1) = {}
    BY <1>2, <2>2, CellsWithin
  <2> QED
    BY <1>2, <2>1, <2>3
<1>4. ASSUME NEW b \in Blocks, NEW c \in Blocks, b # c PROVE Cells(b) \cap Cells(c) = {}
  <2>1. BlockEnd(size, b) <= c \/ BlockEnd(size, c) <= b
    BY <1>1, <1>4 DEF HeapShape, Apart
  <2> QED
    BY <2>1, <1>2, CellsApart
<1>5. /\ \A i, j \in DOMAIN free : free[i] = free[j] => i = j
      /\ live \cap OnList = {}
  BY DEF HeapInv
<1> QED
  BY <1>1, <1>3, <1>4, <1>5 DEF HeapSound

LEMMA AtItsEnd ==
  ASSUME NEW f \in Nat, NEW l \in Nat, NEW K, f .. l - Smallest \subseteq K
  PROVE  Cardinality((f .. l - 1) \ K) < Smallest
<1>1. (f .. l - 1) \ K \in SUBSET (l - 2 .. l - 1)
  BY DEF Smallest, Hdr
<1>2. IsFiniteSet(l - 2 .. l - 1) /\ Cardinality(l - 2 .. l - 1) = 2
  BY FS_Interval
<1>3. IsFiniteSet((f .. l - 1) \ K) /\ Cardinality((f .. l - 1) \ K) <= 2
  BY <1>1, <1>2, FS_Subset
<1>4. Cardinality((f .. l - 1) \ K) \in Nat
  BY <1>3, FS_CardinalityType
<1> QED
  BY <1>3, <1>4 DEF Smallest, Hdr

LEMMA InvNothingLost == HeapInv => NothingLost
<1> SUFFICES ASSUME HeapInv, ~shared, NEW c \in chunks
             PROVE  Cardinality((c[1] .. c[2] - 1) \ Known) < Smallest
  BY DEF NothingLost, Known
<1>1. c[1] \in Nat /\ c[2] \in Nat /\ c[1] .. c[2] - Smallest \subseteq Known
  BY DEF HeapInv
<1> QED
  BY <1>1, AtItsEnd

(* Live blocks, free blocks and the bump region never overlap, whatever is  *)
(* allocated and freed in which order.                                      *)
THEOREM MSpecHeapSound == MSpec => []HeapSound
  BY MSpecSpec, SpecHeapInv, InvSound, PTL

(* Of every chunk at most two cells are neither in use nor available.       *)
THEOREM MSpecNothingLost == MSpec => []NothingLost
  BY MSpecSpec, SpecHeapInv, InvNothingLost, PTL

-----------------------------------------------------------------------------
(* The kernel heap implements the allocator                                 *)

Payloads(L, s) == [a \in { b + Hdr : b \in L } |-> s[a - Hdr]]

InUse == Payloads(live, size)

(* Payloads and headers correspond. *)
LEMMA InUseAt ==
  ASSUME NEW L \in SUBSET Nat, NEW s
  PROVE  LET f == Payloads(L, s)
         IN  /\ \A b \in L : b + Hdr \in DOMAIN f /\ f[b + Hdr] = s[b]
             /\ \A a \in DOMAIN f : \E b \in L : a = b + Hdr
             /\ \A b \in Nat : b + Hdr \in DOMAIN f => b \in L
<1> DEFINE f == Payloads(L, s)
<1>1. ASSUME NEW b \in L PROVE b + Hdr \in DOMAIN f /\ f[b + Hdr] = s[b]
  <2>1. b + Hdr \in { c + Hdr : c \in L } /\ (b + Hdr) - Hdr = b
    BY DEF Hdr
  <2> QED
    BY <2>1 DEF Payloads
<1>2. ASSUME NEW a \in DOMAIN f PROVE \E b \in L : a = b + Hdr
  BY DEF Payloads
<1>3. ASSUME NEW b \in Nat, b + Hdr \in DOMAIN f PROVE b \in L
  <2>1. PICK c \in L : b + Hdr = c + Hdr
    BY <1>3, <1>2
  <2>2. b = c
    BY <2>1 DEF Hdr
  <2> QED
    BY <2>2
<1> QED
  BY <1>1, <1>2, <1>3

(* A call that hands out no block and takes none back. *)
LEMMA InUseKept ==
  ASSUME HeapInv, live' = live, SizesKept(live)
  PROVE  UNCHANGED InUse
<1>1. live \in SUBSET Nat
  BY SpaceNat DEF HeapInv
<1> DEFINE P == { b + Hdr : b \in live }
<1>2. ASSUME NEW a \in P PROVE size'[a - Hdr] = size[a - Hdr]
  <2>1. PICK b \in live : a = b + Hdr
    OBVIOUS
  <2>2. a - Hdr = b
    BY <2>1, <1>1 DEF Hdr
  <2> QED
    BY <2>2 DEF SizesKept
<1>3. InUse' = [a \in P |-> size'[a - Hdr]]
  BY Zenon DEF InUse, Payloads
<1> HIDE DEF P
<1>4. [a \in P |-> size'[a - Hdr]] = [a \in P |-> size[a - Hdr]]
  BY <1>2
<1> QED
  BY <1>3, <1>4 DEF InUse, Payloads, P

(* kmalloc is the allocator's Alloc. *)
LEMMA HandsOutAlloc ==
  ASSUME HeapInv, HeapInv', NEW n \in Sizes, HandsOut(Align8(n))
  PROVE  A!Alloc
<1> DEFINE m == Align8(n)
           f == Payloads(live, size)
           g == Payloads(live', size')
<1>1. PICK x \in Space \ live : live' = live \cup {x} /\ size'[x] >= m
  BY DEF HandsOut
<1>2. /\ ~shared' /\ SizesKept(live) /\ live \in SUBSET Nat /\ live' \in SUBSET Nat /\ x \in Nat
      /\ live \subseteq Space /\ live' \subseteq Space /\ size \in [Space -> Nat] /\ size' \in [Space -> Nat]
  BY <1>1, SpaceNat DEF HandsOut, HeapInv
<1>3. /\ \A b \in live : b + Hdr \in DOMAIN f /\ f[b + Hdr] = size[b]
      /\ \A a \in DOMAIN f : \E b \in live : a = b + Hdr
      /\ \A b \in Nat : b + Hdr \in DOMAIN f => b \in live
  BY <1>2, InUseAt
<1>4. /\ \A b \in live' : b + Hdr \in DOMAIN g /\ g[b + Hdr] = size'[b]
      /\ \A a \in DOMAIN g : \E b \in live' : a = b + Hdr
      /\ \A b \in Nat : b + Hdr \in DOMAIN g => b \in live'
  BY <1>2, InUseAt
<1>5. A!Alloc <=>
        \E a \in Space \ DOMAIN f :
          /\ DOMAIN g = DOMAIN f \cup {a}
          /\ \A b \in DOMAIN f : b \in DOMAIN g /\ g[b] = f[b]
          /\ \E w \in { Align8(k) : k \in Sizes } : g[a] >= w
          /\ \A b \in DOMAIN f : a + g[a] <= b \/ b + f[b] <= a
  BY DEF A!Alloc, A!Kept, Payloads
<1> HIDE DEF f, g, m
<1>6. x + Hdr \in Space \ DOMAIN f
  <2>1. x + Hdr \notin DOMAIN f
    BY <1>1, <1>2, <1>3
  <2>2. BlockEnd(size', x) <= heap_cur' /\ heap_cur' <= heap_end' /\ heap_cur' \in Nat /\ heap_end' \in Nat
    BY <1>1, <1>2 DEF HeapInv
  <2>3. heap_end' <= MaxUnits
    BY <1>2, <2>2, UnitsAssumption DEF HeapInv
  <2>4. x + Hdr <= MaxUnits /\ x + Hdr \in Nat
    BY <1>1, <1>2, <2>2, <2>3, UnitsAssumption DEF BlockEnd, Hdr
  <2> QED
    BY <2>1, <2>4, UnitsAssumption DEF Space
<1>7. DOMAIN g = DOMAIN f \cup {x + Hdr}
  BY <1>1, <1>3, <1>4
<1>8. \A b \in DOMAIN f : b \in DOMAIN g /\ g[b] = f[b]
  BY <1>1, <1>2, <1>3, <1>4 DEF SizesKept
<1>9. \E w \in { Align8(k) : k \in Sizes } : g[x + Hdr] >= w
  BY <1>1, <1>4 DEF m
<1>10. ASSUME NEW a \in DOMAIN f PROVE x + Hdr + g[x + Hdr] <= a \/ a + f[a] <= x + Hdr
  <2>1. PICK b \in live : a = b + Hdr
    BY <1>3
  <2>2. f[a] = size[b] /\ size'[b] = size[b] /\ g[x + Hdr] = size'[x] /\ b # x /\ b \in live' /\ x \in live'
    BY <2>1, <1>1, <1>2, <1>3, <1>4 DEF SizesKept
  <2>3. BlockEnd(size', x) <= b \/ BlockEnd(size', b) <= x
    BY <2>2, <1>2 DEF HeapInv, Apart
  <2>4. b \in Nat /\ size'[b] \in Nat /\ size'[x] \in Nat
    BY <2>2, <1>2
  <2> QED
    BY <2>1, <2>2, <2>3, <2>4, <1>2 DEF BlockEnd, Hdr
<1> QED
  BY <1>5, <1>6, <1>7, <1>8, <1>9, <1>10

(* kfree is its Free. *)
LEMMA TakesBackFree ==
  ASSUME HeapInv, HeapInv', NEW b \in live, live' = live \ {b}, SizesKept(live')
  PROVE  A!Free
<1> DEFINE f == Payloads(live, size)
           g == Payloads(live', size')
<1>1. live \in SUBSET Nat /\ live' \in SUBSET Nat
  BY SpaceNat DEF HeapInv
<1>2. /\ \A c \in live : c + Hdr \in DOMAIN f /\ f[c + Hdr] = size[c]
      /\ \A a \in DOMAIN f : \E c \in live : a = c + Hdr
      /\ \A c \in Nat : c + Hdr \in DOMAIN f => c \in live
  BY <1>1, InUseAt
<1>3. /\ \A c \in live' : c + Hdr \in DOMAIN g /\ g[c + Hdr] = size'[c]
      /\ \A a \in DOMAIN g : \E c \in live' : a = c + Hdr
      /\ \A c \in Nat : c + Hdr \in DOMAIN g => c \in live'
  BY <1>1, InUseAt
<1>4. A!Free <=>
        \E a \in DOMAIN f :
          /\ DOMAIN g = DOMAIN f \ {a}
          /\ \A c \in DOMAIN f \ {a} : c \in DOMAIN g /\ g[c] = f[c]
  BY DEF A!Free, A!Kept, Payloads
<1> HIDE DEF f, g
<1>5. b + Hdr \in DOMAIN f
  BY <1>2
<1>6. DOMAIN g = DOMAIN f \ {b + Hdr}
  <2>1. ASSUME NEW a \in DOMAIN g PROVE a \in DOMAIN f \ {b + Hdr}
    <3>1. PICK c \in live' : a = c + Hdr
      BY <1>3
    <3>2. c # b /\ c \in Nat /\ b \in Nat
      BY <1>1
    <3>3. a # b + Hdr
      BY <3>1, <3>2 DEF Hdr
    <3> QED
      BY <3>1, <3>3, <1>2
  <2>2. ASSUME NEW a \in DOMAIN f \ {b + Hdr} PROVE a \in DOMAIN g
    BY <1>2, <1>3
  <2> QED
    BY <2>1, <2>2
<1>7. ASSUME NEW a \in DOMAIN f \ {b + Hdr} PROVE a \in DOMAIN g /\ g[a] = f[a]
  BY <1>2, <1>3 DEF SizesKept
<1> QED
  BY <1>4, <1>5, <1>6, <1>7

(* The kernel heap implements the allocator, with the payloads of the live  *)
(* blocks as the blocks in use: kmalloc hands out memory nobody holds, as   *)
(* much as was asked, and blocks keep their place and size until kfree.     *)
THEOREM MSpecImplementsAllocator == MSpec => ImplementsAllocator
<1>1. Init => A!Init
  BY DEF Init, A!Init
<1>2. HeapInv /\ [Next]_vars => [A!Alloc \/ A!Free]_InUse
  <2> SUFFICES ASSUME HeapInv, [Next]_vars PROVE A!Alloc \/ A!Free \/ UNCHANGED InUse
    OBVIOUS
  <2>0. HeapInv'
    BY NextHeapInv
  <2>1. ASSUME NEW n \in Sizes, Kmalloc(Align8(n)) PROVE A!Alloc \/ UNCHANGED InUse
    <3> DEFINE m == Align8(n)
    <3>1. m \in Nat \ {0}
      BY SizesAssumption, UnitsOf
    <3> HIDE DEF m
    <3>2. CASE TakeSplit(m) \/ TakeWhole(m) \/ Bump(m) \/ Grow(m)
      <4>1. HandsOut(m)
        BY <3>1, <3>2, TakeSplitInv, TakeWholeInv, BumpInv, GrowInv
      <4> QED
        BY <4>1, <2>0, HandsOutAlloc DEF m
    <3>3. CASE GrowFails(m)
      <4>1. live' = live /\ SizesKept(live)
        BY <3>1, <3>3, GrowFailsInv
      <4> QED
        BY <4>1, InUseKept
    <3> QED
      BY <2>1, <3>2, <3>3 DEF Kmalloc, m
  <2>2. ASSUME NEW b \in live, Kfree(b) PROVE A!Free
    BY <2>2, <2>0, KfreeInv, TakesBackFree
  <2>3. CASE UNCHANGED vars
    <3>1. live' = live /\ size' = size
      BY <2>3 DEF vars
    <3> QED
      BY <3>1, InUseKept DEF SizesKept
  <2> QED
    BY <2>1, <2>2, <2>3 DEF Next
<1>3. Spec => Init /\ []HeapInv /\ [][Next]_vars
  BY SpecHeapInv DEF Spec
<1>4. Init /\ []HeapInv /\ [][Next]_vars => A!Init /\ [][A!Alloc \/ A!Free]_InUse
  BY <1>1, <1>2, PTL
<1> QED
  BY <1>3, <1>4, MSpecSpec, PTL DEF ImplementsAllocator, A!Spec, InUse, Payloads

-----------------------------------------------------------------------------
(* Pages                                                                    *)

Page(a) == a \div PageUnits

LEMMA PageFacts ==
  ASSUME NEW a \in Nat
  PROVE  Page(a) \in Nat /\ Page(a) * PageUnits <= a /\ a < (Page(a) + 1) * PageUnits
BY SMTT(30) DEF Page

LEMMA TimesGrows ==
  ASSUME NEW x \in Nat, NEW y \in Nat, x <= y
  PROVE  x * PageUnits \in Nat /\ y * PageUnits \in Nat /\ x * PageUnits <= y * PageUnits
BY SMTT(30)

(* An address lies below the start of page k if its page does. *)
LEMMA PageBelow ==
  ASSUME NEW a \in Nat, NEW k \in Nat
  PROVE  a < k * PageUnits <=> Page(a) < k
<1> DEFINE p == Page(a)
<1>1. p \in Nat /\ p * PageUnits <= a /\ a < (p + 1) * PageUnits
  BY PageFacts
<1> HIDE DEF p
<1>2. ASSUME p < k PROVE a < k * PageUnits
  <2>1. (p + 1) * PageUnits \in Nat /\ k * PageUnits \in Nat /\ (p + 1) * PageUnits <= k * PageUnits
    <3>1. p + 1 \in Nat /\ p + 1 <= k
      BY <1>1, <1>2
    <3> QED
      BY <3>1, TimesGrows
  <2> QED
    BY <2>1, <1>1
<1>3. ASSUME ~(p < k) PROVE ~(a < k * PageUnits)
  <2>1. k * PageUnits \in Nat /\ p * PageUnits \in Nat /\ k * PageUnits <= p * PageUnits
    BY <1>1, <1>3, TimesGrows
  <2> QED
    BY <2>1, <1>1
<1> QED
  BY <1>2, <1>3 DEF p

LEMMA PageOfTimes ==
  ASSUME NEW k \in Nat PROVE k * PageUnits \in Nat /\ Page(k * PageUnits) = k
<1> DEFINE a == k * PageUnits
<1>1. a \in Nat
  BY TimesGrows
<1>2. (k + 1) * PageUnits = a + PageUnits
  OBVIOUS
<1>3. Page(a) \in Nat /\ ~(Page(a) < k)
  BY <1>1, PageFacts, PageBelow
<1>4. Page(a) < k + 1
  <2>1. a < (k + 1) * PageUnits
    BY <1>1, <1>2
  <2> HIDE DEF a
  <2>2. k + 1 \in Nat
    OBVIOUS
  <2> QED
    BY <1>1, <2>1, <2>2, PageBelow
<1> HIDE DEF a
<1>5. a \in Nat /\ Page(a) = k
  BY <1>1, <1>3, <1>4
<1> QED
  BY <1>5 DEF a

LEMMA PagesRise ==
  ASSUME NEW a \in Nat, NEW b \in Nat, a <= b
  PROVE  Page(a) <= Page(b)
<1>1. Page(a) \in Nat /\ Page(b) \in Nat /\ b < (Page(b) + 1) * PageUnits
  BY PageFacts
<1> DEFINE k == Page(b) + 1
<1>2. k \in Nat
  BY <1>1
<1>3. k * PageUnits \in Nat
  BY <1>2, TimesGrows
<1>4. a < k * PageUnits
  BY <1>1, <1>3
<1> HIDE DEF k
<1>5. Page(a) < k
  BY <1>2, <1>4, PageBelow
<1> QED
  BY <1>1, <1>5 DEF k

-----------------------------------------------------------------------------
(* The user heap: its blocks                                                *)

Held(L)    == UNION { L[t] : t \in Tasks }
Span(s, b) == b .. BlockEnd(s, b) - 1

(* The list l, the sizes s and what the tasks hold, L: no block is twice in *)
(* them, and all lie apart below e.                                         *)
Layout(l, s, L, e) ==
  /\ l \in Seq(USpace) /\ Once(l) /\ s \in [USpace -> Nat] /\ L \in [Tasks -> SUBSET USpace] /\ e \in USpace
  /\ \A t \in Tasks : L[t] \cap Range(l) = {}
  /\ \A t, o \in Tasks : t # o => L[t] \cap L[o] = {}
  /\ Apart(s, Range(l) \cup Held(L))
  /\ \A b \in Range(l) \cup Held(L) : BlockEnd(s, b) <= e

LEMMA USpaceNat == USpace \in SUBSET Nat
<1>1. MaxFrames * PageUnits \in Nat
  BY FramesAssumption, TimesGrows
<1> QED
  BY <1>1 DEF USpace

LEMMA BelowInUSpace ==
  ASSUME NEW x \in Nat, NEW e \in USpace, x <= e PROVE x \in USpace
<1>1. MaxFrames * PageUnits \in Nat
  BY FramesAssumption, TimesGrows
<1> QED
  BY <1>1 DEF USpace

LEMMA ListedInUSpace ==
  ASSUME NEW l, NEW s, NEW L, NEW e, Layout(l, s, L, e)
  PROVE  Range(l) \cup Held(L) \in SUBSET USpace
BY DEF Layout, Held, Range

LEMMA BlockFacts ==
  ASSUME NEW l, NEW s, NEW L, NEW e, Layout(l, s, L, e), NEW b \in Range(l) \cup Held(L)
  PROVE  /\ b \in Nat /\ b \in USpace /\ s[b] \in Nat /\ BlockEnd(s, b) \in Nat /\ e \in Nat
         /\ BlockEnd(s, b) = b + Hdr + s[b] /\ BlockEnd(s, b) <= e
         /\ b \in Span(s, b) /\ b + 1 \in Span(s, b)
<1>1. b \in USpace /\ e \in USpace /\ s \in [USpace -> Nat] /\ BlockEnd(s, b) <= e
  BY ListedInUSpace DEF Layout
<1>2. b \in Nat /\ e \in Nat /\ s[b] \in Nat
  BY <1>1, USpaceNat
<1>3. BlockEnd(s, b) \in Nat /\ BlockEnd(s, b) = b + Hdr + s[b] /\ b + 1 < BlockEnd(s, b)
  BY <1>2 DEF BlockEnd, Hdr
<1>4. b \in Span(s, b) /\ b + 1 \in Span(s, b)
  BY <1>2, <1>3 DEF Span
<1> QED
  BY <1>1, <1>2, <1>3, <1>4

(* What the tasks other than t hold. *)
Others(L, t) == Held([L EXCEPT ![t] = {}])

(* K is L but for the blocks X of task t. *)
ChangedAt(L, K, t, X) ==
  L \in [Tasks -> SUBSET USpace] /\ X \in SUBSET USpace /\ t \in Tasks /\ K = [L EXCEPT ![t] = X]

(* The blocks of one task change. *)
LEMMA HeldChanged ==
  ASSUME NEW L, NEW K, NEW t, NEW X, ChangedAt(L, K, t, X)
  PROVE  Held(K) = Others(L, t) \cup X /\ Held(L) = Others(L, t) \cup L[t]
<1> USE DEF ChangedAt
<1> DEFINE Z == [L EXCEPT ![t] = {}]
<1>1. K \in [Tasks -> SUBSET USpace] /\ K[t] = X /\ \A o \in Tasks \ {t} : K[o] = L[o]
  OBVIOUS
<1>2. Z[t] = {} /\ \A o \in Tasks \ {t} : Z[o] = L[o]
  OBVIOUS
<1> HIDE DEF Z
<1>3. Held(K) = Held(Z) \cup X
  BY <1>1, <1>2 DEF Held
<1>4. Held(L) = Held(Z) \cup L[t]
  BY <1>2 DEF Held
<1> QED
  BY <1>3, <1>4 DEF Z, Others

(* The blocks of a task go: it is over. *)
LEMMA EndLayout ==
  ASSUME NEW l, NEW s, NEW L, NEW e, Layout(l, s, L, e), NEW t \in Tasks
  PROVE  Layout(l, s, [L EXCEPT ![t] = {}], e)
<1> DEFINE K == [L EXCEPT ![t] = {}]
<1>1. L \in [Tasks -> SUBSET USpace]
  BY DEF Layout
<1>2. K \in [Tasks -> SUBSET USpace] /\ \A o \in Tasks : K[o] \subseteq L[o]
  BY <1>1
<1> HIDE DEF K
<1>3. Held(K) \subseteq Held(L)
  BY <1>2 DEF Held
<1> QED
  BY <1>2, <1>3 DEF Layout, Apart, K

LEMMA OthersFacts ==
  ASSUME NEW l, NEW s, NEW L, NEW e, Layout(l, s, L, e), NEW t \in Tasks
  PROVE  /\ Held(L) = Others(L, t) \cup L[t]
         /\ Others(L, t) \cap (Range(l) \cup L[t]) = {}
         /\ \A o \in Tasks \ {t} : L[o] \subseteq Others(L, t)
<1>1. L \in [Tasks -> SUBSET USpace]
  BY DEF Layout
<1>2. Held(L) = Others(L, t) \cup L[t]
  <2> DEFINE K == [L EXCEPT ![t] = {}]
  <2>1. ChangedAt(L, K, t, {})
    BY <1>1 DEF ChangedAt
  <2> HIDE DEF K
  <2> QED
    BY <2>1, HeldChanged
<1>3. Others(L, t) = UNION { L[o] : o \in Tasks \ {t} }
  BY <1>1 DEF Others, Held
<1>4. \A o \in Tasks \ {t} : L[o] \cap Range(l) = {} /\ L[o] \cap L[t] = {}
  BY DEF Layout
<1> QED
  BY <1>2, <1>3, <1>4

(* After a step of t with the list r, the sizes v and the blocks X in its   *)
(* hands.                                                                   *)
NewLayout(L, t, r, v, X, f) ==
  LET B == Range(r) \cup X
  IN  /\ r \in Seq(USpace) /\ Once(r) /\ v \in [USpace -> Nat] /\ X \in SUBSET USpace /\ f \in USpace
      /\ X \cap Range(r) = {} /\ Others(L, t) \cap B = {}
      /\ Apart(v, B \cup Others(L, t))
      /\ \A b \in B \cup Others(L, t) : BlockEnd(v, b) <= f

LEMMA LayoutChanged ==
  ASSUME NEW l, NEW s, NEW L, NEW e, Layout(l, s, L, e), NEW t \in Tasks,
         NEW r, NEW v, NEW X, NEW f, NewLayout(L, t, r, v, X, f)
  PROVE  Layout(r, v, [L EXCEPT ![t] = X], f)
<1> DEFINE K == [L EXCEPT ![t] = X]
<1>0. /\ r \in Seq(USpace) /\ Once(r) /\ v \in [USpace -> Nat] /\ X \in SUBSET USpace /\ f \in USpace
      /\ X \cap Range(r) = {} /\ Others(L, t) \cap (Range(r) \cup X) = {}
  BY DEF NewLayout
<1>1. L \in [Tasks -> SUBSET USpace] /\ \A u, o \in Tasks : u # o => L[u] \cap L[o] = {}
  BY DEF Layout
<1>2. /\ K \in [Tasks -> SUBSET USpace] /\ K[t] = X /\ \A o \in Tasks \ {t} : K[o] = L[o]
      /\ Held(K) = Others(L, t) \cup X
  <2>1. L \in [Tasks -> SUBSET USpace] /\ X \in SUBSET USpace
    BY <1>0, <1>1
  <2>2. K \in [Tasks -> SUBSET USpace] /\ K[t] = X /\ \A o \in Tasks \ {t} : K[o] = L[o]
    BY <2>1
  <2>3. ChangedAt(L, K, t, X)
    BY <2>1 DEF ChangedAt
  <2> HIDE DEF K
  <2>4. Held(K) = Others(L, t) \cup X
    BY <2>3, HeldChanged
  <2> QED
    BY <2>2, <2>4
<1>3. \A o \in Tasks \ {t} : L[o] \subseteq Others(L, t)
  BY OthersFacts
<1> HIDE DEF K
<1>4. ASSUME NEW o \in Tasks PROVE K[o] \cap Range(r) = {}
  BY <1>0, <1>2, <1>3
<1>5. ASSUME NEW u \in Tasks, NEW o \in Tasks, u # o PROVE K[u] \cap K[o] = {}
  <2>1. CASE u # t /\ o # t
    BY <2>1, <1>1, <1>2, <1>5
  <2>2. CASE u = t \/ o = t
    BY <2>2, <1>0, <1>2, <1>3, <1>5
  <2> QED
    BY <2>1, <2>2
<1>6. Range(r) \cup Held(K) = Range(r) \cup X \cup Others(L, t)
  BY <1>2
<1>7. /\ Apart(v, Range(r) \cup Held(K))
      /\ \A b \in Range(r) \cup Held(K) : BlockEnd(v, b) <= f
  BY <1>6 DEF NewLayout
<1> QED
  BY <1>0, <1>2, <1>4, <1>5, <1>7 DEF Layout, K

(* A block of the list is split and its first part handed to t. *)
Splits(l, s, i, n, b, y, r, v) ==
  /\ i \in DOMAIN l /\ n \in Nat \ {0} /\ s[b] - n >= Smallest
  /\ b = l[i] /\ y = b + Hdr + n
  /\ v = [s EXCEPT ![b] = n, ![y] = s[b] - n - Hdr] /\ r = [l EXCEPT ![i] = y]

SplitOff(l, s, L, e, t, b, y, r, v) ==
  /\ NewLayout(L, t, r, v, L[t] \cup {b}, e)
  /\ Range(r) = (Range(l) \ {b}) \cup {y}
  /\ Span(v, b) \subseteq Span(s, b) /\ Span(v, y) \subseteq Span(s, b)
  /\ \A z \in (Range(l) \cup Held(L)) \ {b} : v[z] = s[z]

LEMMA SplitLayout ==
  ASSUME NEW l, NEW s, NEW L, NEW e, Layout(l, s, L, e), NEW t \in Tasks,
         NEW i, NEW n, NEW b, NEW y, NEW r, NEW v, Splits(l, s, i, n, b, y, r, v)
  PROVE  SplitOff(l, s, L, e, t, b, y, r, v)
<1>0. /\ i \in DOMAIN l /\ n \in Nat \ {0} /\ s[b] - n >= Smallest
      /\ b = l[i] /\ y = b + Hdr + n
      /\ v = [s EXCEPT ![b] = n, ![y] = s[b] - n - Hdr] /\ r = [l EXCEPT ![i] = y]
  BY DEF Splits
<1> DEFINE B == Range(l) \cup Held(L)
<1>1. /\ l \in Seq(USpace) /\ Once(l) /\ s \in [USpace -> Nat] /\ L \in [Tasks -> SUBSET USpace] /\ e \in USpace
      /\ Apart(s, B) /\ L[t] \cap Range(l) = {}
  BY DEF Layout
<1>2. b \in Range(l) /\ b \in B
  BY <1>0 DEF Range
<1>3. /\ b \in Nat /\ b \in USpace /\ s[b] \in Nat /\ e \in Nat
      /\ BlockEnd(s, b) = b + Hdr + s[b] /\ BlockEnd(s, b) <= e
  BY <1>2, BlockFacts
<1>4. s[b] - n >= Smallest
  BY <1>0
<1>5. y \in USpace
  <2>1. y \in Nat /\ y <= e
    BY <1>0, <1>3, <1>4 DEF Smallest, Hdr
  <2> QED
    BY <2>1, <1>1, BelowInUSpace
<1>6. TwoBlocks(USpace, s, B, b, y, v)
  BY <1>0, <1>1, <1>2, <1>4, <1>5, USpaceNat, ListedInUSpace, SplitKeeps
<1>7. y \notin B /\ y # b
  BY <1>2, <1>6 DEF TwoBlocks
<1>9. r \in Seq(USpace) /\ Once(r) /\ Range(r) = (Range(l) \ {b}) \cup {y}
  <2>1. Holds(USpace, r, (Range(l) \ {l[i]}) \cup {y})
    BY <1>0, <1>1, <1>2, <1>5, <1>7, ReplaceFacts
  <2> QED
    BY <2>1, <1>0 DEF Holds
<1>10. Held(L) = Others(L, t) \cup L[t] /\ Others(L, t) \cap (Range(l) \cup L[t]) = {}
  BY OthersFacts
<1> DEFINE X == L[t] \cup {b}
<1>11. Range(r) \cup X \cup Others(L, t) = B \cup {y}
  BY <1>2, <1>9, <1>10
<1>12. v \in [USpace -> Nat] /\ Apart(v, B \cup {y})
  BY <1>6 DEF TwoBlocks
<1>13. ASSUME NEW c \in B \cup {y} PROVE BlockEnd(v, c) <= e
  <2>1. CASE c = b
    <3>1. BlockEnd(v, c) = y
      BY <2>1, <1>6 DEF TwoBlocks
    <3>2. y <= e
      BY <1>0, <1>3, <1>4 DEF Smallest, Hdr
    <3> QED
      BY <3>1, <3>2
  <2>2. CASE c = y
    BY <2>2, <1>3, <1>6 DEF TwoBlocks
  <2>3. CASE c \notin {b, y}
    <3>1. c \in B /\ v[c] = s[c]
      BY <2>3, <1>6, ListedInUSpace DEF TwoBlocks
    <3>2. BlockEnd(s, c) <= e
      BY <3>1, BlockFacts
    <3> QED
      BY <3>1, <3>2 DEF BlockEnd
  <2> QED
    BY <2>1, <2>2, <2>3
<1>14. X \cap Range(r) = {} /\ Others(L, t) \cap (Range(r) \cup X) = {} /\ X \in SUBSET USpace
  <2>1. y \notin Range(l) /\ y \notin L[t] /\ y \notin Others(L, t)
    BY <1>7, <1>10
  <2>2. b \in Range(l) /\ L[t] \cap Range(l) = {} /\ b # y
    BY <1>1, <1>2, <1>7
  <2>3. X \in SUBSET USpace
    BY <1>1, <1>3
  <2> DEFINE R == Range(l)
             O == Others(L, t)
  <2>4. Range(r) = (R \ {b}) \cup {y} /\ O \cap (R \cup L[t]) = {}
    BY <1>9, <1>10
  <2> HIDE DEF R, O
  <2>5. X \cap ((R \ {b}) \cup {y}) = {}
    <3>1. L[t] \cap R = {} /\ y \notin L[t] /\ b # y
      BY <2>1, <2>2 DEF R
    <3> QED
      BY <3>1
  <2>6. O \cap (((R \ {b}) \cup {y}) \cup X) = {}
    <3>1. y \notin O /\ b \in R
      BY <2>1, <2>2 DEF R, O
    <3> QED
      BY <2>4, <3>1
  <2> QED
    BY <2>3, <2>4, <2>5, <2>6 DEF O
<1> HIDE DEF B
<1>15. NewLayout(L, t, r, v, X, e)
  BY <1>1, <1>9, <1>11, <1>12, <1>13, <1>14 DEF NewLayout
<1>16. /\ BlockEnd(v, b) = y /\ BlockEnd(v, y) = BlockEnd(s, b) /\ y \in Nat /\ b <= y
       /\ y <= BlockEnd(s, b) /\ BlockEnd(s, b) \in Nat
  BY <1>0, <1>3, <1>4, <1>6 DEF TwoBlocks, Smallest, Hdr
<1>17. Span(v, b) \subseteq Span(s, b) /\ Span(v, y) \subseteq Span(s, b)
  <2>1. b .. y - 1 \subseteq b .. BlockEnd(s, b) - 1
    BY <1>3, <1>16, CellsWithin
  <2>2. y .. BlockEnd(s, b) - 1 \subseteq b .. BlockEnd(s, b) - 1
    BY <1>3, <1>16, CellsWithin
  <2> QED
    BY <2>1, <2>2, <1>16, Zenon DEF Span
<1>18. \A z \in B \ {b} : v[z] = s[z]
  BY <1>6, <1>7, ListedInUSpace DEF TwoBlocks, B
<1> QED
  BY <1>9, <1>15, <1>17, <1>18 DEF B, SplitOff

(* A block of the list is handed to t as a whole. *)
LEMMA WholeLayout ==
  ASSUME NEW l, NEW s, NEW L, NEW e, Layout(l, s, L, e), NEW t \in Tasks,
         NEW i \in DOMAIN l, NEW b, b = l[i], NEW r, r = RemoveAt(l, i)
  PROVE  /\ NewLayout(L, t, r, s, L[t] \cup {b}, e)
         /\ Range(r) = Range(l) \ {b} /\ b \in Range(l)
<1> DEFINE X == L[t] \cup {b}
<1>1. /\ l \in Seq(USpace) /\ Once(l) /\ s \in [USpace -> Nat] /\ L \in [Tasks -> SUBSET USpace] /\ e \in USpace
      /\ Apart(s, Range(l) \cup Held(L)) /\ L[t] \cap Range(l) = {}
      /\ \A c \in Range(l) \cup Held(L) : BlockEnd(s, c) <= e
  BY DEF Layout
<1>2. b \in Range(l)
  BY DEF Range
<1>3. r \in Seq(USpace) /\ Once(r) /\ Range(r) = Range(l) \ {b}
  BY <1>1, RemoveAtFacts
<1>4. Held(L) = Others(L, t) \cup L[t] /\ Others(L, t) \cap (Range(l) \cup L[t]) = {}
  BY OthersFacts
<1>5. b \in USpace
  BY <1>2, ListedInUSpace
<1>6. Range(r) \cup X \cup Others(L, t) = Range(l) \cup Held(L)
  BY <1>2, <1>3, <1>4
<1>7. X \cap Range(r) = {} /\ Others(L, t) \cap (Range(r) \cup X) = {} /\ X \in SUBSET USpace
  BY <1>1, <1>2, <1>3, <1>4, <1>5
<1>8. NewLayout(L, t, r, s, X, e)
  BY <1>1, <1>3, <1>6, <1>7 DEF NewLayout
<1> QED
  BY <1>2, <1>3, <1>8

(* A block at the break goes to t. *)
Bumps(s, e, n, f, v) ==
  n \in Nat \ {0} /\ f = e + Hdr + n /\ f \in USpace /\ v = [s EXCEPT ![e] = n]

Bumped(l, s, L, e, t, f, v) ==
  /\ NewLayout(L, t, l, v, L[t] \cup {e}, f)
  /\ \A z \in Range(l) \cup Held(L) : v[z] = s[z]
  /\ BlockEnd(v, e) = f

LEMMA BumpLayout ==
  ASSUME NEW l, NEW s, NEW L, NEW e, Layout(l, s, L, e), NEW t \in Tasks,
         NEW n, NEW f, NEW v, Bumps(s, e, n, f, v)
  PROVE  Bumped(l, s, L, e, t, f, v)
<1>0. n \in Nat \ {0} /\ f = e + Hdr + n /\ f \in USpace /\ v = [s EXCEPT ![e] = n]
  BY DEF Bumps
<1> DEFINE B == Range(l) \cup Held(L)
           X == L[t] \cup {e}
<1>1. /\ l \in Seq(USpace) /\ Once(l) /\ s \in [USpace -> Nat] /\ L \in [Tasks -> SUBSET USpace] /\ e \in USpace
      /\ Apart(s, B) /\ L[t] \cap Range(l) = {} /\ B \in SUBSET USpace
      /\ \A c \in B : BlockEnd(s, c) <= e
  BY ListedInUSpace DEF Layout
<1>2. e \in Nat /\ f = e + 2 + n /\ f \in USpace
  BY <1>0, <1>1, USpaceNat DEF Hdr
<1>3. Added(USpace, s, B, e, n, v)
  BY <1>0, <1>1, USpaceNat, AddKeeps
<1> HIDE DEF B
<1>4. v \in [USpace -> Nat] /\ e \notin B /\ Apart(v, B \cup {e})
  BY <1>3 DEF Added
<1>5. Held(L) = Others(L, t) \cup L[t] /\ Others(L, t) \cap (Range(l) \cup L[t]) = {}
  BY OthersFacts
<1>6. Range(l) \cup X \cup Others(L, t) = B \cup {e}
  BY <1>5 DEF B
<1>7. X \cap Range(l) = {} /\ Others(L, t) \cap (Range(l) \cup X) = {} /\ X \in SUBSET USpace
  BY <1>1, <1>4, <1>5 DEF B
<1>8. ASSUME NEW c \in B \cup {e} PROVE BlockEnd(v, c) <= f
  <2>1. CASE c = e
    BY <2>1, <1>0, <1>2, <1>3 DEF Added
  <2>2. CASE c # e
    <3>1. c \in B /\ v[c] = s[c]
      BY <2>2, <1>1, <1>3 DEF Added
    <3>2. BlockEnd(s, c) <= e /\ BlockEnd(s, c) \in Nat
      BY <3>1, BlockFacts DEF B
    <3>3. BlockEnd(v, c) = BlockEnd(s, c)
      BY <3>1 DEF BlockEnd
    <3> QED
      BY <3>2, <3>3, <1>0, <1>2
  <2> QED
    BY <2>1, <2>2
<1>9. NewLayout(L, t, l, v, X, f)
  BY <1>1, <1>2, <1>4, <1>6, <1>7, <1>8 DEF NewLayout
<1>10. (\A z \in B : v[z] = s[z]) /\ BlockEnd(v, e) = f
  BY <1>0, <1>1, <1>3, <1>4 DEF Added
<1> QED
  BY <1>9, <1>10 DEF B, Bumped

(* A block of t comes back to the list. *)
Comes(l, s, L, e, t, b) == Layout(l, s, L, e) /\ t \in Tasks /\ b \in L[t]

(* The blocks with the list r and the sizes v: those of t but b, and the    *)
(* list grown by b, some of whose blocks may be joined.                     *)
CameBack(l, s, L, t, b, r, v, e) ==
  /\ NewLayout(L, t, r, v, L[t] \ {b}, e)
  /\ Range(r) \subseteq Range(l) \cup {b}
  /\ \A z \in Others(L, t) \cup (L[t] \ {b}) : v[z] = s[z]

LEMMA ReturnLayout ==
  ASSUME NEW l, NEW s, NEW L, NEW e, NEW t, NEW b, Comes(l, s, L, e, t, b),
         NEW r, NEW v, r = Returned(l, s, b).list, v = Returned(l, s, b).size
  PROVE  CameBack(l, s, L, t, b, r, v, e)
<1> DEFINE S == Range(l) \cup {b}
           B == Range(l) \cup Held(L)
           C == B \ (S \ Range(r))
           X == L[t] \ {b}
<1>1. Layout(l, s, L, e) /\ t \in Tasks /\ b \in L[t]
  BY DEF Comes
<1>2. /\ l \in Seq(USpace) /\ Once(l) /\ s \in [USpace -> Nat] /\ L \in [Tasks -> SUBSET USpace] /\ e \in USpace
      /\ Apart(s, B) /\ L[t] \cap Range(l) = {} /\ B \in SUBSET USpace
      /\ \A c \in B : BlockEnd(s, c) <= e
  BY <1>1, ListedInUSpace DEF Layout
<1>3. Held(L) = Others(L, t) \cup L[t] /\ Others(L, t) \cap (Range(l) \cup L[t]) = {}
  BY <1>1, OthersFacts
<1>4. b \in USpace /\ b \notin Range(l) /\ S \subseteq B
  BY <1>1, <1>2, <1>3
<1> HIDE DEF B
<1>5. Coalesced(USpace, S, s, B, r, v, C)
  BY <1>2, <1>4, USpaceNat, ReturnedKeeps
<1>6. /\ r \in Seq(USpace) /\ Once(r) /\ v \in [USpace -> Nat] /\ Range(r) \subseteq S
      /\ Apart(v, C) /\ \A z \in USpace \ S : v[z] = s[z]
      /\ \A z \in Range(r) : \E c \in S : BlockEnd(v, z) = BlockEnd(s, c)
  BY <1>5 DEF Coalesced
<1>7. Range(r) \cup X \cup Others(L, t) = C
  BY <1>1, <1>2, <1>3, <1>4, <1>6 DEF B
<1>8. Others(L, t) \cup X \subseteq USpace \ S /\ Others(L, t) \cup X \subseteq B /\ X \in SUBSET USpace
  BY <1>1, <1>2, <1>3, <1>4 DEF B
<1>9. \A z \in Others(L, t) \cup X : v[z] = s[z]
  BY <1>6, <1>8
<1>10. ASSUME NEW z \in Range(r) \cup X \cup Others(L, t) PROVE BlockEnd(v, z) <= e
  <2>1. CASE z \in Range(r)
    BY <2>1, <1>2, <1>4, <1>6
  <2>2. CASE z \in Others(L, t) \cup X
    <3>1. BlockEnd(v, z) = BlockEnd(s, z)
      BY <2>2, <1>9 DEF BlockEnd
    <3> QED
      BY <2>2, <3>1, <1>2, <1>8
  <2> QED
    BY <2>1, <2>2
<1>11. X \cap Range(r) = {} /\ Others(L, t) \cap (Range(r) \cup X) = {}
  BY <1>1, <1>2, <1>3, <1>6
<1>12. NewLayout(L, t, r, v, X, e)
  BY <1>2, <1>6, <1>7, <1>8, <1>10, <1>11 DEF NewLayout
<1> QED
  BY <1>6, <1>9, <1>12 DEF CameBack

(* The block is on the list and not yet joined to its neighbours. *)
LEMMA ListedLayout ==
  ASSUME NEW l, NEW s, NEW L, NEW e, NEW t, NEW b, Comes(l, s, L, e, t, b),
         NEW r, r = InsertAt(l, Place(l, b), b)
  PROVE  CameBack(l, s, L, t, b, r, s, e) /\ Range(r) = Range(l) \cup {b}
<1> DEFINE B == Range(l) \cup Held(L)
           X == L[t] \ {b}
<1>1. Layout(l, s, L, e) /\ t \in Tasks /\ b \in L[t]
  BY DEF Comes
<1>2. /\ l \in Seq(USpace) /\ Once(l) /\ s \in [USpace -> Nat] /\ L \in [Tasks -> SUBSET USpace] /\ e \in USpace
      /\ Apart(s, B) /\ L[t] \cap Range(l) = {}
      /\ \A c \in B : BlockEnd(s, c) <= e
  BY <1>1 DEF Layout
<1>3. Held(L) = Others(L, t) \cup L[t] /\ Others(L, t) \cap (Range(l) \cup L[t]) = {}
  BY <1>1, OthersFacts
<1>4. b \in USpace /\ b \notin Range(l)
  BY <1>1, <1>2
<1>5. r \in Seq(USpace) /\ Once(r) /\ Range(r) = Range(l) \cup {b}
  <2>1. Place(l, b) \in 1 .. Len(l) + 1
    BY <1>2, PlaceFacts
  <2> QED
    BY <1>2, <1>4, <2>1, InsertAtFacts
<1>6. Range(r) \cup X \cup Others(L, t) = B
  BY <1>1, <1>3, <1>5
<1>7. X \cap Range(r) = {} /\ Others(L, t) \cap (Range(r) \cup X) = {} /\ X \in SUBSET USpace
  BY <1>1, <1>2, <1>3, <1>5
<1>8. NewLayout(L, t, r, s, X, e)
  BY <1>2, <1>5, <1>6, <1>7 DEF NewLayout
<1> QED
  BY <1>5, <1>8 DEF CameBack

-----------------------------------------------------------------------------
(* The user heap: the pages of its blocks                                   *)

(* The page tables m: no page is in two of them; a task has mapped what it  *)
(* holds, and all of a free block whose header it can read.                 *)
Mapping(m, l, s, L) ==
  /\ \A t, o \in Tasks : t # o => m[t] \cap m[o] = {}
  /\ \A t \in Tasks : \A b \in L[t] : Touches(m[t], Span(s, b))
  /\ \A t \in Tasks : \A b \in Range(l) : Touches(m[t], Header(b)) => Touches(m[t], Span(s, b))

LEMMA HeaderIs ==
  ASSUME NEW b \in Nat PROVE Header(b) = {b, b + 1}
<1>1. b + Hdr - 1 = b + 1
  BY DEF Hdr
<1>2. Header(b) = b .. b + 1
  BY <1>1 DEF Header
<1> QED
  BY <1>2

LEMMA TouchesPages ==
  ASSUME NEW m, NEW S
  PROVE  Touches(m, S) <=> \A a \in S : Page(a) \in m
BY DEF Touches, Page

LEMMA TouchesHeader ==
  ASSUME NEW m, NEW b \in Nat
  PROVE  Touches(m, Header(b)) <=> Page(b) \in m /\ Page(b + 1) \in m
<1>1. Header(b) = {b, b + 1}
  BY HeaderIs
<1>2. Touches(m, Header(b)) <=> \A a \in {b, b + 1} : Page(a) \in m
  BY <1>1, TouchesPages
<1> QED
  BY <1>2

LEMMA ReadableAll ==
  ASSUME NEW t, NEW S
  PROVE  Readable(t, S) <=> \A b \in S : Touches(maps[t], Header(b))
BY Zenon DEF Readable, Touches

(* After a step of t: a block of the list r is as it was on l, or t has     *)
(* mapped all of it, like the blocks X in its hands.                        *)
Reached(m, l, s, L, t, r, v, X) ==
  /\ \A z \in Range(r) : (z \in Range(l) /\ v[z] = s[z]) \/ Touches(m[t], Span(v, z))
  /\ \A z \in X : Touches(m[t], Span(v, z))
  /\ \A z \in Others(L, t) : v[z] = s[z]

LEMMA MappingKept ==
  ASSUME NEW l, NEW s, NEW L, NEW e, Layout(l, s, L, e), NEW t \in Tasks,
         NEW r, NEW v, NEW X, NEW f, NewLayout(L, t, r, v, X, f),
         NEW m, Mapping(m, l, s, L), Reached(m, l, s, L, t, r, v, X)
  PROVE  Mapping(m, r, v, [L EXCEPT ![t] = X])
<1> DEFINE K == [L EXCEPT ![t] = X]
<1>1. L \in [Tasks -> SUBSET USpace] /\ r \in Seq(USpace) /\ v \in [USpace -> Nat]
  BY DEF Layout, NewLayout
<1>2. K[t] = X /\ \A o \in Tasks \ {t} : K[o] = L[o]
  BY <1>1
<1>3. \A o \in Tasks \ {t} : L[o] \subseteq Others(L, t)
  BY OthersFacts
<1>4. Range(r) \subseteq USpace
  BY <1>1 DEF Range
<1> HIDE DEF K
<1>5. ASSUME NEW o \in Tasks, NEW b \in K[o] PROVE Touches(m[o], Span(v, b))
  <2>1. CASE o = t
    BY <2>1, <1>2, <1>5 DEF Reached
  <2>2. CASE o # t
    <3>1. b \in L[o] /\ v[b] = s[b]
      BY <2>2, <1>2, <1>3, <1>5 DEF Reached
    <3>2. Touches(m[o], Span(s, b))
      BY <3>1 DEF Mapping
    <3>3. Span(v, b) = Span(s, b)
      BY <3>1 DEF Span, BlockEnd
    <3> QED
      BY <3>2, <3>3
  <2> QED
    BY <2>1, <2>2
<1>6. ASSUME NEW o \in Tasks, NEW b \in Range(r), Touches(m[o], Header(b))
      PROVE  Touches(m[o], Span(v, b))
  <2>1. CASE b \in Range(l) /\ v[b] = s[b]
    <3>1. Touches(m[o], Span(s, b))
      BY <2>1, <1>6 DEF Mapping
    <3>2. Span(v, b) = Span(s, b)
      BY <2>1 DEF Span, BlockEnd
    <3> QED
      BY <3>1, <3>2
  <2>2. CASE Touches(m[t], Span(v, b)) /\ o # t
    <3>1. b \in Nat /\ v[b] \in Nat
      BY <1>1, <1>4, USpaceNat
    <3>2. b \in Span(v, b)
      BY <3>1 DEF Span, BlockEnd, Hdr
    <3>3. Page(b) \in m[o] /\ Page(b) \in m[t]
      BY <2>2, <3>1, <3>2, <1>6, TouchesHeader, TouchesPages
    <3>4. m[o] \cap m[t] = {}
      BY <2>2 DEF Mapping
    <3> QED
      BY <3>3, <3>4
  <2> QED
    BY <2>1, <2>2 DEF Reached
<1>7. \A u, o \in Tasks : u # o => m[u] \cap m[o] = {}
  BY DEF Mapping
<1>8. Mapping(m, r, v, K)
  BY <1>5, <1>6, <1>7 DEF Mapping
<1> QED
  BY <1>8 DEF K

(* The page tables and the blocks of a task go. *)
LEMMA EndMapping ==
  ASSUME NEW l, NEW s, NEW L, NEW m, Mapping(m, l, s, L), NEW t \in Tasks,
         m \in [Tasks -> SUBSET Nat], L \in [Tasks -> SUBSET USpace], l \in Seq(USpace)
  PROVE  Mapping([m EXCEPT ![t] = {}], l, s, [L EXCEPT ![t] = {}])
<1> DEFINE k == [m EXCEPT ![t] = {}]
           K == [L EXCEPT ![t] = {}]
<1>1. k[t] = {} /\ K[t] = {} /\ \A o \in Tasks \ {t} : k[o] = m[o] /\ K[o] = L[o]
  OBVIOUS
<1>2. Range(l) \subseteq Nat
  <2>1. Range(l) \subseteq USpace
    BY DEF Range
  <2> QED
    BY <2>1, USpaceNat
<1> HIDE DEF k, K
<1>3. ASSUME NEW u \in Tasks, NEW o \in Tasks, u # o PROVE k[u] \cap k[o] = {}
  BY <1>1, <1>3 DEF Mapping
<1>4. ASSUME NEW o \in Tasks, NEW b \in K[o] PROVE Touches(k[o], Span(s, b))
  BY <1>1, <1>4 DEF Mapping
<1>5. ASSUME NEW o \in Tasks, NEW b \in Range(l), Touches(k[o], Header(b))
      PROVE  Touches(k[o], Span(s, b))
  <2>1. o # t
    BY <1>1, <1>2, <1>5, TouchesHeader
  <2> QED
    BY <2>1, <1>1, <1>5 DEF Mapping
<1>6. Mapping(k, l, s, K)
  BY <1>3, <1>4, <1>5 DEF Mapping
<1> QED
  BY <1>6 DEF k, K

(* Pages up to the end of all blocks are added to a task's page table. *)
Grown(m, t, p, q, k) ==
  /\ m \in [Tasks -> SUBSET Nat] /\ t \in Tasks /\ p \in Nat /\ q \in Nat
  /\ \A o \in Tasks : \A a \in m[o] : a < p
  /\ k = [m EXCEPT ![t] = @ \cup p .. q - 1]

LEMMA GrownMapping ==
  ASSUME NEW l, NEW s, NEW L, NEW e, Layout(l, s, L, e), NEW m, Mapping(m, l, s, L),
         NEW t, NEW p, NEW q, NEW k, Grown(m, t, p, q, k), e <= q * PageUnits
  PROVE  Mapping(k, l, s, L)
<1>1. /\ m \in [Tasks -> SUBSET Nat] /\ t \in Tasks /\ p \in Nat /\ q \in Nat
      /\ \A o \in Tasks : \A a \in m[o] : a < p
      /\ k = [m EXCEPT ![t] = @ \cup p .. q - 1]
  BY DEF Grown
<1>2. k[t] = m[t] \cup p .. q - 1 /\ \A o \in Tasks \ {t} : k[o] = m[o]
  BY <1>1
<1>3. \A o \in Tasks \ {t} : (p .. q - 1) \cap m[o] = {}
  BY <1>1
<1>4. ASSUME NEW u \in Tasks, NEW o \in Tasks, u # o PROVE k[u] \cap k[o] = {}
  <2>1. m[u] \cap m[o] = {}
    BY <1>4 DEF Mapping
  <2> QED
    BY <2>1, <1>2, <1>3, <1>4
<1>5. ASSUME NEW o \in Tasks, NEW b \in L[o] PROVE Touches(k[o], Span(s, b))
  <2>1. Touches(m[o], Span(s, b)) /\ m[o] \subseteq k[o]
    BY <1>2 DEF Mapping
  <2> QED
    BY <2>1, TouchesPages
<1>6. ASSUME NEW o \in Tasks, NEW b \in Range(l), Touches(k[o], Header(b))
      PROVE  Touches(k[o], Span(s, b))
  <2>1. CASE Touches(m[o], Header(b))
    <3>1. Touches(m[o], Span(s, b)) /\ m[o] \subseteq k[o]
      BY <2>1, <1>2 DEF Mapping
    <3> QED
      BY <3>1, TouchesPages
  <2>2. CASE ~Touches(m[o], Header(b))
    <3>1. o = t
      BY <2>2, <1>2, <1>6
    <3>2. /\ b \in Nat /\ s[b] \in Nat /\ BlockEnd(s, b) \in Nat /\ e \in Nat /\ BlockEnd(s, b) <= e
          /\ q * PageUnits \in Nat
      BY <1>1, BlockFacts, TimesGrows
    <3>3. Page(b) \in k[t] /\ Page(b + 1) \in k[t]
      BY <3>1, <3>2, <1>6, TouchesHeader
    <3>4. Page(b) \notin m[t] \/ Page(b + 1) \notin m[t]
      BY <3>1, <3>2, <2>2, TouchesHeader
    <3>5. p <= Page(b + 1)
      <4>1. Page(b) <= Page(b + 1) /\ Page(b) \in Nat /\ Page(b + 1) \in Nat
        BY <3>2, PagesRise, PageFacts
      <4>2. p <= Page(b) \/ p <= Page(b + 1)
        BY <1>1, <1>2, <3>3, <3>4, <4>1
      <4> QED
        BY <1>1, <4>1, <4>2
    <3>6. ASSUME NEW a \in Span(s, b) PROVE Page(a) \in k[t]
      <4>1. a \in Nat /\ b <= a /\ a < q * PageUnits
        BY <3>2 DEF Span
      <4>2. CASE a = b
        BY <4>2, <3>3
      <4>3. CASE a # b
        <5>1. b + 1 \in Nat /\ b + 1 <= a
          BY <3>2, <4>1, <4>3
        <5>2. Page(b + 1) <= Page(a) /\ Page(b + 1) \in Nat /\ Page(a) \in Nat
          BY <4>1, <5>1, PagesRise, PageFacts
        <5>3. Page(a) < q
          BY <4>1, <1>1, PageBelow
        <5>4. Page(a) \in p .. q - 1
          BY <5>2, <5>3, <3>5, <1>1
        <5> QED
          BY <5>4, <1>2
      <4> QED
        BY <4>2, <4>3
    <3> QED
      BY <3>1, <3>6, TouchesPages
  <2> QED
    BY <2>1, <2>2
<1> QED
  BY <1>4, <1>5, <1>6 DEF Mapping

-----------------------------------------------------------------------------
(* The user heap: the break and the mapped end                              *)

(* The pages that are missing for the new break are the next c; with them   *)
(* the mapped end is not below the break and at most a page above it.       *)
MissingIs(n, K, c) ==
  /\ c \in Nat /\ Missing(n) = K .. K + c - 1 /\ Cardinality(Missing(n)) = c
  /\ NewBreak(n) <= (K + c) * PageUnits
  /\ c = 0 \/ K + c <= Page(NewBreak(n)) + 1

LEMMA IntervalCard ==
  ASSUME NEW a \in Nat, NEW c \in Nat
  PROVE  IsFiniteSet(a .. a + c - 1) /\ Cardinality(a .. a + c - 1) = c
<1>1. a + c - 1 \in Int /\ a \in Int
  OBVIOUS
<1>2. /\ IsFiniteSet(a .. a + c - 1)
      /\ Cardinality(a .. a + c - 1) = IF a > a + c - 1 THEN 0 ELSE (a + c - 1) - a + 1
  BY <1>1, FS_Interval
<1> QED
  BY <1>2

LEMMA MissingPages ==
  ASSUME NEW n, NewBreak(n) \in Nat \ {0}, NEW K \in Nat, user_heap_mapped_end = K * PageUnits
  PROVE  \E c \in Nat : MissingIs(n, K, c)
<1> DEFINE b == NewBreak(n)
           h == Page(b - 1)
<1>1. b \in Nat \ {0} /\ b - 1 \in Nat
  OBVIOUS
<1>2. Missing(n) = { p \in K .. Page(b) : p * PageUnits < b }
  BY PageOfTimes DEF Missing, Page
<1> HIDE DEF b
<1>3. h \in Nat /\ h <= Page(b) /\ Page(b) \in Nat /\ b - 1 < (h + 1) * PageUnits
  BY <1>1, PageFacts, PagesRise
<1>4. ASSUME NEW p \in Nat PROVE p * PageUnits < b <=> p <= h
  <2>1. b - 1 < p * PageUnits <=> h < p
    BY <1>1, PageBelow
  <2>2. p * PageUnits \in Nat
    BY TimesGrows
  <2> QED
    BY <2>1, <2>2, <1>1, <1>3
<1> HIDE DEF h
<1>5. Missing(n) = K .. h
  <2>1. ASSUME NEW p \in Missing(n) PROVE p \in K .. h
    <3>1. p \in K .. Page(b) /\ p * PageUnits < b
      BY <1>2
    <3>2. p \in Nat /\ K <= p
      BY <3>1, <1>3
    <3>3. p <= h
      BY <3>1, <3>2, <1>4
    <3> QED
      BY <3>2, <3>3, <1>3
  <2>2. ASSUME NEW p \in K .. h PROVE p \in Missing(n)
    <3>1. p \in Nat /\ p <= h /\ p \in K .. Page(b)
      BY <1>3
    <3>2. p * PageUnits < b
      BY <3>1, <1>4
    <3> QED
      BY <3>1, <3>2, <1>2
  <2> QED
    BY <2>1, <2>2
<1> DEFINE c == IF h + 1 > K THEN h + 1 - K ELSE 0
<1>6. c \in Nat /\ K .. h = K .. K + c - 1
  BY <1>3
<1>7. Cardinality(Missing(n)) = c
  BY <1>5, <1>6, IntervalCard
<1>8. h + 1 <= K + c /\ (c = 0 \/ K + c = h + 1)
  BY <1>3
<1> HIDE DEF c
<1>9. b <= (K + c) * PageUnits
  <2>1. /\ (h + 1) * PageUnits \in Nat /\ (K + c) * PageUnits \in Nat
        /\ (h + 1) * PageUnits <= (K + c) * PageUnits
    <3>1. h + 1 \in Nat /\ K + c \in Nat
      BY <1>3, <1>6
    <3> QED
      BY <3>1, <1>8, TimesGrows
  <2> QED
    BY <2>1, <1>1, <1>3
<1>10. c = 0 \/ K + c <= Page(b) + 1
  BY <1>3, <1>6, <1>8
<1>11. MissingIs(n, K, c)
  BY <1>5, <1>6, <1>7, <1>9, <1>10 DEF MissingIs, b
<1> QED
  BY <1>6, <1>11

(* expand_user_heap_to maps d of them. *)
ExpandedBy(t, n, K, c, d) ==
  /\ d \in Nat /\ d <= c /\ d <= frames /\ (c <= frames => d = c)
  /\ maps' = [maps EXCEPT ![t] = @ \cup K .. K + d - 1]
  /\ frames' = frames - d
  /\ user_heap_mapped_end' = (K + d) * PageUnits
  /\ stranded' = (stranded \/ d # c)

LEMMA ExpandedPages ==
  ASSUME NEW n, NEW K \in Nat, user_heap_mapped_end = K * PageUnits, frames \in Nat,
         NEW c, MissingIs(n, K, c), NEW t, Expanded(t, n)
  PROVE  \E d \in Nat : ExpandedBy(t, n, K, c, d)
<1> DEFINE d == IF c <= frames THEN c ELSE frames
           pages == { p \in Missing(n) : p < user_heap_mapped_end \div PageUnits + frames }
<1>1. c \in Nat /\ Missing(n) = K .. K + c - 1
  BY DEF MissingIs
<1>2. user_heap_mapped_end \div PageUnits = K
  BY PageOfTimes DEF Page
<1>3. pages = K .. K + d - 1
  BY <1>1, <1>2
<1>4. Cardinality(pages) = d
  <2>1. d \in Nat
    BY <1>1
  <2> QED
    BY <2>1, <1>3, IntervalCard
<1>5. (pages # Missing(n)) = (d # c)
  <2>1. d \in Nat /\ d <= c
    BY <1>1
  <2>2. ASSUME d # c PROVE K + d \in Missing(n) \ pages
    BY <2>1, <2>2, <1>1, <1>3
  <2> QED
    BY <2>2, <1>1, <1>3
<1>6. K * PageUnits + d * PageUnits = (K + d) * PageUnits
  BY <1>1
<1>7. /\ maps' = [maps EXCEPT ![t] = @ \cup pages]
      /\ frames' = frames - Cardinality(pages)
      /\ user_heap_mapped_end' = user_heap_mapped_end + Cardinality(pages) * PageUnits
      /\ stranded' = (stranded \/ pages # Missing(n))
  BY DEF Expanded
<1>8. d \in Nat /\ d <= c /\ d <= frames /\ (c <= frames => d = c)
  BY <1>1
<1> HIDE DEF pages, d
<1>9. ExpandedBy(t, n, K, c, d)
  BY <1>3, <1>4, <1>5, <1>6, <1>7, <1>8 DEF ExpandedBy
<1> QED
  BY <1>8, <1>9

-----------------------------------------------------------------------------
(* The user heap: what its steps have to keep                               *)

UShape == Layout(u_free, u_size, u_live, user_heap_break)
UPool  == /\ maps \in [Tasks -> SUBSET Nat] /\ status \in [Tasks -> {"alive", "exited", "faulted"}]
          /\ user_heap_mapped_end \in Nat /\ frames \in Nat
          /\ user_heap_mapped_end = MappedPages * PageUnits /\ MappedPages + frames <= MaxFrames
UPages == /\ Mapping(maps, u_free, u_size, u_live)
          /\ MappedPages <= Page(user_heap_break) + 1
          /\ \A t \in Tasks : \A p \in maps[t] : p < MappedPages

LEMMA ApartIs == BlocksApart <=> UShape /\ UPool
BY Zenon DEF BlocksApart, UShape, UPool, Layout, Once, Held, UBlocks

LEMMA ApartNext == UShape' /\ UPool' => BlocksApart'
BY Zenon DEF BlocksApart, UShape, UPool, Layout, Once, Held, UBlocks

LEMMA MappedIs ==
  ASSUME BlocksMapped, ~stranded PROVE UPages
<1>1. \A t \in Tasks : \A b : Readable(t, {b}) <=> Touches(maps[t], Header(b))
  BY Zenon DEF Readable, Touches
<1> QED
  BY <1>1, Zenon DEF BlocksMapped, UPages, Mapping, UCells, Span, Page

LEMMA MappedNext ==
  ASSUME ~stranded' => UPages' PROVE BlocksMapped'
<1>1. \A t \in Tasks : \A b : Readable(t, {b})' <=> Touches(maps'[t], Header(b))
  BY Zenon DEF Readable, Touches
<1> QED
  BY <1>1, Zenon DEF BlocksMapped, UPages, Mapping, UCells, Span, Page

(* What a step of the heap of task t may rely on. *)
LEMMA UHeapFacts ==
  ASSUME UHeapInv
  PROVE  /\ UShape /\ UPool /\ (~stranded => UPages)
         /\ MappedPages \in Nat /\ user_heap_break \in Nat /\ frames \in Nat
         /\ u_live \in [Tasks -> SUBSET USpace] /\ u_free \in Seq(USpace)
<1>1. UShape /\ UPool
  BY ApartIs DEF UHeapInv
<1>2. ~stranded => UPages
  BY MappedIs DEF UHeapInv
<1>3. user_heap_break \in USpace /\ u_live \in [Tasks -> SUBSET USpace] /\ u_free \in Seq(USpace)
  BY <1>1 DEF UShape, Layout
<1>4. MappedPages \in Nat /\ frames \in Nat
  BY <1>1, PageFacts DEF UPool, MappedPages, Page
<1> QED
  BY <1>1, <1>2, <1>3, <1>4, USpaceNat

(* Nothing is given to t and nothing taken from it. *)
LEMMA SameLayout ==
  ASSUME NEW l, NEW s, NEW L, NEW e, Layout(l, s, L, e), NEW t \in Tasks
  PROVE  NewLayout(L, t, l, s, L[t], e)
<1>1. /\ l \in Seq(USpace) /\ Once(l) /\ s \in [USpace -> Nat] /\ L \in [Tasks -> SUBSET USpace] /\ e \in USpace
      /\ L[t] \cap Range(l) = {}
      /\ Apart(s, Range(l) \cup Held(L))
      /\ \A b \in Range(l) \cup Held(L) : BlockEnd(s, b) <= e
  BY DEF Layout
<1>2. Held(L) = Others(L, t) \cup L[t] /\ Others(L, t) \cap (Range(l) \cup L[t]) = {}
  BY OthersFacts
<1>3. (Range(l) \cup L[t]) \cup Others(L, t) = Range(l) \cup Held(L)
  BY <1>2
<1> QED
  BY <1>1, <1>2, <1>3 DEF NewLayout

LEMMA SameReached ==
  ASSUME NEW m, NEW l, NEW s, NEW L, Mapping(m, l, s, L), NEW t \in Tasks
  PROVE  Reached(m, l, s, L, t, l, s, L[t])
BY DEF Mapping, Reached

(* A call that returns with the break, the mapped end and the page tables   *)
(* as they were.                                                            *)
LEMMA KeepStep ==
  ASSUME UHeapInv, NEW t \in Tasks, NEW X, used' = used \cup {t},
         NewLayout(u_live, t, u_free', u_size', X, user_heap_break),
         ~stranded => Reached(maps, u_free, u_size, u_live, t, u_free', u_size', X),
         u_live' = [u_live EXCEPT ![t] = X],
         UNCHANGED <<user_heap_break, user_heap_mapped_end, maps, status, frames, trimmed, stranded>>
  PROVE  UHeapInv'
<1>1. /\ UShape /\ UPool /\ (~stranded => UPages)
  BY UHeapFacts
<1>2. UShape'
  <2>1. Layout(u_free', u_size', [u_live EXCEPT ![t] = X], user_heap_break)
    BY <1>1, LayoutChanged DEF UShape
  <2> QED
    BY <2>1 DEF UShape
<1>3. MappedPages' = MappedPages
  BY DEF MappedPages
<1>4. UPool'
  BY <1>1, <1>3 DEF UPool
<1>5. ASSUME ~stranded' PROVE UPages'
  <2>1. Mapping(maps, u_free, u_size, u_live)
    BY <1>1, <1>5 DEF UPages
  <2>2. Mapping(maps, u_free', u_size', [u_live EXCEPT ![t] = X])
    BY <1>1, <1>5, <2>1, MappingKept DEF UShape
  <2>3. Mapping(maps', u_free', u_size', u_live')
    BY <2>2
  <2> QED
    BY <1>1, <1>3, <1>5, <2>3 DEF UPages
<1>6. AllMapped'
  BY <1>3 DEF UHeapInv, AllMapped
<1> QED
  BY <1>2, <1>4, <1>5, <1>6, ApartNext, MappedNext DEF UHeapInv

(* The task t ends in a step that leaves u_free', u_size' and K mapped      *)
(* pages, whether it exits or faults in a call.                             *)
EndsWith(t, K) ==
  /\ \E why \in {"exited", "faulted"} : Ends(t, why)
  /\ K \in Nat /\ user_heap_mapped_end' = K * PageUnits /\ frames' \in Nat /\ K + frames' <= MaxFrames
  /\ user_heap_break' = user_heap_break
  /\ \/ used' = used /\ UNCHANGED <<user_heap_mapped_end, trimmed>>
     \/ t \in used'

LEMMA EndStep ==
  ASSUME UHeapInv, NEW t \in Tasks, NEW X, NEW K, EndsWith(t, K),
         NewLayout(u_live, t, u_free', u_size', X, user_heap_break),
         ~stranded' => /\ ~stranded
                       /\ Reached(maps, u_free, u_size, u_live, t, u_free', u_size', X)
                       /\ K <= Page(user_heap_break) + 1
                       /\ \A o \in Tasks \ {t} : \A p \in maps[o] : p < K
  PROVE  UHeapInv'
<1>1. /\ UShape /\ UPool /\ (~stranded => UPages)
      /\ u_live \in [Tasks -> SUBSET USpace] /\ maps \in [Tasks -> SUBSET Nat]
      /\ u_free' \in Seq(USpace) /\ X \in SUBSET USpace
  BY UHeapFacts DEF UPool, NewLayout
<1>2. PICK why \in {"exited", "faulted"} : Ends(t, why)
  BY DEF EndsWith
<1>3. /\ status' = [status EXCEPT ![t] = why]
      /\ maps' = [maps EXCEPT ![t] = {}]
      /\ u_live' = [u_live EXCEPT ![t] = {}]
  BY <1>2 DEF Ends
<1>4. /\ K \in Nat /\ user_heap_mapped_end' = K * PageUnits /\ frames' \in Nat /\ K + frames' <= MaxFrames
      /\ user_heap_break' = user_heap_break
      /\ \/ used' = used /\ UNCHANGED <<user_heap_mapped_end, trimmed>>
         \/ t \in used'
  BY DEF EndsWith
<1>5. MappedPages' = K /\ K * PageUnits \in Nat
  BY <1>4, PageOfTimes DEF MappedPages, Page
<1> DEFINE L == [u_live EXCEPT ![t] = X]
<1>6. L \in [Tasks -> SUBSET USpace] /\ u_live' = [L EXCEPT ![t] = {}]
  BY <1>1, <1>3
<1>7. Layout(u_free', u_size', L, user_heap_break)
  BY <1>1, LayoutChanged DEF UShape
<1>8. UShape'
  <2> HIDE DEF L
  <2>1. Layout(u_free', u_size', [L EXCEPT ![t] = {}], user_heap_break)
    BY <1>7, EndLayout
  <2> QED
    BY <2>1, <1>4, <1>6 DEF UShape
<1>9. UPool'
  <2>1. maps' \in [Tasks -> SUBSET Nat] /\ status' \in [Tasks -> {"alive", "exited", "faulted"}]
    BY <1>1, <1>3 DEF UPool
  <2> QED
    BY <2>1, <1>4, <1>5 DEF UPool
<1>10. ASSUME ~stranded' PROVE UPages'
  <2>1. Mapping(maps, u_free, u_size, u_live)
    BY <1>1, <1>10 DEF UPages
  <2>2. Mapping(maps, u_free', u_size', L)
    BY <1>1, <1>10, <2>1, MappingKept DEF UShape
  <2> HIDE DEF L
  <2>3. Mapping([maps EXCEPT ![t] = {}], u_free', u_size', [L EXCEPT ![t] = {}])
    BY <1>1, <1>6, <2>2, EndMapping
  <2>4. Mapping(maps', u_free', u_size', u_live')
    BY <2>3, <1>3, <1>6
  <2>5. \A o \in Tasks : \A p \in maps'[o] : p < K
    BY <1>1, <1>3, <1>10
  <2> QED
    BY <1>4, <1>5, <1>10, <2>4, <2>5 DEF UPages
<1>11. AllMapped'
  <2> SUFFICES ASSUME NEW o \in Tasks, status'[o] = "alive", ~trimmed', used' \subseteq {o}
               PROVE  user_heap_break' <= user_heap_mapped_end' /\ 0 .. MappedPages' - 1 \subseteq maps'[o]
    BY DEF AllMapped
  <2>1. o # t
    BY <1>1, <1>3 DEF UPool
  <2>2. used' = used /\ UNCHANGED <<user_heap_mapped_end, trimmed>> /\ status[o] = "alive" /\ maps'[o] = maps[o]
    BY <1>1, <1>3, <1>4, <2>1 DEF UPool
  <2>3. user_heap_break <= user_heap_mapped_end /\ 0 .. MappedPages - 1 \subseteq maps[o]
    BY <2>2 DEF UHeapInv, AllMapped
  <2>4. MappedPages' = MappedPages
    BY <2>2 DEF MappedPages
  <2> QED
    BY <1>4, <2>2, <2>3, <2>4
<1> QED
  BY <1>8, <1>9, <1>10, <1>11, ApartNext, MappedNext DEF UHeapInv

(* What t can read of the list it has mapped. *)
LEMMA ReadMapped ==
  ASSUME UHeapInv, ~stranded, NEW t \in Tasks, NEW S, Readable(t, S), NEW b \in S, b \in Range(u_free)
  PROVE  Touches(maps[t], Span(u_size, b))
<1>1. Mapping(maps, u_free, u_size, u_live)
  BY UHeapFacts DEF UPages
<1>2. Touches(maps[t], Header(b))
  BY ReadableAll
<1> QED
  BY <1>1, <1>2 DEF Mapping

LEMMA TouchesLess ==
  ASSUME NEW m, NEW S, NEW R, R \subseteq S, Touches(m, S)
  PROVE  Touches(m, R)
BY DEF Touches

(* The block that the first fit search stops at is on the list and read. *)
LEMMA UFitting ==
  ASSUME UHeapInv, NEW n, UFits(n) # {}
  PROVE  /\ First(UFits(n)) \in DOMAIN u_free
         /\ u_free[First(UFits(n))] \in Range(u_free)
         /\ u_free[First(UFits(n))] \in Searched(n)
<1>1. u_free \in Seq(USpace)
  BY UHeapFacts
<1>2. DOMAIN u_free = 1 .. Len(u_free) /\ Len(u_free) \in Nat
  BY <1>1
<1>3. UFits(n) \in SUBSET Nat /\ UFits(n) \subseteq DOMAIN u_free
  BY <1>2 DEF UFits, Fits
<1>4. First(UFits(n)) \in UFits(n) /\ \A j \in UFits(n) : First(UFits(n)) <= j
  BY <1>3, FirstFacts
<1>5. First(UFits(n)) \in DOMAIN u_free
  BY <1>3, <1>4
<1> QED
  BY <1>4, <1>5 DEF Range, Searched

LEMMA SearchedListed == \A n : Searched(n) \subseteq Range(u_free)
BY DEF Searched, Range

LEMMA UTakeInv ==
  ASSUME UHeapInv, NEW t \in Tasks, NEW n \in Nat \ {0}, UTake(t, n)
  PROVE  UHeapInv'
<1> DEFINE i == First(UFits(n))
           b == u_free[i]
           y == b + Hdr + n
<1>1. /\ UFits(n) # {} /\ Readable(t, Searched(n)) /\ used' = used \cup {t}
      /\ UNCHANGED <<user_heap_break, user_heap_mapped_end, maps, status, frames, trimmed, stranded>>
      /\ \/ /\ u_size[b] - n >= Smallest
            /\ u_free' = [u_free EXCEPT ![i] = y]
            /\ u_size' = [u_size EXCEPT ![b] = n, ![y] = u_size[b] - n - Hdr]
            /\ u_live' = [u_live EXCEPT ![t] = u_live[t] \cup {b}]
         \/ /\ u_free' = RemoveAt(u_free, i)
            /\ u_live' = [u_live EXCEPT ![t] = u_live[t] \cup {b}]
            /\ UNCHANGED u_size
  BY DEF UTake, Calls
<1>2. i \in DOMAIN u_free /\ b \in Range(u_free) /\ b \in Searched(n)
  BY <1>1, UFitting
<1>3. UShape /\ (~stranded => UPages)
  BY UHeapFacts
<1>4. ASSUME ~stranded PROVE Touches(maps[t], Span(u_size, b))
  BY <1>1, <1>2, <1>4, ReadMapped
<1>5. /\ ~stranded => Mapping(maps, u_free, u_size, u_live)
      /\ Held(u_live) = Others(u_live, t) \cup u_live[t]
      /\ Others(u_live, t) \cap (Range(u_free) \cup u_live[t]) = {}
      /\ u_live[t] \cap Range(u_free) = {}
  BY <1>3, OthersFacts DEF UPages, UShape, Layout
<1> DEFINE X == u_live[t] \cup {b}
<1> HIDE DEF i
<1>6. CASE /\ u_size[b] - n >= Smallest
           /\ u_free' = [u_free EXCEPT ![i] = y]
           /\ u_size' = [u_size EXCEPT ![b] = n, ![y] = u_size[b] - n - Hdr]
           /\ u_live' = [u_live EXCEPT ![t] = u_live[t] \cup {b}]
  <2>1. /\ NewLayout(u_live, t, u_free', u_size', X, user_heap_break)
        /\ Range(u_free') = (Range(u_free) \ {b}) \cup {y}
        /\ Span(u_size', b) \subseteq Span(u_size, b) /\ Span(u_size', y) \subseteq Span(u_size, b)
        /\ \A z \in (Range(u_free) \cup Held(u_live)) \ {b} : u_size'[z] = u_size[z]
    <3>1. Splits(u_free, u_size, i, n, b, y, u_free', u_size')
      BY <1>2, <1>6 DEF Splits
    <3>2. Layout(u_free, u_size, u_live, user_heap_break)
      BY <1>3 DEF UShape
    <3> HIDE DEF b, y
    <3>3. SplitOff(u_free, u_size, u_live, user_heap_break, t, b, y, u_free', u_size')
      BY <3>1, <3>2, SplitLayout
    <3> QED
      BY <3>3 DEF SplitOff
  <2> HIDE DEF b, y
  <2>2. ASSUME ~stranded PROVE Reached(maps, u_free, u_size, u_live, t, u_free', u_size', X)
    <3>1. Touches(maps[t], Span(u_size', b)) /\ Touches(maps[t], Span(u_size', y))
      BY <2>1, <2>2, <1>4, TouchesLess
    <3>2. ASSUME NEW z \in u_live[t] PROVE Touches(maps[t], Span(u_size', z))
      <4>1. u_size'[z] = u_size[z]
        BY <1>2, <1>5, <2>1
      <4>2. Touches(maps[t], Span(u_size, z))
        BY <1>5, <2>2 DEF Mapping
      <4> QED
        BY <4>1, <4>2 DEF Span, BlockEnd
    <3>3. \A z \in Others(u_live, t) : u_size'[z] = u_size[z]
      BY <1>2, <1>5, <2>1
    <3>4. \A z \in Range(u_free') : z = y \/ (z \in Range(u_free) /\ u_size'[z] = u_size[z])
      BY <2>1
    <3> QED
      BY <3>1, <3>2, <3>3, <3>4 DEF Reached
  <2> QED
    BY <1>1, <1>6, <2>1, <2>2, KeepStep DEF b
<1>7. CASE /\ u_free' = RemoveAt(u_free, i)
           /\ u_live' = [u_live EXCEPT ![t] = u_live[t] \cup {b}]
           /\ u_size' = u_size
  <2>1. /\ NewLayout(u_live, t, u_free', u_size, X, user_heap_break)
        /\ Range(u_free') = Range(u_free) \ {b}
    BY <1>2, <1>3, <1>7, WholeLayout DEF UShape
  <2> HIDE DEF b
  <2>2. ASSUME ~stranded PROVE Reached(maps, u_free, u_size, u_live, t, u_free', u_size', X)
    BY <1>4, <1>5, <1>7, <2>1, <2>2 DEF Reached, Mapping
  <2>3. NewLayout(u_live, t, u_free', u_size', X, user_heap_break)
    BY <2>1, <1>7
  <2> QED
    BY <1>1, <1>7, <2>2, <2>3, KeepStep DEF b
<1> QED
  BY <1>1, <1>6, <1>7

(* The task ends with the list as it was. *)
LEMMA EndsSame ==
  ASSUME UHeapInv, NEW t \in Tasks, NEW why \in {"exited", "faulted"}, Ends(t, why),
         UNCHANGED <<heap_vars, frames, trimmed, stranded>>, used' = used \/ t \in used'
  PROVE  UHeapInv'
<1>1. /\ UShape /\ UPool /\ (~stranded => UPages)
      /\ MappedPages \in Nat /\ frames \in Nat
  BY UHeapFacts
<1>2. NewLayout(u_live, t, u_free, u_size, u_live[t], user_heap_break)
  BY <1>1, SameLayout DEF UShape
<1>3. ~stranded => /\ Reached(maps, u_free, u_size, u_live, t, u_free, u_size, u_live[t])
                   /\ MappedPages <= Page(user_heap_break) + 1
                   /\ \A o \in Tasks \ {t} : \A p \in maps[o] : p < MappedPages
  BY <1>1, SameReached DEF UPages
<1>4. EndsWith(t, MappedPages)
  BY <1>1 DEF EndsWith, heap_vars, UPool
<1>5. UNCHANGED <<u_free, u_size, user_heap_break, stranded>>
  BY DEF heap_vars
<1>6. NewLayout(u_live, t, u_free', u_size', u_live[t], user_heap_break)
  BY <1>2, <1>5
<1>7. ~stranded' => /\ ~stranded
                    /\ Reached(maps, u_free, u_size, u_live, t, u_free', u_size', u_live[t])
                    /\ MappedPages <= Page(user_heap_break) + 1
                    /\ \A o \in Tasks \ {t} : \A p \in maps[o] : p < MappedPages
  BY <1>3, <1>5
<1> QED
  BY <1>1, <1>4, <1>6, <1>7, EndStep

LEMMA ExitInv ==
  ASSUME UHeapInv, NEW t \in Tasks, Exit(t) PROVE UHeapInv'
BY EndsSame DEF Exit

LEMMA USearchFaultsInv ==
  ASSUME UHeapInv, NEW t \in Tasks, NEW n, USearchFaults(t, n) PROVE UHeapInv'
BY EndsSame DEF USearchFaults, Calls

(* The mapped end before a call that extends the heap. *)
LEMMA ExtendFacts ==
  ASSUME UHeapInv, NEW n \in Nat \ {0}
  PROVE  /\ NewBreak(n) \in Nat \ {0} /\ user_heap_break < NewBreak(n)
         /\ NewBreak(n) = user_heap_break + Hdr + n
         /\ \E c \in Nat : MissingIs(n, MappedPages, c)
<1>1. user_heap_break \in Nat /\ MappedPages \in Nat /\ user_heap_mapped_end = MappedPages * PageUnits
  BY UHeapFacts DEF UPool
<1>2. /\ NewBreak(n) \in Nat \ {0} /\ user_heap_break < NewBreak(n)
      /\ NewBreak(n) = user_heap_break + Hdr + n
  BY <1>1 DEF NewBreak, Hdr
<1>3. \E c \in Nat : MissingIs(n, MappedPages, c)
  BY <1>1, <1>2, MissingPages
<1> QED
  BY <1>2, <1>3

(* The pool and the page tables after the pages p .. q - 1 went to t. *)
LEMMA GrownPool ==
  ASSUME UHeapInv, NEW t \in Tasks, NEW d \in Nat, d <= frames,
         maps' = [maps EXCEPT ![t] = @ \cup MappedPages .. MappedPages + d - 1],
         frames' = frames - d, user_heap_mapped_end' = (MappedPages + d) * PageUnits, status' = status
  PROVE  /\ UPool' /\ MappedPages' = MappedPages + d
         /\ maps' \in [Tasks -> SUBSET Nat]
         /\ \A a \in 0 .. MappedPages + d - 1 : a < MappedPages \/ a \in maps'[t]
         /\ \A o \in Tasks : maps[o] \subseteq maps'[o] /\ \A a \in maps'[o] : a \in maps[o] \/ a < MappedPages + d
<1>1. UPool /\ MappedPages \in Nat /\ frames \in Nat
  BY UHeapFacts
<1> DEFINE K == MappedPages
<1>2. MappedPages' = K + d /\ (K + d) * PageUnits \in Nat
  <2>1. K + d \in Nat
    BY <1>1
  <2>2. Page((K + d) * PageUnits) = K + d /\ (K + d) * PageUnits \in Nat
    BY <2>1, PageOfTimes
  <2> QED
    BY <2>2 DEF MappedPages, Page
<1>3. MappedPages \in Nat /\ MappedPages + frames <= MaxFrames /\ maps \in [Tasks -> SUBSET Nat]
  BY <1>1 DEF UPool
<1>4. K .. K + d - 1 \subseteq Nat
  BY <1>1
<1>5. maps' \in [Tasks -> SUBSET Nat] /\ maps'[t] = maps[t] \cup K .. K + d - 1
      /\ \A o \in Tasks \ {t} : maps'[o] = maps[o]
  BY <1>3, <1>4
<1>6. frames' \in Nat /\ K + d + frames' <= MaxFrames
  BY <1>1, <1>3, FramesAssumption
<1> HIDE DEF K
<1>7. UPool'
  BY <1>1, <1>2, <1>5, <1>6 DEF UPool, K
<1>8. \A a \in 0 .. K + d - 1 : a < K \/ a \in maps'[t]
  BY <1>3, <1>5 DEF K
<1>9. \A o \in Tasks : maps[o] \subseteq maps'[o] /\ \A a \in maps'[o] : a \in maps[o] \/ a < K + d
  BY <1>3, <1>5 DEF K
<1> QED
  BY <1>2, <1>5, <1>7, <1>8, <1>9 DEF K

LEMMA UBumpInv ==
  ASSUME UHeapInv, NEW t \in Tasks, NEW n \in Nat \ {0}, UBump(t, n)
  PROVE  UHeapInv'
<1> DEFINE K == MappedPages
           e == user_heap_break
           f == NewBreak(n)
           X == u_live[t] \cup {e}
<1>1. /\ UShape /\ UPool /\ (~stranded => UPages)
      /\ MappedPages \in Nat /\ user_heap_break \in Nat /\ frames \in Nat
      /\ u_live \in [Tasks -> SUBSET USpace]
  BY UHeapFacts
<1>2. /\ Cardinality(Missing(n)) <= frames /\ Expanded(t, n) /\ Touches(maps'[t], {e})
      /\ u_size' = [u_size EXCEPT ![e] = n] /\ user_heap_break' = f
      /\ u_live' = [u_live EXCEPT ![t] = u_live[t] \cup {e}]
      /\ used' = used \cup {t}
      /\ UNCHANGED <<u_free, status, trimmed>>
  BY DEF UBump, UExtends, Calls
<1>3. f \in Nat \ {0} /\ e < f /\ f = e + Hdr + n
  BY ExtendFacts
<1>4. PICK c \in Nat : MissingIs(n, K, c)
  BY ExtendFacts
<1>5. c <= frames /\ f <= (K + c) * PageUnits /\ (c = 0 \/ K + c <= Page(f) + 1)
  BY <1>2, <1>4 DEF MissingIs
<1>6. PICK d \in Nat : ExpandedBy(t, n, K, c, d)
  BY <1>1, <1>2, <1>4, ExpandedPages DEF UPool
<1>7. /\ maps' = [maps EXCEPT ![t] = @ \cup K .. K + c - 1]
      /\ frames' = frames - c
      /\ user_heap_mapped_end' = (K + c) * PageUnits
      /\ ~stranded' => ~stranded
  <2>1. d = c
    BY <1>5, <1>6 DEF ExpandedBy
  <2>2. stranded' = (stranded \/ d # c)
    BY <1>6 DEF ExpandedBy
  <2>3. ~stranded' => ~stranded
    BY <2>2, Zenon
  <2> QED
    BY <2>1, <2>3, <1>6 DEF ExpandedBy
<1>8. /\ UPool' /\ MappedPages' = K + c
      /\ maps' \in [Tasks -> SUBSET Nat]
      /\ \A a \in 0 .. K + c - 1 : a < K \/ a \in maps'[t]
      /\ \A o \in Tasks : maps[o] \subseteq maps'[o] /\ \A a \in maps'[o] : a \in maps[o] \/ a < K + c
  BY <1>2, <1>5, <1>7, GrownPool
<1> HIDE DEF K, f
<1>9. K \in Nat /\ K + c \in Nat /\ (K + c) * PageUnits \in Nat
  BY <1>1, TimesGrows DEF K
<1>10. f \in USpace
  <2>1. K + c <= MaxFrames
    <3>1. MappedPages' + frames' <= MaxFrames /\ frames' \in Nat
      BY <1>8, Zenon DEF UPool
    <3> QED
      BY <3>1, <1>8, <1>9, FramesAssumption
  <2>2. (K + c) * PageUnits <= MaxFrames * PageUnits /\ MaxFrames * PageUnits \in Nat
    BY <2>1, <1>9, TimesGrows, FramesAssumption
  <2> QED
    BY <2>2, <1>3, <1>5, <1>9 DEF USpace
<1>11. /\ NewLayout(u_live, t, u_free, u_size', X, f)
       /\ \A z \in Range(u_free) \cup Held(u_live) : u_size'[z] = u_size[z]
       /\ BlockEnd(u_size', e) = f
  <2>1. Bumps(u_size, e, n, f, u_size')
    BY <1>2, <1>3, <1>10 DEF Bumps
  <2>2. Layout(u_free, u_size, u_live, e)
    BY <1>1 DEF UShape
  <2>3. Bumped(u_free, u_size, u_live, e, t, f, u_size')
    BY <2>1, <2>2, BumpLayout
  <2> QED
    BY <2>3 DEF Bumped
<1>12. UShape'
  <2>1. Layout(u_free, u_size', [u_live EXCEPT ![t] = X], f)
    BY <1>1, <1>11, LayoutChanged DEF UShape
  <2> QED
    BY <2>1, <1>2 DEF UShape
<1>13. ASSUME ~stranded' PROVE UPages'
  <2>1. UPages /\ ~stranded
    BY <1>1, <1>7, <1>13, Zenon
  <2>2. Mapping(maps', u_free, u_size, u_live)
    <3>1. Grown(maps, t, K, K + c, maps')
      BY <2>1, <1>1, <1>7, <1>9 DEF Grown, UPages, UPool, K
    <3>2. e <= (K + c) * PageUnits
      BY <1>1, <1>3, <1>5, <1>9
    <3> QED
      BY <2>1, <3>1, <3>2, <1>1, GrownMapping DEF UPages, UShape
  <2>3. ASSUME NEW a \in Span(u_size', e) PROVE Page(a) \in maps'[t]
    <3>1. a \in Nat /\ e <= a /\ a < f
      BY <1>1, <1>3, <1>11 DEF Span
    <3>2. Page(a) < K + c
      <4>1. a < (K + c) * PageUnits
        BY <3>1, <1>3, <1>5, <1>9
      <4> QED
        BY <4>1, <3>1, <1>9, PageBelow
    <3>3. Page(e) <= Page(a) /\ Page(a) \in Nat /\ Page(e) \in Nat
      BY <3>1, <1>1, PagesRise, PageFacts
    <3>4. CASE Page(a) < K
      <4>1. K <= Page(e) + 1
        BY <2>1 DEF UPages, K
      <4>2. Page(a) = Page(e)
        BY <4>1, <3>3, <3>4, <1>9
      <4>3. Page(e) \in maps'[t]
        BY <1>2, TouchesPages
      <4> QED
        BY <4>2, <4>3
    <3>5. CASE ~(Page(a) < K)
      BY <3>2, <3>3, <3>5, <1>8, <1>9
    <3> QED
      BY <3>4, <3>5
  <2>4. Reached(maps', u_free, u_size, u_live, t, u_free, u_size', X)
    <3>1. Touches(maps'[t], Span(u_size', e))
      BY <2>3, TouchesPages
    <3>2. Held(u_live) = Others(u_live, t) \cup u_live[t]
      BY <1>1, OthersFacts DEF UShape
    <3>3. ASSUME NEW z \in u_live[t] PROVE Touches(maps'[t], Span(u_size', z))
      <4>1. Touches(maps'[t], Span(u_size, z)) /\ u_size'[z] = u_size[z]
        BY <2>2, <3>2, <1>11 DEF Mapping
      <4> QED
        BY <4>1 DEF Span, BlockEnd
    <3> QED
      BY <3>1, <3>2, <3>3, <1>11 DEF Reached
  <2>5. Mapping(maps', u_free, u_size', [u_live EXCEPT ![t] = X])
    BY <2>2, <2>4, <1>1, <1>11, MappingKept DEF UShape
  <2>6. Mapping(maps', u_free', u_size', u_live')
    BY <2>5, <1>2
  <2>7. K + c <= Page(f) + 1
    <3>1. Page(e) <= Page(f) /\ Page(e) \in Nat /\ Page(f) \in Nat
      BY <1>1, <1>3, PagesRise, PageFacts
    <3>2. K <= Page(e) + 1
      BY <2>1 DEF UPages, K
    <3> QED
      BY <3>1, <3>2, <1>5, <1>9
  <2>8. \A o \in Tasks : \A p \in maps'[o] : p < K + c
    <3>1. \A o \in Tasks : \A p \in maps[o] : p < K
      BY <2>1 DEF UPages, K
    <3>2. \A o \in Tasks : maps[o] \subseteq Nat
      BY <1>1 DEF UPool
    <3> QED
      BY <3>1, <3>2, <1>8, <1>9
  <2> QED
    BY <2>6, <2>7, <2>8, <1>2, <1>8 DEF UPages
<1>14. AllMapped'
  <2> SUFFICES ASSUME NEW o \in Tasks, status'[o] = "alive", ~trimmed', used' \subseteq {o}
               PROVE  user_heap_break' <= user_heap_mapped_end' /\ 0 .. MappedPages' - 1 \subseteq maps'[o]
    BY DEF AllMapped
  <2>1. o = t /\ 0 .. K - 1 \subseteq maps[t]
    BY <1>2 DEF UHeapInv, AllMapped, K
  <2>2. ASSUME NEW a \in 0 .. K + c - 1 PROVE a \in maps'[t]
    BY <2>1, <1>8, <1>9
  <2>3. 0 .. MappedPages' - 1 \subseteq maps'[o]
    <3>1. 0 .. MappedPages' - 1 = 0 .. K + c - 1
      <4>1. MappedPages' = K + c
        BY <1>8
      <4> QED
        BY <4>1, <1>9
    <3> QED
      BY <3>1, <2>1, <2>2, Zenon
  <2>4. user_heap_break' <= user_heap_mapped_end'
    BY <1>2, <1>5, <1>7
  <2> QED
    BY <2>3, <2>4
<1> QED
  BY <1>8, <1>12, <1>13, <1>14, ApartNext, MappedNext DEF UHeapInv

LEMMA UBumpFailsInv ==
  ASSUME UHeapInv, NEW t \in Tasks, NEW n \in Nat \ {0}, UBumpFails(t, n)
  PROVE  UHeapInv'
<1> DEFINE K == MappedPages
<1>1. /\ UShape /\ UPool /\ MappedPages \in Nat /\ user_heap_break \in Nat /\ frames \in Nat
  BY UHeapFacts
<1>2. /\ ~(Cardinality(Missing(n)) <= frames) /\ Expanded(t, n) /\ used' = used \cup {t}
      /\ UNCHANGED <<u_free, u_size, user_heap_break, u_live, status, trimmed>>
  <2>1. Cardinality(Missing(n)) > frames
    BY DEF UBumpFails
  <2>2. PICK c \in Nat : MissingIs(n, K, c)
    BY ExtendFacts
  <2>3. ~(Cardinality(Missing(n)) <= frames)
    BY <2>1, <2>2, <1>1 DEF MissingIs
  <2> QED
    BY <2>3 DEF UBumpFails, UExtends, Calls
<1>3. PICK c \in Nat : MissingIs(n, K, c)
  BY ExtendFacts
<1>4. PICK d \in Nat : ExpandedBy(t, n, K, c, d)
  BY <1>1, <1>2, <1>3, ExpandedPages DEF UPool
<1>5. /\ d <= frames /\ d # c
      /\ maps' = [maps EXCEPT ![t] = @ \cup K .. K + d - 1]
      /\ frames' = frames - d
      /\ user_heap_mapped_end' = (K + d) * PageUnits
      /\ stranded'
  BY <1>1, <1>2, <1>3, <1>4 DEF ExpandedBy, MissingIs
<1>6. /\ UPool' /\ MappedPages' = K + d
      /\ maps' \in [Tasks -> SUBSET Nat]
      /\ \A a \in 0 .. K + d - 1 : a < K \/ a \in maps'[t]
      /\ \A o \in Tasks : maps[o] \subseteq maps'[o]
  <2>1. /\ UPool' /\ MappedPages' = K + d
        /\ maps' \in [Tasks -> SUBSET Nat]
        /\ \A a \in 0 .. K + d - 1 : a < K \/ a \in maps'[t]
        /\ \A o \in Tasks : maps[o] \subseteq maps'[o] /\ \A a \in maps'[o] : a \in maps[o] \/ a < K + d
    BY <1>2, <1>5, GrownPool
  <2> QED
    BY <2>1, Zenon
<1>7. UShape'
  BY <1>1, <1>2 DEF UShape
<1>8. K * PageUnits \in Nat /\ (K + d) * PageUnits \in Nat /\ K * PageUnits <= (K + d) * PageUnits
  BY <1>1, TimesGrows
<1>9. user_heap_mapped_end = K * PageUnits
  BY <1>1 DEF UPool
<1> HIDE DEF K
<1>10. K \in Nat
  BY <1>1 DEF K
<1>11. AllMapped'
  <2> SUFFICES ASSUME NEW o \in Tasks, status'[o] = "alive", ~trimmed', used' \subseteq {o}
               PROVE  user_heap_break' <= user_heap_mapped_end' /\ 0 .. MappedPages' - 1 \subseteq maps'[o]
    BY DEF AllMapped
  <2>1. o = t /\ user_heap_break <= user_heap_mapped_end /\ 0 .. K - 1 \subseteq maps[t]
    BY <1>2 DEF UHeapInv, AllMapped, K
  <2>2. ASSUME NEW a \in 0 .. K + d - 1 PROVE a \in maps'[t]
    BY <2>1, <1>6, <1>10
  <2>3. 0 .. MappedPages' - 1 \subseteq maps'[o]
    <3>1. 0 .. MappedPages' - 1 = 0 .. K + d - 1
      <4>1. MappedPages' = K + d
        BY <1>6
      <4> QED
        BY <4>1, <1>10
    <3> QED
      BY <3>1, <2>1, <2>2, Zenon
  <2>4. user_heap_break' <= user_heap_mapped_end'
    BY <2>1, <1>1, <1>2, <1>5, <1>8, <1>9
  <2> QED
    BY <2>3, <2>4
<1> QED
  BY <1>5, <1>6, <1>7, <1>11, ApartNext, MappedNext DEF UHeapInv

LEMMA UBumpFaultsInv ==
  ASSUME UHeapInv, NEW t \in Tasks, NEW n \in Nat \ {0}, UBumpFaults(t, n)
  PROVE  UHeapInv'
<1> DEFINE K == MappedPages
           X == u_live[t]
<1>1. /\ UShape /\ UPool /\ (~stranded => UPages) /\ MappedPages \in Nat /\ frames \in Nat
  BY UHeapFacts
<1>2. /\ Cardinality(Missing(n)) <= frames /\ Ends(t, "faulted") /\ used' = used \cup {t}
      /\ frames' = frames - Cardinality(Missing(n))
      /\ user_heap_mapped_end' = user_heap_mapped_end + Cardinality(Missing(n)) * PageUnits
      /\ stranded' = (stranded \/ Missing(n) # {})
      /\ UNCHANGED <<u_free, u_size, user_heap_break, trimmed>>
  BY DEF UBumpFaults, UExtends, Calls
<1>3. PICK c \in Nat : MissingIs(n, K, c)
  BY ExtendFacts
<1>4. Missing(n) = K .. K + c - 1 /\ Cardinality(Missing(n)) = c
  BY <1>3 DEF MissingIs
<1>5. user_heap_mapped_end = K * PageUnits /\ K + frames <= MaxFrames
  BY <1>1 DEF UPool
<1>6. user_heap_mapped_end' = (K + c) * PageUnits
  <2>1. K * PageUnits + c * PageUnits = (K + c) * PageUnits
    BY <1>1
  <2> QED
    BY <2>1, <1>2, <1>4, <1>5
<1>7. K + c \in Nat /\ frames' \in Nat /\ K + c + frames' <= MaxFrames
  BY <1>1, <1>2, <1>4, <1>5, FramesAssumption
<1>8. EndsWith(t, K + c)
  BY <1>2, <1>6, <1>7 DEF EndsWith
<1>9. NewLayout(u_live, t, u_free', u_size', X, user_heap_break)
  BY <1>1, <1>2, SameLayout DEF UShape
<1>10. ASSUME ~stranded'
       PROVE  /\ ~stranded
              /\ Reached(maps, u_free, u_size, u_live, t, u_free', u_size', X)
              /\ K + c <= Page(user_heap_break) + 1
              /\ \A o \in Tasks \ {t} : \A p \in maps[o] : p < K + c
  <2>1. ~stranded /\ Missing(n) = {}
    BY <1>2, <1>10, Zenon
  <2>2. c = 0
    <3>1. c > 0 => K \in Missing(n)
      BY <1>1, <1>4
    <3> QED
      BY <2>1, <3>1
  <2>3. K + c = K
    BY <2>2, <1>1
  <2>4. Mapping(maps, u_free, u_size, u_live)
    BY <2>1, <1>1 DEF UPages
  <2>5. Reached(maps, u_free, u_size, u_live, t, u_free, u_size, X)
    BY <2>4, SameReached
  <2>6. Reached(maps, u_free, u_size, u_live, t, u_free', u_size', X)
    BY <2>5, <1>2
  <2> QED
    BY <2>1, <2>3, <2>6, <1>1 DEF UPages
<1> HIDE DEF K, X
<1> QED
  BY <1>8, <1>9, <1>10, EndStep

-----------------------------------------------------------------------------
(* ufree                                                                    *)

LEMMA ComesBack ==
  ASSUME UHeapInv, NEW t \in Tasks, NEW b \in u_live[t]
  PROVE  /\ Comes(u_free, u_size, u_live, user_heap_break, t, b)
         /\ u_free \in Seq(USpace) /\ Once(u_free) /\ u_size \in [USpace -> Nat]
         /\ b \in USpace /\ b \notin Range(u_free)
<1>1. Layout(u_free, u_size, u_live, user_heap_break)
  BY UHeapFacts DEF UShape
<1> QED
  BY <1>1 DEF Comes, Layout

(* Whatever joins b when it comes back has been read by t, or was its own.  *)
LEMMA JoiningMapped ==
  ASSUME UHeapInv, ~stranded, NEW t \in Tasks, NEW b \in u_live[t], Merges(t, b),
         NEW z \in Joining(u_free, u_size, b)
  PROVE  Touches(maps[t], Span(u_size, z))
<1>1. Mapping(maps, u_free, u_size, u_live) /\ u_free \in Seq(USpace)
  BY UHeapFacts DEF UPages
<1>2. Readable(t, Below(b)) /\ Readable(t, Touching(b))
  BY DEF Merges, Places
<1>3. CASE z = b
  BY <1>1, <1>3 DEF Mapping
<1>4. CASE z \in Below(b)
  <2>1. z \in Range(u_free)
    <3>1. PICK i \in 1 .. Place(u_free, b) - 1 : z = u_free[i]
      BY <1>4 DEF Below
    <3>2. Place(u_free, b) \in 1 .. Len(u_free) + 1 /\ Len(u_free) \in Nat /\ DOMAIN u_free = 1 .. Len(u_free)
      BY <1>1, PlaceFacts
    <3>3. i \in DOMAIN u_free
      BY <3>2
    <3> QED
      BY <3>1, <3>3 DEF Range
  <2> QED
    BY <2>1, <1>2, <1>4, ReadMapped
<1>5. CASE z \in Touching(b)
  <2>1. z \in Range(u_free)
    BY <1>5 DEF Touching
  <2> QED
    BY <2>1, <1>2, <1>5, ReadMapped
<1>6. z = b \/ z \in Below(b) \/ z \in Touching(b)
  BY DEF Joining, Below, Touching
<1> QED
  BY <1>3, <1>4, <1>5, <1>6

LEMMA ReturnReached ==
  ASSUME UHeapInv, NEW t \in Tasks, NEW b \in u_live[t], Merges(t, b),
         NEW r, NEW v, r = UReturned(b).list, v = UReturned(b).size
  PROVE  /\ CameBack(u_free, u_size, u_live, t, b, r, v, user_heap_break)
         /\ Range(r) # {}
         /\ ~stranded => Reached(maps, u_free, u_size, u_live, t, r, v, u_live[t] \ {b})
<1>1. /\ Comes(u_free, u_size, u_live, user_heap_break, t, b)
      /\ u_free \in Seq(USpace) /\ Once(u_free) /\ u_size \in [USpace -> Nat]
      /\ b \in USpace /\ b \notin Range(u_free)
  BY ComesBack
<1>2. r = Returned(u_free, u_size, b).list /\ v = Returned(u_free, u_size, b).size
  BY DEF UReturned
<1>3. CameBack(u_free, u_size, u_live, t, b, r, v, user_heap_break)
  BY <1>1, <1>2, ReturnLayout
<1>4. /\ Range(r) # {}
      /\ \A z \in Range(r) : \/ z \in Range(u_free) /\ v[z] = u_size[z]
                             \/ z .. BlockEnd(v, z) - 1 \subseteq CellsOf(u_size, Joining(u_free, u_size, b))
  BY <1>1, <1>2, USpaceNat, ReturnedFrom
<1>5. ASSUME ~stranded PROVE Reached(maps, u_free, u_size, u_live, t, r, v, u_live[t] \ {b})
  <2>1. ASSUME NEW a \in CellsOf(u_size, Joining(u_free, u_size, b)) PROVE Page(a) \in maps[t]
    <3>1. PICK z \in Joining(u_free, u_size, b) : a \in Span(u_size, z)
      BY DEF CellsOf, Span
    <3>2. Touches(maps[t], Span(u_size, z))
      BY <1>5, JoiningMapped
    <3> QED
      BY <3>1, <3>2, TouchesPages
  <2>2. ASSUME NEW z \in Range(r) PROVE (z \in Range(u_free) /\ v[z] = u_size[z]) \/ Touches(maps[t], Span(v, z))
    <3>1. CASE z .. BlockEnd(v, z) - 1 \subseteq CellsOf(u_size, Joining(u_free, u_size, b))
      <4>1. \A a \in Span(v, z) : Page(a) \in maps[t]
        BY <3>1, <2>1 DEF Span
      <4> QED
        BY <4>1, TouchesPages
    <3> QED
      BY <3>1, <1>4
  <2>3. ASSUME NEW z \in u_live[t] \ {b} PROVE Touches(maps[t], Span(v, z))
    <3>1. v[z] = u_size[z]
      BY <1>3 DEF CameBack
    <3>2. Mapping(maps, u_free, u_size, u_live)
      BY <1>5, UHeapFacts DEF UPages
    <3>3. Touches(maps[t], Span(u_size, z))
      BY <3>2 DEF Mapping
    <3> QED
      BY <3>1, <3>3 DEF Span, BlockEnd
  <2>4. \A z \in Others(u_live, t) : v[z] = u_size[z]
    BY <1>3 DEF CameBack
  <2> QED
    BY <2>2, <2>3, <2>4 DEF Reached
<1> QED
  BY <1>3, <1>4, <1>5

LEMMA UfreeKeepsInv ==
  ASSUME UHeapInv, NEW t \in Tasks, NEW b \in u_live[t], UfreeKeeps(t, b)
  PROVE  UHeapInv'
<1>1. /\ Merges(t, b) /\ used' = used \cup {t}
      /\ u_free' = UReturned(b).list /\ u_size' = UReturned(b).size
      /\ u_live' = [u_live EXCEPT ![t] = u_live[t] \ {b}]
      /\ UNCHANGED <<user_heap_break, user_heap_mapped_end, maps, status, frames, trimmed, stranded>>
  BY DEF UfreeKeeps, Walks, Calls
<1>2. /\ CameBack(u_free, u_size, u_live, t, b, u_free', u_size', user_heap_break)
      /\ ~stranded => Reached(maps, u_free, u_size, u_live, t, u_free', u_size', u_live[t] \ {b})
  BY <1>1, ReturnReached
<1>3. NewLayout(u_live, t, u_free', u_size', u_live[t] \ {b}, user_heap_break)
  BY <1>2 DEF CameBack
<1> QED
  BY <1>1, <1>2, <1>3, KeepStep

(* The task ends with the list changed and the mapped end as it was. *)
LEMMA EndsChanged ==
  ASSUME UHeapInv, NEW t \in Tasks, NEW X, Ends(t, "faulted"), t \in used',
         UNCHANGED <<user_heap_break, user_heap_mapped_end, frames, trimmed, stranded>>,
         NewLayout(u_live, t, u_free', u_size', X, user_heap_break),
         ~stranded => Reached(maps, u_free, u_size, u_live, t, u_free', u_size', X)
  PROVE  UHeapInv'
<1>1. /\ UPool /\ (~stranded => UPages) /\ MappedPages \in Nat /\ frames \in Nat
  BY UHeapFacts
<1>2. EndsWith(t, MappedPages)
  BY <1>1 DEF EndsWith, UPool
<1>3. ~stranded' => /\ ~stranded
                    /\ Reached(maps, u_free, u_size, u_live, t, u_free', u_size', X)
                    /\ MappedPages <= Page(user_heap_break) + 1
                    /\ \A o \in Tasks \ {t} : \A p \in maps[o] : p < MappedPages
  BY <1>1 DEF UPages
<1> QED
  BY <1>1, <1>2, <1>3, EndStep

LEMMA UfreeFaultsInv ==
  ASSUME UHeapInv, NEW t \in Tasks, NEW b \in u_live[t], UfreeFaults(t, b)
  PROVE  UHeapInv'
<1>1. /\ Ends(t, "faulted") /\ t \in used'
      /\ UNCHANGED <<user_heap_break, user_heap_mapped_end, frames, trimmed, stranded>>
      /\ \/ UNCHANGED <<u_free, u_size>>
         \/ u_free' = Listed(b) /\ UNCHANGED u_size
         \/ Merges(t, b) /\ u_free' = UReturned(b).list /\ u_size' = UReturned(b).size
  BY DEF UfreeFaults, Calls
<1>2. CASE UNCHANGED <<u_free, u_size>>
  BY <1>1, <1>2, EndsSame DEF heap_vars
<1>3. CASE u_free' = Listed(b) /\ UNCHANGED u_size
  <2>1. CameBack(u_free, u_size, u_live, t, b, u_free', u_size, user_heap_break) /\ Range(u_free') = Range(u_free) \cup {b}
    <3>1. Comes(u_free, u_size, u_live, user_heap_break, t, b)
      BY ComesBack
    <3>2. u_free' = InsertAt(u_free, Place(u_free, b), b)
      BY <1>3 DEF Listed
    <3> QED
      BY <3>1, <3>2, ListedLayout
  <2>2. NewLayout(u_live, t, u_free', u_size', u_live[t] \ {b}, user_heap_break)
    BY <2>1, <1>3 DEF CameBack
  <2>3. ASSUME ~stranded PROVE Reached(maps, u_free, u_size, u_live, t, u_free', u_size', u_live[t] \ {b})
    <3>1. Mapping(maps, u_free, u_size, u_live)
      BY <2>3, UHeapFacts DEF UPages
    <3> QED
      BY <3>1, <2>1, <1>3 DEF Mapping, Reached
  <2> QED
    BY <1>1, <2>2, <2>3, EndsChanged
<1>4. CASE Merges(t, b) /\ u_free' = UReturned(b).list /\ u_size' = UReturned(b).size
  <2>1. /\ CameBack(u_free, u_size, u_live, t, b, u_free', u_size', user_heap_break)
        /\ ~stranded => Reached(maps, u_free, u_size, u_live, t, u_free', u_size', u_live[t] \ {b})
    BY <1>4, ReturnReached
  <2>2. NewLayout(u_live, t, u_free', u_size', u_live[t] \ {b}, user_heap_break)
    BY <2>1 DEF CameBack
  <2> QED
    BY <1>1, <2>1, <2>2, EndsChanged
<1> QED
  BY <1>1, <1>2, <1>3, <1>4

(* The block a at the end of the list with sizes v ends at the mapped end;  *)
(* q is the page it starts in, and t has mapped all of it.                  *)
TrimsAt(t, v, a, q) ==
  /\ a \in Nat /\ q = Page(a) /\ q \in Nat /\ q < MappedPages /\ q <= Page(user_heap_break)
  /\ BlockEnd(v, a) = MappedPages * PageUnits
  /\ ~stranded => Touches(maps[t], Span(v, a))

LEMMA UfreeLast ==
  ASSUME UHeapInv, NEW t \in Tasks, NEW b \in u_live[t], Walks(t, b), AtTheEnd(b),
         NEW r, NEW v, r = UReturned(b).list, v = UReturned(b).size
  PROVE  TrimsAt(t, v, LastOf(r), Page(LastOf(r)))
<1> DEFINE a == LastOf(r)
<1>1. /\ UPool /\ (~stranded => UPages) /\ MappedPages \in Nat /\ user_heap_break \in Nat
  BY UHeapFacts
<1>2. Merges(t, b) /\ Readable(t, Range(r))
  BY DEF Walks
<1>3. /\ CameBack(u_free, u_size, u_live, t, b, r, v, user_heap_break)
      /\ Range(r) # {}
      /\ ~stranded => Reached(maps, u_free, u_size, u_live, t, r, v, u_live[t] \ {b})
  BY <1>2, ReturnReached
<1>4. /\ r \in Seq(USpace) /\ v \in [USpace -> Nat]
      /\ \A z \in Range(r) : BlockEnd(v, z) <= user_heap_break
  BY <1>3 DEF CameBack, NewLayout
<1>5. a \in Range(r)
  <2>1. Len(r) \in Nat /\ DOMAIN r = 1 .. Len(r)
    BY <1>4
  <2>2. Len(r) \in DOMAIN r
    <3>1. Len(r) # 0
      BY <1>3, <2>1 DEF Range
    <3> QED
      BY <2>1, <3>1
  <2> QED
    BY <2>2 DEF LastOf, Range
<1>6. a \in USpace /\ a \in Nat /\ v[a] \in Nat
  <2>1. Range(r) \subseteq USpace
    BY <1>4 DEF Range
  <2> QED
    BY <2>1, <1>4, <1>5, USpaceNat
<1>7. BlockEnd(v, a) = MappedPages * PageUnits
  BY <1>1 DEF AtTheEnd, UPool
<1> HIDE DEF a
<1>8. a < BlockEnd(v, a) /\ BlockEnd(v, a) <= user_heap_break /\ BlockEnd(v, a) \in Nat
  BY <1>4, <1>5, <1>6 DEF BlockEnd, Hdr
<1>9. a < MappedPages * PageUnits /\ a <= user_heap_break
  BY <1>1, <1>6, <1>7, <1>8
<1>10. Page(a) \in Nat /\ Page(a) < MappedPages /\ Page(a) <= Page(user_heap_break)
  BY <1>1, <1>6, <1>9, PageFacts, PageBelow, PagesRise
<1>11. ASSUME ~stranded PROVE Touches(maps[t], Span(v, a))
  <2>1. (a \in Range(u_free) /\ v[a] = u_size[a]) \/ Touches(maps[t], Span(v, a))
    BY <1>3, <1>5, <1>11 DEF Reached
  <2>2. ASSUME a \in Range(u_free), v[a] = u_size[a] PROVE Touches(maps[t], Span(v, a))
    <3>1. Touches(maps[t], Header(a))
      BY <1>2, <1>5, ReadableAll
    <3>2. Mapping(maps, u_free, u_size, u_live)
      BY <1>1, <1>11 DEF UPages
    <3>3. Touches(maps[t], Span(u_size, a))
      BY <2>2, <3>1, <3>2 DEF Mapping
    <3> QED
      BY <2>2, <3>3 DEF Span, BlockEnd
  <2> QED
    BY <2>1, <2>2
<1>12. TrimsAt(t, v, a, Page(a))
  BY <1>6, <1>7, <1>10, <1>11 DEF TrimsAt
<1> QED
  BY <1>12 DEF a

(* The pages given back are t's and those from q on. *)
LEMMA TrimmedPages ==
  ASSUME UHeapInv, NEW t \in Tasks, NEW v, NEW a, NEW q, TrimsAt(t, v, a, q), ~stranded,
         NEW p \in q .. MappedPages - 1
  PROVE  p \in maps[t]
<1>1. MappedPages \in Nat
  BY UHeapFacts
<1>2. /\ a \in Nat /\ q = Page(a) /\ q \in Nat /\ q < MappedPages
      /\ BlockEnd(v, a) = MappedPages * PageUnits
      /\ Touches(maps[t], Span(v, a))
  BY DEF TrimsAt
<1>3. \A z \in Span(v, a) : Page(z) \in maps[t]
  BY <1>2, TouchesPages
<1>4. p \in Nat /\ q <= p /\ p < MappedPages /\ MappedPages * PageUnits \in Nat
  BY <1>1, <1>2, TimesGrows
<1>5. CASE p = q
  <2>1. a < MappedPages * PageUnits
    BY <1>1, <1>2, PageBelow
  <2>2. a \in Span(v, a)
    BY <1>2, <1>4, <2>1 DEF Span
  <2> QED
    BY <1>2, <1>3, <1>5, <2>2
<1>6. CASE p # q
  <2> DEFINE z == p * PageUnits
  <2>1. z \in Nat /\ Page(z) = p
    BY <1>4, PageOfTimes
  <2> HIDE DEF z
  <2>2. z < MappedPages * PageUnits
    BY <1>1, <1>4, <2>1, PageBelow
  <2>3. a < z
    <3>1. Page(a) < p
      BY <1>2, <1>4, <1>6
    <3> QED
      BY <1>2, <1>4, <3>1, PageBelow DEF z
  <2>4. z \in Span(v, a)
    BY <1>2, <1>4, <2>1, <2>2, <2>3 DEF Span
  <2> QED
    BY <1>3, <2>1, <2>4
<1> QED
  BY <1>5, <1>6

LEMMA UfreeTrimsInv ==
  ASSUME UHeapInv, NEW t \in Tasks, NEW b \in u_live[t], UfreeTrims(t, b)
  PROVE  UHeapInv'
<1> DEFINE K == MappedPages
           a == LastOf(u_free')
           q == Page(a)
           gone == LastPages(b) \cap maps[t]
<1>1. /\ UPool /\ (~stranded => UPages) /\ K \in Nat /\ frames \in Nat /\ user_heap_break \in Nat
  BY UHeapFacts
<1>2. /\ Walks(t, b) /\ AtTheEnd(b) /\ Merges(t, b) /\ used' = used \cup {t}
      /\ u_free' = UReturned(b).list /\ u_size' = UReturned(b).size
      /\ frames' = frames + Cardinality(gone)
      /\ user_heap_mapped_end' = q * PageUnits
      /\ Ends(t, "faulted")
      /\ UNCHANGED <<user_heap_break, stranded>>
  BY DEF UfreeTrims, Walks, Calls, Page
<1>3. TrimsAt(t, u_size', a, q)
  BY <1>2, UfreeLast
<1>4. /\ CameBack(u_free, u_size, u_live, t, b, u_free', u_size', user_heap_break)
      /\ ~stranded => Reached(maps, u_free, u_size, u_live, t, u_free', u_size', u_live[t] \ {b})
  BY <1>2, ReturnReached
<1>5. NewLayout(u_live, t, u_free', u_size', u_live[t] \ {b}, user_heap_break)
  BY <1>4 DEF CameBack
<1>6. q \in Nat /\ q < K /\ q <= Page(user_heap_break) /\ Page(user_heap_break) \in Nat
  BY <1>1, <1>3, PageFacts DEF TrimsAt
<1>7. gone \subseteq q .. K - 1
  <2> SUFFICES ASSUME NEW p \in LastPages(b) PROVE p \in q .. K - 1
    OBVIOUS
  <2>1. p \in 0 .. MaxFrames /\ p >= q /\ p * PageUnits < user_heap_mapped_end
    BY <1>2 DEF LastPages, Page
  <2>2. p \in Nat /\ user_heap_mapped_end = K * PageUnits
    BY <2>1, <1>1, FramesAssumption DEF UPool
  <2>3. p < K
    <3>1. p * PageUnits \in Nat /\ Page(p * PageUnits) = p
      BY <2>2, PageOfTimes
    <3> DEFINE z == p * PageUnits
    <3>2. z \in Nat /\ Page(z) = p /\ z < K * PageUnits
      BY <3>1, <2>1, <2>2
    <3> HIDE DEF z
    <3> QED
      BY <3>2, <1>1, PageBelow
  <2> HIDE DEF q, K
  <2> QED
    BY <2>1, <2>2, <2>3, <1>1, <1>6
<1> HIDE DEF gone
<1>8. Cardinality(gone) \in Nat /\ Cardinality(gone) <= K - q
  <2>1. q + (K - q) - 1 = K - 1 /\ K - q \in Nat
    BY <1>1, <1>6
  <2>2. IsFiniteSet(q .. K - 1) /\ Cardinality(q .. K - 1) = K - q
    BY <1>6, <2>1, IntervalCard
  <2> QED
    BY <1>7, <2>2, FS_Subset, FS_CardinalityType
<1>9. frames' \in Nat /\ q + frames' <= MaxFrames
  BY <1>1, <1>2, <1>6, <1>8, FramesAssumption DEF UPool
<1> HIDE DEF q
<1>10. EndsWith(t, q)
  BY <1>2, <1>6, <1>9 DEF EndsWith
<1>11. ASSUME ~stranded'
       PROVE  /\ ~stranded
              /\ Reached(maps, u_free, u_size, u_live, t, u_free', u_size', u_live[t] \ {b})
              /\ q <= Page(user_heap_break) + 1
              /\ \A o \in Tasks \ {t} : \A p \in maps[o] : p < q
  <2>1. ~stranded
    BY <1>2, <1>11
  <2>2. UPages /\ Mapping(maps, u_free, u_size, u_live) /\ maps \in [Tasks -> SUBSET Nat]
    BY <2>1, <1>1 DEF UPages, UPool
  <2>3. ASSUME NEW o \in Tasks \ {t}, NEW p \in maps[o] PROVE p < q
    <3>1. p \in Nat /\ p < K /\ p \notin maps[t]
      BY <2>2 DEF UPages, Mapping
    <3>2. p \notin q .. K - 1
      BY <3>1, <1>3, <2>1, TrimmedPages
    <3> QED
      BY <3>1, <3>2, <1>1, <1>6
  <2> QED
    BY <2>1, <2>3, <1>4, <1>6
<1> QED
  BY <1>5, <1>10, <1>11, EndStep

-----------------------------------------------------------------------------
(* Both heaps                                                               *)

LEMMA InitUHeapInv == UInit => UHeapInv
<1> SUFFICES ASSUME UInit PROVE UHeapInv
  OBVIOUS
<1>1. /\ u_free = <<>> /\ u_size = [a \in USpace |-> 0]
      /\ user_heap_break = 0 /\ user_heap_mapped_end = 0
      /\ maps = [t \in Tasks |-> {}] /\ u_live = [t \in Tasks |-> {}]
      /\ status = [t \in Tasks |-> "alive"] /\ frames = MaxFrames
  BY DEF UInit
<1>2. 0 \in USpace /\ MaxFrames \in Nat
  <2>1. MaxFrames * PageUnits \in Nat /\ MaxFrames \in Nat
    BY FramesAssumption, TimesGrows
  <2> QED
    BY <2>1 DEF USpace
<1>3. MappedPages = 0 /\ MappedPages * PageUnits = 0
  <2>1. MappedPages = 0
    BY <1>1, PageOfTimes DEF MappedPages, Page
  <2> QED
    BY <2>1
<1>4. UPool
  BY <1>1, <1>2, <1>3 DEF UPool
<1>5. Held(u_live) = {} /\ Range(u_free) = {}
  BY <1>1 DEF Held, Range
<1>6. UShape
  <2>1. u_free \in Seq(USpace) /\ Once(u_free) /\ u_size \in [USpace -> Nat] /\ u_live \in [Tasks -> SUBSET USpace]
    BY <1>1 DEF Once
  <2>2. \A t \in Tasks : u_live[t] = {}
    BY <1>1
  <2> QED
    BY <1>1, <1>2, <1>5, <2>1, <2>2 DEF UShape, Layout, Apart
<1>7. UPages
  <2>1. \A t \in Tasks : maps[t] = {} /\ u_live[t] = {}
    BY <1>1
  <2>2. Mapping(maps, u_free, u_size, u_live)
    BY <1>5, <2>1 DEF Mapping
  <2>3. 0 <= Page(user_heap_break) + 1
    BY <1>1, PageFacts
  <2> QED
    BY <1>3, <2>1, <2>2, <2>3 DEF UPages
<1>8. BlocksMapped
  <2>1. \A t \in Tasks : \A b : Readable(t, {b}) <=> Touches(maps[t], Header(b))
    BY Zenon DEF Readable, Touches
  <2> QED
    BY <1>7, <2>1, Zenon DEF BlocksMapped, UPages, Mapping, UCells, Span, Page
<1>9. AllMapped
  <2>1. 0 .. MappedPages - 1 = {}
    BY <1>3
  <2> QED
    BY <1>1, <2>1 DEF AllMapped
<1> QED
  BY <1>4, <1>6, <1>8, <1>9, ApartIs DEF UHeapInv

(* The kernel heap takes frames from the pool. *)
LEMMA FramesTakenInv ==
  ASSUME UHeapInv, OnlyFrames, frames' \in Nat, frames' <= frames PROVE UHeapInv'
<1>1. UNCHANGED <<u_free, u_size, user_heap_break, user_heap_mapped_end, maps, u_live, status, used, trimmed, stranded>>
  BY DEF OnlyFrames, heap_vars
<1>2. UShape /\ UPool /\ (~stranded => UPages) /\ MappedPages \in Nat /\ frames \in Nat
  BY UHeapFacts
<1>3. MappedPages' = MappedPages
  BY <1>1 DEF MappedPages
<1>4. UPool'
  <2>1. MappedPages + frames <= MaxFrames
    BY <1>2 DEF UPool
  <2>2. MappedPages + frames' <= MaxFrames
    <3> DEFINE K == MappedPages
               f == frames'
    <3>1. K \in Nat /\ frames \in Nat /\ MaxFrames \in Nat /\ f \in Nat /\ f <= frames /\ K + frames <= MaxFrames
      BY <1>2, <2>1, FramesAssumption
    <3> HIDE DEF K, f
    <3>2. K + f <= MaxFrames
      BY <3>1
    <3> QED
      BY <3>2 DEF K, f
  <2> QED
    BY <1>1, <1>2, <1>3, <2>2 DEF UPool
<1>5. UShape'
  BY <1>1, <1>2 DEF UShape
<1>6. ~stranded' => UPages'
  BY <1>1, <1>2, <1>3 DEF UPages
<1>7. AllMapped'
  BY <1>1, <1>3 DEF UHeapInv, AllMapped
<1> QED
  BY <1>4, <1>5, <1>6, <1>7, ApartNext, MappedNext DEF UHeapInv

LEMMA UNextInv == ASSUME UHeapInv, UNext PROVE UHeapInv'
<1>1. ASSUME NEW t \in Tasks, NEW n \in USizes, Umalloc(t, Align8(n)) PROVE UHeapInv'
  <2> DEFINE m == Align8(n)
  <2>1. m \in Nat \ {0}
    BY USizesAssumption, UnitsOf
  <2> HIDE DEF m
  <2>2. UTake(t, m) \/ UBump(t, m) \/ UBumpFails(t, m) \/ USearchFaults(t, m) \/ UBumpFaults(t, m)
    BY <1>1 DEF Umalloc, m
  <2> QED
    BY <2>1, <2>2, UTakeInv, UBumpInv, UBumpFailsInv, USearchFaultsInv, UBumpFaultsInv
<1>2. ASSUME NEW t \in Tasks, NEW b \in u_live[t], Ufree(t, b) PROVE UHeapInv'
  BY <1>2, UfreeKeepsInv, UfreeTrimsInv, UfreeFaultsInv DEF Ufree
<1>3. ASSUME NEW t \in Tasks, Exit(t) PROVE UHeapInv'
  BY <1>3, ExitInv
<1> QED
  BY <1>1, <1>2, <1>3 DEF UNext

LEMMA MNextInv == UHeapInv /\ [MNext]_mem_vars => UHeapInv'
<1> SUFFICES ASSUME UHeapInv, [MNext]_mem_vars PROVE UHeapInv'
  OBVIOUS
<1>1. frames \in Nat
  BY UHeapFacts
<1>2. ASSUME NEW n \in Sizes, KernelGrows(Align8(n)) PROVE UHeapInv'
  <2> DEFINE m == Align8(n)
             k == PagesFor(m)
  <2>1. k \in Nat
    BY SizesAssumption, UnitsOf, PagesHold
  <2> HIDE DEF m, k
  <2>2. k <= frames /\ frames' = frames - k /\ OnlyFrames
    BY <1>2 DEF KernelGrows, m, k
  <2> QED
    BY <1>1, <2>1, <2>2, FramesTakenInv
<1>3. ASSUME NEW n \in Sizes, KernelGrowFails(Align8(n)) PROVE UHeapInv'
  BY <1>1, <1>3, FramesTakenInv DEF KernelGrowFails
<1>4. ASSUME UNCHANGED u_vars PROVE UHeapInv'
  BY <1>1, <1>4, FramesTakenInv DEF u_vars, OnlyFrames
<1>5. ASSUME UNext PROVE UHeapInv'
  BY <1>5, UNextInv
<1>6. \/ \E n \in Sizes : KernelGrows(Align8(n)) \/ KernelGrowFails(Align8(n))
      \/ UNCHANGED u_vars
      \/ UNext
  BY Zenon DEF MNext, mem_vars, KernelKeeps
<1> QED
  BY <1>2, <1>3, <1>4, <1>5, <1>6

(* The user heap's invariant, whatever the tasks, the page frames and the   *)
(* requests, and whatever the kernel heap takes from the pool: all blocks   *)
(* lie apart below the break, and until an expansion ends without a block,  *)
(* each task has mapped what it holds.                                      *)
THEOREM MSpecUHeapInv == MSpec => []UHeapInv
<1>1. MInit => UHeapInv
  BY InitUHeapInv DEF MInit
<1> QED
  BY <1>1, MNextInv, PTL DEF MSpec

LEMMA InvUserBlocksSound == UHeapInv => UserBlocksSound
<1> SUFFICES ASSUME UHeapInv, NEW t \in Tasks, NEW b \in u_live[t]
             PROVE  /\ b \notin Range(u_free) /\ \A o \in Tasks \ {t} : b \notin u_live[o]
                    /\ \A c \in UBlocks \ {b} : UCells(b) \cap UCells(c) = {}
                    /\ ~stranded => Touches(maps[t], UCells(b))
  BY DEF UserBlocksSound
<1>1. BlocksApart /\ BlocksMapped
  BY DEF UHeapInv
<1>2. b \notin Range(u_free) /\ \A o \in Tasks \ {t} : b \notin u_live[o]
  BY <1>1 DEF BlocksApart
<1>3. b \in UBlocks
  BY DEF UBlocks
<1>4. ASSUME NEW c \in UBlocks \ {b} PROVE UCells(b) \cap UCells(c) = {}
  <2>1. Layout(u_free, u_size, u_live, user_heap_break) /\ UBlocks = Range(u_free) \cup Held(u_live)
    BY UHeapFacts DEF UShape, UBlocks, Held
  <2>2. b \in Nat /\ BlockEnd(u_size, b) \in Nat /\ c \in Nat /\ BlockEnd(u_size, c) \in Nat
    BY <1>3, <2>1, BlockFacts
  <2>3. BlockEnd(u_size, b) <= c \/ BlockEnd(u_size, c) <= b
    BY <1>1, <1>3 DEF BlocksApart, Apart
  <2> QED
    BY <2>2, <2>3, CellsApart DEF UCells
<1>5. ~stranded => Touches(maps[t], UCells(b))
  BY <1>1 DEF BlocksMapped
<1> QED
  BY <1>2, <1>4, <1>5

(* No two tasks ever hold the same memory of the shared user heap, and no   *)
(* block in use is on the list or overlaps another; until an expansion ends *)
(* without a block, a task can touch all of its own.                        *)
THEOREM MSpecUserBlocksSound == MSpec => []UserBlocksSound
  BY MSpecUHeapInv, InvUserBlocksSound, PTL

-----------------------------------------------------------------------------
(* A task that is alone in the user heap                                    *)

Alone(t) == status[t] = "alive" /\ ~trimmed /\ used \subseteq {t}

LEMMA AloneReads ==
  ASSUME UHeapInv, NEW t \in Tasks, Alone(t)
  PROVE  /\ \A a \in Nat : a < user_heap_break => Page(a) \in maps[t]
         /\ \A x \in Nat : x + 1 < user_heap_break => Touches(maps[t], Header(x))
         /\ \A S \in SUBSET UBlocks : Readable(t, S)
<1>1. /\ user_heap_break <= user_heap_mapped_end /\ 0 .. MappedPages - 1 \subseteq maps[t]
      /\ user_heap_mapped_end = MappedPages * PageUnits /\ MappedPages \in Nat /\ user_heap_break \in Nat
      /\ user_heap_mapped_end \in Nat
  BY UHeapFacts DEF UHeapInv, AllMapped, Alone, UPool
<1>2. ASSUME NEW a \in Nat, a < user_heap_break PROVE Page(a) \in maps[t]
  <2>1. a < MappedPages * PageUnits
    BY <1>1, <1>2
  <2>2. Page(a) \in Nat /\ Page(a) < MappedPages
    BY <1>1, <2>1, PageFacts, PageBelow
  <2> QED
    BY <1>1, <2>2
<1>3. ASSUME NEW x \in Nat, x + 1 < user_heap_break PROVE Touches(maps[t], Header(x))
  <2>1. x + 1 \in Nat /\ x < user_heap_break
    BY <1>1, <1>3
  <2>2. Page(x) \in maps[t] /\ Page(x + 1) \in maps[t]
    BY <1>2, <1>3, <2>1
  <2> QED
    BY <2>2, TouchesHeader
<1>4. ASSUME NEW x \in UBlocks PROVE x \in Nat /\ x + 1 < user_heap_break
  <2>1. Layout(u_free, u_size, u_live, user_heap_break) /\ UBlocks = Range(u_free) \cup Held(u_live)
    BY UHeapFacts DEF UShape, UBlocks, Held
  <2>2. /\ x \in Nat /\ u_size[x] \in Nat /\ BlockEnd(u_size, x) = x + Hdr + u_size[x]
        /\ BlockEnd(u_size, x) <= user_heap_break
    BY <2>1, BlockFacts
  <2> QED
    BY <1>1, <2>2 DEF Hdr
<1>5. ASSUME NEW S \in SUBSET UBlocks PROVE Readable(t, S)
  <2>1. \A x \in S : Touches(maps[t], Header(x))
    BY <1>3, <1>4
  <2> QED
    BY <2>1, ReadableAll
<1> QED
  BY <1>2, <1>3, <1>5

LEMMA AloneSearches ==
  ASSUME UHeapInv, NEW t \in Tasks, Alone(t), NEW n \in Nat \ {0}
  PROVE  ~USearchFaults(t, n)
<1> DEFINE b == u_free[First(UFits(n))]
           y == b + Hdr + n
<1>1. Readable(t, Searched(n))
  <2>1. Searched(n) \in SUBSET UBlocks
    BY SearchedListed DEF UBlocks
  <2> QED
    BY <2>1, AloneReads
<1>2. ASSUME UFits(n) # {}, u_size[b] - n >= Smallest PROVE Readable(t, {y})
  <2>1. b \in Range(u_free)
    BY <1>2, UFitting
  <2>2. Layout(u_free, u_size, u_live, user_heap_break)
    BY UHeapFacts DEF UShape
  <2> HIDE DEF b
  <2>3. /\ b \in Nat /\ u_size[b] \in Nat /\ BlockEnd(u_size, b) = b + Hdr + u_size[b]
        /\ BlockEnd(u_size, b) <= user_heap_break /\ user_heap_break \in Nat
    BY <2>1, <2>2, BlockFacts
  <2>4. y \in Nat /\ y + 1 < user_heap_break
    BY <1>2, <2>3 DEF Hdr, Smallest
  <2> HIDE DEF y
  <2>5. \A x \in {y} : Touches(maps[t], Header(x))
    BY <2>4, AloneReads
  <2> QED
    BY <2>5, ReadableAll
<1> QED
  BY <1>1, <1>2 DEF USearchFaults

LEMMA AloneExtends ==
  ASSUME UHeapInv, NEW t \in Tasks, Alone(t), NEW n \in Nat \ {0}
  PROVE  ~UBumpFaults(t, n)
<1> DEFINE K == MappedPages
           e == user_heap_break
<1>1. e \in Nat /\ K \in Nat /\ user_heap_mapped_end = K * PageUnits /\ 0 .. K - 1 \subseteq maps[t]
  BY UHeapFacts DEF UHeapInv, AllMapped, Alone, UPool
<1>2. NewBreak(n) \in Nat \ {0} /\ e < NewBreak(n)
  BY ExtendFacts
<1>3. user_heap_mapped_end \div PageUnits = K
  BY DEF MappedPages
<1> HIDE DEF K, e
<1>4. Page(e) \in Nat /\ Page(e) * PageUnits <= e /\ Page(e) * PageUnits \in Nat
      /\ Page(e) <= Page(NewBreak(n)) /\ Page(NewBreak(n)) \in Nat
  <2>1. NewBreak(n) \in Nat /\ e <= NewBreak(n)
    BY <1>1, <1>2
  <2> QED
    BY <1>1, <2>1, PageFacts, PagesRise, TimesGrows
<1>5. Page(e) \in maps[t] \cup Missing(n)
  <2>1. CASE Page(e) < K
    BY <1>1, <1>4, <2>1
  <2>2. CASE ~(Page(e) < K)
    <3>1. Page(e) \in K .. Page(NewBreak(n))
      BY <1>1, <1>4, <2>2
    <3>2. Page(e) * PageUnits < NewBreak(n)
      BY <1>1, <1>2, <1>4
    <3> QED
      BY <3>1, <3>2, <1>3 DEF Missing, Page
  <2> QED
    BY <2>1, <2>2
<1>6. Touches(maps[t] \cup Missing(n), {e})
  BY <1>5, TouchesPages
<1> QED
  BY <1>6 DEF UBumpFaults, e

LEMMA AloneFrees ==
  ASSUME UHeapInv, NEW t \in Tasks, Alone(t), NEW b \in u_live[t]
  PROVE  ~UfreeFaults(t, b)
<1>1. b \in UBlocks /\ Range(u_free) \subseteq UBlocks
  BY DEF UBlocks
<1>2. \A S \in SUBSET UBlocks : Readable(t, S)
  BY AloneReads
<1>3. Places(t, b)
  <2>1. Below(b) \subseteq Range(u_free)
    <3>1. u_free \in Seq(USpace)
      BY UHeapFacts
    <3>2. Place(u_free, b) \in 1 .. Len(u_free) + 1 /\ Len(u_free) \in Nat /\ DOMAIN u_free = 1 .. Len(u_free)
      <4>1. b \in Nat
        BY ComesBack, USpaceNat
      <4> QED
        BY <3>1, <4>1, PlaceFacts
    <3>3. 1 .. Place(u_free, b) - 1 \subseteq DOMAIN u_free
      BY <3>2
    <3> QED
      BY <3>3 DEF Below, Range
  <2>2. Readable(t, {b})
    BY <1>1, <1>2
  <2>3. Touches(maps[t], {b + 1})
    <3>1. b \in Nat /\ Touches(maps[t], Header(b))
      BY <2>2, ReadableAll, ComesBack, USpaceNat
    <3>2. Page(b + 1) \in maps[t]
      BY <3>1, TouchesHeader
    <3> QED
      BY <3>2, TouchesPages
  <2> QED
    BY <1>1, <1>2, <2>1, <2>3 DEF Places
<1>4. Merges(t, b)
  BY <1>1, <1>2, <1>3 DEF Merges, Touching
<1>5. Walks(t, b)
  <2>1. CameBack(u_free, u_size, u_live, t, b, UReturned(b).list, UReturned(b).size, user_heap_break)
    BY <1>4, ReturnReached
  <2>2. Range(UReturned(b).list) \in SUBSET UBlocks
    BY <1>1, <2>1 DEF CameBack
  <2> QED
    BY <1>2, <1>4, <2>2 DEF Walks
<1> QED
  BY <1>3, <1>4, <1>5 DEF UfreeFaults

UsersAreTasks == used \in SUBSET Tasks

LEMMA UsedByTasks == MSpec => []UsersAreTasks
<1>1. MInit => UsersAreTasks
  BY DEF MInit, UInit, UsersAreTasks
<1>2. UsersAreTasks /\ [MNext]_mem_vars => UsersAreTasks'
  <2> SUFFICES ASSUME used \in SUBSET Tasks, [MNext]_mem_vars PROVE used' \in SUBSET Tasks
    BY DEF UsersAreTasks
  <2>1. \/ used' = used
        \/ UNext
    BY Zenon DEF MNext, mem_vars, u_vars, KernelGrows, KernelGrowFails, KernelKeeps, OnlyFrames
  <2>2. ASSUME NEW t \in Tasks, NEW n \in USizes, Umalloc(t, Align8(n)) PROVE used' = used \cup {t}
    BY <2>2, Zenon DEF Umalloc, UTake, UBump, UBumpFails, USearchFaults, UBumpFaults, UExtends, Calls
  <2>3. ASSUME NEW t \in Tasks, NEW b \in u_live[t], Ufree(t, b) PROVE used' = used \cup {t}
    BY <2>3, Zenon DEF Ufree, UfreeKeeps, UfreeTrims, UfreeFaults, Calls
  <2>4. ASSUME NEW t \in Tasks, Exit(t) PROVE used' = used
    BY <2>4 DEF Exit
  <2> QED
    BY <2>1, <2>2, <2>3, <2>4 DEF UNext
<1> QED
  BY <1>1, <1>2, PTL DEF MSpec

(* A step that ends t in a fault is a faulting call of t. *)
LEMMA FaultingCalls ==
  ASSUME UHeapInv, MNext, NEW t \in Tasks, status[t] = "alive", status'[t] = "faulted"
  PROVE  \/ trimmed'
         \/ /\ trimmed' = trimmed
            /\ \/ \E n \in Nat \ {0} : USearchFaults(t, n) \/ UBumpFaults(t, n)
               \/ \E b \in u_live[t] : UfreeFaults(t, b)
<1>1. status \in [Tasks -> {"alive", "exited", "faulted"}]
  BY UHeapFacts DEF UPool
<1>2. UNext
  BY Zenon DEF MNext, mem_vars, u_vars, KernelGrows, KernelGrowFails, KernelKeeps, OnlyFrames
<1>3. ASSUME NEW o \in Tasks, NEW why, Ends(o, why) PROVE o = t /\ why = "faulted"
  BY <1>1, <1>3 DEF Ends
<1>4. ASSUME NEW o \in Tasks, NEW n \in USizes, Umalloc(o, Align8(n))
      PROVE  trimmed' = trimmed /\ \E m \in Nat \ {0} : USearchFaults(t, m) \/ UBumpFaults(t, m)
  <2> DEFINE m == Align8(n)
  <2>1. m \in Nat \ {0}
    BY USizesAssumption, UnitsOf
  <2> HIDE DEF m
  <2>2. ~(status' = status)
    OBVIOUS
  <2>3. (USearchFaults(o, m) \/ UBumpFaults(o, m))
    BY <1>4, <2>2, Zenon DEF Umalloc, UTake, UBump, UBumpFails, m
  <2>4. Ends(o, "faulted") /\ trimmed' = trimmed
    BY <2>3 DEF USearchFaults, UBumpFaults
  <2> QED
    BY <1>3, <2>1, <2>3, <2>4
<1>5. ASSUME NEW o \in Tasks, NEW b \in u_live[o], Ufree(o, b)
      PROVE  trimmed' \/ (trimmed' = trimmed /\ \E c \in u_live[t] : UfreeFaults(t, c))
  <2>1. CASE UfreeTrims(o, b)
    BY <2>1 DEF UfreeTrims
  <2>2. CASE UfreeFaults(o, b)
    <3>1. Ends(o, "faulted") /\ trimmed' = trimmed
      BY <2>2 DEF UfreeFaults
    <3> QED
      BY <1>3, <2>2, <3>1
  <2>3. ~(status' = status)
    OBVIOUS
  <2> QED
    BY <1>5, <2>1, <2>2, <2>3, Zenon DEF Ufree, UfreeKeeps
<1>6. ASSUME NEW o \in Tasks, Exit(o) PROVE FALSE
  BY <1>3, <1>6 DEF Exit
<1> QED
  BY <1>2, <1>4, <1>5, <1>6 DEF UNext

(* A task is ended inside umalloc or ufree only if another task has used    *)
(* the heap before, or the free block at its end is given back: whoever is  *)
(* alone in the heap reads no page it has not mapped.                       *)
THEOREM MSpecFaultsExplained == MSpec => FaultsExplained
<1> DEFINE Explained == \A t \in Tasks : status[t] = "alive" /\ status'[t] = "faulted"
                          => trimmed' \/ \E o \in Tasks \ {t} : o \in used
<1>1. UHeapInv /\ UsersAreTasks /\ [MNext]_mem_vars => [Explained]_u_vars
  <2> SUFFICES ASSUME UHeapInv, used \in SUBSET Tasks, [MNext]_mem_vars, ~(UNCHANGED u_vars),
                      NEW t \in Tasks, status[t] = "alive", status'[t] = "faulted",
                      ~trimmed', ~\E o \in Tasks \ {t} : o \in used
               PROVE  FALSE
    BY DEF UsersAreTasks
  <2>1. MNext
    BY DEF mem_vars
  <2>2. /\ trimmed' = trimmed
        /\ \/ \E n \in Nat \ {0} : USearchFaults(t, n) \/ UBumpFaults(t, n)
           \/ \E b \in u_live[t] : UfreeFaults(t, b)
    BY <2>1, FaultingCalls
  <2>3. Alone(t)
    BY <2>2 DEF Alone
  <2> QED
    BY <2>2, <2>3, AloneSearches, AloneExtends, AloneFrees
<1>2. MSpec => []UHeapInv /\ []UsersAreTasks /\ [][MNext]_mem_vars
  BY MSpecUHeapInv, UsedByTasks DEF MSpec
<1> QED
  BY <1>1, <1>2, PTL DEF FaultsExplained
=============================================================================
