------------------------------ MODULE BlockList -----------------------------
(***************************************************************************)
(* The list of free blocks that kmalloc.c and umalloc.c both keep: the same*)
(* structure and the same code, one copy for each heap.                    *)
(*                                                                         *)
(* Addresses and sizes are in units of 8 bytes (align8).  A list is the    *)
(* sequence of the blocks that the next pointers link; s[b] is the size    *)
(* field in the header at b, and 0 where no block starts (what is left     *)
(* there is never read).                                                   *)
(***************************************************************************)
EXTENDS Integers, Sequences, SequencesExt

CONSTANT PageUnits    (* PAGE_SIZE, in units *)

ASSUME PageAssumption == PageUnits \in Nat \ {0}

Hdr       == 2                       \* sizeof(kmalloc_block_t)
Smallest  == Hdr + 1                 \* sizeof(kmalloc_block_t) + 8u
Align8(n) == (n + 7) \div 8

BlockEnd(s, b) == b + Hdr + s[b]
First(S)       == CHOOSE i \in S : \A j \in S : i <= j

(* Each of the blocks B ends before the next one starts. *)
Apart(s, B) == \A b, c \in B : b # c => BlockEnd(s, b) <= c \/ BlockEnd(s, c) <= b

(* The blocks of list l that hold n units. *)
Fits(l, s, n) == { i \in DOMAIN l : s[l[i]] >= n }

(* The place of b: in front of the first block at a higher address. *)
Place(l, b) == LET above == { i \in DOMAIN l : l[i] > b }
               IN  IF above = {} THEN Len(l) + 1 ELSE First(above)

(* Mutant: the successor is merged although it does not touch the block. *)
MutMergeNext(l, s, i) ==
  IF i < Len(l) /\ BlockEnd(s, l[i]) <= l[i + 1]
  THEN [list |-> RemoveAt(l, i + 1), size |-> [s EXCEPT ![l[i]] = @ + Hdr + s[l[i + 1]], ![l[i + 1]] = 0]]
  ELSE [list |-> l, size |-> s]

(* Merge the block at place i with its successor in the list if they touch. *)
MergeNext(l, s, i) ==
  IF i < Len(l) /\ BlockEnd(s, l[i]) = l[i + 1]
  THEN [list |-> RemoveAt(l, i + 1), size |-> [s EXCEPT ![l[i]] = @ + Hdr + s[l[i + 1]], ![l[i + 1]] = 0]]
  ELSE [list |-> l, size |-> s]

(* Insert b, merge it with the next block, then the previous one with it. *)
Returned(l, s, b) ==
  LET i    == Place(l, b)
      next == MergeNext(InsertAt(l, i, b), s, i)
  IN  IF i > 1 THEN MergeNext(next.list, next.size, i - 1) ELSE next
=============================================================================
