-------------------------- MODULE MCFrameAllocator --------------------------
(***************************************************************************)
(* Five pages of four bytes, two pages to a byte of the bitmap and four to *)
(* a word.  The three bytes of the bitmap are the first of page 1, which   *)
(* is handed out all the same, as on a machine with less than 128 MiB;     *)
(* page 2 is usable in its first three bytes only, and page 4 lies alone   *)
(* in the last word of the scan, where it starts after page 3 was taken.   *)
(***************************************************************************)
EXTENDS FrameAllocator, Sequences, TLC

MCMemMap == << [base |-> 0, length |-> 4, usable |-> FALSE],
               [base |-> 4, length |-> 7, usable |-> TRUE],
               [base |-> 11, length |-> 1, usable |-> FALSE],
               [base |-> 12, length |-> 8, usable |-> TRUE] >>

(* memset 0, and its opposite. *)
MCContents == {{}, Pages}

MCSymmetry == Permutations(Threads)
=============================================================================
