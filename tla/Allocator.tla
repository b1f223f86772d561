----------------------------- MODULE Allocator ------------------------------
(***************************************************************************)
(* What kmalloc and kfree promise: a block handed out overlaps no block    *)
(* that is still in use, is as large as was asked for, and keeps its place *)
(* and its size until it is freed.                                         *)
(***************************************************************************)
EXTENDS Integers

CONSTANTS
  Space,    (* the addresses, in units of 8 bytes                           *)
  Wanted    (* the sizes callers ask for, in units                          *)

VARIABLE blocks  (* the blocks in use: a function from address to length    *)

Init == blocks = [a \in {} |-> 0]

(* The rest of the blocks in use stays as it is. *)
Kept(B) == \A b \in B : b \in DOMAIN blocks' /\ blocks'[b] = blocks[b]

(* A new block, at least as large as asked and clear of every other one. *)
Alloc ==
  \E a \in Space \ DOMAIN blocks :
    /\ DOMAIN blocks' = DOMAIN blocks \cup {a}
    /\ Kept(DOMAIN blocks)
    /\ \E w \in Wanted : blocks'[a] >= w
    /\ \A b \in DOMAIN blocks : a + blocks'[a] <= b \/ b + blocks[b] <= a

Free ==
  \E a \in DOMAIN blocks :
    /\ DOMAIN blocks' = DOMAIN blocks \ {a}
    /\ Kept(DOMAIN blocks \ {a})

Spec == Init /\ [][Alloc \/ Free]_blocks
=============================================================================
