----------------------------- MODULE KernelHeap -----------------------------
(***************************************************************************)
(* The kernel heap mm/kmalloc.c, on top of the page ranges vmm_alloc_pages *)
(* hands out at rising addresses (mm/vmm.c).                               *)
(*                                                                         *)
(* Each call runs under g_kmalloc_lock from its first to its last access   *)
(* of the heap, so it is one step.  Nobody but kmalloc calls               *)
(* vmm_alloc_pages, so the chunks follow one another without a gap.        *)
(*                                                                         *)
(* grow_heap puts the rest of the old chunk on the free list before it     *)
(* knows that there is a new chunk.  When there is none, that rest is both *)
(* on the list and still the bump region, and later calls overwrite each   *)
(* other's headers: shared marks this, and the model ends there.           *)
(***************************************************************************)
EXTENDS BlockList, FiniteSets

CONSTANTS
  ChunkPages,   (* HEAP_CHUNK_PAGES                                         *)
  MaxUnits,     (* bound: the kernel heap's address space                   *)
  Sizes         (* the sizes asked for, in bytes                            *)

ASSUME UnitsAssumption == ChunkPages \in Nat \ {0} /\ MaxUnits \in Nat
ASSUME SizesAssumption == Sizes \subseteq Nat \ {0}

Space == 0 .. MaxUnits

VARIABLES
  free,       (* free_list                                                  *)
  size,       (* the size fields                                            *)
  heap_cur, heap_end,
  next_page,  (* kernel_heap_cur of vmm.c                                   *)
  chunks,     (* the chunks obtained so far                                 *)
  live,       (* the blocks handed out and not freed, by header address     *)
  shared      (* a failed growth left memory both free and in the bump area *)

vars == <<free, size, heap_cur, heap_end, next_page, chunks, live, shared>>

(* kmalloc_init; address 0 lies below the heap *)
Init ==
  /\ free = <<>>
  /\ size = [a \in Space |-> 0]
  /\ heap_cur = 0 /\ heap_end = 0
  /\ next_page = PageUnits
  /\ chunks = {}
  /\ live = {}
  /\ shared = FALSE

-----------------------------------------------------------------------------
(* kmalloc                                                                  *)

KFits(n) == Fits(free, size, n)

(* Mutant: the remainder's size forgets its own header. *)
MutTakeSplit(n) ==
  /\ ~shared /\ KFits(n) # {}
  /\ LET i == First(KFits(n))  b == free[i]  split == b + Hdr + n
     IN /\ size[b] - n >= Smallest
        /\ free' = [free EXCEPT ![i] = split]
        /\ size' = [size EXCEPT ![b] = n, ![split] = size[b] - n]
        /\ live' = live \cup {b}
  /\ UNCHANGED <<heap_cur, heap_end, next_page, chunks, shared>>

(* First fit, with room for another block behind it. *)
TakeSplit(n) ==
  /\ ~shared /\ KFits(n) # {}
  /\ LET i == First(KFits(n))  b == free[i]  split == b + Hdr + n
     IN /\ size[b] - n >= Smallest
        /\ free' = [free EXCEPT ![i] = split]
        /\ size' = [size EXCEPT ![b] = n, ![split] = size[b] - n - Hdr]
        /\ live' = live \cup {b}
  /\ UNCHANGED <<heap_cur, heap_end, next_page, chunks, shared>>

(* First fit, taken whole. *)
TakeWhole(n) ==
  /\ ~shared /\ KFits(n) # {}
  /\ LET i == First(KFits(n))
     IN /\ size[free[i]] - n < Smallest
        /\ free' = RemoveAt(free, i)
        /\ live' = live \cup {free[i]}
  /\ UNCHANGED <<size, heap_cur, heap_end, next_page, chunks, shared>>

(* From the bump region. *)
Bump(n) ==
  /\ ~shared /\ KFits(n) = {}
  /\ heap_cur + Hdr + n <= heap_end
  /\ size' = [size EXCEPT ![heap_cur] = n]
  /\ live' = live \cup {heap_cur}
  /\ heap_cur' = heap_cur + Hdr + n
  /\ UNCHANGED <<free, heap_end, next_page, chunks, shared>>

NeedsGrowth(n) == ~shared /\ KFits(n) = {} /\ heap_cur + Hdr + n > heap_end

(* Mutant: what is left of the old chunk is forgotten. *)
MutRestKept == FALSE

(* add_remaining_bump_to_free_list: the rest is large enough for a block. *)
RestKept   == heap_end - heap_cur >= Smallest
FreeWithRest == IF RestKept THEN <<heap_cur>> \o free ELSE free
SizeWithRest == IF RestKept THEN [size EXCEPT ![heap_cur] = heap_end - heap_cur - Hdr] ELSE size

PagesFor(n) == LET needed == (Hdr + n + PageUnits - 1) \div PageUnits
               IN  IF needed > ChunkPages THEN needed ELSE ChunkPages

(* grow_heap succeeds, and the block comes from the new chunk. *)
Grow(n) ==
  /\ NeedsGrowth(n)
  /\ next_page + PagesFor(n) * PageUnits <= MaxUnits
  /\ free' = FreeWithRest
  /\ size' = [SizeWithRest EXCEPT ![next_page] = n]
  /\ heap_cur' = next_page + Hdr + n
  /\ heap_end' = next_page + PagesFor(n) * PageUnits
  /\ next_page' = next_page + PagesFor(n) * PageUnits
  /\ chunks' = chunks \cup {<<next_page, heap_end'>>}
  /\ live' = live \cup {next_page}
  /\ UNCHANGED shared

(* vmm_alloc_pages fails: kmalloc returns NULL with the rest on the list. *)
GrowFails(n) ==
  /\ NeedsGrowth(n)
  /\ free' = FreeWithRest
  /\ size' = SizeWithRest
  /\ shared' = RestKept
  /\ UNCHANGED <<heap_cur, heap_end, next_page, chunks, live>>

-----------------------------------------------------------------------------
(* kfree                                                                    *)

Kfree(b) ==
  /\ ~shared /\ b \in live
  /\ LET list == Returned(free, size, b) IN free' = list.list /\ size' = list.size
  /\ live' = live \ {b}
  /\ UNCHANGED <<heap_cur, heap_end, next_page, chunks, shared>>

Kmalloc(n) == TakeSplit(n) \/ TakeWhole(n) \/ Bump(n) \/ Grow(n) \/ GrowFails(n)

Next ==
  \/ \E n \in Sizes : Kmalloc(Align8(n))
  \/ \E b \in live : Kfree(b)
  \/ shared /\ UNCHANGED vars

Spec == Init /\ [][Next]_vars

-----------------------------------------------------------------------------
(* Properties                                                               *)

Cells(b)  == b .. b + Hdr + size[b] - 1
OnList    == { free[i] : i \in DOMAIN free }
BumpCells == heap_cur .. heap_end - 1
AllCells  == UNION { c[1] .. c[2] - 1 : c \in chunks }

(* Every variable keeps its type. *)
TypeOK ==
  /\ free \in Seq(Space)
  /\ size \in [Space -> Space]
  /\ heap_cur \in Space /\ heap_end \in Space /\ next_page \in Space
  /\ chunks \subseteq Space \X Space
  /\ live \subseteq Space
  /\ shared \in BOOLEAN

(* Until a growth fails: live blocks, free blocks (headers included) and    *)
(* the bump region are pairwise disjoint parts of the chunks, and no block  *)
(* is on the list twice, through every split, merge and growth.             *)
HeapSound ==
  ~shared =>
    /\ \A i, j \in DOMAIN free : free[i] = free[j] => i = j
    /\ live \cap OnList = {}
    /\ \A b \in live \cup OnList : Cells(b) \subseteq AllCells \ BumpCells
    /\ \A b, c \in live \cup OnList : b # c => Cells(b) \cap Cells(c) = {}

(* Until a growth fails: of every chunk at most a header's worth of memory  *)
(* is neither in use nor available (the rest grow_heap drops).              *)
NothingLost ==
  ~shared =>
    LET known == BumpCells \cup UNION { Cells(b) : b \in live \cup OnList }
    IN  \A c \in chunks : Cardinality((c[1] .. c[2] - 1) \ known) < Smallest

(* The heap implements the abstract allocator: a block in use is the cells  *)
(* of its payload.                                                          *)
A == INSTANCE Allocator WITH
       Wanted <- { Align8(n) : n \in Sizes },
       blocks <- [a \in { b + Hdr : b \in live } |-> size[a - Hdr]]

(* kmalloc never hands out memory that is in use, every block is as large   *)
(* as asked, and nothing but its own kfree changes a block in use.          *)
ImplementsAllocator == A!Spec

(* The memory the heap knows of: in use, on the list or not yet cut up.     *)
Known == BumpCells \cup UNION { Cells(b) : b \in live \cup OnList }

(* The inductive invariant behind HeapSound and NothingLost: the chunks are *)
(* one range of memory, the bump region is its end, all blocks lie apart    *)
(* below it, and what a chunk has lost are cells at its own end.            *)
HeapInv ==
  /\ free \in Seq(Space) /\ live \subseteq Space /\ size \in [Space -> Nat]
  /\ heap_cur \in Nat /\ heap_end \in Nat /\ next_page \in Nat
  /\ chunks \subseteq Nat \X Nat /\ shared \in BOOLEAN
  /\ ~shared =>
       /\ heap_cur <= heap_end
       /\ \/ chunks = {} /\ heap_end = 0 /\ next_page = PageUnits
          \/ chunks # {} /\ heap_end = next_page /\ next_page \in PageUnits + 1 .. MaxUnits
             /\ PageUnits <= heap_cur
       /\ AllCells = PageUnits .. next_page - 1
       /\ \A i, j \in DOMAIN free : free[i] = free[j] => i = j
       /\ live \cap OnList = {}
       /\ Apart(size, live \cup OnList)
       /\ \A b \in live \cup OnList : PageUnits <= b /\ BlockEnd(size, b) <= heap_cur
       /\ \A c \in chunks : c[1] .. c[2] - Smallest \subseteq Known
=============================================================================
