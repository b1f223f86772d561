------------------------------ MODULE UserHeap ------------------------------
(***************************************************************************)
(* The user heap mm/umalloc.c behind INT80_UMALLOC and INT80_UFREE.        *)
(*                                                                         *)
(* Its free list, break and mapped end are kernel globals: one heap for    *)
(* all programs.  Its headers and blocks are in user memory, and each      *)
(* program has page tables of its own (clone_kernel_pml4 shares the upper  *)
(* half only), so a page belongs to the task that mapped it, and a call of *)
(* another task that reads a header there faults.  The handler ends any    *)
(* thread with a user range, wherever the fault happened, and what the     *)
(* call had done to the globals stays.  At the end of a task the loader    *)
(* frees the pages of its image only; those of the heap are lost.          *)
(*                                                                         *)
(* Addresses are offsets from USER_HEAP_START, in units.  A call is one    *)
(* step: calls preempted in the middle (there is no lock) are left out.    *)
(***************************************************************************)
EXTENDS BlockList, FiniteSets

CONSTANTS
  Tasks,       (* the tasks that use the heap                               *)
  MaxFrames,   (* bound: the page frames there are                          *)
  USizes       (* the sizes asked for, in bytes                             *)

ASSUME FramesAssumption == MaxFrames \in Nat
ASSUME USizesAssumption == USizes \subseteq Nat \ {0}

USpace == 0 .. MaxFrames * PageUnits

VARIABLES
  u_free, u_size,          (* the list, and the size fields                 *)
  user_heap_break, user_heap_mapped_end,
  maps,                    (* the heap pages in each task's page tables     *)
  u_live,                  (* the blocks each task holds                    *)
  status,                  (* alive, exited, or faulted: ended in a call    *)
  frames,                  (* page frames pmm_alloc_page still has          *)
  used, trimmed, stranded  (* history: who has called, was a tail given     *)
                           (* back, did an expansion end without a block    *)

heap_vars == <<u_free, u_size, user_heap_break, user_heap_mapped_end>>
u_vars == <<heap_vars, maps, u_live, status, frames, used, trimmed, stranded>>

UInit ==
  /\ u_free = <<>>
  /\ u_size = [a \in USpace |-> 0]
  /\ user_heap_break = 0 /\ user_heap_mapped_end = 0
  /\ maps = [t \in Tasks |-> {}]
  /\ u_live = [t \in Tasks |-> {}]
  /\ status = [t \in Tasks |-> "alive"]
  /\ frames = MaxFrames
  /\ used = {} /\ trimmed = FALSE /\ stranded = FALSE

Header(b)     == b .. b + Hdr - 1
Touches(m, S) == \A a \in S : a \div PageUnits \in m
Readable(t, S) == Touches(maps[t], UNION { Header(b) : b \in S })

(* The task is over, and with it its page tables. *)
Ends(t, why) ==
  /\ status' = [status EXCEPT ![t] = why]
  /\ maps' = [maps EXCEPT ![t] = {}]
  /\ u_live' = [u_live EXCEPT ![t] = {}]

Exit(t) ==
  /\ status[t] = "alive"
  /\ Ends(t, "exited")
  /\ UNCHANGED <<heap_vars, frames, used, trimmed, stranded>>

-----------------------------------------------------------------------------
(* umalloc                                                                  *)

UFits(n) == Fits(u_free, u_size, n)

(* The blocks the first fit search reads. *)
Searched(n) == { u_free[i] : i \in { i \in DOMAIN u_free : \A j \in UFits(n) : i <= j } }

Calls(t) == status[t] = "alive" /\ used' = used \cup {t}

(* A block from the list: the rest stays on it if it can be a block. *)
UTake(t, n) ==
  /\ Calls(t) /\ UFits(n) # {} /\ Readable(t, Searched(n))
  /\ LET i == First(UFits(n))  b == u_free[i]  split == b + Hdr + n
     IN \/ /\ u_size[b] - n >= Smallest /\ Readable(t, {split})
           /\ u_free' = [u_free EXCEPT ![i] = split]
           /\ u_size' = [u_size EXCEPT ![b] = n, ![split] = u_size[b] - n - Hdr]
           /\ u_live' = [u_live EXCEPT ![t] = @ \cup {b}]
        \/ /\ u_size[b] - n < Smallest
           /\ u_free' = RemoveAt(u_free, i)
           /\ u_live' = [u_live EXCEPT ![t] = @ \cup {b}]
           /\ UNCHANGED u_size
  /\ UNCHANGED <<user_heap_break, user_heap_mapped_end, maps, status, frames, trimmed, stranded>>

(* Mutant: the header is not counted in what must be mapped. *)
MutNewBreak(n) == user_heap_break + n

NewBreak(n) == user_heap_break + Hdr + n

(* Mutant: the page the break falls in is not mapped. *)
MutMissing(n) == { p \in user_heap_mapped_end \div PageUnits .. NewBreak(n) \div PageUnits :
                     (p + 1) * PageUnits <= NewBreak(n) }

(* The pages from the mapped end up to the new break. *)
Missing(n) == { p \in user_heap_mapped_end \div PageUnits .. NewBreak(n) \div PageUnits :
                  p * PageUnits < NewBreak(n) }

(* expand_user_heap_to: page after page until the end or out of frames. *)
Expanded(t, n) ==
  LET pages == { p \in Missing(n) : p < user_heap_mapped_end \div PageUnits + frames }
  IN  /\ maps' = [maps EXCEPT ![t] = @ \cup pages]
      /\ frames' = frames - Cardinality(pages)
      /\ user_heap_mapped_end' = user_heap_mapped_end + Cardinality(pages) * PageUnits
      /\ stranded' = (stranded \/ pages # Missing(n))

UExtends(t, n) == Calls(t) /\ UFits(n) = {} /\ Readable(t, Searched(n))

(* A block at the break; its size is written, its next pointer is not. *)
UBump(t, n) ==
  /\ UExtends(t, n) /\ Cardinality(Missing(n)) <= frames
  /\ Expanded(t, n) /\ Touches(maps'[t], {user_heap_break})
  /\ u_size' = [u_size EXCEPT ![user_heap_break] = n]
  /\ user_heap_break' = NewBreak(n)
  /\ u_live' = [u_live EXCEPT ![t] = @ \cup {user_heap_break}]
  /\ UNCHANGED <<u_free, status, trimmed>>

(* Out of frames: NULL, and the pages mapped so far stay mapped. *)
UBumpFails(t, n) ==
  /\ UExtends(t, n) /\ Cardinality(Missing(n)) > frames
  /\ Expanded(t, n)
  /\ UNCHANGED <<u_free, u_size, user_heap_break, u_live, status, trimmed>>

(* A header of the search, or that of the rest, is on another task's page. *)
USearchFaults(t, n) ==
  /\ Calls(t)
  /\ \/ ~Readable(t, Searched(n))
     \/ /\ UFits(n) # {}
        /\ LET b == u_free[First(UFits(n))]
           IN u_size[b] - n >= Smallest /\ ~Readable(t, {b + Hdr + n})
  /\ Ends(t, "faulted")
  /\ UNCHANGED <<heap_vars, frames, trimmed, stranded>>

(* The break is in a page another task mapped: the size field's write *)
(* faults after the expansion. *)
UBumpFaults(t, n) ==
  /\ UExtends(t, n) /\ Cardinality(Missing(n)) <= frames
  /\ ~Touches(maps[t] \cup Missing(n), {user_heap_break})
  /\ Ends(t, "faulted")
  /\ frames' = frames - Cardinality(Missing(n))
  /\ user_heap_mapped_end' = user_heap_mapped_end + Cardinality(Missing(n)) * PageUnits
  /\ stranded' = (stranded \/ Missing(n) # {})
  /\ UNCHANGED <<u_free, u_size, user_heap_break, trimmed>>

Umalloc(t, n) == \/ UTake(t, n) \/ UBump(t, n) \/ UBumpFails(t, n)
                 \/ USearchFaults(t, n) \/ UBumpFaults(t, n)

-----------------------------------------------------------------------------
(* ufree                                                                    *)

Below(b)    == { u_free[i] : i \in 1 .. Place(u_free, b) - 1 }
Listed(b)   == InsertAt(u_free, Place(u_free, b), b)
Touching(b) == { a \in Range(u_free) : a = BlockEnd(u_size, b) }
UReturned(b) == Returned(u_free, u_size, b)

(* The search for b's place, b's own header, and the merge of its successor *)
(* read no foreign page; then the walk to the last block, which reads all.  *)
Places(t, b) == Readable(t, Below(b)) /\ Touches(maps[t], {b + 1})
Merges(t, b) == Places(t, b) /\ Readable(t, Touching(b))
Walks(t, b)  == Merges(t, b) /\ Readable(t, Range(UReturned(b).list))

LastOf(l) == l[Len(l)]
AtTheEnd(b) == BlockEnd(UReturned(b).size, LastOf(UReturned(b).list)) = user_heap_mapped_end

(* The pages from the one the last block starts in. *)
LastPages(b) == { p \in 0 .. MaxFrames : /\ p >= LastOf(UReturned(b).list) \div PageUnits
                                         /\ p * PageUnits < user_heap_mapped_end }

UfreeKeeps(t, b) ==
  /\ Calls(t) /\ b \in u_live[t] /\ Walks(t, b) /\ ~AtTheEnd(b)
  /\ u_free' = UReturned(b).list /\ u_size' = UReturned(b).size
  /\ u_live' = [u_live EXCEPT ![t] = @ \ {b}]
  /\ UNCHANGED <<user_heap_break, user_heap_mapped_end, maps, status, frames, trimmed, stranded>>

(* The tail is unmapped, its frames are freed and the mapped end drops; then*)
(* the last block's next pointer, no longer mapped, is read to unlink it.   *)
UfreeTrims(t, b) ==
  /\ Calls(t) /\ b \in u_live[t] /\ Walks(t, b) /\ AtTheEnd(b)
  /\ u_free' = UReturned(b).list /\ u_size' = UReturned(b).size
  /\ frames' = frames + Cardinality(LastPages(b) \cap maps[t])
  /\ user_heap_mapped_end' = (LastOf(u_free') \div PageUnits) * PageUnits
  /\ Ends(t, "faulted")
  /\ trimmed' = TRUE
  /\ UNCHANGED <<user_heap_break, stranded>>

(* The call faults: with the list untouched, with the block inserted, or *)
(* with the block merged. *)
UfreeFaults(t, b) ==
  /\ Calls(t) /\ b \in u_live[t]
  /\ \/ ~Places(t, b) /\ UNCHANGED <<u_free, u_size>>
     \/ Places(t, b) /\ ~Merges(t, b) /\ u_free' = Listed(b) /\ UNCHANGED u_size
     \/ Merges(t, b) /\ ~Walks(t, b) /\ u_free' = UReturned(b).list /\ u_size' = UReturned(b).size
  /\ Ends(t, "faulted")
  /\ UNCHANGED <<user_heap_break, user_heap_mapped_end, frames, trimmed, stranded>>

Ufree(t, b) == UfreeKeeps(t, b) \/ UfreeTrims(t, b) \/ UfreeFaults(t, b)

UNext == \E t \in Tasks :
  \/ Exit(t)
  \/ \E n \in USizes : Umalloc(t, Align8(n))
  \/ \E b \in u_live[t] : Ufree(t, b)

-----------------------------------------------------------------------------
(* Properties                                                               *)

UCells(b) == b .. BlockEnd(u_size, b) - 1
UBlocks   == Range(u_free) \cup UNION { u_live[t] : t \in Tasks }

(* A block a task was given is on no list, in no other task's hands, and    *)
(* overlaps no other block, used or free - whatever the other tasks did,    *)
(* whether they ended or faulted in the middle of a call.  And the task can *)
(* touch all of it, header included.  The mapped end is one number for all  *)
(* page tables: after an expansion that ended without a block (out of       *)
(* frames, or a fault at the break) in one task, another task's block can   *)
(* lie on pages only the first one had.                                     *)
UserBlocksSound ==
  \A t \in Tasks : \A b \in u_live[t] :
    /\ b \notin Range(u_free) /\ \A o \in Tasks \ {t} : b \notin u_live[o]
    /\ \A c \in UBlocks \ {b} : UCells(b) \cap UCells(c) = {}
    /\ ~stranded => Touches(maps[t], UCells(b))

(* A task is ended inside umalloc or ufree only if another task has called  *)
(* them before, or the free block at the end of the heap is given back: a   *)
(* task that is alone in the heap reads no page it has not mapped.          *)
FaultsExplained ==
  [][\A t \in Tasks : status[t] = "alive" /\ status'[t] = "faulted"
                        => trimmed' \/ \E o \in Tasks \ {t} : o \in used]_u_vars

(* The inductive invariant behind both                                      *)

MappedPages == user_heap_mapped_end \div PageUnits

(* The mapped end is a page's, the frames behind it are gone from the pool, *)
(* and all blocks lie apart below the break.                                *)
BlocksApart ==
  /\ u_free \in Seq(USpace) /\ u_size \in [USpace -> Nat]
  /\ u_live \in [Tasks -> SUBSET USpace] /\ maps \in [Tasks -> SUBSET Nat]
  /\ status \in [Tasks -> {"alive", "exited", "faulted"}]
  /\ user_heap_break \in USpace /\ user_heap_mapped_end \in Nat /\ frames \in Nat
  /\ user_heap_mapped_end = MappedPages * PageUnits /\ MappedPages + frames <= MaxFrames
  /\ \A i, j \in DOMAIN u_free : u_free[i] = u_free[j] => i = j
  /\ \A t \in Tasks : u_live[t] \cap Range(u_free) = {}
  /\ \A t, o \in Tasks : t # o => u_live[t] \cap u_live[o] = {}
  /\ Apart(u_size, UBlocks)
  /\ \A b \in UBlocks : BlockEnd(u_size, b) <= user_heap_break

(* A page is one task's, below the mapped end, which is at most a page      *)
(* above the break; who holds a block, or can read the header of a free     *)
(* one, has mapped all of it.                                               *)
BlocksMapped ==
  ~stranded =>
    /\ MappedPages <= user_heap_break \div PageUnits + 1
    /\ \A t \in Tasks : \A p \in maps[t] : p < MappedPages
    /\ \A t, o \in Tasks : t # o => maps[t] \cap maps[o] = {}
    /\ \A t \in Tasks : \A b \in u_live[t] : Touches(maps[t], UCells(b))
    /\ \A t \in Tasks : \A b \in Range(u_free) : Readable(t, {b}) => Touches(maps[t], UCells(b))

(* A task that is alone in the heap has mapped all of it. *)
AllMapped ==
  \A t \in Tasks : status[t] = "alive" /\ ~trimmed /\ used \subseteq {t} =>
    user_heap_break <= user_heap_mapped_end /\ 0 .. MappedPages - 1 \subseteq maps[t]

UHeapInv == BlocksApart /\ BlocksMapped /\ AllMapped
=============================================================================
