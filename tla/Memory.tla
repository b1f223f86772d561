------------------------------- MODULE Memory -------------------------------
(***************************************************************************)
(* The kernel heap and the user heap on one pool of page frames.           *)
(*                                                                         *)
(* grow_heap fails when the pool cannot fill the whole request; then       *)
(* vmm_alloc_pages unmaps what it had mapped and frees none of it.         *)
(***************************************************************************)
EXTENDS KernelHeap, UserHeap

mem_vars == <<vars, u_vars>>
OnlyFrames == UNCHANGED <<heap_vars, maps, u_live, status, used, trimmed, stranded>>

MInit == Init /\ UInit

KernelGrows(n) == /\ Grow(n) /\ PagesFor(n) <= frames
                  /\ frames' = frames - PagesFor(n)
                  /\ OnlyFrames

KernelGrowFails(n) == /\ GrowFails(n) /\ PagesFor(n) > frames
                      /\ frames' = 0
                      /\ OnlyFrames

KernelKeeps(n) == (TakeSplit(n) \/ TakeWhole(n) \/ Bump(n)) /\ UNCHANGED u_vars

MNext ==
  \/ \E n \in Sizes : \/ KernelGrows(Align8(n))
                      \/ KernelGrowFails(Align8(n))
                      \/ KernelKeeps(Align8(n))
  \/ \E b \in live : Kfree(b) /\ UNCHANGED u_vars
  \/ UNext /\ UNCHANGED vars
  \/ shared /\ UNCHANGED mem_vars

MSpec == MInit /\ [][MNext]_mem_vars
=============================================================================
