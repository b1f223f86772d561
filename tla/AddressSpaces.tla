---------------------------- MODULE AddressSpaces ----------------------------
(***************************************************************************)
(* The page tables of user programs: elf_launch_thread builds them, the    *)
(* scheduler loads them at every switch, the user heap adds pages, and the *)
(* reaper gives them back.                                                 *)
(*                                                                         *)
(* A table is the set of its present entries, pairs of an index and the    *)
(* frame it leads to.  Four levels are three here: root (PML4), directory  *)
(* (PDPT and PD), table (PT); PerTable pages share a table.  The launching *)
(* thread runs on the kernel's tables, loads those of the new program to   *)
(* copy the image through them, goes back, and only then announces them in *)
(* thread_t.cr3; a tick may switch threads at any point.                   *)
(*                                                                         *)
(* Frames are interchangeable, so pmm_alloc_page gives the lowest one.     *)
(* Thread numbers are never used twice (next_thread_id only rises).        *)
(***************************************************************************)
EXTENDS Integers

CONSTANTS
  Threads,     (* the threads that may be created                           *)
  NFrames,     (* bound: the page frames there are                          *)
  PerTable,    (* entries of a page table: 512                              *)
  Ranges,      (* the ranges of the programs: sets of virtual page numbers  *)
  HeapPage,    (* the page of USER_HEAP_START                               *)
  MaxSlots,    (* NTUX_USER_RESV_MAX                                        *)
  None

ASSUME CountsAssumption == NFrames \in Nat /\ MaxSlots \in Nat /\ PerTable \in Nat \ {0}
ASSUME RangesAssumption == (UNION Ranges) \cup {HeapPage} \subseteq Nat
ASSUME NoneAssumption   == None \notin Threads \cup Nat

Frames == 1 .. NFrames
Slots  == 1 .. MaxSlots
Kernel == 0                          (* g_kernel_cr3, which has no user half *)

VARIABLES
  current,     (* current_thread_id; None is -1                             *)
  status,      (* thread_t.state; "NULL": not created, "GONE": reaped       *)
  pc,          (* where a thread is in elf_launch_thread, "User" after it   *)
  range,       (* the range of the image the thread launches                *)
  ranged,      (* user_vstart and user_vend are set                         *)
  cr3,         (* thread_t.cr3; 0 is none                                   *)
  user_cr3,    (* the local of elf_launch_thread; 0 is none                 *)
  saved_cr3,   (* the local of elf_launch_thread                            *)
  slot,        (* the local range_slot; 0 is none                           *)
  in_use,      (* g_user_resv: the slots taken                              *)
  loaded,      (* the register CR3                                          *)
  free,        (* the frames pmm_alloc_page may give                        *)
  table,       (* per frame: its present entries                            *)
  image,       (* the frames the loader has copied its image to             *)
  boot,        (* kmain still runs                                          *)
  heaped,      (* threads whose heap page umalloc has mapped                *)
  out,         (* history: threads switched out while they copied           *)
  stray        (* a thread that copied through tables not its own           *)

vars == <<current, status, pc, range, ranged, cr3, user_cr3, saved_cr3, slot,
          in_use, loaded, free, table, image, boot, heaped, out, stray>>

threads == <<current, status, boot, out>>
memory  == <<free, table, image, heaped>>
launch  == <<range, ranged, cr3, user_cr3, saved_cr3, slot, in_use>>

Init ==
  /\ current = None /\ boot = TRUE /\ heaped = {} /\ out = {} /\ stray = None
  /\ status = [t \in Threads |-> "NULL"]
  /\ pc = [t \in Threads |-> "Reserve"]
  /\ range \in [Threads -> Ranges]
  /\ ranged = [t \in Threads |-> FALSE]
  /\ cr3 = [t \in Threads |-> 0]
  /\ user_cr3 = [t \in Threads |-> 0]
  /\ saved_cr3 = [t \in Threads |-> 0]
  /\ slot = [t \in Threads |-> 0]
  /\ in_use = {}
  /\ loaded = Kernel
  /\ free = Frames
  /\ table = [f \in Frames |-> {}]
  /\ image = {}

-----------------------------------------------------------------------------
(* Walking and changing tables                                              *)

Low       == 0                                   (* the entry of the PML4   *)
Region(v) == v \div PerTable                     (* the entry of the PD     *)

Entries(S)   == UNION { table[f] : f \in S }
Below(S)     == { e[2] : e \in Entries(S) }
Follow(S, i) == { e[2] : e \in { e \in Entries(S) : e[1] = i } }

Root(r)      == { r } \ { 0 }
Dir(r)       == Follow(Root(r), Low)
Tables(r, v) == Follow(Dir(r), Region(v))
Leaf(r, v)   == Follow(Tables(r, v), v)

(* The frames of the tables with root r and of the pages they map. *)
Space(r) == LET d == Dir(r)  t == Below(d) IN Root(r) \cup d \cup t \cup Below(t)

(* The entry that is missing on the way to page v: the frame it belongs in  *)
(* and its index; none if the page is mapped.                               *)
Gap(r, v) ==
  CASE Dir(r) = {}       -> Root(r) \X {Low}
    [] Tables(r, v) = {} -> Dir(r) \X {Region(v)}
    [] Leaf(r, v) = {}   -> Tables(r, v) \X {v}
    [] OTHER             -> {}

(* What pmm_alloc_page gives of the free frames S; which one does not matter. *)
Lowest(S) == { f \in S : \A g \in S : f <= g }

-----------------------------------------------------------------------------
(* Scheduling                                                               *)

Alive(t) == status[t] \notin {"NULL", "GONE"}

(* Thread t executes and has come to p. *)
At(t, p) == stray = None /\ current = t /\ status[t] \in {"RUNNING", "TERMINATED"} /\ pc[t] = p
Goto(t, p) == pc' = [pc EXCEPT ![t] = p]

(* thread_create, by a program or by kmain. *)
Create(t) ==
  /\ boot \/ \E u \in Threads : At(u, "User")
  /\ stray = None /\ status[t] = "NULL"
  /\ status' = [status EXCEPT ![t] = "READY"]
  /\ UNCHANGED <<current, pc, launch, loaded, memory, boot, out, stray>>

(* module_loader_free_user_space: the pages of the range, then the tables   *)
(* and the directory if they have no entry left, then the root.             *)
FreedLeaves(t) == UNION { Leaf(cr3[t], v) : v \in range[t] }
FreedTables(t) == { f \in Below(Dir(cr3[t])) : Below({f}) \subseteq FreedLeaves(t) }
FreedDir(t)    == { f \in Dir(cr3[t]) : Below({f}) \subseteq FreedTables(t) }

(* Mutant: the root is not freed. *)
MutFreedSpace(t) ==
  IF cr3[t] = 0 \/ ~ranged[t] THEN {}
  ELSE FreedLeaves(t) \cup FreedTables(t) \cup FreedDir(t)

FreedSpace(t) ==
  IF cr3[t] = 0 \/ ~ranged[t] THEN {}
  ELSE FreedLeaves(t) \cup FreedTables(t) \cup FreedDir(t) \cup Root(cr3[t])

(* thread_reap_terminated spares the current thread. *)
Reaped == { t \in Threads : status[t] = "TERMINATED" /\ t # current }

Reap ==
  LET gone == UNION { FreedSpace(t) : t \in Reaped }
  IN  /\ free' = free \cup gone
      /\ table' = [f \in Frames |-> { e \in table[f] : e[2] \notin gone }]
      /\ UNCHANGED <<image, heaped>>

Ready == { t \in Threads : status[t] = "READY" }
Afterwards == [t \in Threads |->
  CASE t \in Reaped                               -> "GONE"
    [] t = current /\ status[t] = "RUNNING"       -> "READY"
    [] OTHER                                      -> status[t]]

(* Mutant: the register keeps the tables of the old thread when the new one *)
(* has none of its own.                                                     *)
MutTables(t) == IF cr3[t] = 0 THEN loaded ELSE cr3[t]

TablesOf(t) == IF cr3[t] = 0 THEN Kernel ELSE cr3[t]

(* schedule_core with a thread to switch to: at the end of a time slice or  *)
(* of a call.                                                               *)
SwitchTo(t) ==
  /\ stray = None /\ t \in Ready
  /\ Reap
  /\ status' = [Afterwards EXCEPT ![t] = "RUNNING"]
  /\ current' = t /\ boot' = FALSE
  /\ loaded' = IF t = current THEN loaded ELSE TablesOf(t)
  /\ out' = out \cup { u \in Threads : current = u /\ pc[u] = "Copy" }
  /\ UNCHANGED <<pc, launch, stray>>

(* schedule_core with none: a running thread stays, without a load of CR3;  *)
(* after a blocked or terminated one the CPU idles on the tables it has.    *)
NoSwitch ==
  /\ stray = None /\ Ready = {}
  /\ Reap
  /\ IF \E t \in Threads : current = t /\ status[t] = "RUNNING"
     THEN status' = [Afterwards EXCEPT ![current] = "RUNNING"] /\ UNCHANGED current
     ELSE status' = Afterwards /\ current' = None
  /\ UNCHANGED <<pc, launch, loaded, boot, out, stray>>

(* A program sleeps, and is woken by a tick. *)
Block(t) ==
  /\ At(t, "User") /\ status[t] = "RUNNING"
  /\ status' = [status EXCEPT ![t] = "BLOCKED"]
  /\ UNCHANGED <<current, pc, launch, loaded, memory, boot, out, stray>>

Wake(t) ==
  /\ stray = None /\ status[t] = "BLOCKED"
  /\ status' = [status EXCEPT ![t] = "READY"]
  /\ UNCHANGED <<current, pc, launch, loaded, memory, boot, out, stray>>

(* thread_kill, by a program: of a thread in any state, itself included.    *)
Kill(t, u) ==
  /\ At(t, "User") /\ Alive(u)
  /\ status' = [status EXCEPT ![u] = "TERMINATED"]
  /\ UNCHANGED <<current, pc, launch, loaded, memory, boot, out, stray>>

(* thread_exit_current: the end of a launch that failed, an exit, a fault.  *)
Exit(t) ==
  /\ At(t, "Exit") \/ At(t, "User")
  /\ status' = [status EXCEPT ![t] = "TERMINATED"]
  /\ Goto(t, "Dead")
  /\ UNCHANGED <<current, launch, loaded, memory, boot, out, stray>>

-----------------------------------------------------------------------------
(* elf_launch_thread                                                        *)

(* A slot for the range, the first that is free ... *)
Reserve(t) ==
  /\ At(t, "Reserve")
  /\ \E i \in Slots \ in_use :
       /\ \A j \in Slots \ in_use : i <= j
       /\ slot' = [slot EXCEPT ![t] = i]
       /\ in_use' = in_use \cup {i}
  /\ Goto(t, "Clone")
  /\ UNCHANGED <<threads, range, ranged, cr3, user_cr3, saved_cr3, loaded, memory, stray>>

(* ... or none, or an image without a range. *)
ReserveFails(t) ==
  /\ At(t, "Reserve")
  /\ Goto(t, "Exit")
  /\ UNCHANGED <<threads, launch, loaded, memory, stray>>

(* release_user_range_slot *)
ReleaseSlot(t) ==
  /\ in_use' = in_use \ {slot[t]}
  /\ slot' = [slot EXCEPT ![t] = 0]

(* clone_kernel_pml4: a root without a user half. *)
Clone(t) ==
  /\ At(t, "Clone")
  /\ \E f \in Lowest(free) :
       /\ free' = free \ {f}
       /\ table' = [table EXCEPT ![f] = {}]
       /\ image' = image \ {f}
       /\ user_cr3' = [user_cr3 EXCEPT ![t] = f]
  /\ Goto(t, "Map")
  /\ UNCHANGED <<threads, range, ranged, cr3, saved_cr3, slot, in_use, loaded, heaped, stray>>

(* map_user_range_pml4, one allocation at a time: a level that is missing   *)
(* on the way to a page of the range, or the page.                          *)
Unmapped(t) == { v \in range[t] : Leaf(user_cr3[t], v) = {} }

AddFrame(r, v) ==
  \E f \in Lowest(free), g \in Gap(r, v) :
    /\ free' = free \ {f}
    /\ table' = [table EXCEPT ![f] = {}, ![g[1]] = table[g[1]] \cup {<<g[2], f>>}]
    /\ image' = image \ {f}

Map(t) ==
  /\ At(t, "Map")
  /\ \E v \in Unmapped(t) : (\A w \in Unmapped(t) : v <= w) /\ AddFrame(user_cr3[t], v)
  /\ UNCHANGED <<threads, pc, launch, loaded, heaped, stray>>

(* No frame for the root or for a page: the slot is released, what is       *)
(* mapped so far is not.                                                    *)
OutOfFrames(t) ==
  /\ At(t, "Clone") \/ (At(t, "Map") /\ Unmapped(t) # {})
  /\ free = {}
  /\ ReleaseSlot(t) /\ Goto(t, "Exit")
  /\ UNCHANGED <<threads, range, ranged, cr3, user_cr3, saved_cr3, loaded, memory, stray>>

(* saved_cr3 = read_cr3(); write_cr3(user_cr3) *)
Enter(t) ==
  /\ At(t, "Map") /\ Unmapped(t) = {}
  /\ saved_cr3' = [saved_cr3 EXCEPT ![t] = loaded]
  /\ loaded' = user_cr3[t]
  /\ Goto(t, "Copy")
  /\ UNCHANGED <<threads, range, ranged, cr3, user_cr3, slot, in_use, memory, stray>>

(* load_elf_image, a page at a time: the segments are the range up to the   *)
(* heap page.                                                               *)
Segments(t) == range[t] \ {HeapPage}
Uncopied(t) == { v \in Segments(t) : ~ Leaf(user_cr3[t], v) \subseteq image }

Copy(t) ==
  /\ At(t, "Copy") /\ loaded = user_cr3[t]
  /\ \E v \in Uncopied(t) : (\A w \in Uncopied(t) : v <= w) /\ image' = image \cup Leaf(loaded, v)
  /\ UNCHANGED <<threads, pc, launch, loaded, free, table, heaped, stray>>

(* Through the kernel's tables the store faults, or lands in whatever       *)
(* physical memory the boot loader maps there: no behaviour to follow.      *)
CopyAstray(t) ==
  /\ At(t, "Copy") /\ loaded # user_cr3[t] /\ Uncopied(t) # {}
  /\ stray' = t
  /\ UNCHANGED <<threads, pc, launch, loaded, memory>>

(* The ELF file turns out to be bad before or between the pages. *)
CopyFails(t) ==
  /\ At(t, "Copy")
  /\ ReleaseSlot(t) /\ Goto(t, "GiveUp")
  /\ UNCHANGED <<threads, range, ranged, cr3, user_cr3, saved_cr3, loaded, memory, stray>>

(* write_cr3(saved_cr3), after a failure and after success. *)
Leave(t) ==
  /\ \/ At(t, "GiveUp") /\ Goto(t, "Exit")
     \/ At(t, "Copy") /\ Uncopied(t) = {} /\ Goto(t, "SetRange")
  /\ loaded' = saved_cr3[t]
  /\ UNCHANGED <<threads, launch, memory, stray>>

(* set_current_thread_user_range *)
SetRange(t) ==
  /\ At(t, "SetRange")
  /\ ranged' = [ranged EXCEPT ![t] = TRUE]
  /\ Goto(t, "SetRoot")
  /\ UNCHANGED <<threads, range, cr3, user_cr3, saved_cr3, slot, in_use, loaded, memory, stray>>

(* thread_set_current_cr3 *)
SetRoot(t) ==
  /\ At(t, "SetRoot")
  /\ cr3' = [cr3 EXCEPT ![t] = user_cr3[t]]
  /\ Goto(t, "Release")
  /\ UNCHANGED <<threads, range, ranged, user_cr3, saved_cr3, slot, in_use, loaded, memory, stray>>

Release(t) ==
  /\ At(t, "Release")
  /\ ReleaseSlot(t) /\ Goto(t, "Jump")
  /\ UNCHANGED <<threads, range, ranged, cr3, user_cr3, saved_cr3, loaded, memory, stray>>

(* write_cr3(user_cr3); enter_user *)
Jump(t) ==
  /\ At(t, "Jump")
  /\ loaded' = user_cr3[t]
  /\ Goto(t, "User")
  /\ UNCHANGED <<threads, launch, memory, stray>>

-----------------------------------------------------------------------------
(* The heap page of a program, in the tables that are loaded                *)

(* umalloc maps its next page: a frame, a table if there is none, and the   *)
(* entry, whatever it was before.  One step: a call that is preempted in    *)
(* the middle is left out.                                                  *)
HeapGrow(t) ==
  /\ At(t, "User") /\ t \notin heaped
  /\ \E f \in Lowest(free) :
       \/ \E p \in Tables(loaded, HeapPage) :
            /\ free' = free \ {f}
            /\ table' = [table EXCEPT ![f] = {},
                           ![p] = { e \in table[p] : e[1] # HeapPage } \cup {<<HeapPage, f>>}]
            /\ image' = image \ {f}
       \/ \E p \in Lowest(free \ {f}), d \in Dir(loaded) :
            /\ Tables(loaded, HeapPage) = {}
            /\ free' = free \ {f, p}
            /\ table' = [table EXCEPT ![f] = {}, ![p] = {<<HeapPage, f>>},
                                      ![d] = table[d] \cup {<<Region(HeapPage), p>>}]
            /\ image' = image \ {f, p}
  /\ heaped' = heaped \cup {t}
  /\ UNCHANGED <<threads, pc, launch, loaded, stray>>

(* Mutant: the page is freed but stays mapped. *)
MutHeapTrim(t) ==
  /\ At(t, "User") /\ t \in heaped
  /\ free' = free \cup Leaf(loaded, HeapPage)
  /\ status' = [status EXCEPT ![t] = "TERMINATED"]
  /\ Goto(t, "Dead")
  /\ UNCHANGED <<current, table, image, heaped, launch, loaded, boot, out, stray>>

(* ufree gives the page back, and faults on the block in it. *)
HeapTrim(t) ==
  /\ At(t, "User") /\ t \in heaped
  /\ free' = free \cup Leaf(loaded, HeapPage)
  /\ table' = [f \in Frames |-> IF f \in Tables(loaded, HeapPage)
                                THEN { e \in table[f] : e[1] # HeapPage } ELSE table[f]]
  /\ status' = [status EXCEPT ![t] = "TERMINATED"]
  /\ Goto(t, "Dead")
  /\ UNCHANGED <<current, image, heaped, launch, loaded, boot, out, stray>>

Next ==
  \/ NoSwitch
  \/ \E t \in Threads :
       \/ Create(t) \/ SwitchTo(t) \/ Block(t) \/ Wake(t) \/ Exit(t)
       \/ \E u \in Threads : Kill(t, u)
       \/ Reserve(t) \/ ReserveFails(t) \/ Clone(t) \/ Map(t) \/ OutOfFrames(t)
       \/ Enter(t) \/ Copy(t) \/ CopyAstray(t) \/ CopyFails(t) \/ Leave(t)
       \/ SetRange(t) \/ SetRoot(t) \/ Release(t) \/ Jump(t)
       \/ HeapGrow(t) \/ HeapTrim(t)

Spec == Init /\ [][Next]_vars

-----------------------------------------------------------------------------
(* Properties                                                               *)

(* Every variable keeps its type. *)
TypeOK ==
  /\ current \in Threads \cup {None} /\ stray \in Threads \cup {None}
  /\ status \in [Threads -> {"NULL", "READY", "RUNNING", "BLOCKED", "TERMINATED", "GONE"}]
  /\ pc \in [Threads -> {"Reserve", "Clone", "Map", "Copy", "GiveUp", "SetRange", "SetRoot",
                         "Release", "Jump", "User", "Exit", "Dead"}]
  /\ range \in [Threads -> Ranges] /\ ranged \in [Threads -> BOOLEAN]
  /\ cr3 \in [Threads -> Frames \cup {0}] /\ user_cr3 \in [Threads -> Frames \cup {0}]
  /\ saved_cr3 \in [Threads -> Frames \cup {0}] /\ loaded \in Frames \cup {0}
  /\ slot \in [Threads -> Slots \cup {0}] /\ in_use \subseteq Slots
  /\ free \subseteq Frames /\ table \in [Frames -> SUBSET (Nat \X Frames)]
  /\ image \subseteq Frames /\ boot \in BOOLEAN /\ heaped \subseteq Threads /\ out \subseteq Threads

SpaceOf(t) == Space(user_cr3[t])
Living     == { t \in Threads : Alive(t) }

(* No table and no page of a program, from its launch until it is reaped,   *)
(* is free, and none belongs to two programs: module_loader_free_user_space *)
(* gives back what is nobody else's, once.                                  *)
SpacesSound ==
  \A t \in Living :
    /\ SpaceOf(t) \cap free = {}
    /\ \A u \in Living \ {t} : SpaceOf(t) \cap SpaceOf(u) = {}

(* While a thread is current, the tables in CR3 are not given back; in user *)
(* mode they are its own and map its whole image; and the loader copies     *)
(* through tables other than the new ones only if the thread was switched   *)
(* out meanwhile (schedule_core finds no thread_t.cr3 and loads the         *)
(* kernel's).                                                               *)
OwnTables ==
  /\ current # None => Space(loaded) \cap free = {}
  /\ \A t \in Threads : At(t, "User") =>
       /\ loaded = user_cr3[t]
       /\ \A v \in Segments(t) : Leaf(loaded, v) # {} /\ Leaf(loaded, v) \subseteq image
  /\ stray # None => stray \in out

Held    == { slot[t] : t \in Living }
Orphans == Frames \ (free \cup UNION { SpaceOf(t) : t \in Living })

(* What a step may lose for good: all a thread has when it ends before      *)
(* thread_set_current_cr3, and of a program that used the heap its page     *)
(* there, the tables on the way, and a page of the image that was in its    *)
(* place; a slot only when its thread is killed before it releases it.      *)
Ends(t)       == Alive(t) /\ ~ Alive(t)'
LostFrames(t) == IF Ends(t)
                 THEN IF cr3[t] = 0 THEN SpaceOf(t)
                      ELSE IF HeapPage \in range[t] THEN {}
                      ELSE IF Leaf(cr3[t], HeapPage) = {} THEN {}
                      ELSE Dir(cr3[t]) \cup Tables(cr3[t], HeapPage) \cup Leaf(cr3[t], HeapPage)
                 ELSE IF HeapPage \in range[t] /\ At(t, "User") THEN Leaf(loaded, HeapPage) ELSE {}

LossExplained ==
  [][ /\ Orphans' \subseteq Orphans \cup UNION { LostFrames(t) : t \in Threads }
      /\ in_use' \ Held' \subseteq (in_use \ Held) \cup { slot[t] : t \in { t \in Threads : Ends(t) /\ pc[t] \notin {"User", "Dead"} } }
    ]_vars

-----------------------------------------------------------------------------
(* The inductive invariant behind SpacesSound and OwnTables                 *)

Used  == Frames \ free
Roots == { user_cr3[t] : t \in Living } \ {0}

(* Every frame that is not free has at most one entry that leads to it, and *)
(* no entry leads to a free one or to a root.                               *)
Forest ==
  \A p \in Used : \A e \in table[p] :
    /\ e[2] \in Used \ Roots
    /\ \A q \in Used : \A d \in table[q] : d[2] = e[2] => q = p /\ d = e

RootsOK ==
  \A t \in Living : user_cr3[t] # 0 =>
    /\ user_cr3[t] \in Used
    /\ \A u \in Living : user_cr3[u] = user_cr3[t] => u = t

(* Where a thread is says which tables it has made, announced and loaded.   *)
ControlOK(t) ==
  /\ status[t] = "NULL" => pc[t] = "Reserve"
  /\ status[t] = "BLOCKED" => pc[t] = "User"
  /\ pc[t] \in {"Reserve", "Clone"} => user_cr3[t] = 0
  /\ pc[t] \in {"Map", "Copy", "SetRange", "SetRoot", "Release", "Jump", "User"} => user_cr3[t] # 0
  /\ cr3[t] \in {0, user_cr3[t]} /\ saved_cr3[t] \in {0, user_cr3[t]}
  /\ pc[t] \in {"Release", "Jump", "User"} => cr3[t] = user_cr3[t]
  /\ current = t =>
       /\ Alive(t) /\ loaded \in {0, user_cr3[t]}
       /\ pc[t] = "User" => loaded = user_cr3[t]
       /\ pc[t] = "Copy" => loaded = user_cr3[t] \/ t \in out
  /\ current # t /\ pc[t] = "Copy" /\ Alive(t) => t \in out \/ status[t] = "TERMINATED"

(* From the copy on the whole image is mapped, and afterwards all copied.   *)
ImageOK(t) ==
  Alive(t) /\ pc[t] \in {"Copy", "SetRange", "SetRoot", "Release", "Jump", "User"} =>
    \A v \in Segments(t) : /\ Leaf(user_cr3[t], v) # {}
                           /\ pc[t] # "Copy" => Leaf(user_cr3[t], v) \subseteq image

IInv ==
  /\ TypeOK /\ Forest /\ RootsOK
  /\ \A t \in Threads : ControlOK(t) /\ ImageOK(t)
  /\ stray # None => stray \in out

-----------------------------------------------------------------------------
(* The inductive invariant behind LossExplained, with IInv                  *)

(* No slot is held before Reserve or after its release, and the range is    *)
(* set before the root is announced.                                        *)
StagesOK(t) ==
  /\ pc[t] \in {"Reserve", "GiveUp", "Exit", "Jump", "User", "Dead"} => slot[t] = 0
  /\ pc[t] \in {"SetRoot", "Release", "Jump", "User"} \/ cr3[t] # 0 => ranged[t]

(* The tables of a program lead to pages of its range and to no others, but *)
(* for the page of the heap it has grown; each page is in the table of its  *)
(* region.                                                                  *)
Indexed(t) ==
  \A d \in Dir(user_cr3[t]) : \A a \in table[d] : \A e \in table[a[2]] :
    /\ a[1] = Region(e[1])
    /\ e[1] \in range[t] \/ (e[1] = HeapPage /\ t \in heaped)

LossInv == \A t \in Threads : StagesOK(t) /\ (Alive(t) => Indexed(t))
=============================================================================
