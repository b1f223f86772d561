------------------------------ MODULE FdTable ------------------------------
(***************************************************************************)
(* The descriptor tables of fs/fd.c.  An open takes a snapshot of the      *)
(* whole file into a buffer from the heap; reads and seeks work on the     *)
(* snapshot, a write goes to the file and not to the snapshot.             *)
(*                                                                         *)
(* An entry that is not in use is shown empty: what fd_close leaves in it  *)
(* is not read again. Threads are preempted anywhere: one step per call    *)
(* into the file system or the heap. Files may be rewritten and removed    *)
(* between the steps of an open. A thread may be killed at any step; the   *)
(* reaper then closes its descriptors (fd_close_all). Two windows are left *)
(* to a kill: in an open, the buffer taken from the heap is leaked (lost); *)
(* in a close, between kfree and file_buf = NULL, the reaper frees the     *)
(* buffer a second time, when it may be another's (stray).                 *)
(*                                                                         *)
(* The file system is the map of FileStore, cut down to the contents of a  *)
(* few files; the heap is that of Allocator, blocks with a size.  Calls    *)
(* into either take effect at once.  A device has no snapshot and what it  *)
(* does is left out.                                                       *)
(***************************************************************************)
EXTENDS Integers, Sequences

CONSTANTS
  Threads,   (* threads                                                    *)
  Files,     (* paths outside /dev/                                        *)
  Top,       (* those directly in "/": O_CREAT does not make them          *)
  Texts,     (* the contents files may get                                 *)
  Modes,     (* flags of opens: "r", "w", "rw", and "+creat"                *)
  FdMax,     (* FD_MAX                                                     *)
  Buffers,   (* blocks the heap can give out                               *)
  Offsets,   (* arguments of lseek                                         *)
  Gone,      (* a file that is not there                                   *)
  NULL

ASSUME TextsAssumption == Texts \subseteq Seq(Nat) /\ <<>> \in Texts /\ Gone \notin Texts
ASSUME FdAssumption    == FdMax \in Nat /\ Offsets \subseteq Int
ASSUME TopAssumption   == Top \subseteq Files
ASSUME NullAssumption  == NULL \notin Buffers /\ NULL \notin Files

VARIABLES
  file,    (* contents of each file, or Gone                               *)
  heap,    (* each block: its size (0: free) and the text read into it     *)
  fds,     (* t->fds                                                       *)
  life,    (* "runs", "terminated", "reaped"                               *)
  at,      (* where each thread is in fd_open or fd_close                  *)
  lost,    (* buffers that were taken by an open whose thread was killed   *)
  stray    (* a thread was killed between the two halves of a close        *)

vars == <<file, heap, fds, life, at, lost, stray>>

Slot   == 0 .. FdMax - 1
Empty  == [used |-> FALSE, kind |-> "none", mode |-> "none", pos |-> 0, path |-> NULL, buf |-> NULL, len |-> 0]
Idle   == [pc |-> "idle", path |-> NULL, mode |-> "none", buf |-> NULL, len |-> 0, fd |-> 0]
FreeBlock == [size |-> 0, text |-> <<>>]

CanRead(e)  == e.mode \in {"r", "r+creat", "rw", "rw+creat"}
CanWrite(e) == e.mode \in {"w", "w+creat", "rw", "rw+creat"}
Creats(m)   == m \in {"r+creat", "w+creat", "rw+creat"}

Init ==
  /\ file \in [Files -> {<<>>, Gone}]
  /\ heap = [b \in Buffers |-> FreeBlock]
  /\ fds = [t \in Threads |-> [d \in Slot |-> Empty]]
  /\ life = [t \in Threads |-> "runs"]
  /\ at = [t \in Threads |-> Idle]
  /\ lost = {}
  /\ stray = FALSE

Runs(t, pc) == life[t] = "runs" /\ at[t].pc = pc
Return(t)   == at' = [at EXCEPT ![t] = Idle]
Goto(t, pc) == at' = [at EXCEPT ![t].pc = pc]

(* kmalloc and kfree, external to this module *)
Kmalloc(b, n) == heap[b].size = 0 /\ heap' = [heap EXCEPT ![b] = [size |-> n, text |-> <<>>]]
Freed(B)      == [b \in Buffers |-> IF b \in B THEN FreeBlock ELSE heap[b]]

BufOf(e) == IF e.buf = NULL THEN {} ELSE {e.buf}

-----------------------------------------------------------------------------
(* fd_open                                                                  *)

OpenCall(t, f, m) ==
  /\ Runs(t, "idle")
  /\ at' = [at EXCEPT ![t] = [Idle EXCEPT !.pc = "exists", !.path = f, !.mode = m]]
  /\ UNCHANGED <<file, heap, fds, life, lost, stray>>

(* fs_exists, and fs_create_file where the call asks for it *)
OpenExists(t) ==
  LET f == at[t].path
  IN  /\ Runs(t, "exists")
      /\ \/ file[f] # Gone /\ Goto(t, "length") /\ UNCHANGED file
         \/ /\ file[f] = Gone /\ Creats(at[t].mode) /\ f \notin Top
            /\ file' = [file EXCEPT ![f] = <<>>]
            /\ Goto(t, "length")
         \/ file[f] = Gone /\ Return(t) /\ UNCHANGED file       \* or the create fails
      /\ UNCHANGED <<heap, fds, life, lost, stray>>

(* fs_read_file without a buffer: the length *)
OpenLength(t) ==
  LET f == at[t].path
  IN  /\ Runs(t, "length")
      /\ IF file[f] = Gone THEN Return(t)
         ELSE at' = [at EXCEPT ![t].len = Len(file[f]),
                               ![t].pc = IF file[f] = <<>> THEN "slot" ELSE "alloc"]
      /\ UNCHANGED <<file, heap, fds, life, lost, stray>>

OpenAlloc(t) ==
  /\ Runs(t, "alloc")
  /\ \/ \E b \in Buffers :
          /\ Kmalloc(b, at[t].len)
          /\ at' = [at EXCEPT ![t].buf = b, ![t].pc = "read"]
     \/ Return(t) /\ UNCHANGED heap
  /\ UNCHANGED <<file, fds, life, lost, stray>>

(* Mutant: the length asked for before is not looked at again. *)
MutReadFits(f, n) == file[f] # Gone

ReadFits(f, n) == file[f] # Gone /\ Len(file[f]) <= n

(* Mutant: the failure is not passed on. *)
MutReadFails(t) == heap' = Freed({at[t].buf}) /\ Goto(t, "slot")

ReadFails(t) == heap' = Freed({at[t].buf}) /\ Return(t)

(* fs_read_file into the buffer: it fails when the file has grown, and      *)
(* corrects the length when it has shrunk *)
OpenRead(t) ==
  LET f == at[t].path
      b == at[t].buf
  IN  /\ Runs(t, "read")
      /\ IF ReadFits(f, heap[b].size)
         THEN /\ heap' = [heap EXCEPT ![b].text = file[f]]
              /\ at' = [at EXCEPT ![t].len = Len(file[f]), ![t].pc = "slot"]
         ELSE ReadFails(t)
      /\ UNCHANGED <<file, fds, life, lost, stray>>

(* Mutant: entries in use are handed out again. *)
MutFreeSlots(t) == Slot

FreeSlots(t) == { d \in Slot : ~fds[t][d].used }
FirstFree(t) == { d \in FreeSlots(t) : \A e \in FreeSlots(t) : d <= e }

(* Mutant: no free slot, and the buffer is forgotten. *)
MutGiveBack(B) == {}

GiveBack(B) == B

(* fd_alloc_slot and the new entry *)
OpenSlot(t) ==
  LET c == at[t]
  IN  /\ Runs(t, "slot")
      /\ \/ /\ FreeSlots(t) = {}
            /\ heap' = Freed(GiveBack(BufOf(c)))
            /\ UNCHANGED fds
         \/ /\ \E d \in FirstFree(t) :
                 fds' = [fds EXCEPT ![t][d] = [used |-> TRUE, kind |-> "file", mode |-> c.mode, pos |-> 0,
                                               path |-> c.path, buf |-> c.buf, len |-> c.len]]
            /\ UNCHANGED heap
      /\ Return(t)
      /\ UNCHANGED <<file, life, lost, stray>>

(* fd_open_dev *)
OpenDev(t, m) ==
  /\ Runs(t, "idle")
  /\ \E d \in FirstFree(t) :
       fds' = [fds EXCEPT ![t][d] = [Empty EXCEPT !.used = TRUE, !.kind = "dev", !.mode = m]]
  /\ UNCHANGED <<file, heap, life, at, lost, stray>>

-----------------------------------------------------------------------------
(* fd_read, fd_write, fd_lseek                                              *)

OpenFile(t, d) == Runs(t, "idle") /\ fds[t][d].used /\ fds[t][d].kind = "file"

(* The bytes fd_read copies for a request of n. *)
Taken(e, n) == IF e.pos >= e.len THEN 0 ELSE IF n < e.len - e.pos THEN n ELSE e.len - e.pos

Read(t, d, n) ==
  /\ OpenFile(t, d) /\ CanRead(fds[t][d])
  /\ fds' = [fds EXCEPT ![t][d].pos = @ + Taken(fds[t][d], n)]
  /\ UNCHANGED <<file, heap, life, at, lost, stray>>

(* A write that succeeds, or that fails in the file system: the file stays  *)
(* as it is, or a removed one comes back empty. *)
Write(t, d, s) ==
  LET e == fds[t][d]
  IN  /\ OpenFile(t, d) /\ CanWrite(e) /\ e.pos = 0
      /\ \/ /\ file' = [file EXCEPT ![e.path] = s]
            /\ fds' = [fds EXCEPT ![t][d].pos = Len(s)]
         \/ /\ file[e.path] = Gone
            /\ file' = [file EXCEPT ![e.path] = <<>>]
            /\ UNCHANGED fds
      /\ UNCHANGED <<heap, life, at, lost, stray>>

Clamped(nv, len) == IF nv > len THEN len ELSE nv

Lseek(t, d, base, offset) ==
  /\ OpenFile(t, d)
  /\ base + offset >= 0
  /\ fds' = [fds EXCEPT ![t][d].pos = Clamped(base + offset, fds[t][d].len)]
  /\ UNCHANGED <<file, heap, life, at, lost, stray>>

-----------------------------------------------------------------------------
(* fd_close, and the end of a thread                                        *)

CloseFree(t, d) ==
  /\ Runs(t, "idle") /\ fds[t][d].used
  /\ heap' = Freed(BufOf(fds[t][d]))
  /\ at' = [at EXCEPT ![t] = [Idle EXCEPT !.pc = "close", !.fd = d]]
  /\ UNCHANGED <<file, fds, life, lost, stray>>

CloseClear(t) ==
  /\ Runs(t, "close")
  /\ fds' = [fds EXCEPT ![t][at[t].fd] = Empty]
  /\ Return(t)
  /\ UNCHANGED <<file, heap, life, lost, stray>>

(* thread_kill, at any step; a thread that exits does so between calls *)
Kill(t) ==
  /\ life[t] = "runs"
  /\ life' = [life EXCEPT ![t] = "terminated"]
  /\ lost' = lost \cup BufOf(at[t])
  /\ stray' = (stray \/ (at[t].pc = "close" /\ fds[t][at[t].fd].buf # NULL))
  /\ Return(t)
  /\ UNCHANGED <<file, heap, fds>>

HeldBy(t) == UNION { BufOf(fds[t][d]) : d \in { d \in Slot : fds[t][d].used } }

(* thread_reap_terminated: fd_close_all, and the thread is gone *)
Reap(t) ==
  /\ life[t] = "terminated"
  /\ life' = [life EXCEPT ![t] = "reaped"]
  /\ heap' = Freed(HeldBy(t))
  /\ fds' = [fds EXCEPT ![t] = [d \in Slot |-> Empty]]
  /\ UNCHANGED <<file, at, lost, stray>>

(* Another thread removes a file. *)
RemoveFile(f) ==
  /\ file' = [file EXCEPT ![f] = Gone]
  /\ UNCHANGED <<heap, fds, life, at, lost, stray>>

-----------------------------------------------------------------------------
Step(t) ==
  \/ OpenExists(t) \/ OpenLength(t) \/ OpenAlloc(t) \/ OpenRead(t) \/ OpenSlot(t)
  \/ CloseClear(t)

Next ==
  \/ \E t \in Threads :
       \/ \E f \in Files, m \in Modes : OpenCall(t, f, m)
       \/ Step(t)
       \/ \E m \in Modes : OpenDev(t, m)
       \/ \E d \in Slot : \/ \E n \in {1, 2} : Read(t, d, n)
                          \/ \E s \in Texts : Write(t, d, s)
                          \/ \E base \in {0, fds[t][d].pos, fds[t][d].len}, o \in Offsets :
                               Lseek(t, d, base, o)
                          \/ CloseFree(t, d)
       \/ Kill(t)
       \/ Reap(t)
  \/ \E f \in Files : RemoveFile(f)

Spec == Init /\ [][Next]_vars

-----------------------------------------------------------------------------
(* Properties                                                               *)

EntryType ==
  [used : BOOLEAN, kind : {"none", "file", "dev"}, mode : Modes \cup {"none"}, pos : Nat,
   path : Files \cup {NULL}, buf : Buffers \cup {NULL}, len : Nat]
CallType ==
  [pc : {"idle", "exists", "length", "alloc", "read", "slot", "close"},
   path : Files \cup {NULL}, mode : Modes \cup {"none"}, buf : Buffers \cup {NULL},
   len : Nat, fd : Slot \cup {0}]

(* The fields hold what their types say. *)
TypeOK ==
  /\ file \in [Files -> Texts \cup {Gone}]
  /\ heap \in [Buffers -> [size : Nat, text : Texts]]
  /\ fds \in [Threads -> [Slot -> EntryType]]
  /\ life \in [Threads -> {"runs", "terminated", "reaped"}]
  /\ at \in [Threads -> CallType]
  /\ lost \subseteq Buffers
  /\ stray \in BOOLEAN

Closing(t, d) == at[t].pc = "close" /\ at[t].fd = d

(* Who will free a block: an open descriptor, or an open under way. *)
Owners(b) ==
  { o \in Threads \X Slot : LET e == fds[o[1]][o[2]]
                            IN  e.used /\ e.buf = b /\ ~Closing(o[1], o[2]) }
  \cup { o \in Threads \X {-1} : life[o[1]] = "runs" /\ at[o[1]].buf = b }

(* No two descriptors share a buffer and none points to a freed one, under  *)
(* every interleaving of opens, closes, kills and the reaper - until a      *)
(* thread is killed in the middle of a close.                               *)
NoSharedBuffer ==
  stray \/ \A b \in Buffers : /\ \A o, p \in Owners(b) : o = p
                              /\ Owners(b) # {} => heap[b].size > 0

(* Every block taken from the heap will be freed by somebody, but those of  *)
(* opens cut short by a kill: no error path of fd_open forgets its buffer.  *)
NoBufferForgotten ==
  \A b \in Buffers : heap[b].size > 0 => Owners(b) # {} \/ b \in lost \/ stray

(* file_len never exceeds the buffer although the file may grow or shrink   *)
(* between the call that asks for its length and the one that reads it.     *)
SnapshotFits ==
  \A t \in Threads, d \in Slot :
    LET e == fds[t][d]
    IN  e.used /\ e.len > 0 /\ ~Closing(t, d) /\ ~stray
          => e.buf # NULL /\ e.len <= heap[e.buf].size /\ e.len = Len(heap[e.buf].text)

Bytes(t, d) == IF fds[t][d].len = 0 THEN <<>> ELSE heap[fds[t][d].buf].text

(* A descriptor that stays open keeps its snapshot, whoever opens, writes,  *)
(* removes, closes or dies in the meantime.                                 *)
SnapshotStable ==
  [][\A t \in Threads, d \in Slot :
       fds[t][d].used /\ fds'[t][d].used /\ ~Closing(t, d)' /\ ~stray'
         => Bytes(t, d)' = Bytes(t, d)]_vars

-----------------------------------------------------------------------------
(* The inductive invariant behind the first three                           *)

Entry(t, d, b) == fds[t][d].used /\ fds[t][d].buf = b /\ ~Closing(t, d)

(* Where a call is says what it has; only a thread that runs is in one.     *)
ControlOf(t) ==
  /\ at[t].pc # "idle" => life[t] = "runs"
  /\ at[t].pc \in {"exists", "length", "alloc", "read", "slot"} => at[t].path \in Files
  /\ at[t].pc \notin {"read", "slot"} => at[t].buf = NULL
  /\ at[t].pc = "read" => at[t].buf # NULL
  /\ at[t].pc = "alloc" => at[t].len > 0
  /\ at[t].pc = "slot" /\ at[t].buf = NULL => at[t].len = 0
  /\ at[t].pc = "close" => at[t].fd \in Slot /\ fds[t][at[t].fd].used
  /\ \A d \in Slot : fds[t][d].used /\ fds[t][d].buf = NULL => fds[t][d].len = 0

ControlInv == \A t \in Threads : ControlOf(t)

(* One owner a block, a block for every owner, and one that holds what it   *)
(* should.                                                                  *)
OneOwner ==
  \A b \in Buffers :
    /\ \A t, u \in Threads, d, e \in Slot : Entry(t, d, b) /\ Entry(u, e, b) => t = u /\ d = e
    /\ \A t, u \in Threads : at[t].buf = b /\ at[u].buf = b => t = u
    /\ \A t, u \in Threads, d \in Slot : Entry(t, d, b) => at[u].buf # b

Backed ==
  \A b \in Buffers :
    /\ \A t \in Threads, d \in Slot : Entry(t, d, b) => heap[b].size > 0
    /\ \A t \in Threads : at[t].buf = b => heap[b].size > 0
    /\ heap[b].size > 0 => \/ \E t \in Threads, d \in Slot : Entry(t, d, b)
                          \/ \E t \in Threads : at[t].buf = b
                          \/ b \in lost

Fits(b, n) == n <= heap[b].size /\ n = Len(heap[b].text)

Filled ==
  \A b \in Buffers :
    /\ \A t \in Threads, d \in Slot : Entry(t, d, b) => Fits(b, fds[t][d].len)
    /\ \A t \in Threads : at[t].pc = "slot" /\ at[t].buf = b => Fits(b, at[t].len)

BufInv == OneOwner /\ Backed /\ Filled
IInv   == TypeOK /\ ControlInv /\ (stray \/ BufInv)
=============================================================================
