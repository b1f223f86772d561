----------------------------- MODULE FileProofs -----------------------------
(***************************************************************************)
(* Proofs about files: first the descriptors of FdTable, for any number of *)
(* threads, descriptors, files and blocks and any contents; then the RAM   *)
(* file system, for tables, directories and pools of any size.             *)
(***************************************************************************)
EXTENDS FdTable, RamFs, SequenceTheorems, WellFoundedInduction, TLAPS

-----------------------------------------------------------------------------
(* Descriptors: the inductive invariant of FdTable, and what follows        *)

LEMMA InitIInv == Init => IInv
<1> SUFFICES ASSUME Init PROVE IInv
    OBVIOUS
<1>1. TypeOK
  BY TextsAssumption DEF Init, TypeOK, FreeBlock, Empty, Idle, EntryType, CallType
<1>2. ControlInv
  BY DEF Init, ControlInv, ControlOf, Empty, Idle
<1>3. \A t \in Threads, d \in Slot : \A b : ~Entry(t, d, b)
  BY DEF Init, Entry, Empty
<1>4. BufInv
  BY <1>3, NullAssumption DEF Init, BufInv, OneOwner, Backed, Filled, Idle, FreeBlock
<1> QED BY <1>1, <1>2, <1>4 DEF IInv

-----------------------------------------------------------------------------
(* Types                                                                    *)

LEMMA IdleType == Idle \in CallType
BY DEF Idle, CallType

LEMMA EmptyType == Empty \in EntryType
BY DEF Empty, EntryType

LEMMA FreedType ==
  ASSUME TypeOK, NEW B
  PROVE  Freed(B) \in [Buffers -> [size : Nat, text : Texts]]
BY TextsAssumption DEF TypeOK, Freed, FreeBlock

LEMMA PlacedType ==
  ASSUME TypeOK, NEW t \in Threads, NEW d \in Slot, NEW e \in EntryType
  PROVE  [fds EXCEPT ![t][d] = e] \in [Threads -> [Slot -> EntryType]]
BY DEF TypeOK

(* Reads, writes and seeks move a position. *)
LEMMA MovedType ==
  ASSUME TypeOK, NEW t \in Threads, NEW d \in Slot, NEW p \in Nat
  PROVE  [fds EXCEPT ![t][d].pos = p] \in [Threads -> [Slot -> EntryType]]
<1>1. fds[t][d] \in EntryType
  BY DEF TypeOK
<1>2. [fds[t][d] EXCEPT !.pos = p] \in EntryType
  BY <1>1 DEF EntryType
<1> QED BY <1>2 DEF TypeOK

LEMMA TypeStep == TypeOK /\ ControlInv /\ [Next]_vars => TypeOK'
<1> SUFFICES ASSUME TypeOK, ControlInv, [Next]_vars PROVE TypeOK'
    OBVIOUS
<1>1. ASSUME NEW t \in Threads, NEW f \in Files, NEW m \in Modes, OpenCall(t, f, m) PROVE TypeOK'
  <2>1. [Idle EXCEPT !.pc = "exists", !.path = f, !.mode = m] \in CallType
    BY DEF Idle, CallType
  <2> QED BY <2>1, <1>1 DEF OpenCall, TypeOK
<1>2. ASSUME NEW t \in Threads, OpenExists(t) PROVE TypeOK'
  <2>1. [at[t] EXCEPT !.pc = "length"] \in CallType
    BY DEF TypeOK, CallType
  <2>2. at' \in [Threads -> CallType]
    BY <2>1, <1>2, IdleType DEF OpenExists, Return, Goto, TypeOK
  <2>3. file' \in [Files -> Texts \cup {Gone}]
    BY <1>2, TextsAssumption DEF OpenExists, TypeOK
  <2> QED BY <2>2, <2>3, <1>2 DEF OpenExists, TypeOK
<1>3. ASSUME NEW t \in Threads, OpenLength(t) PROVE TypeOK'
  <2>1. ASSUME file[at[t].path] # Gone PROVE Len(file[at[t].path]) \in Nat
    BY <2>1, <1>3, TextsAssumption DEF OpenLength, Runs, ControlInv, ControlOf, TypeOK
  <2>2. ASSUME NEW n \in Nat, NEW p \in {"slot", "alloc"} PROVE [at[t] EXCEPT !.len = n, !.pc = p] \in CallType
    BY DEF TypeOK, CallType
  <2>3. at \in [Threads -> CallType]
    BY DEF TypeOK
  <2>4. CASE file[at[t].path] = Gone
    BY <2>3, <2>4, <1>3, IdleType DEF OpenLength, Return, TypeOK
  <2>5. CASE file[at[t].path] # Gone
    <3> DEFINE n == Len(file[at[t].path])
               p == IF file[at[t].path] = <<>> THEN "slot" ELSE "alloc"
    <3>1. at' = [at EXCEPT ![t].len = n, ![t].pc = p]
      BY <1>3, <2>5 DEF OpenLength
    <3>2. n \in Nat /\ p \in {"slot", "alloc"}
      BY <2>1, <2>5
    <3> HIDE DEF n, p
    <3>3. [at[t] EXCEPT !.len = n, !.pc = p] \in CallType
      BY <2>2, <3>2
    <3>4. at' \in [Threads -> CallType]
      BY <2>3, <3>1, <3>3
    <3> QED
      BY <3>4, <1>3 DEF OpenLength, TypeOK
  <2> QED BY <2>4, <2>5
<1>4. ASSUME NEW t \in Threads, OpenAlloc(t) PROVE TypeOK'
  <2>1. ASSUME NEW b \in Buffers PROVE [at[t] EXCEPT !.buf = b, !.pc = "read"] \in CallType
    BY DEF TypeOK, CallType
  <2>2. at' \in [Threads -> CallType]
    BY <2>1, <1>4, IdleType DEF OpenAlloc, Return, TypeOK
  <2>3. at[t].len \in Nat
    BY DEF TypeOK, CallType
  <2>4. [size |-> at[t].len, text |-> <<>>] \in [size : Nat, text : Texts]
    BY <2>3, TextsAssumption
  <2>5. heap' \in [Buffers -> [size : Nat, text : Texts]]
    BY <2>4, <1>4 DEF OpenAlloc, Kmalloc, TypeOK
  <2> QED BY <2>2, <2>5, <1>4 DEF OpenAlloc, TypeOK
<1>5. ASSUME NEW t \in Threads, OpenRead(t) PROVE TypeOK'
  <2>1. ASSUME file[at[t].path] # Gone PROVE file[at[t].path] \in Texts /\ Len(file[at[t].path]) \in Nat
    BY <2>1, <1>5, TextsAssumption DEF OpenRead, Runs, ControlInv, ControlOf, TypeOK
  <2>2. ASSUME NEW n \in Nat PROVE [at[t] EXCEPT !.len = n, !.pc = "slot"] \in CallType
    BY DEF TypeOK, CallType
  <2>3. at' \in [Threads -> CallType]
    BY <2>1, <2>2, <1>5, IdleType DEF OpenRead, ReadFits, ReadFails, Return, TypeOK
  <2>4. at[t].buf \in Buffers
    BY <1>5 DEF OpenRead, Runs, ControlInv, ControlOf, TypeOK, CallType
  <2>5. ASSUME NEW s \in Texts PROVE [heap[at[t].buf] EXCEPT !.text = s] \in [size : Nat, text : Texts]
    BY <2>4 DEF TypeOK
  <2>6. heap' \in [Buffers -> [size : Nat, text : Texts]]
    BY <2>1, <2>5, <1>5, FreedType DEF OpenRead, ReadFits, ReadFails, TypeOK
  <2> QED BY <2>3, <2>6, <1>5 DEF OpenRead, TypeOK
<1>6. ASSUME NEW t \in Threads, OpenSlot(t) PROVE TypeOK'
  <2>1. heap' \in [Buffers -> [size : Nat, text : Texts]]
    BY <1>6, FreedType DEF OpenSlot, TypeOK
  <2>2. at' \in [Threads -> CallType]
    BY <1>6, IdleType DEF OpenSlot, Return, TypeOK
  <2>3. [used |-> TRUE, kind |-> "file", mode |-> at[t].mode, pos |-> 0, path |-> at[t].path,
         buf |-> at[t].buf, len |-> at[t].len] \in EntryType
    BY DEF TypeOK, CallType, EntryType
  <2>4. \/ UNCHANGED fds
        \/ \E d \in Slot : fds' = [fds EXCEPT ![t][d] =
               [used |-> TRUE, kind |-> "file", mode |-> at[t].mode, pos |-> 0, path |-> at[t].path,
                buf |-> at[t].buf, len |-> at[t].len]]
    BY <1>6 DEF OpenSlot, FirstFree, FreeSlots
  <2>5. fds \in [Threads -> [Slot -> EntryType]]
    BY DEF TypeOK
  <2>6. fds' \in [Threads -> [Slot -> EntryType]]
    <3>1. CASE UNCHANGED fds
      BY <3>1, <2>5
    <3>2. CASE ~ UNCHANGED fds
      <4>1. PICK d \in Slot : fds' = [fds EXCEPT ![t][d] =
               [used |-> TRUE, kind |-> "file", mode |-> at[t].mode, pos |-> 0, path |-> at[t].path,
                buf |-> at[t].buf, len |-> at[t].len]]
        BY <2>4, <3>2
      <4> QED BY <4>1, <2>3, PlacedType
    <3> QED BY <3>1, <3>2
  <2> QED BY <2>1, <2>2, <2>6, <1>6 DEF OpenSlot, TypeOK
<1>7. ASSUME NEW t \in Threads, NEW m \in Modes, OpenDev(t, m) PROVE TypeOK'
  <2>1. [Empty EXCEPT !.used = TRUE, !.kind = "dev", !.mode = m] \in EntryType
    BY DEF Empty, EntryType
  <2> QED BY <2>1, <1>7 DEF OpenDev, FirstFree, FreeSlots, TypeOK
<1>8. ASSUME NEW t \in Threads, NEW d \in Slot, NEW n \in {1, 2}, Read(t, d, n) PROVE TypeOK'
  <2>1. fds[t][d] \in EntryType
    BY DEF TypeOK
  <2>2. fds[t][d].pos + Taken(fds[t][d], n) \in Nat
    BY <2>1 DEF Taken, EntryType
  <2>3. fds' = [fds EXCEPT ![t][d].pos = fds[t][d].pos + Taken(fds[t][d], n)]
    BY <1>8 DEF Read
  <2>4. fds' \in [Threads -> [Slot -> EntryType]]
    BY <2>2, <2>3, MovedType
  <2> QED BY <2>4, <1>8 DEF Read, TypeOK
<1>9. ASSUME NEW t \in Threads, NEW d \in Slot, NEW s \in Texts, Write(t, d, s) PROVE TypeOK'
  <2>1. Len(s) \in Nat
    BY TextsAssumption
  <2>2. file' \in [Files -> Texts \cup {Gone}]
    BY <1>9, TextsAssumption DEF Write, TypeOK
  <2>3. fds' = fds \/ fds' = [fds EXCEPT ![t][d].pos = Len(s)]
    BY <1>9 DEF Write
  <2>4. fds \in [Threads -> [Slot -> EntryType]]
    BY DEF TypeOK
  <2>5. fds' \in [Threads -> [Slot -> EntryType]]
    <3>1. CASE fds' = fds
      BY <3>1, <2>4
    <3>2. CASE fds' = [fds EXCEPT ![t][d].pos = Len(s)]
      BY <3>2, <2>1, MovedType
    <3> QED BY <3>1, <3>2, <2>3
  <2> QED BY <2>2, <2>5, <1>9 DEF Write, TypeOK
<1>10. ASSUME NEW t \in Threads, NEW d \in Slot, NEW base \in {0, fds[t][d].pos, fds[t][d].len},
              NEW o \in Offsets, Lseek(t, d, base, o)
       PROVE  TypeOK'
  <2>1. fds[t][d] \in EntryType
    BY DEF TypeOK
  <2>2. Clamped(base + o, fds[t][d].len) \in Nat
    BY <2>1, <1>10, FdAssumption DEF Lseek, Clamped, EntryType
  <2>3. fds' = [fds EXCEPT ![t][d].pos = Clamped(base + o, fds[t][d].len)]
    BY <1>10 DEF Lseek
  <2>4. fds' \in [Threads -> [Slot -> EntryType]]
    BY <2>2, <2>3, MovedType
  <2> QED BY <2>4, <1>10 DEF Lseek, TypeOK
<1>11. ASSUME NEW t \in Threads, NEW d \in Slot, CloseFree(t, d) PROVE TypeOK'
  <2>1. [Idle EXCEPT !.pc = "close", !.fd = d] \in CallType
    BY DEF Idle, CallType
  <2> QED BY <2>1, <1>11, FreedType DEF CloseFree, TypeOK
<1>12. ASSUME NEW t \in Threads, CloseClear(t) PROVE TypeOK'
  BY <1>12, IdleType, EmptyType DEF CloseClear, Return, TypeOK
<1>13. ASSUME NEW t \in Threads, Kill(t) PROVE TypeOK'
  <2>1. BufOf(at[t]) \subseteq Buffers
    BY DEF TypeOK, CallType, BufOf
  <2> QED BY <2>1, <1>13, IdleType DEF Kill, Return, TypeOK
<1>14. ASSUME NEW t \in Threads, Reap(t) PROVE TypeOK'
  BY <1>14, FreedType, EmptyType DEF Reap, TypeOK
<1>15. ASSUME NEW f \in Files, RemoveFile(f) PROVE TypeOK'
  BY <1>15 DEF RemoveFile, TypeOK
<1>16. CASE UNCHANGED vars
  BY <1>16 DEF vars, TypeOK
<1> QED BY <1>1, <1>2, <1>3, <1>4, <1>5, <1>6, <1>7, <1>8, <1>9, <1>10, <1>11, <1>12, <1>13, <1>14,
           <1>15, <1>16 DEF Next, Step

-----------------------------------------------------------------------------
(* Owners                                                                   *)

(* A step of thread t that changes nothing but where it is in an open, and  *)
(* has the same buffer before and after.                                    *)
LEMMA CallMoves ==
  ASSUME IInv, NEW t \in Threads,
         UNCHANGED <<fds, heap, life, lost, stray>>,
         \A u \in Threads \ {t} : at'[u] = at[u],
         at[t].pc # "close", at'[t].pc # "close",
         at'[t].buf = at[t].buf, at'[t].pc = "slot" => at'[t].buf = NULL,
         ControlOf(t)'
  PROVE  ControlInv' /\ (stray' \/ BufInv')
<1>1. ControlInv'
  BY DEF IInv, ControlInv, ControlOf
<1>2. \A u \in Threads, d \in Slot, b \in Buffers : Entry(u, d, b)' <=> Entry(u, d, b)
  BY DEF Entry, Closing
<1>3. \A u \in Threads : at'[u].buf = at[u].buf
  OBVIOUS
<1>4. BufInv => OneOwner'
  BY <1>2, <1>3 DEF BufInv, OneOwner
<1>5. BufInv => Backed'
  BY <1>2, <1>3 DEF BufInv, Backed
<1>6. BufInv => Filled'
  BY <1>2, <1>3, NullAssumption DEF BufInv, Filled, Fits
<1> QED BY <1>1, <1>4, <1>5, <1>6 DEF IInv, BufInv

(* A step that leaves the buffers of all entries alone. *)
LEMMA EntriesMove ==
  ASSUME IInv, UNCHANGED <<heap, life, at, lost, stray>>,
         \A u \in Threads, d \in Slot : /\ fds'[u][d].used <=> fds[u][d].used
                                        /\ fds'[u][d].buf = fds[u][d].buf
                                        /\ fds'[u][d].len = fds[u][d].len
  PROVE  ControlInv' /\ (stray' \/ BufInv')
<1>1. ControlInv'
  BY DEF IInv, ControlInv, ControlOf
<1>2. \A u \in Threads, d \in Slot, b \in Buffers : Entry(u, d, b)' <=> Entry(u, d, b)
  BY DEF Entry, Closing
<1>4. BufInv => OneOwner'
  BY <1>2 DEF BufInv, OneOwner
<1>5. BufInv => Backed'
  BY <1>2 DEF BufInv, Backed
<1>6. BufInv => Filled'
  BY <1>2 DEF BufInv, Filled, Fits
<1> QED BY <1>1, <1>4, <1>5, <1>6 DEF IInv, BufInv

-----------------------------------------------------------------------------
(* The steps                                                                *)

LEMMA OpenCallStep ==
  ASSUME IInv, NEW t \in Threads, NEW f \in Files, NEW m \in Modes, OpenCall(t, f, m)
  PROVE  ControlInv' /\ (stray' \/ BufInv')
<1>1. at[t].pc = "idle" /\ life[t] = "runs" /\ at[t].buf = NULL
  BY DEF OpenCall, Runs, IInv, ControlInv, ControlOf
<1>2. /\ at'[t].pc = "exists" /\ at'[t].path = f /\ at'[t].buf = NULL
      /\ \A u \in Threads \ {t} : at'[u] = at[u]
  BY DEF OpenCall, Idle, IInv, TypeOK
<1>3. UNCHANGED <<fds, heap, life, lost, stray>>
  BY DEF OpenCall
<1>4. ControlOf(t)'
  BY <1>1, <1>2, <1>3 DEF ControlOf, IInv, ControlInv
<1> QED BY <1>1, <1>2, <1>3, <1>4, CallMoves

LEMMA OpenExistsStep ==
  ASSUME IInv, NEW t \in Threads, OpenExists(t)
  PROVE  ControlInv' /\ (stray' \/ BufInv')
<1>1. at[t].pc = "exists" /\ life[t] = "runs" /\ at[t].buf = NULL /\ at[t].path \in Files
  BY DEF OpenExists, Runs, IInv, ControlInv, ControlOf
<1>2. /\ at'[t].buf = NULL
      /\ at'[t].pc = "idle" \/ (at'[t].pc = "length" /\ at'[t].path = at[t].path)
      /\ \A u \in Threads \ {t} : at'[u] = at[u]
  BY <1>1 DEF OpenExists, Return, Goto, Idle, IInv, TypeOK, CallType
<1>3. UNCHANGED <<fds, heap, life, lost, stray>>
  BY DEF OpenExists
<1>4. ControlOf(t)'
  BY <1>1, <1>2, <1>3 DEF ControlOf, IInv, ControlInv
<1> QED BY <1>1, <1>2, <1>3, <1>4, CallMoves

LEMMA OpenLengthStep ==
  ASSUME IInv, NEW t \in Threads, OpenLength(t)
  PROVE  ControlInv' /\ (stray' \/ BufInv')
<1> DEFINE s == file[at[t].path]
<1>1. at[t].pc = "length" /\ life[t] = "runs" /\ at[t].buf = NULL /\ at[t].path \in Files
  BY DEF OpenLength, Runs, IInv, ControlInv, ControlOf
<1>2. s # Gone => /\ s = <<>> => Len(s) = 0
                  /\ s # <<>> => Len(s) > 0
  <2>1. s # Gone => s \in Seq(Nat)
    BY <1>1, TextsAssumption DEF IInv, TypeOK
  <2> QED BY <2>1
<1>3. /\ at'[t].buf = NULL
      /\ \/ at'[t].pc = "idle"
         \/ at'[t].pc = "slot" /\ at'[t].path = at[t].path /\ at'[t].len = 0
         \/ at'[t].pc = "alloc" /\ at'[t].path = at[t].path /\ at'[t].len > 0
      /\ \A u \in Threads \ {t} : at'[u] = at[u]
  BY <1>1, <1>2 DEF OpenLength, Return, Idle, IInv, TypeOK, CallType
<1>4. UNCHANGED <<fds, heap, life, lost, stray>>
  BY DEF OpenLength
<1>5. ControlOf(t)'
  BY <1>1, <1>3, <1>4 DEF ControlOf, IInv, ControlInv
<1> QED BY <1>1, <1>3, <1>4, <1>5, CallMoves

LEMMA OpenAllocStep ==
  ASSUME IInv, NEW t \in Threads, OpenAlloc(t)
  PROVE  ControlInv' /\ (stray' \/ BufInv')
<1>1. at[t].pc = "alloc" /\ life[t] = "runs" /\ at[t].buf = NULL /\ at[t].path \in Files /\ at[t].len > 0
  BY DEF OpenAlloc, Runs, IInv, ControlInv, ControlOf
<1>2. UNCHANGED <<fds, life, lost, stray>>
  BY DEF OpenAlloc
<1>3. CASE Return(t) /\ UNCHANGED heap
  <2>1. /\ at'[t].buf = NULL /\ at'[t].pc = "idle"
        /\ \A u \in Threads \ {t} : at'[u] = at[u]
    BY <1>3 DEF Return, Idle, IInv, TypeOK
  <2>2. ControlOf(t)'
    BY <1>1, <1>2, <2>1 DEF ControlOf, IInv, ControlInv
  <2> QED BY <1>1, <1>2, <1>3, <2>1, <2>2, CallMoves
<1>4. ASSUME NEW b \in Buffers, Kmalloc(b, at[t].len), at' = [at EXCEPT ![t].buf = b, ![t].pc = "read"]
      PROVE  ControlInv' /\ (stray' \/ BufInv')
  <2>1. /\ at'[t].buf = b /\ at'[t].pc = "read" /\ at'[t].path = at[t].path
        /\ \A u \in Threads \ {t} : at'[u] = at[u]
    BY <1>4 DEF IInv, TypeOK, CallType
  <2>2. /\ heap[b].size = 0 /\ heap'[b].size > 0
        /\ \A c \in Buffers \ {b} : heap'[c] = heap[c]
    BY <1>1, <1>4 DEF Kmalloc, IInv, TypeOK
  <2>3. b # NULL
    BY NullAssumption
  <2>4. ControlInv'
    BY <1>1, <1>2, <2>1, <2>3 DEF IInv, ControlInv, ControlOf
  <2>5. \A u \in Threads, d \in Slot, c \in Buffers : Entry(u, d, c)' <=> Entry(u, d, c)
    BY <1>1, <1>2, <2>1 DEF Entry, Closing
  <2>6. SUFFICES ASSUME BufInv PROVE BufInv'
    BY <1>2, <2>4 DEF IInv
  <2>7. /\ \A u \in Threads, d \in Slot : ~ Entry(u, d, b)
        /\ \A u \in Threads : at[u].buf # b
    BY <2>2, <2>6 DEF BufInv, Backed
  <2>8. \A u \in Threads, c \in Buffers \ {b} : at'[u].buf = c <=> at[u].buf = c
    BY <1>1, <2>1, NullAssumption
  <2>9. OneOwner'
    BY <2>1, <2>5, <2>6, <2>7, <2>8 DEF BufInv, OneOwner
  <2>10. Backed'
    BY <1>2, <2>1, <2>2, <2>5, <2>6, <2>7, <2>8 DEF BufInv, Backed
  <2>11. Filled'
    BY <1>2, <2>1, <2>2, <2>5, <2>6, <2>7, <2>8 DEF BufInv, Filled, Fits
  <2> QED BY <2>9, <2>10, <2>11 DEF BufInv
<1> QED BY <1>3, <1>4 DEF OpenAlloc

(* An open that gives its buffer back: nobody else has it. *)
LEMMA CallEnds ==
  ASSUME IInv, NEW t \in Threads, at[t].pc # "close",
         UNCHANGED <<fds, life, lost, stray>>, Return(t), heap' = Freed(BufOf(at[t]))
  PROVE  ControlInv' /\ (stray' \/ BufInv')
<1>1. /\ at'[t].buf = NULL /\ at'[t].pc = "idle"
      /\ \A u \in Threads \ {t} : at'[u] = at[u]
  BY DEF Return, Idle, IInv, TypeOK
<1>2. ControlInv'
  BY <1>1 DEF IInv, ControlInv, ControlOf
<1>3. \A u \in Threads, d \in Slot, c \in Buffers : Entry(u, d, c)' <=> Entry(u, d, c)
  BY <1>1 DEF Entry, Closing
<1>4. SUFFICES ASSUME BufInv PROVE BufInv'
  BY <1>2 DEF IInv
<1>5. \A c \in Buffers : at[t].buf = c => /\ heap'[c].size = 0
                                        /\ \A u \in Threads, d \in Slot : ~ Entry(u, d, c)
  BY <1>4, NullAssumption DEF BufInv, OneOwner, Freed, BufOf, FreeBlock
<1>5a. \A c \in Buffers, u \in Threads : at[t].buf = c /\ u # t => at[u].buf # c
  BY <1>4 DEF BufInv, OneOwner
<1>6. \A c \in Buffers : at[t].buf # c => heap'[c] = heap[c]
  BY DEF Freed, BufOf
<1>7. \A u \in Threads, c \in Buffers : at'[u].buf = c <=> u # t /\ at[u].buf = c
  BY <1>1, NullAssumption
<1>8. OneOwner'
  BY <1>3, <1>4, <1>7 DEF BufInv, OneOwner
<1>9. Backed'
  <2> SUFFICES ASSUME NEW b \in Buffers
               PROVE  /\ \A u \in Threads, d \in Slot : Entry(u, d, b)' => heap'[b].size > 0
                      /\ \A u \in Threads : at'[u].buf = b => heap'[b].size > 0
                      /\ heap'[b].size > 0 => \/ \E u \in Threads, d \in Slot : Entry(u, d, b)'
                                             \/ \E u \in Threads : at'[u].buf = b
                                             \/ b \in lost'
      BY DEF Backed
  <2>1. CASE at[t].buf = b
    <3>1. heap'[b].size = 0 /\ ~ (heap'[b].size > 0)
      BY <2>1, <1>5
    <3>2. \A u \in Threads, d \in Slot : ~ Entry(u, d, b)'
      BY <2>1, <1>3, <1>5
    <3>3. \A u \in Threads : at'[u].buf # b
      BY <2>1, <1>5a, <1>7
    <3> QED BY <3>1, <3>2, <3>3
  <2>2. CASE at[t].buf # b
    BY <2>2, <1>3, <1>4, <1>6, <1>7 DEF BufInv, Backed
  <2> QED BY <2>1, <2>2
<1>10. Filled'
  <2>1. ASSUME NEW b \in Buffers, NEW u \in Threads, NEW d \in Slot, Entry(u, d, b)'
        PROVE  Fits(b, fds[u][d].len)'
    BY <2>1, <1>3, <1>4, <1>5, <1>6 DEF BufInv, Filled, Fits
  <2>2. ASSUME NEW b \in Buffers, NEW u \in Threads, at'[u].pc = "slot", at'[u].buf = b
        PROVE  Fits(b, at[u].len)'
    <3>1. u # t /\ at'[u] = at[u] /\ at[u].buf = b /\ at[t].buf # b
      <4>1. u # t /\ at[u].buf = b
        BY <2>2, <1>7
      <4>2. at[t].buf # b
        BY <4>1, <1>5a
      <4> QED BY <4>1, <4>2, <1>1
    <3>2. Fits(b, at[u].len)
      BY <2>2, <3>1, <1>4 DEF BufInv, Filled
    <3>3. heap'[b] = heap[b]
      BY <3>1, <1>6
    <3> QED BY <3>1, <3>2, <3>3 DEF Fits
  <2> QED BY <2>1, <2>2 DEF Filled
<1> QED BY <1>8, <1>9, <1>10 DEF BufInv

LEMMA OpenReadStep ==
  ASSUME IInv, NEW t \in Threads, OpenRead(t)
  PROVE  ControlInv' /\ (stray' \/ BufInv')
<1> DEFINE b == at[t].buf
           s == file[at[t].path]
<1>1. /\ at[t].pc = "read" /\ life[t] = "runs" /\ b \in Buffers /\ b # NULL
      /\ at[t].path \in Files
  BY DEF OpenRead, Runs, IInv, ControlInv, ControlOf, TypeOK, CallType
<1>2. UNCHANGED <<fds, life, lost, stray>>
  BY DEF OpenRead
<1>3. CASE ~ ReadFits(at[t].path, heap[b].size)
  <2>1. heap' = Freed(BufOf(at[t])) /\ Return(t)
    BY <1>1, <1>3 DEF OpenRead, ReadFails, BufOf
  <2> QED BY <1>1, <1>2, <2>1, CallEnds
<1>4. CASE ReadFits(at[t].path, heap[b].size)
  <2>1. /\ at'[t].buf = b /\ at'[t].pc = "slot" /\ at'[t].path = at[t].path /\ at'[t].len = Len(s)
        /\ \A u \in Threads \ {t} : at'[u] = at[u]
    BY <1>4 DEF OpenRead, IInv, TypeOK, CallType
  <2>2. /\ heap'[b].size = heap[b].size /\ heap'[b].text = s
        /\ \A c \in Buffers \ {b} : heap'[c] = heap[c]
    <3>1. heap' = [heap EXCEPT ![b].text = s]
      BY <1>4 DEF OpenRead
    <3>2. heap[b] \in [size : Nat, text : Texts]
      BY <1>1 DEF IInv, TypeOK
    <3>3. heap'[b] = [heap[b] EXCEPT !.text = s]
      BY <3>1, <1>1 DEF IInv, TypeOK
    <3>4. \A c \in Buffers \ {b} : heap'[c] = heap[c]
      BY <3>1, <1>1 DEF IInv, TypeOK
    <3> QED BY <3>2, <3>3, <3>4
  <2>3. Len(s) <= heap[b].size
    BY <1>4 DEF ReadFits
  <2>4. ControlInv'
    BY <1>1, <1>2, <2>1 DEF IInv, ControlInv, ControlOf
  <2>5. \A u \in Threads, d \in Slot, c \in Buffers : Entry(u, d, c)' <=> Entry(u, d, c)
    BY <1>1, <1>2, <2>1 DEF Entry, Closing
  <2>6. SUFFICES ASSUME BufInv PROVE BufInv'
    BY <1>2, <2>4 DEF IInv
  <2>7. /\ \A u \in Threads, d \in Slot : ~ Entry(u, d, b)
        /\ \A u \in Threads \ {t} : at[u].buf # b
    BY <1>1, <2>6 DEF BufInv, OneOwner
  <2>8. \A u \in Threads : at'[u].buf = at[u].buf
    BY <2>1
  <2>9. OneOwner'
    BY <2>5, <2>6, <2>8 DEF BufInv, OneOwner
  <2>10. \A c \in Buffers : heap'[c].size = heap[c].size
    BY <2>2
  <2>11. Backed'
    BY <1>2, <2>5, <2>6, <2>8, <2>10 DEF BufInv, Backed
  <2>12. Filled'
    <3>1. ASSUME NEW c \in Buffers, NEW u \in Threads, NEW d \in Slot, Entry(u, d, c)'
          PROVE  Fits(c, fds[u][d].len)'
      BY <3>1, <1>2, <2>2, <2>5, <2>6, <2>7 DEF BufInv, Filled, Fits
    <3>2. ASSUME NEW c \in Buffers, NEW u \in Threads, at'[u].pc = "slot", at'[u].buf = c
          PROVE  Fits(c, at[u].len)'
      BY <3>2, <1>1, <2>1, <2>2, <2>3, <2>6, <2>7 DEF BufInv, Filled, Fits
    <3> QED BY <3>1, <3>2 DEF Filled
  <2> QED BY <2>9, <2>11, <2>12 DEF BufInv
<1> QED BY <1>3, <1>4

LEMMA OpenSlotStep ==
  ASSUME IInv, NEW t \in Threads, OpenSlot(t)
  PROVE  ControlInv' /\ (stray' \/ BufInv')
<1>1. at[t].pc = "slot" /\ life[t] = "runs" /\ (at[t].buf = NULL => at[t].len = 0)
  BY DEF OpenSlot, Runs, IInv, ControlInv, ControlOf
<1>2. UNCHANGED <<life, lost, stray>> /\ Return(t)
  BY DEF OpenSlot
<1>3. CASE UNCHANGED fds /\ heap' = Freed(GiveBack(BufOf(at[t])))
  BY <1>1, <1>2, <1>3, CallEnds DEF GiveBack
<1>4. ASSUME NEW d \in FirstFree(t), UNCHANGED heap,
             fds' = [fds EXCEPT ![t][d] = [used |-> TRUE, kind |-> "file", mode |-> at[t].mode, pos |-> 0,
                                           path |-> at[t].path, buf |-> at[t].buf, len |-> at[t].len]]
      PROVE  ControlInv' /\ (stray' \/ BufInv')
  <2>1. d \in Slot /\ ~ fds[t][d].used
    BY <1>4 DEF FirstFree, FreeSlots
  <2>2. /\ fds'[t][d].used /\ fds'[t][d].buf = at[t].buf /\ fds'[t][d].len = at[t].len
        /\ \A u \in Threads, e \in Slot : u # t \/ e # d => fds'[u][e] = fds[u][e]
    BY <1>4, <2>1 DEF IInv, TypeOK
  <2>3. /\ at'[t].buf = NULL /\ at'[t].pc = "idle"
        /\ \A u \in Threads \ {t} : at'[u] = at[u]
    BY <1>2 DEF Return, Idle, IInv, TypeOK
  <2>4. ControlInv'
    BY <1>1, <1>2, <2>1, <2>2, <2>3 DEF IInv, ControlInv, ControlOf
  <2>5. \A u \in Threads, e \in Slot, c \in Buffers :
          Entry(u, e, c)' <=> Entry(u, e, c) \/ (u = t /\ e = d /\ at[t].buf = c)
    BY <1>1, <2>1, <2>2, <2>3 DEF Entry, Closing
  <2>6. SUFFICES ASSUME BufInv PROVE BufInv'
    BY <1>2, <2>4 DEF IInv
  <2>7. \A u \in Threads, c \in Buffers : at'[u].buf = c <=> u # t /\ at[u].buf = c
    BY <2>3, NullAssumption
  <2>8. OneOwner'
    BY <2>5, <2>6, <2>7 DEF BufInv, OneOwner
  <2>9. Backed'
    BY <1>2, <1>4, <2>1, <2>5, <2>6, <2>7 DEF BufInv, Backed
  <2>10. Filled'
    <3>1. ASSUME NEW c \in Buffers, NEW u \in Threads, NEW e \in Slot, Entry(u, e, c)'
          PROVE  Fits(c, fds[u][e].len)'
      <4>1. CASE u = t /\ e = d
        BY <3>1, <4>1, <1>1, <1>4, <2>1, <2>2, <2>5, <2>6 DEF BufInv, Filled, Fits, Entry
      <4>2. CASE u # t \/ e # d
        BY <3>1, <4>2, <1>4, <2>2, <2>5, <2>6 DEF BufInv, Filled, Fits
      <4> QED BY <4>1, <4>2
    <3>2. ASSUME NEW c \in Buffers, NEW u \in Threads, at'[u].pc = "slot", at'[u].buf = c
          PROVE  Fits(c, at[u].len)'
      BY <3>2, <1>4, <2>3, <2>6 DEF BufInv, Filled, Fits
    <3> QED BY <3>1, <3>2 DEF Filled
  <2> QED BY <2>8, <2>9, <2>10 DEF BufInv
<1> QED BY <1>3, <1>4 DEF OpenSlot

LEMMA OpenDevStep ==
  ASSUME IInv, NEW t \in Threads, NEW m \in Modes, OpenDev(t, m)
  PROVE  ControlInv' /\ (stray' \/ BufInv')
<1>1. PICK d \in FirstFree(t) :
        fds' = [fds EXCEPT ![t][d] = [Empty EXCEPT !.used = TRUE, !.kind = "dev", !.mode = m]]
  BY DEF OpenDev
<1>2. d \in Slot /\ ~ fds[t][d].used /\ UNCHANGED <<heap, life, at, lost, stray>>
  BY <1>1 DEF FirstFree, FreeSlots, OpenDev
<1>3. /\ fds'[t][d].used /\ fds'[t][d].buf = NULL /\ fds'[t][d].len = 0
      /\ \A u \in Threads, e \in Slot : u # t \/ e # d => fds'[u][e] = fds[u][e]
  BY <1>1, <1>2 DEF IInv, TypeOK, Empty
<1>4. ControlInv'
  BY <1>2, <1>3 DEF IInv, ControlInv, ControlOf
<1>5. \A u \in Threads, e \in Slot, c \in Buffers : Entry(u, e, c)' <=> Entry(u, e, c)
  BY <1>2, <1>3, NullAssumption DEF Entry, Closing
<1>6. \A u \in Threads, e \in Slot, c \in Buffers : Entry(u, e, c) => fds'[u][e] = fds[u][e]
  BY <1>2, <1>3 DEF Entry
<1>7. SUFFICES ASSUME BufInv PROVE BufInv'
  BY <1>2, <1>4 DEF IInv
<1>8. OneOwner'
  BY <1>2, <1>5, <1>7 DEF BufInv, OneOwner
<1>9. Backed'
  BY <1>2, <1>5, <1>7 DEF BufInv, Backed
<1>10. Filled'
  BY <1>2, <1>5, <1>6, <1>7 DEF BufInv, Filled, Fits
<1> QED BY <1>8, <1>9, <1>10 DEF BufInv

LEMMA CloseFreeStep ==
  ASSUME IInv, NEW t \in Threads, NEW d \in Slot, CloseFree(t, d)
  PROVE  ControlInv' /\ (stray' \/ BufInv')
<1> DEFINE x == fds[t][d].buf
<1>1. at[t].pc = "idle" /\ life[t] = "runs" /\ at[t].buf = NULL /\ fds[t][d].used
  BY DEF CloseFree, Runs, IInv, ControlInv, ControlOf
<1>2. UNCHANGED <<fds, life, lost, stray>> /\ heap' = Freed(BufOf(fds[t][d]))
  BY DEF CloseFree
<1>3. /\ at'[t].buf = NULL /\ at'[t].pc = "close" /\ at'[t].fd = d
      /\ \A u \in Threads \ {t} : at'[u] = at[u]
  BY DEF CloseFree, Idle, IInv, TypeOK
<1>4. ControlInv'
  BY <1>1, <1>2, <1>3 DEF IInv, ControlInv, ControlOf
<1>5. \A u \in Threads, e \in Slot, c \in Buffers :
        Entry(u, e, c)' <=> Entry(u, e, c) /\ (u # t \/ e # d)
  BY <1>1, <1>2, <1>3 DEF Entry, Closing
<1>6. SUFFICES ASSUME BufInv PROVE BufInv'
  BY <1>2, <1>4 DEF IInv
<1>7. \A c \in Buffers : x = c => /\ heap'[c].size = 0
                               /\ Entry(t, d, c)
                               /\ \A u \in Threads : at[u].buf # c
  BY <1>1, <1>2, <1>6, NullAssumption DEF BufInv, OneOwner, Freed, BufOf, FreeBlock, Entry, Closing
<1>8. \A c \in Buffers : x # c => heap'[c] = heap[c] /\ ~ Entry(t, d, c)
  BY <1>2 DEF Freed, BufOf, Entry
<1>9. \A u \in Threads, c \in Buffers : at'[u].buf = c <=> at[u].buf = c
  BY <1>1, <1>3
<1>10. \A u \in Threads, e \in Slot, c \in Buffers : Entry(u, e, c)' => x # c
  BY <1>5, <1>6, <1>7 DEF BufInv, OneOwner
<1>11. OneOwner'
  BY <1>5, <1>6, <1>9 DEF BufInv, OneOwner
<1>12. Backed'
  <2> SUFFICES ASSUME NEW b \in Buffers
               PROVE  /\ \A u \in Threads, e \in Slot : Entry(u, e, b)' => heap'[b].size > 0
                      /\ \A u \in Threads : at'[u].buf = b => heap'[b].size > 0
                      /\ heap'[b].size > 0 => \/ \E u \in Threads, e \in Slot : Entry(u, e, b)'
                                             \/ \E u \in Threads : at'[u].buf = b
                                             \/ b \in lost'
      BY DEF Backed
  <2>1. CASE x = b
    <3>1. heap'[b].size = 0 /\ ~ (heap'[b].size > 0)
      BY <2>1, <1>7
    <3>2. \A u \in Threads, e \in Slot : ~ Entry(u, e, b)'
      BY <2>1, <1>10
    <3>3. \A u \in Threads : at'[u].buf # b
      BY <2>1, <1>7, <1>9
    <3> QED BY <3>1, <3>2, <3>3
  <2>2. CASE x # b
    <3>1. \A u \in Threads, e \in Slot : Entry(u, e, b)' <=> Entry(u, e, b)
      BY <2>2, <1>5, <1>8
    <3> QED BY <3>1, <2>2, <1>2, <1>6, <1>8, <1>9 DEF BufInv, Backed
  <2> QED BY <2>1, <2>2
<1>13. Filled'
  <2>1. ASSUME NEW b \in Buffers, NEW u \in Threads, NEW e \in Slot, Entry(u, e, b)'
        PROVE  Fits(b, fds[u][e].len)'
    <3>1. Entry(u, e, b) /\ heap'[b] = heap[b] /\ fds'[u][e] = fds[u][e]
      BY <2>1, <1>2, <1>5, <1>8, <1>10
    <3> QED BY <3>1, <1>6 DEF BufInv, Filled, Fits
  <2>2. ASSUME NEW b \in Buffers, NEW u \in Threads, at'[u].pc = "slot", at'[u].buf = b
        PROVE  Fits(b, at[u].len)'
    <3>1. at'[u] = at[u] /\ at[u].buf = b /\ heap'[b] = heap[b]
      BY <2>2, <1>3, <1>7, <1>8, <1>9
    <3> QED BY <3>1, <2>2, <1>6 DEF BufInv, Filled, Fits
  <2> QED BY <2>1, <2>2 DEF Filled
<1> QED BY <1>11, <1>12, <1>13 DEF BufInv

LEMMA CloseClearStep ==
  ASSUME IInv, NEW t \in Threads, CloseClear(t)
  PROVE  ControlInv' /\ (stray' \/ BufInv')
<1> DEFINE d == at[t].fd
<1>1. /\ at[t].pc = "close" /\ life[t] = "runs" /\ at[t].buf = NULL
      /\ d \in Slot /\ fds[t][d].used
  BY DEF CloseClear, Runs, IInv, ControlInv, ControlOf
<1>2. UNCHANGED <<heap, life, lost, stray>>
  BY DEF CloseClear
<1>3. /\ at'[t].buf = NULL /\ at'[t].pc = "idle"
      /\ \A u \in Threads \ {t} : at'[u] = at[u]
  BY DEF CloseClear, Return, Idle, IInv, TypeOK
<1>4. /\ ~ fds'[t][d].used
      /\ \A u \in Threads, e \in Slot : u # t \/ e # d => fds'[u][e] = fds[u][e]
  BY <1>1 DEF CloseClear, Empty, IInv, TypeOK
<1>5. ControlInv'
  BY <1>1, <1>2, <1>3, <1>4 DEF IInv, ControlInv, ControlOf
<1>6. \A u \in Threads, e \in Slot, c \in Buffers : Entry(u, e, c)' <=> Entry(u, e, c)
  BY <1>1, <1>3, <1>4 DEF Entry, Closing
<1>7. \A u \in Threads, e \in Slot, c \in Buffers : Entry(u, e, c) => fds'[u][e] = fds[u][e]
  BY <1>1, <1>4 DEF Entry, Closing
<1>8. \A u \in Threads : at'[u].buf = at[u].buf
  BY <1>1, <1>3
<1>9. SUFFICES ASSUME BufInv PROVE BufInv'
  BY <1>2, <1>5 DEF IInv
<1>10. OneOwner'
  BY <1>6, <1>8, <1>9 DEF BufInv, OneOwner
<1>11. Backed'
  BY <1>2, <1>6, <1>8, <1>9 DEF BufInv, Backed
<1>12. Filled'
  BY <1>2, <1>3, <1>6, <1>7, <1>9, NullAssumption DEF BufInv, Filled, Fits
<1> QED BY <1>10, <1>11, <1>12 DEF BufInv

(* A kill: what an open had in hand is lost, and a close that was under way *)
(* either had a buffer (stray) or had none.                                 *)
LEMMA KillStep ==
  ASSUME IInv, NEW t \in Threads, Kill(t)
  PROVE  ControlInv' /\ (stray' \/ BufInv')
<1>1. UNCHANGED <<file, heap, fds>> /\ lost' = lost \cup BufOf(at[t])
  BY DEF Kill
<1>2. /\ at'[t].buf = NULL /\ at'[t].pc = "idle"
      /\ \A u \in Threads \ {t} : at'[u] = at[u] /\ life'[u] = life[u]
  BY DEF Kill, Return, Idle, IInv, TypeOK
<1>3. ControlInv'
  BY <1>1, <1>2 DEF IInv, ControlInv, ControlOf
<1>4. SUFFICES ASSUME ~ stray' PROVE BufInv'
  BY <1>3
<1>5. BufInv /\ (at[t].pc = "close" => fds[t][at[t].fd].buf = NULL)
  BY <1>4 DEF Kill, IInv
<1>6. \A u \in Threads, e \in Slot, c \in Buffers : Entry(u, e, c)' <=> Entry(u, e, c)
  BY <1>1, <1>2, <1>5, NullAssumption DEF Entry, Closing
<1>7. \A u \in Threads, c \in Buffers : at'[u].buf = c <=> u # t /\ at[u].buf = c
  BY <1>2, NullAssumption
<1>8. OneOwner'
  BY <1>5, <1>6, <1>7 DEF BufInv, OneOwner
<1>9. \A c \in Buffers : c \in lost \/ at[t].buf = c => c \in lost'
  BY <1>1, NullAssumption DEF BufOf
<1>10. Backed'
  BY <1>1, <1>5, <1>6, <1>7, <1>9 DEF BufInv, Backed
<1>11. Filled'
  BY <1>1, <1>2, <1>5, <1>6, <1>7 DEF BufInv, Filled, Fits
<1> QED BY <1>8, <1>10, <1>11 DEF BufInv

(* The reaper frees what the entries of a dead thread hold: blocks that are *)
(* nobody else's.                                                           *)
LEMMA ReapStep ==
  ASSUME IInv, NEW t \in Threads, Reap(t)
  PROVE  ControlInv' /\ (stray' \/ BufInv')
<1>1. UNCHANGED <<file, at, lost, stray>> /\ heap' = Freed(HeldBy(t))
  BY DEF Reap
<1>2. at[t].pc = "idle" /\ at[t].buf = NULL
  BY DEF Reap, IInv, ControlInv, ControlOf
<1>3. /\ \A d \in Slot : fds'[t][d] = Empty
      /\ \A u \in Threads \ {t} : fds'[u] = fds[u] /\ life'[u] = life[u]
  BY DEF Reap, IInv, TypeOK
<1>4. ControlInv'
  BY <1>1, <1>2, <1>3 DEF IInv, ControlInv, ControlOf, Empty
<1>5. \A u \in Threads, e \in Slot, c \in Buffers :
        Entry(u, e, c)' <=> Entry(u, e, c) /\ u # t
  BY <1>1, <1>3 DEF Entry, Closing, Empty
<1>6. \A c \in Buffers : c \in HeldBy(t) <=> \E d \in Slot : Entry(t, d, c)
  BY <1>2, NullAssumption DEF HeldBy, BufOf, Entry, Closing
<1>7. SUFFICES ASSUME BufInv PROVE BufInv'
  BY <1>1, <1>4 DEF IInv
<1>8. \A c \in Buffers : c \in HeldBy(t) =>
        /\ heap'[c].size = 0
        /\ \A u \in Threads : at[u].buf # c
        /\ \A u \in Threads, e \in Slot : Entry(u, e, c) => u = t
  BY <1>1, <1>6, <1>7 DEF BufInv, OneOwner, Freed, FreeBlock
<1>9. \A c \in Buffers : c \notin HeldBy(t) => heap'[c] = heap[c]
  BY <1>1 DEF Freed
<1>10. OneOwner'
  BY <1>1, <1>5, <1>7 DEF BufInv, OneOwner
<1>11. Backed'
  <2> SUFFICES ASSUME NEW b \in Buffers
               PROVE  /\ \A u \in Threads, e \in Slot : Entry(u, e, b)' => heap'[b].size > 0
                      /\ \A u \in Threads : at[u].buf = b => heap'[b].size > 0
                      /\ heap'[b].size > 0 => \/ \E u \in Threads, e \in Slot : Entry(u, e, b)'
                                             \/ \E u \in Threads : at[u].buf = b
                                             \/ b \in lost
      BY <1>1 DEF Backed
  <2>1. CASE b \in HeldBy(t)
    <3>1. heap'[b].size = 0 /\ ~ (heap'[b].size > 0)
      BY <2>1, <1>8
    <3>2. \A u \in Threads, e \in Slot : ~ Entry(u, e, b)'
      BY <2>1, <1>5, <1>8
    <3>3. \A u \in Threads : at[u].buf # b
      BY <2>1, <1>8
    <3> QED BY <3>1, <3>2, <3>3
  <2>2. CASE b \notin HeldBy(t)
    <3>1. \A u \in Threads, e \in Slot : Entry(u, e, b)' <=> Entry(u, e, b)
      BY <2>2, <1>5, <1>6
    <3> QED BY <3>1, <2>2, <1>7, <1>9 DEF BufInv, Backed
  <2> QED BY <2>1, <2>2
<1>12. Filled'
  <2>1. ASSUME NEW b \in Buffers, NEW u \in Threads, NEW e \in Slot, Entry(u, e, b)'
        PROVE  Fits(b, fds[u][e].len)'
    <3>1. Entry(u, e, b) /\ u # t /\ b \notin HeldBy(t)
      BY <2>1, <1>5, <1>8
    <3> QED BY <3>1, <1>3, <1>7, <1>9 DEF BufInv, Filled, Fits
  <2>2. ASSUME NEW b \in Buffers, NEW u \in Threads, at'[u].pc = "slot", at'[u].buf = b
        PROVE  Fits(b, at[u].len)'
    <3>1. b \notin HeldBy(t)
      BY <2>2, <1>1, <1>8
    <3> QED BY <3>1, <2>2, <1>1, <1>7, <1>9 DEF BufInv, Filled, Fits
  <2> QED BY <2>1, <2>2 DEF Filled
<1> QED BY <1>10, <1>11, <1>12 DEF BufInv

LEMMA IInvStep == IInv /\ [Next]_vars => IInv'
<1> SUFFICES ASSUME IInv, [Next]_vars PROVE IInv'
    OBVIOUS
<1>1. TypeOK'
  BY TypeStep DEF IInv
<1>2. SUFFICES ControlInv' /\ (stray' \/ BufInv')
  BY <1>1 DEF IInv
<1>3. ASSUME NEW t \in Threads, NEW d \in Slot, NEW p, UNCHANGED <<heap, life, at, lost, stray>>,
             fds' = [fds EXCEPT ![t][d].pos = p]
      PROVE  ControlInv' /\ (stray' \/ BufInv')
  <2>1. \A u \in Threads, e \in Slot : /\ fds'[u][e].used <=> fds[u][e].used
                                       /\ fds'[u][e].buf = fds[u][e].buf
                                       /\ fds'[u][e].len = fds[u][e].len
    BY <1>3 DEF IInv, TypeOK, EntryType
  <2> QED BY <1>3, <2>1, EntriesMove
<1>4. ASSUME NEW t \in Threads, Step(t) PROVE ControlInv' /\ (stray' \/ BufInv')
  BY <1>4, OpenExistsStep, OpenLengthStep, OpenAllocStep, OpenReadStep, OpenSlotStep, CloseClearStep DEF Step
<1>5. ASSUME NEW t \in Threads, NEW d \in Slot, NEW n, Read(t, d, n) PROVE ControlInv' /\ (stray' \/ BufInv')
  <2>1. fds' = [fds EXCEPT ![t][d].pos = fds[t][d].pos + Taken(fds[t][d], n)]
    BY <1>5 DEF Read
  <2>2. UNCHANGED <<heap, life, at, lost, stray>>
    BY <1>5 DEF Read
  <2> QED BY <2>1, <2>2, <1>3
<1>6. ASSUME NEW t \in Threads, NEW d \in Slot, NEW s \in Texts, Write(t, d, s)
      PROVE  ControlInv' /\ (stray' \/ BufInv')
  <2>1. UNCHANGED <<heap, life, at, lost, stray>>
    BY <1>6 DEF Write
  <2>2. CASE fds' = [fds EXCEPT ![t][d].pos = Len(s)]
    BY <2>1, <2>2, <1>3
  <2>3. CASE UNCHANGED fds
    BY <2>1, <2>3, EntriesMove
  <2> QED BY <2>2, <2>3, <1>6 DEF Write
<1>7. ASSUME NEW t \in Threads, NEW d \in Slot, NEW base, NEW o, Lseek(t, d, base, o)
      PROVE  ControlInv' /\ (stray' \/ BufInv')
  <2>1. fds' = [fds EXCEPT ![t][d].pos = Clamped(base + o, fds[t][d].len)]
    BY <1>7 DEF Lseek
  <2>2. UNCHANGED <<heap, life, at, lost, stray>>
    BY <1>7 DEF Lseek
  <2> QED BY <2>1, <2>2, <1>3
<1>8. ASSUME UNCHANGED <<heap, fds, life, at, lost, stray>> PROVE ControlInv' /\ (stray' \/ BufInv')
  BY <1>8, EntriesMove
<1>9. CASE UNCHANGED vars
  BY <1>9, <1>8 DEF vars
<1>10. ASSUME NEW f \in Files, RemoveFile(f) PROVE ControlInv' /\ (stray' \/ BufInv')
  BY <1>10, <1>8 DEF RemoveFile
<1> QED BY <1>4, <1>5, <1>6, <1>7, <1>9, <1>10, OpenCallStep, OpenDevStep, CloseFreeStep, KillStep, ReapStep
        DEF Next

-----------------------------------------------------------------------------
(* Theorems                                                                 *)

(* Wherever opens, closes, kills and the reaper interleave: the owners of   *)
(* blocks are as fd_open and fd_close leave them.                           *)
THEOREM SpecIInv == Spec => []IInv
BY InitIInv, IInvStep, PTL DEF Spec

LEMMA OwnersAre ==
  ASSUME IInv, NEW b \in Buffers, NEW o
  PROVE  o \in Owners(b) <=> \/ \E t \in Threads, d \in Slot : o = <<t, d>> /\ Entry(t, d, b)
                           \/ \E t \in Threads : o = <<t, -1>> /\ at[t].buf = b
<1>1. \A t \in Threads : at[t].buf = b => life[t] = "runs"
  BY NullAssumption DEF IInv, ControlInv, ControlOf
<1> QED BY <1>1 DEF Owners, Entry

(* The entry of fd_close and its caller's table are the only ones that know *)
(* a buffer: it is never freed while another descriptor uses it.            *)
THEOREM SpecNoSharedBuffer == Spec => []NoSharedBuffer
<1>1. ASSUME IInv PROVE NoSharedBuffer
  <2> SUFFICES ASSUME ~ stray, NEW b \in Buffers
               PROVE  /\ \A o, p \in Owners(b) : o = p
                      /\ Owners(b) # {} => heap[b].size > 0
      BY DEF NoSharedBuffer
  <2>1. BufInv
    BY <1>1 DEF IInv
  <2>2. ASSUME NEW o \in Owners(b), NEW p \in Owners(b) PROVE o = p
    BY <2>1, <1>1, OwnersAre DEF BufInv, OneOwner
  <2>3. ASSUME NEW o \in Owners(b) PROVE heap[b].size > 0
    BY <2>1, <1>1, OwnersAre DEF BufInv, Backed
  <2> QED BY <2>2, <2>3
<1> QED BY <1>1, SpecIInv, PTL

(* fd_open frees its buffer on every path that fails, and the reaper frees  *)
(* what a dead thread has open.                                             *)
THEOREM SpecNoBufferForgotten == Spec => []NoBufferForgotten
<1>1. ASSUME IInv PROVE NoBufferForgotten
  <2> SUFFICES ASSUME ~ stray, NEW b \in Buffers, heap[b].size > 0, b \notin lost
               PROVE  Owners(b) # {}
      BY DEF NoBufferForgotten
  <2>1. \/ \E t \in Threads, d \in Slot : Entry(t, d, b)
        \/ \E t \in Threads : at[t].buf = b
    BY <1>1 DEF IInv, BufInv, Backed
  <2> QED BY <2>1, <1>1, OwnersAre
<1> QED BY <1>1, SpecIInv, PTL

(* file_len is the length of what fd_open read, in a buffer of that size.   *)
THEOREM SpecSnapshotFits == Spec => []SnapshotFits
<1>1. ASSUME IInv PROVE SnapshotFits
  <2> SUFFICES ASSUME NEW t \in Threads, NEW d \in Slot, fds[t][d].used, fds[t][d].len > 0,
                      ~ Closing(t, d), ~ stray
               PROVE  /\ fds[t][d].buf # NULL
                      /\ fds[t][d].len <= heap[fds[t][d].buf].size
                      /\ fds[t][d].len = Len(heap[fds[t][d].buf].text)
      BY DEF SnapshotFits
  <2>1. fds[t][d].buf # NULL
    BY <1>1 DEF IInv, ControlInv, ControlOf
  <2>2. fds[t][d] \in EntryType
    BY <1>1 DEF IInv, TypeOK
  <2>3. fds[t][d].buf \in Buffers
    BY <2>1, <2>2 DEF EntryType
  <2> QED BY <2>1, <2>3, <1>1 DEF IInv, BufInv, Filled, Fits, Entry
<1> QED BY <1>1, SpecIInv, PTL

(* What the block of an open descriptor holds only its own open has put     *)
(* there: no step of anybody writes to it or frees it.                      *)
LEMMA SnapshotStep ==
  ASSUME IInv, [Next]_vars, NEW t \in Threads, NEW d \in Slot,
         fds[t][d].used, fds'[t][d].used, ~ Closing(t, d)', ~ stray'
  PROVE  Bytes(t, d)' = Bytes(t, d)
<1> DEFINE e == fds[t][d]
           b == fds[t][d].buf
<1>1. ASSUME fds'[t][d].len = e.len, fds'[t][d].buf = b, e.len # 0 => heap'[b].text = heap[b].text
      PROVE  Bytes(t, d)' = Bytes(t, d)
  BY <1>1 DEF Bytes
<1>2. e.len # 0 => b # NULL
  BY DEF IInv, ControlInv, ControlOf
<1>3. /\ e \in EntryType
      /\ fds \in [Threads -> [Slot -> EntryType]]
  BY DEF IInv, TypeOK
<1>4. e.len # 0 => b \in Buffers
  BY <1>2, <1>3 DEF EntryType
<1>5. ASSUME UNCHANGED <<fds, heap>> PROVE Bytes(t, d)' = Bytes(t, d)
  BY <1>5, <1>1
<1>6. ASSUME NEW u \in Threads, NEW x \in Slot, NEW p, UNCHANGED heap,
             fds' = [fds EXCEPT ![u][x].pos = p]
      PROVE  Bytes(t, d)' = Bytes(t, d)
  <2>1. fds'[t][d].len = e.len /\ fds'[t][d].buf = b
    BY <1>3, <1>6 DEF EntryType
  <2> QED BY <2>1, <1>1, <1>6
<1>7. ASSUME NEW u \in Threads, NEW x \in FirstFree(u), NEW r, UNCHANGED heap,
             fds' = [fds EXCEPT ![u][x] = r]
      PROVE  Bytes(t, d)' = Bytes(t, d)
  <2>1. u # t \/ x # d
    BY DEF FirstFree, FreeSlots
  <2>2. fds'[t][d] = e
    BY <2>1, <1>3, <1>7 DEF FirstFree, FreeSlots
  <2> QED BY <2>2, <1>1, <1>7
<1>9. ~ stray /\ ~ Closing(t, d) => BufInv /\ (b \in Buffers => Entry(t, d, b))
  BY DEF IInv, Entry
<1>10. ASSUME NEW u \in Threads, OpenAlloc(u) PROVE Bytes(t, d)' = Bytes(t, d)
  <2>1. UNCHANGED <<fds, stray>> /\ at[u].pc = "alloc"
    BY <1>10 DEF OpenAlloc, Runs
  <2>2. CASE UNCHANGED heap
    BY <2>1, <2>2, <1>5
  <2>3. ASSUME NEW c \in Buffers, Kmalloc(c, at[u].len), at' = [at EXCEPT ![u].buf = c, ![u].pc = "read"]
        PROVE  Bytes(t, d)' = Bytes(t, d)
    <3>1. ~ Closing(t, d)
      BY <2>1, <2>3 DEF Closing, IInv, TypeOK, CallType
    <3>2. e.len # 0 => b # c
      BY <2>1, <2>3, <3>1, <1>4, <1>9 DEF BufInv, Backed, Kmalloc
    <3>3. e.len # 0 => heap'[b] = heap[b]
      BY <3>2, <2>3, <1>4 DEF Kmalloc, IInv, TypeOK
    <3> QED BY <3>3, <2>1, <1>1
  <2> QED BY <2>2, <2>3, <1>10 DEF OpenAlloc
<1>11. ASSUME NEW u \in Threads, OpenRead(u) PROVE Bytes(t, d)' = Bytes(t, d)
  <2>1. UNCHANGED <<fds, stray>> /\ at[u].pc = "read"
    BY <1>11 DEF OpenRead, Runs
  <2>2. at[t].pc = "close" => u # t /\ at'[t] = at[t]
    BY <2>1, <1>11 DEF OpenRead, ReadFails, Return, IInv, TypeOK
  <2>3. ~ Closing(t, d)
    BY <2>2 DEF Closing
  <2>4. e.len # 0 => b # at[u].buf
    BY <2>1, <2>3, <1>4, <1>9 DEF BufInv, OneOwner
  <2>5. e.len # 0 => heap'[b] = heap[b]
    BY <2>4, <1>4, <1>11 DEF OpenRead, ReadFails, Freed, IInv, TypeOK
  <2> QED BY <2>1, <2>5, <1>1
<1>12. ASSUME NEW u \in Threads, OpenSlot(u) PROVE Bytes(t, d)' = Bytes(t, d)
  <2>1. at[u].pc = "slot" /\ UNCHANGED stray /\ Return(u)
    BY <1>12 DEF OpenSlot, Runs
  <2>2. CASE UNCHANGED fds /\ heap' = Freed(GiveBack(BufOf(at[u])))
    <3>1. at[t].pc = "close" => u # t /\ at'[t] = at[t]
      BY <2>1 DEF Return, IInv, TypeOK
    <3>2. ~ Closing(t, d)
      BY <3>1 DEF Closing
    <3>3. e.len # 0 => b # at[u].buf
      BY <2>1, <3>2, <1>4, <1>9 DEF BufInv, OneOwner
    <3>4. e.len # 0 => heap'[b] = heap[b]
      BY <3>3, <2>2, <1>4 DEF Freed, GiveBack, BufOf
    <3> QED BY <3>4, <2>2, <1>1
  <2> QED BY <2>2, <1>7, <1>12 DEF OpenSlot
<1>13. ASSUME NEW u \in Threads, NEW x \in Slot, CloseFree(u, x) PROVE Bytes(t, d)' = Bytes(t, d)
  <2>1. /\ at[u].pc = "idle" /\ fds[u][x].used
        /\ at' = [at EXCEPT ![u] = [Idle EXCEPT !.pc = "close", !.fd = x]]
        /\ heap' = Freed(BufOf(fds[u][x])) /\ UNCHANGED <<fds, stray>>
    BY <1>13 DEF CloseFree, Runs
  <2>2. u # t \/ x # d
    BY <2>1 DEF Closing, Idle, IInv, TypeOK
  <2>3. ~ Closing(t, d) /\ ~ Closing(u, x)
    BY <2>1 DEF Closing, IInv, TypeOK
  <2>4. e.len # 0 => b # fds[u][x].buf
    BY <2>1, <2>2, <2>3, <1>4, <1>9 DEF BufInv, OneOwner, Entry
  <2>5. e.len # 0 => heap'[b] = heap[b]
    BY <2>1, <2>4, <1>4 DEF Freed, BufOf
  <2> QED BY <2>1, <2>5, <1>1
<1>14. ASSUME NEW u \in Threads, CloseClear(u) PROVE Bytes(t, d)' = Bytes(t, d)
  <2>1. at[u].fd \in Slot /\ fds' = [fds EXCEPT ![u][at[u].fd] = Empty] /\ UNCHANGED heap
    BY <1>14 DEF CloseClear, Runs, IInv, ControlInv, ControlOf
  <2>2. u # t \/ at[u].fd # d
    BY <2>1, <1>3 DEF Empty
  <2>3. fds'[t][d] = e
    BY <2>1, <2>2, <1>3
  <2> QED BY <2>1, <2>3, <1>1
<1>15. ASSUME NEW u \in Threads, Reap(u) PROVE Bytes(t, d)' = Bytes(t, d)
  <2>1. /\ fds' = [fds EXCEPT ![u] = [x \in Slot |-> Empty]]
        /\ heap' = Freed(HeldBy(u)) /\ UNCHANGED <<at, stray>>
    BY <1>15 DEF Reap
  <2>2. u # t
    BY <2>1, <1>3 DEF Empty
  <2>3. fds'[t][d] = e
    BY <2>1, <2>2, <1>3
  <2>4. at[u].pc = "idle" /\ ~ Closing(t, d)
    BY <2>1, <1>15 DEF Reap, Closing, IInv, ControlInv, ControlOf
  <2>5. e.len # 0 => b \notin HeldBy(u)
    BY <2>1, <2>2, <2>4, <1>4, <1>9, NullAssumption DEF HeldBy, BufOf, BufInv, OneOwner, Entry, Closing
  <2>6. e.len # 0 => heap'[b] = heap[b]
    BY <2>1, <2>5, <1>4 DEF Freed
  <2> QED BY <2>3, <2>6, <1>1
<1>16. ASSUME NEW u \in Threads, NEW m, OpenDev(u, m) PROVE Bytes(t, d)' = Bytes(t, d)
  BY <1>16, <1>7 DEF OpenDev
<1>17. ASSUME NEW u \in Threads, NEW x \in Slot, NEW n, Read(u, x, n) PROVE Bytes(t, d)' = Bytes(t, d)
  <2>1. UNCHANGED heap /\ fds' = [fds EXCEPT ![u][x].pos = fds[u][x].pos + Taken(fds[u][x], n)]
    BY <1>17 DEF Read
  <2> QED BY <2>1, <1>6
<1>18. ASSUME NEW u \in Threads, NEW x \in Slot, NEW s, Write(u, x, s) PROVE Bytes(t, d)' = Bytes(t, d)
  <2>1. UNCHANGED heap /\ (UNCHANGED fds \/ fds' = [fds EXCEPT ![u][x].pos = Len(s)])
    BY <1>18 DEF Write
  <2> QED BY <2>1, <1>5, <1>6
<1>19. ASSUME NEW u \in Threads, NEW x \in Slot, NEW base, NEW o, Lseek(u, x, base, o)
       PROVE  Bytes(t, d)' = Bytes(t, d)
  <2>1. UNCHANGED heap /\ fds' = [fds EXCEPT ![u][x].pos = Clamped(base + o, fds[u][x].len)]
    BY <1>19 DEF Lseek
  <2> QED BY <2>1, <1>6
<1>20. ASSUME NEW u \in Threads, NEW f, NEW m, OpenCall(u, f, m) PROVE Bytes(t, d)' = Bytes(t, d)
  BY <1>20, <1>5 DEF OpenCall
<1>21. ASSUME NEW u \in Threads, OpenExists(u) \/ OpenLength(u) \/ Kill(u) PROVE Bytes(t, d)' = Bytes(t, d)
  BY <1>21, <1>5 DEF OpenExists, OpenLength, Kill
<1>22. ASSUME NEW f, RemoveFile(f) PROVE Bytes(t, d)' = Bytes(t, d)
  BY <1>22, <1>5 DEF RemoveFile
<1>23. CASE UNCHANGED vars
  BY <1>23, <1>5 DEF vars
<1> QED BY <1>10, <1>11, <1>12, <1>13, <1>14, <1>15, <1>16, <1>17, <1>18, <1>19, <1>20, <1>21, <1>22, <1>23
        DEF Next, Step

(* A descriptor reads what was in the file when it was opened, for as long  *)
(* as it is open.                                                           *)
THEOREM SpecSnapshotStable == Spec => SnapshotStable
<1>1. IInv /\ [Next]_vars =>
      [\A t \in Threads, d \in Slot :
         fds[t][d].used /\ fds'[t][d].used /\ ~Closing(t, d)' /\ ~stray'
           => Bytes(t, d)' = Bytes(t, d)]_vars
  BY SnapshotStep
<1> QED BY <1>1, SpecIInv, PTL DEF Spec, SnapshotStable

-----------------------------------------------------------------------------
(* The RAM file system.  First: lists, and the least of some numbers.       *)

Once(q) == \A i, j \in DOMAIN q : q[i] = q[j] => i = j

LEMMA LeastNumber ==
  ASSUME NEW S \in SUBSET Nat, S # {}
  PROVE  \E k \in S : \A i \in S : k <= i
<1> DEFINE R == OpToRel(<, Nat)
<1>1. ASSUME NEW a \in Nat, NEW b \in Nat, a < b PROVE <<a, b>> \in R
  BY <1>1 DEF OpToRel
<1>2. IsWellFoundedOn(R, Nat)
  BY NatLessThanWellFounded
<1> HIDE DEF R
<1>3. PICK k \in S : \A i \in S : ~ (<<i, k>> \in R)
  BY <1>2, WFMin
<1>4. ASSUME NEW i \in S PROVE k <= i
  <2>1. ~ (i < k)
    BY <1>1, <1>3
  <2> QED
    BY <2>1
<1> QED
  BY <1>3, <1>4

LEMMA AppendFacts ==
  ASSUME NEW T, NEW q \in Seq(T), NEW x \in T, Once(q), x \notin ToSet(q)
  PROVE  /\ Append(q, x) \in Seq(T) /\ Len(Append(q, x)) = Len(q) + 1
         /\ Once(Append(q, x))
         /\ ToSet(Append(q, x)) = ToSet(q) \cup {x}
<1> DEFINE r == Append(q, x)
<1>1. /\ r \in Seq(T) /\ Len(r) = Len(q) + 1
      /\ \A i \in 1 .. Len(q) : r[i] = q[i]
      /\ r[Len(q) + 1] = x
  BY AppendProperties
<1>2. Len(q) \in Nat /\ DOMAIN q = 1 .. Len(q) /\ DOMAIN r = 1 .. Len(q) + 1
  BY <1>1
<1> HIDE DEF r
<1>3. Once(r)
  BY <1>1, <1>2 DEF Once, ToSet
<1>4. ToSet(r) = ToSet(q) \cup {x}
  <2>1. ASSUME NEW y \in ToSet(r) PROVE y \in ToSet(q) \cup {x}
    BY <1>1, <1>2 DEF ToSet
  <2>2. ASSUME NEW y \in ToSet(q) PROVE y \in ToSet(r)
    BY <1>1, <1>2 DEF ToSet
  <2>3. x \in ToSet(r)
    BY <1>1, <1>2 DEF ToSet
  <2> QED
    BY <2>1, <2>2, <2>3
<1> QED
  BY <1>1, <1>3, <1>4 DEF r

(* ramfs_detach_child takes the one entry of the child away. *)
LEMMA DetachFacts ==
  ASSUME NEW T, NEW q \in Seq(T), NEW x \in ToSet(q), Once(q)
  PROVE  /\ Detached(q, x) \in Seq(T) /\ Len(Detached(q, x)) = Len(q) - 1
         /\ Once(Detached(q, x))
         /\ ToSet(Detached(q, x)) = ToSet(q) \ {x}
<1> DEFINE k == CHOOSE i \in 1 .. Len(q) : q[i] = x
           a == SubSeq(q, 1, k - 1)
           b == SubSeq(q, k + 1, Len(q))
           r == Detached(q, x)
           old(i) == IF i < k THEN i ELSE i + 1
<1>1. Len(q) \in Nat /\ DOMAIN q = 1 .. Len(q)
  OBVIOUS
<1>2. k \in 1 .. Len(q) /\ q[k] = x
  <2>1. \E i \in 1 .. Len(q) : q[i] = x
    BY <1>1 DEF ToSet
  <2> QED
    BY <2>1
<1>3. r = a \o b
  BY DEF Detached, RemoveAt
<1> HIDE DEF k
<1>4. a \in Seq(T) /\ Len(a) = k - 1 /\ \A i \in 1 .. k - 1 : a[i] = q[i]
  BY <1>1, <1>2
<1>5. b \in Seq(T) /\ Len(b) = Len(q) - k /\ \A i \in 1 .. Len(q) - k : b[i] = q[i + k]
  <2>1. k + 1 \in Int /\ Len(q) \in Int /\ \A i \in k + 1 .. Len(q) : q[i] \in T
    BY <1>1, <1>2
  <2>2. /\ b \in Seq(T) /\ Len(b) = (IF k + 1 <= Len(q) THEN Len(q) - (k + 1) + 1 ELSE 0)
        /\ \A i \in 1 .. Len(q) - (k + 1) + 1 : b[i] = q[k + 1 + i - 1]
    BY <2>1, SubSeqProperties
  <2> HIDE DEF b
  <2>3. Len(b) = Len(q) - k
    BY <2>2, <1>1, <1>2
  <2>4. ASSUME NEW i \in 1 .. Len(q) - k PROVE b[i] = q[i + k]
    <3>1. i \in 1 .. Len(q) - (k + 1) + 1 /\ k + 1 + i - 1 = i + k
      BY <1>1, <1>2
    <3> QED
      BY <3>1, <2>2
  <2> QED
    BY <2>2, <2>3, <2>4
<1> HIDE DEF a, b, r
<1>6. /\ a \o b \in Seq(T) /\ Len(a \o b) = Len(a) + Len(b)
      /\ \A i \in 1 .. Len(a) + Len(b) : (a \o b)[i] = IF i <= Len(a) THEN a[i] ELSE b[i - Len(a)]
  BY <1>4, <1>5, ConcatProperties
<1>7. r \in Seq(T) /\ Len(r) = Len(q) - 1 /\ DOMAIN r = 1 .. Len(q) - 1
  <2>1. r \in Seq(T) /\ Len(r) = Len(q) - 1
    BY <1>1, <1>2, <1>3, <1>4, <1>5, <1>6
  <2>2. DOMAIN r = 1 .. Len(r)
    BY <2>1
  <2> QED
    BY <2>1, <2>2
<1>8. ASSUME NEW i \in 1 .. Len(q) - 1
      PROVE  r[i] = q[old(i)] /\ old(i) \in 1 .. Len(q) /\ old(i) # k
  <2>1. CASE i < k
    <3>1. i \in 1 .. Len(a) + Len(b) /\ i <= Len(a) /\ i \in 1 .. k - 1
      BY <1>1, <1>2, <1>4, <1>5, <2>1
    <3>2. r[i] = a[i]
      BY <3>1, <1>3, <1>6
    <3> QED
      BY <3>1, <3>2, <2>1, <1>1, <1>2, <1>4
  <2>2. CASE ~(i < k)
    <3>1. /\ i \in 1 .. Len(a) + Len(b) /\ ~(i <= Len(a)) /\ i - Len(a) = i - (k - 1)
          /\ i - (k - 1) \in 1 .. Len(q) - k /\ i - (k - 1) + k = i + 1
      BY <1>1, <1>2, <1>4, <1>5, <2>2
    <3>2. r[i] = b[i - (k - 1)]
      BY <3>1, <1>3, <1>6
    <3>3. b[i - (k - 1)] = q[i - (k - 1) + k]
      BY <3>1, <1>5
    <3> QED
      BY <3>1, <3>2, <3>3, <2>2, <1>1, <1>2
  <2> QED
    BY <2>1, <2>2
<1>9. ASSUME NEW i \in 1 .. Len(q) - 1, NEW j \in 1 .. Len(q) - 1, old(i) = old(j) PROVE i = j
  BY <1>9, <1>1, <1>2
<1>10. ASSUME NEW m \in 1 .. Len(q), m # k PROVE \E i \in 1 .. Len(q) - 1 : old(i) = m
  <2>1. CASE m < k
    BY <2>1, <1>1, <1>2
  <2>2. CASE m > k
    <3>1. m - 1 \in 1 .. Len(q) - 1 /\ ~(m - 1 < k) /\ m - 1 + 1 = m
      BY <2>2, <1>1, <1>2
    <3> QED
      BY <3>1
  <2> QED
    BY <2>1, <2>2, <1>10, <1>2
<1> HIDE DEF old
<1>11. Once(r)
  <2> SUFFICES ASSUME NEW i \in 1 .. Len(q) - 1, NEW j \in 1 .. Len(q) - 1, r[i] = r[j] PROVE i = j
    BY <1>7 DEF Once
  <2>1. q[old(i)] = q[old(j)]
    BY <1>8
  <2>2. old(i) = old(j)
    BY <2>1, <1>1, <1>8 DEF Once
  <2> QED
    BY <2>2, <1>9
<1>12. ASSUME NEW y \in ToSet(r) PROVE y \in ToSet(q) \ {x}
  <2>1. PICK i \in 1 .. Len(q) - 1 : y = r[i]
    BY <1>7 DEF ToSet
  <2>2. y = q[old(i)] /\ old(i) \in DOMAIN q /\ old(i) # k /\ k \in DOMAIN q
    BY <2>1, <1>1, <1>2, <1>8
  <2> QED
    BY <2>2, <1>2 DEF Once, ToSet
<1>13. ASSUME NEW y \in ToSet(q) \ {x} PROVE y \in ToSet(r)
  <2>1. PICK m \in 1 .. Len(q) : y = q[m] /\ m # k
    BY <1>1, <1>2 DEF ToSet
  <2>2. PICK i \in 1 .. Len(q) - 1 : old(i) = m
    BY <2>1, <1>10
  <2> QED
    BY <2>1, <2>2, <1>7, <1>8 DEF ToSet
<1> QED
  BY <1>7, <1>11, <1>12, <1>13 DEF r

-----------------------------------------------------------------------------
(* The tree, with its child lists as sets.                                  *)

(* What a directory lists: entries of its own, in use, one for each name. *)
EntryOf(us, di, pa, c, d) == di[d] /\ us[c] /\ c # Root /\ pa[c] = d
Listing(us, di, pa, na, ch) ==
  /\ \A d \in Node : Once(ch[d])
  /\ \A d \in Node : \A c \in ToSet(ch[d]) : EntryOf(us, di, pa, c, d)
  /\ \A d \in Node : \A b, c \in ToSet(ch[d]) : na[b] = na[c] => b = c

(* The same with the places in the lists, as Listed puts it. *)
Placed(us, di, pa, na, ch) ==
  \A d \in Node : \A i \in 1 .. Len(ch[d]) :
    /\ EntryOf(us, di, pa, ch[d][i], d)
    /\ \A j \in 1 .. Len(ch[d]) : na[ch[d][j]] = na[ch[d][i]] => i = j

(* Nodes not in use hold nothing. *)
Cleared(us, di, ca) == \A n \in Node : ~us[n] => ~di[n] /\ ca[n] = 0

(* Nodes in use are listed, but for those that were lost. *)
Kept(us, pa, ch, cu) == \A n \in Node \ (cu \cup {Root}) : us[n] => n \in ToSet(ch[pa[n]])

PlaceKept(us, pa, ch, cu) ==
  \A n \in Node \ (cu \cup {Root}) :
    us[n] => \E i \in 1 .. Len(ch[pa[n]]) : ch[pa[n]][i] = n

(* What is closed under listing and holds the root and what was lost, holds *)
(* all nodes in use.                                                        *)
Rooted(us, ch, cu) ==
  \A S \in SUBSET Node :
    {Root} \cup cu \subseteq S /\ (\A d \in S : ToSet(ch[d]) \subseteq S)
      => \A n \in Node : us[n] => n \in S

LinkTypes(us, di, pa, na, ch) ==
  /\ us \in [Node -> BOOLEAN] /\ di \in [Node -> BOOLEAN]
  /\ pa \in [Node -> Node] /\ na \in [Node -> Names \cup {NoName}]
  /\ ch \in [Node -> Seq(Node)]
  /\ \A n \in Node : Len(ch[n]) <= MaxChildren

Tree(us, di, pa, na, ch, cu) ==
  /\ LinkTypes(us, di, pa, na, ch) /\ cu \subseteq Node
  /\ us[Root] /\ di[Root]
  /\ \A n \in Node : ~us[n] => ~di[n]
  /\ Listing(us, di, pa, na, ch)
  /\ Kept(us, pa, ch, cu)
  /\ Rooted(us, ch, cu)

LEMMA RootNode == Root \in Node /\ None \notin Node
BY TableAssumption DEF Root, None, Node

LEMMA ListingFacts ==
  ASSUME NEW us, NEW di, NEW pa, NEW na, NEW ch \in [Node -> Seq(Node)]
  PROVE  Placed(us, di, pa, na, ch) <=> Listing(us, di, pa, na, ch)
<1>1. \A d \in Node : DOMAIN ch[d] = 1 .. Len(ch[d])
  OBVIOUS
<1>2. ASSUME Placed(us, di, pa, na, ch) PROVE Listing(us, di, pa, na, ch)
  <2>1. ASSUME NEW d \in Node, NEW c \in ToSet(ch[d])
        PROVE  \E i \in 1 .. Len(ch[d]) : c = ch[d][i]
    BY <1>1 DEF ToSet
  <2>2. \A d \in Node : Once(ch[d])
    BY <1>1, <1>2 DEF Placed, Once
  <2>3. ASSUME NEW d \in Node, NEW c \in ToSet(ch[d]) PROVE EntryOf(us, di, pa, c, d)
    <3>1. PICK i \in 1 .. Len(ch[d]) : c = ch[d][i]
      BY <2>1
    <3>2. EntryOf(us, di, pa, ch[d][i], d)
      BY <1>2 DEF Placed
    <3> QED
      BY <3>1, <3>2
  <2>4. ASSUME NEW d \in Node, NEW b \in ToSet(ch[d]), NEW c \in ToSet(ch[d]), na[b] = na[c] PROVE b = c
    BY <1>2, <2>1, <2>4 DEF Placed
  <2> QED
    BY <2>2, <2>3, <2>4 DEF Listing
<1>3. ASSUME Listing(us, di, pa, na, ch), NEW d \in Node, NEW i \in 1 .. Len(ch[d])
      PROVE  /\ EntryOf(us, di, pa, ch[d][i], d)
             /\ \A j \in 1 .. Len(ch[d]) : na[ch[d][j]] = na[ch[d][i]] => i = j
  <2>1. \A j \in 1 .. Len(ch[d]) : ch[d][j] \in ToSet(ch[d])
    BY <1>1 DEF ToSet
  <2> QED
    BY <1>1, <1>3, <2>1 DEF Listing, Once
<1> QED
  BY <1>2, <1>3 DEF Placed

LEMMA KeptFacts ==
  ASSUME NEW us, NEW pa \in [Node -> Node], NEW ch \in [Node -> Seq(Node)], NEW cu
  PROVE  PlaceKept(us, pa, ch, cu) <=> Kept(us, pa, ch, cu)
<1>1. \A n \in Node : DOMAIN ch[pa[n]] = 1 .. Len(ch[pa[n]])
  OBVIOUS
<1> QED
  BY <1>1 DEF Kept, PlaceKept, ToSet

(* What the invariant says, in these terms. *)
LEMMA InvTree ==
  ASSUME RamInv
  PROVE  /\ Tree(used, dir, parent, name, children, cut)
         /\ Cleared(used, dir, capacity)
         /\ used[call.at] /\ dir[call.at]
<1>1. LinkTypes(used, dir, parent, name, children) /\ cut \subseteq Node
  BY DEF RamInv, RamTypeOK, LinkTypes
<1>2. Listing(used, dir, parent, name, children)
  <2>1. Placed(used, dir, parent, name, children)
    BY DEF RamInv, LinksAgree, Listed, Placed, EntryOf
  <2> QED
    BY <1>1, <2>1, ListingFacts DEF LinkTypes
<1>3. Kept(used, parent, children, cut)
  <2>1. PlaceKept(used, parent, children, cut)
    BY DEF RamInv, LinksAgree, NotForgotten, PlaceKept
  <2> QED
    BY <1>1, <2>1, KeptFacts DEF LinkTypes
<1>4. Rooted(used, children, cut)
  BY DEF RamInv, NothingLost, Reached, Closed, Rooted
<1>5. Cleared(used, dir, capacity)
  BY DEF RamInv, LinksAgree, Listed, Cleared
<1> QED
  BY <1>1, <1>2, <1>3, <1>4, <1>5 DEF RamInv, LinksAgree, Tree, Cleared

ByteTypes(da, si, ca, po) ==
  /\ da \in [Node -> Nat] /\ si \in [Node -> Nat] /\ ca \in [Node -> Nat]
  /\ po \in Seq(Nat) /\ Len(po) <= PoolBytes

LEMMA TreeInv ==
  ASSUME Tree(used', dir', parent', name', children', cut'),
         Cleared(used', dir', capacity'),
         ByteTypes(data', size', capacity', pool'), ExtentsDisjoint',
         call' \in [at : Node, rest : Seq(Names)], used'[call'.at], dir'[call'.at]
  PROVE  RamInv'
<1>1. LinkTypes(used', dir', parent', name', children') /\ cut' \subseteq Node
  BY DEF Tree
<1>2. RamTypeOK'
  BY <1>1 DEF LinkTypes, ByteTypes, RamTypeOK
<1>3. Listed'
  <2>1. Placed(used', dir', parent', name', children')
    BY <1>1, ListingFacts DEF Tree, LinkTypes
  <2> QED
    BY <2>1 DEF Listed, Cleared, Placed, EntryOf
<1>4. NotForgotten'
  <2>1. PlaceKept(used', parent', children', cut')
    BY <1>1, KeptFacts DEF Tree, LinkTypes
  <2> QED
    BY <2>1 DEF PlaceKept, NotForgotten
<1>5. NothingLost'
  BY DEF Tree, NothingLost, Reached, Closed, Rooted
<1> QED
  BY <1>2, <1>3, <1>4, <1>5 DEF Tree, RamInv, LinksAgree

LEMMA EmptyList == <<>> \in Seq(Node) /\ Len(<<>>) = 0 /\ Once(<<>>) /\ ToSet(<<>>) = {}
BY DEF Once, ToSet

(* Nodes not in use list nothing, and nothing lists them. *)
LEMMA NotListed ==
  ASSUME NEW us, NEW di, NEW pa, NEW na, NEW ch, NEW cu, Tree(us, di, pa, na, ch, cu),
         NEW n \in Node, ~us[n]
  PROVE  ToSet(ch[n]) = {} /\ \A d \in Node : n \notin ToSet(ch[d])
<1>1. /\ Listing(us, di, pa, na, ch)
      /\ ~di[n]
  BY DEF Tree
<1>2. \A d \in Node : \A c \in ToSet(ch[d]) : di[d] /\ us[c]
  BY <1>1 DEF Listing, EntryOf
<1> QED
  BY <1>1, <1>2

(* ramfs_create_child: an unused node n becomes an entry of directory d.    *)
LEMMA CreateTree ==
  ASSUME NEW us, NEW di, NEW pa, NEW na, NEW ch, NEW cu, Tree(us, di, pa, na, ch, cu),
         NEW d \in Node, di[d], NEW n \in Node, ~us[n], NEW nm \in Names, NEW b \in BOOLEAN,
         \A c \in ToSet(ch[d]) : na[c] # nm, Len(ch[d]) < MaxChildren
  PROVE  Tree([us EXCEPT ![n] = TRUE], [di EXCEPT ![n] = b], [pa EXCEPT ![n] = d],
              [na EXCEPT ![n] = nm], [ch EXCEPT ![n] = <<>>, ![d] = Append(@, n)], cu)
<1> DEFINE us2 == [us EXCEPT ![n] = TRUE]
           di2 == [di EXCEPT ![n] = b]
           pa2 == [pa EXCEPT ![n] = d]
           na2 == [na EXCEPT ![n] = nm]
           ch2 == [ch EXCEPT ![n] = <<>>, ![d] = Append(@, n)]
<1>1. /\ us \in [Node -> BOOLEAN] /\ di \in [Node -> BOOLEAN]
      /\ pa \in [Node -> Node] /\ na \in [Node -> Names \cup {NoName}]
      /\ ch \in [Node -> Seq(Node)]
      /\ \A m \in Node : Len(ch[m]) <= MaxChildren
      /\ cu \subseteq Node /\ us[Root] /\ di[Root]
      /\ \A m \in Node : ~us[m] => ~di[m]
  BY DEF Tree, LinkTypes
<1>2. /\ \A m \in Node : Once(ch[m])
      /\ \A m \in Node : \A c \in ToSet(ch[m]) : EntryOf(us, di, pa, c, m)
      /\ \A m \in Node : \A c, e \in ToSet(ch[m]) : na[c] = na[e] => c = e
      /\ Kept(us, pa, ch, cu) /\ Rooted(us, ch, cu)
  BY DEF Tree, Listing
<1>3. d # n /\ n # Root /\ ToSet(ch[n]) = {} /\ \A m \in Node : n \notin ToSet(ch[m])
  BY <1>1, NotListed
<1>4. /\ Append(ch[d], n) \in Seq(Node) /\ Len(Append(ch[d], n)) = Len(ch[d]) + 1
      /\ Once(Append(ch[d], n)) /\ ToSet(Append(ch[d], n)) = ToSet(ch[d]) \cup {n}
  BY <1>1, <1>2, <1>3, AppendFacts
<1>5. /\ us2 \in [Node -> BOOLEAN] /\ di2 \in [Node -> BOOLEAN]
      /\ pa2 \in [Node -> Node] /\ na2 \in [Node -> Names \cup {NoName}]
      /\ \A m \in Node \ {n} : us2[m] = us[m] /\ di2[m] = di[m] /\ pa2[m] = pa[m] /\ na2[m] = na[m]
      /\ us2[n] = TRUE /\ pa2[n] = d /\ na2[n] = nm
  BY <1>1
<1>6. /\ ch2 \in [Node -> Seq(Node)]
      /\ ch2[n] = <<>> /\ ch2[d] = Append(ch[d], n)
      /\ \A m \in Node \ {n, d} : ch2[m] = ch[m]
  BY <1>1, <1>3, <1>4, EmptyList
<1> HIDE DEF us2, di2, pa2, na2, ch2
<1>7. /\ ToSet(ch2[n]) = {} /\ ToSet(ch2[d]) = ToSet(ch[d]) \cup {n}
      /\ \A m \in Node \ {n, d} : ToSet(ch2[m]) = ToSet(ch[m])
  BY <1>4, <1>6, EmptyList
<1>8. LinkTypes(us2, di2, pa2, na2, ch2)
  <2>1. ASSUME NEW m \in Node PROVE Len(ch2[m]) <= MaxChildren
    <3>1. CASE m = n
      BY <3>1, <1>6, EmptyList, TableAssumption
    <3>2. CASE m = d
      <4>1. Len(ch[d]) \in Nat /\ MaxChildren \in Nat
        BY <1>1, TableAssumption
      <4> QED
        BY <3>2, <4>1, <1>4, <1>6
    <3>3. CASE m \notin {n, d}
      BY <3>3, <1>1, <1>6
    <3> QED
      BY <3>1, <3>2, <3>3
  <2> QED
    BY <1>5, <1>6, <2>1 DEF LinkTypes
<1>9. Listing(us2, di2, pa2, na2, ch2)
  <2>1. \A m \in Node : Once(ch2[m])
    BY <1>2, <1>4, <1>6, EmptyList
  <2>2. ASSUME NEW m \in Node, NEW c \in ToSet(ch2[m]) PROVE EntryOf(us2, di2, pa2, c, m)
    <3>1. m # n
      BY <1>7
    <3>2. CASE c = n
      <4>1. m = d
        BY <3>1, <3>2, <1>3, <1>7
      <4> QED
        BY <3>2, <4>1, <1>3, <1>5 DEF EntryOf
    <3>3. CASE c # n
      <4>1. c \in ToSet(ch[m]) /\ c \in Node
        <5>1. c \in ToSet(ch[m])
          BY <3>1, <3>3, <1>7
        <5> QED
          BY <5>1, <1>1 DEF ToSet
      <4>2. EntryOf(us, di, pa, c, m)
        BY <4>1, <1>2
      <4> QED
        BY <3>1, <3>3, <4>1, <4>2, <1>5 DEF EntryOf
    <3> QED
      BY <3>2, <3>3
  <2>3. ASSUME NEW m \in Node, NEW c \in ToSet(ch2[m]), NEW e \in ToSet(ch2[m]), na2[c] = na2[e]
        PROVE  c = e
    <3>1. m # n
      BY <1>7
    <3>2. \A x \in ToSet(ch2[m]) : x # n => x \in ToSet(ch[m]) /\ x \in Node /\ na2[x] = na[x]
      <4>1. \A x \in ToSet(ch2[m]) : x # n => x \in ToSet(ch[m])
        BY <3>1, <1>7
      <4>2. \A x \in ToSet(ch[m]) : x \in Node
        BY <1>1 DEF ToSet
      <4> QED
        BY <4>1, <4>2, <1>5
    <3>3. \A x \in ToSet(ch2[m]) : x # n /\ n \in ToSet(ch2[m]) => na2[x] # nm
      BY <3>1, <3>2, <1>3, <1>7
    <3> QED
      BY <2>3, <3>2, <3>3, <1>2, <1>5
  <2> QED
    BY <2>1, <2>2, <2>3 DEF Listing
<1>10. Kept(us2, pa2, ch2, cu)
  <2> SUFFICES ASSUME NEW m \in Node \ (cu \cup {Root}), us2[m] PROVE m \in ToSet(ch2[pa2[m]])
    BY DEF Kept
  <2>1. CASE m = n
    BY <2>1, <1>5, <1>7
  <2>2. CASE m # n
    <3>1. us[m] /\ pa2[m] = pa[m] /\ pa[m] \in Node
      BY <2>2, <1>1, <1>5
    <3>2. m \in ToSet(ch[pa[m]])
      BY <3>1, <1>2 DEF Kept
    <3>3. pa[m] # n
      BY <3>2, <1>3
    <3> QED
      BY <3>1, <3>2, <3>3, <1>7
  <2> QED
    BY <2>1, <2>2
<1>11. Rooted(us2, ch2, cu)
  <2> SUFFICES ASSUME NEW S \in SUBSET Node, {Root} \cup cu \subseteq S,
                      \A m \in S : ToSet(ch2[m]) \subseteq S,
                      NEW x \in Node, us2[x]
               PROVE  x \in S
    BY DEF Rooted
  <2>1. \A m \in S : ToSet(ch[m]) \subseteq S
    BY <1>3, <1>7
  <2>2. \A m \in Node : us[m] => m \in S
    BY <2>1, <1>2 DEF Rooted
  <2>3. d \in S
    BY <2>2, <1>1
  <2>4. n \in S
    BY <2>3, <1>7
  <2> QED
    BY <2>2, <2>4, <1>5
<1>12. us2[Root] /\ di2[Root] /\ \A m \in Node : ~us2[m] => ~di2[m]
  BY <1>1, <1>3, <1>5, RootNode
<1> QED
  BY <1>1, <1>8, <1>9, <1>10, <1>11, <1>12 DEF Tree, us2, di2, pa2, na2, ch2

(* ramfs_op_remove: an entry n of directory d that lists nothing is gone.   *)
LEMMA RemoveTree ==
  ASSUME NEW us, NEW di, NEW pa, NEW na, NEW ch, NEW cu, Tree(us, di, pa, na, ch, cu),
         NEW d \in Node, NEW n \in ToSet(ch[d]), ToSet(ch[n]) = {}
  PROVE  Tree([us EXCEPT ![n] = FALSE], [di EXCEPT ![n] = FALSE], [pa EXCEPT ![n] = 0],
              [na EXCEPT ![n] = NoName], [ch EXCEPT ![d] = Detached(@, n), ![n] = <<>>], cu)
<1> DEFINE us2 == [us EXCEPT ![n] = FALSE]
           di2 == [di EXCEPT ![n] = FALSE]
           pa2 == [pa EXCEPT ![n] = 0]
           na2 == [na EXCEPT ![n] = NoName]
           ch2 == [ch EXCEPT ![d] = Detached(@, n), ![n] = <<>>]
<1>1. /\ us \in [Node -> BOOLEAN] /\ di \in [Node -> BOOLEAN]
      /\ pa \in [Node -> Node] /\ na \in [Node -> Names \cup {NoName}]
      /\ ch \in [Node -> Seq(Node)]
      /\ \A m \in Node : Len(ch[m]) <= MaxChildren
      /\ cu \subseteq Node /\ us[Root] /\ di[Root]
      /\ \A m \in Node : ~us[m] => ~di[m]
  BY DEF Tree, LinkTypes
<1>2. /\ \A m \in Node : Once(ch[m])
      /\ \A m \in Node : \A c \in ToSet(ch[m]) : EntryOf(us, di, pa, c, m)
      /\ \A m \in Node : \A c, e \in ToSet(ch[m]) : na[c] = na[e] => c = e
      /\ Kept(us, pa, ch, cu) /\ Rooted(us, ch, cu)
  BY DEF Tree, Listing
<1>3. /\ n \in Node /\ n # d /\ us[n] /\ n # Root /\ pa[n] = d
      /\ \A m \in Node : \A c \in ToSet(ch[m]) : c \in Node /\ (c = n => m = d)
  <2>1. \A m \in Node : \A c \in ToSet(ch[m]) : c \in Node
    BY <1>1 DEF ToSet
  <2> QED
    BY <2>1, <1>2 DEF EntryOf
<1>4. /\ Detached(ch[d], n) \in Seq(Node) /\ Len(Detached(ch[d], n)) = Len(ch[d]) - 1
      /\ Once(Detached(ch[d], n)) /\ ToSet(Detached(ch[d], n)) = ToSet(ch[d]) \ {n}
  BY <1>1, <1>2, DetachFacts
<1>5. /\ us2 \in [Node -> BOOLEAN] /\ di2 \in [Node -> BOOLEAN]
      /\ pa2 \in [Node -> Node] /\ na2 \in [Node -> Names \cup {NoName}]
      /\ \A m \in Node \ {n} : us2[m] = us[m] /\ di2[m] = di[m] /\ pa2[m] = pa[m] /\ na2[m] = na[m]
      /\ ~us2[n] /\ ~di2[n]
  BY <1>1, <1>3, RootNode DEF Root
<1>6. /\ ch2 \in [Node -> Seq(Node)]
      /\ ch2[n] = <<>> /\ ch2[d] = Detached(ch[d], n)
      /\ \A m \in Node \ {n, d} : ch2[m] = ch[m]
  BY <1>1, <1>3, <1>4, EmptyList
<1> HIDE DEF us2, di2, pa2, na2, ch2
<1>7. \A m \in Node : ToSet(ch2[m]) = ToSet(ch[m]) \ {n}
  <2>1. ToSet(ch2[n]) = ToSet(ch[n]) \ {n}
    BY <1>6, EmptyList
  <2>2. ToSet(ch2[d]) = ToSet(ch[d]) \ {n}
    BY <1>4, <1>6
  <2>3. ASSUME NEW m \in Node \ {n, d} PROVE ToSet(ch2[m]) = ToSet(ch[m]) \ {n}
    BY <1>3, <1>6
  <2> QED
    BY <2>1, <2>2, <2>3
<1>8. LinkTypes(us2, di2, pa2, na2, ch2)
  <2>1. ASSUME NEW m \in Node PROVE Len(ch2[m]) <= MaxChildren
    <3>1. CASE m = n
      BY <3>1, <1>6, EmptyList, TableAssumption
    <3>2. CASE m = d
      <4>1. Len(ch[d]) \in Nat /\ MaxChildren \in Nat /\ Len(ch[d]) <= MaxChildren
        BY <1>1, TableAssumption
      <4> QED
        BY <3>2, <4>1, <1>4, <1>6
    <3>3. CASE m \notin {n, d}
      BY <3>3, <1>1, <1>6
    <3> QED
      BY <3>1, <3>2, <3>3
  <2> QED
    BY <1>5, <1>6, <2>1 DEF LinkTypes
<1>9. Listing(us2, di2, pa2, na2, ch2)
  <2>1. \A m \in Node : Once(ch2[m])
    BY <1>2, <1>4, <1>6, EmptyList
  <2>2. ASSUME NEW m \in Node, NEW c \in ToSet(ch2[m])
        PROVE  EntryOf(us2, di2, pa2, c, m) /\ c \in ToSet(ch[m]) /\ na2[c] = na[c]
    <3>1. c \in ToSet(ch[m]) /\ c \in Node /\ c # n /\ m # n
      BY <1>3, <1>7
    <3>2. EntryOf(us, di, pa, c, m)
      BY <3>1, <1>2
    <3> QED
      BY <3>1, <3>2, <1>5 DEF EntryOf
  <2>3. \A m \in Node : \A c, e \in ToSet(ch2[m]) : na2[c] = na2[e] => c = e
    BY <2>2, <1>2
  <2> QED
    BY <2>1, <2>2, <2>3 DEF Listing
<1>10. Kept(us2, pa2, ch2, cu)
  <2> SUFFICES ASSUME NEW m \in Node \ (cu \cup {Root}), us2[m] PROVE m \in ToSet(ch2[pa2[m]])
    BY DEF Kept
  <2>1. m # n /\ us[m] /\ pa2[m] = pa[m] /\ pa[m] \in Node
    BY <1>1, <1>5
  <2>2. m \in ToSet(ch[pa[m]])
    BY <2>1, <1>2 DEF Kept
  <2> QED
    BY <2>1, <2>2, <1>7
<1>11. Rooted(us2, ch2, cu)
  <2> SUFFICES ASSUME NEW S \in SUBSET Node, {Root} \cup cu \subseteq S,
                      \A m \in S : ToSet(ch2[m]) \subseteq S,
                      NEW x \in Node, us2[x]
               PROVE  x \in S
    BY DEF Rooted
  <2> DEFINE R == S \cup {n}
  <2>1. R \in SUBSET Node /\ {Root} \cup cu \subseteq R
    BY <1>3
  <2>2. \A m \in R : ToSet(ch[m]) \subseteq R
    BY <1>7
  <2> HIDE DEF R
  <2>3. \A m \in Node : us[m] => m \in R
    BY <2>1, <2>2, <1>2 DEF Rooted
  <2>4. x # n /\ us[x]
    BY <1>5
  <2> QED
    BY <2>3, <2>4 DEF R
<1>12. us2[Root] /\ di2[Root] /\ \A m \in Node : ~us2[m] => ~di2[m]
  BY <1>1, <1>3, <1>5, RootNode
<1> QED
  BY <1>1, <1>8, <1>9, <1>10, <1>11, <1>12 DEF Tree, us2, di2, pa2, na2, ch2

(* ramfs_op_rename within a directory. *)
LEMMA RenameTree ==
  ASSUME NEW us, NEW di, NEW pa, NEW na, NEW ch, NEW cu, Tree(us, di, pa, na, ch, cu),
         NEW d \in Node, NEW n \in ToSet(ch[d]), NEW nm \in Names, \A c \in ToSet(ch[d]) : na[c] # nm
  PROVE  Tree(us, di, pa, [na EXCEPT ![n] = nm], ch, cu)
<1> DEFINE na2 == [na EXCEPT ![n] = nm]
<1>1. /\ LinkTypes(us, di, pa, na, ch) /\ Listing(us, di, pa, na, ch)
      /\ na \in [Node -> Names \cup {NoName}] /\ ch \in [Node -> Seq(Node)]
  BY DEF Tree, LinkTypes
<1>2. \A m \in Node : \A c \in ToSet(ch[m]) : c \in Node /\ (c = n => m = d)
  <2>1. \A m \in Node : \A c \in ToSet(ch[m]) : c \in Node
    BY <1>1 DEF ToSet
  <2> QED
    <3>1. \A m \in Node : \A c \in ToSet(ch[m]) : EntryOf(us, di, pa, c, m)
      BY <1>1 DEF Listing
    <3>2. \A m \in Node : \A c \in ToSet(ch[m]) : pa[c] = m
      BY <3>1 DEF EntryOf
    <3> QED
      BY <2>1, <3>2
<1>3. /\ na2 \in [Node -> Names \cup {NoName}] /\ na2[n] = nm
      /\ \A m \in Node \ {n} : na2[m] = na[m]
  BY <1>1, <1>2
<1> HIDE DEF na2
<1>4. ASSUME NEW m \in Node, NEW c \in ToSet(ch[m]), NEW e \in ToSet(ch[m]), na2[c] = na2[e]
      PROVE  c = e
  <2>1. c # n => na2[c] = na[c]
    BY <1>2, <1>3
  <2>2. e # n => na2[e] = na[e]
    BY <1>2, <1>3
  <2>3. c = n /\ e # n => na[e] # nm
    BY <1>2
  <2>4. e = n /\ c # n => na[c] # nm
    BY <1>2
  <2>5. na[c] = na[e] => c = e
    BY <1>1 DEF Listing
  <2> QED
    BY <1>4, <1>3, <2>1, <2>2, <2>3, <2>4, <2>5
<1>5. Listing(us, di, pa, na2, ch)
  BY <1>1, <1>4 DEF Listing
<1>6. LinkTypes(us, di, pa, na2, ch)
  BY <1>1, <1>3 DEF LinkTypes
<1> QED
  BY <1>5, <1>6 DEF Tree, na2

(* What the two moves of ramfs_op_rename have in common: n leaves directory *)
(* d, and enters directory e or is lost.                                    *)
Leaves(us, pa, ch, d, n) ==
  /\ n \in Node /\ n # Root /\ us[n] /\ pa[n] = d
  /\ \A m \in Node : \A c \in ToSet(ch[m]) : c \in Node /\ (c = n => m = d)
  /\ Detached(ch[d], n) \in Seq(Node) /\ Len(Detached(ch[d], n)) <= MaxChildren
  /\ Once(Detached(ch[d], n)) /\ ToSet(Detached(ch[d], n)) = ToSet(ch[d]) \ {n}

LEMMA Detaching ==
  ASSUME NEW us, NEW di, NEW pa, NEW na, NEW ch, NEW cu, Tree(us, di, pa, na, ch, cu),
         NEW d \in Node, NEW n \in ToSet(ch[d])
  PROVE  Leaves(us, pa, ch, d, n)
<1>1. /\ ch \in [Node -> Seq(Node)] /\ \A m \in Node : Len(ch[m]) <= MaxChildren
      /\ \A m \in Node : Once(ch[m])
      /\ \A m \in Node : \A c \in ToSet(ch[m]) : EntryOf(us, di, pa, c, m)
  BY DEF Tree, LinkTypes, Listing
<1>2. \A m \in Node : \A c \in ToSet(ch[m]) : c \in Node
  BY <1>1 DEF ToSet
<1>3. \A m \in Node : \A c \in ToSet(ch[m]) : us[c] /\ c # Root /\ pa[c] = m
  BY <1>1 DEF EntryOf
<1>4. /\ Detached(ch[d], n) \in Seq(Node) /\ Len(Detached(ch[d], n)) = Len(ch[d]) - 1
      /\ Once(Detached(ch[d], n)) /\ ToSet(Detached(ch[d], n)) = ToSet(ch[d]) \ {n}
  BY <1>1, DetachFacts
<1>5. Len(Detached(ch[d], n)) <= MaxChildren
  <2>1. Len(ch[d]) \in Nat /\ MaxChildren \in Nat /\ Len(ch[d]) <= MaxChildren
    BY <1>1, TableAssumption
  <2> QED
    BY <2>1, <1>4
<1>6. \A m \in Node : \A c \in ToSet(ch[m]) : c = n => m = d
  BY <1>3
<1> QED
  BY <1>2, <1>3, <1>4, <1>5, <1>6 DEF Leaves

(* ramfs_op_rename into a full directory: n is detached and lost. *)
LEMMA LoseTree ==
  ASSUME NEW us, NEW di, NEW pa, NEW na, NEW ch, NEW cu, Tree(us, di, pa, na, ch, cu),
         NEW d \in Node, NEW n \in ToSet(ch[d])
  PROVE  Tree(us, di, pa, na, [ch EXCEPT ![d] = Detached(@, n)], cu \cup {n})
<1> DEFINE ch2 == [ch EXCEPT ![d] = Detached(@, n)]
<1>1. /\ LinkTypes(us, di, pa, na, ch) /\ Listing(us, di, pa, na, ch)
      /\ ch \in [Node -> Seq(Node)] /\ cu \subseteq Node
      /\ pa \in [Node -> Node] /\ \A m \in Node : Len(ch[m]) <= MaxChildren
      /\ Kept(us, pa, ch, cu) /\ Rooted(us, ch, cu)
  BY DEF Tree, LinkTypes
<1>2. /\ n \in Node /\ \A m \in Node : n \in ToSet(ch[m]) => m = d
      /\ Detached(ch[d], n) \in Seq(Node) /\ Len(Detached(ch[d], n)) <= MaxChildren
      /\ Once(Detached(ch[d], n)) /\ ToSet(Detached(ch[d], n)) = ToSet(ch[d]) \ {n}
  <2>1. Leaves(us, pa, ch, d, n)
    BY Detaching
  <2> QED
    BY <2>1 DEF Leaves
<1>3. /\ ch2 \in [Node -> Seq(Node)]
      /\ ch2[d] = Detached(ch[d], n) /\ \A m \in Node \ {d} : ch2[m] = ch[m]
  BY <1>1, <1>2
<1> HIDE DEF ch2
<1>4. \A m \in Node : ToSet(ch2[m]) = ToSet(ch[m]) \ {n}
  BY <1>2, <1>3
<1>5. LinkTypes(us, di, pa, na, ch2)
  BY <1>1, <1>2, <1>3 DEF LinkTypes
<1>6. Listing(us, di, pa, na, ch2)
  <2>1. \A m \in Node : Once(ch2[m])
    BY <1>1, <1>2, <1>3 DEF Listing
  <2>2. \A m \in Node : \A c \in ToSet(ch2[m]) : EntryOf(us, di, pa, c, m)
    BY <1>1, <1>4 DEF Listing
  <2>3. \A m \in Node : \A b, c \in ToSet(ch2[m]) : na[b] = na[c] => b = c
    BY <1>1, <1>4 DEF Listing
  <2> QED
    BY <2>1, <2>2, <2>3 DEF Listing
<1>7. Kept(us, pa, ch2, cu \cup {n})
  BY <1>1, <1>4 DEF Kept
<1>8. Rooted(us, ch2, cu \cup {n})
  <2> SUFFICES ASSUME NEW S \in SUBSET Node, {Root} \cup cu \cup {n} \subseteq S,
                      \A m \in S : ToSet(ch2[m]) \subseteq S
               PROVE  \A x \in Node : us[x] => x \in S
    BY DEF Rooted
  <2>1. \A m \in S : ToSet(ch[m]) \subseteq S
    BY <1>4
  <2> QED
    BY <2>1, <1>1 DEF Rooted
<1> QED
  BY <1>1, <1>2, <1>5, <1>6, <1>7, <1>8 DEF Tree, ch2

(* ramfs_op_rename into another directory e.  A node that is not lost then  *)
(* is found in e: e is in every closed set that holds the root.             *)
LEMMA MoveTree ==
  ASSUME NEW us, NEW di, NEW pa, NEW na, NEW ch, NEW cu, Tree(us, di, pa, na, ch, cu),
         NEW d \in Node, NEW n \in ToSet(ch[d]), NEW e \in Node, e # d, di[e], Len(ch[e]) < MaxChildren,
         NEW nm \in Names, \A c \in ToSet(ch[e]) : na[c] # nm, NEW cu2 \in {cu, cu \cup {n}},
         n \in cu2 \/ \A S \in SUBSET Node :
                        Root \in S /\ (\A m \in S : ToSet(ch[m]) \ {n} \subseteq S) => e \in S
  PROVE  Tree(us, di, [pa EXCEPT ![n] = e], [na EXCEPT ![n] = nm],
              [ch EXCEPT ![d] = Detached(@, n), ![e] = Append(@, n)], cu2)
<1> DEFINE pa2 == [pa EXCEPT ![n] = e]
           na2 == [na EXCEPT ![n] = nm]
           ch2 == [ch EXCEPT ![d] = Detached(@, n), ![e] = Append(@, n)]
<1>1. /\ us \in [Node -> BOOLEAN] /\ di \in [Node -> BOOLEAN]
      /\ pa \in [Node -> Node] /\ na \in [Node -> Names \cup {NoName}]
      /\ ch \in [Node -> Seq(Node)]
      /\ \A m \in Node : Len(ch[m]) <= MaxChildren
      /\ cu \subseteq Node /\ us[Root] /\ di[Root]
      /\ \A m \in Node : ~us[m] => ~di[m]
  BY DEF Tree, LinkTypes
<1>2. /\ \A m \in Node : Once(ch[m])
      /\ \A m \in Node : \A c \in ToSet(ch[m]) : EntryOf(us, di, pa, c, m)
      /\ \A m \in Node : \A c, b \in ToSet(ch[m]) : na[c] = na[b] => c = b
      /\ Kept(us, pa, ch, cu) /\ Rooted(us, ch, cu)
  BY DEF Tree, Listing
<1>3. /\ n \in Node /\ n # Root /\ us[n] /\ pa[n] = d
      /\ \A m \in Node : \A c \in ToSet(ch[m]) : c \in Node /\ (c = n => m = d)
      /\ Detached(ch[d], n) \in Seq(Node) /\ Len(Detached(ch[d], n)) <= MaxChildren
      /\ Once(Detached(ch[d], n)) /\ ToSet(Detached(ch[d], n)) = ToSet(ch[d]) \ {n}
  <2>1. Leaves(us, pa, ch, d, n)
    BY Detaching
  <2> QED
    BY <2>1 DEF Leaves
<1>4. /\ Append(ch[e], n) \in Seq(Node) /\ Len(Append(ch[e], n)) = Len(ch[e]) + 1
      /\ Once(Append(ch[e], n)) /\ ToSet(Append(ch[e], n)) = ToSet(ch[e]) \cup {n}
  BY <1>1, <1>2, <1>3, AppendFacts
<1>5. /\ pa2 \in [Node -> Node] /\ na2 \in [Node -> Names \cup {NoName}]
      /\ \A m \in Node \ {n} : pa2[m] = pa[m] /\ na2[m] = na[m]
      /\ pa2[n] = e /\ na2[n] = nm
  BY <1>1, <1>3
<1>6. /\ ch2 \in [Node -> Seq(Node)]
      /\ ch2[d] = Detached(ch[d], n) /\ ch2[e] = Append(ch[e], n)
      /\ \A m \in Node \ {e, d} : ch2[m] = ch[m]
  BY <1>1, <1>3, <1>4
<1> HIDE DEF pa2, na2, ch2
<1>7. /\ ToSet(ch2[e]) = ToSet(ch[e]) \cup {n}
      /\ \A m \in Node \ {e} : ToSet(ch2[m]) = ToSet(ch[m]) \ {n}
  <2>1. \A m \in Node \ {e, d} : n \notin ToSet(ch[m])
    BY <1>3
  <2> QED
    BY <1>3, <1>4, <1>6, <2>1
<1>8. LinkTypes(us, di, pa2, na2, ch2)
  <2>1. ASSUME NEW m \in Node PROVE Len(ch2[m]) <= MaxChildren
    <3>1. CASE m = e
      <4>1. Len(ch[e]) \in Nat /\ MaxChildren \in Nat
        BY <1>1, TableAssumption
      <4> QED
        BY <3>1, <4>1, <1>4, <1>6
    <3>2. CASE m = d
      BY <3>2, <1>3, <1>6
    <3>3. CASE m \notin {e, d}
      BY <3>3, <1>1, <1>6
    <3> QED
      BY <3>1, <3>2, <3>3
  <2> QED
    BY <1>1, <1>5, <1>6, <2>1 DEF LinkTypes
<1>9. Listing(us, di, pa2, na2, ch2)
  <2>1. \A m \in Node : Once(ch2[m])
    BY <1>2, <1>3, <1>4, <1>6
  <2>2. ASSUME NEW m \in Node, NEW c \in ToSet(ch2[m]), c # n
        PROVE  c \in ToSet(ch[m]) /\ c \in Node /\ na2[c] = na[c] /\ pa2[c] = pa[c]
    <3>1. c \in ToSet(ch[m])
      BY <2>2, <1>7
    <3> QED
      BY <3>1, <2>2, <1>3, <1>5
  <2>3. ASSUME NEW m \in Node, n \in ToSet(ch2[m]) PROVE m = e
    BY <2>3, <1>7
  <2>4. ASSUME NEW m \in Node, NEW c \in ToSet(ch2[m]) PROVE EntryOf(us, di, pa2, c, m)
    <3>1. CASE c = n
      BY <3>1, <2>3, <1>3, <1>5 DEF EntryOf
    <3>2. CASE c # n
      <4>1. EntryOf(us, di, pa, c, m)
        BY <3>2, <2>2, <1>2
      <4> QED
        BY <3>2, <4>1, <2>2 DEF EntryOf
    <3> QED
      BY <3>1, <3>2
  <2>5. ASSUME NEW m \in Node, NEW c \in ToSet(ch2[m]), NEW b \in ToSet(ch2[m]), na2[c] = na2[b]
        PROVE  c = b
    <3>1. \A x \in ToSet(ch2[m]) : x # n /\ n \in ToSet(ch2[m]) => na2[x] # nm
      BY <2>2, <2>3
    <3> QED
      BY <2>5, <3>1, <2>2, <1>2, <1>5
  <2> QED
    BY <2>1, <2>4, <2>5 DEF Listing
<1>10. Kept(us, pa2, ch2, cu2)
  <2> SUFFICES ASSUME NEW m \in Node \ (cu2 \cup {Root}), us[m] PROVE m \in ToSet(ch2[pa2[m]])
    BY DEF Kept
  <2>1. CASE m = n
    BY <2>1, <1>5, <1>7
  <2>2. CASE m # n
    <3>1. pa2[m] = pa[m] /\ pa[m] \in Node
      BY <2>2, <1>1, <1>5
    <3>2. m \in ToSet(ch[pa[m]])
      BY <1>2 DEF Kept
    <3> QED
      BY <2>2, <3>1, <3>2, <1>7
  <2> QED
    BY <2>1, <2>2
<1>11. Rooted(us, ch2, cu2)
  <2> SUFFICES ASSUME NEW S \in SUBSET Node, {Root} \cup cu2 \subseteq S,
                      \A m \in S : ToSet(ch2[m]) \subseteq S
               PROVE  \A x \in Node : us[x] => x \in S
    BY DEF Rooted
  <2>1. \A m \in S : ToSet(ch[m]) \ {n} \subseteq S
    BY <1>7
  <2>2. n \in S
    <3>1. CASE n \in cu2
      BY <3>1
    <3>2. CASE n \notin cu2
      <4>1. e \in S
        BY <3>2, <2>1
      <4> QED
        BY <4>1, <1>7
    <3> QED
      BY <3>1, <3>2
  <2>3. \A m \in S : ToSet(ch[m]) \subseteq S
    BY <2>1, <2>2
  <2> QED
    BY <2>3, <1>2 DEF Rooted
<1>12. cu2 \subseteq Node
  BY <1>1, <1>3
<1> QED
  BY <1>1, <1>8, <1>9, <1>10, <1>11, <1>12 DEF Tree, pa2, na2, ch2

-----------------------------------------------------------------------------
(* Looking up.                                                              *)

HereTree == Tree(used, dir, parent, name, children, cut)

LEMMA FindFacts ==
  ASSUME HereTree, NEW d \in Node, NEW nm
  PROVE  /\ FindChild(d, nm) # None =>
              /\ FindChild(d, nm) \in ToSet(children[d]) /\ FindChild(d, nm) \in Node
              /\ used[FindChild(d, nm)] /\ name[FindChild(d, nm)] = nm
         /\ FindChild(d, nm) = None => \A c \in ToSet(children[d]) : name[c] # nm
<1>1. \A c \in ToSet(children[d]) : used[c] /\ c \in Node
  <2>1. children \in [Node -> Seq(Node)] /\ Listing(used, dir, parent, name, children)
    BY DEF HereTree, Tree, LinkTypes
  <2>2. \A c \in ToSet(children[d]) : c \in Node
    BY <2>1 DEF ToSet
  <2> QED
    BY <2>1, <2>2 DEF Listing, EntryOf
<1>2. CASE Named(d, nm) = {}
  <2>1. FindChild(d, nm) = None
    BY <1>2 DEF FindChild
  <2> QED
    BY <2>1, <1>1, <1>2 DEF Named
<1>3. CASE Named(d, nm) # {}
  <2>1. FindChild(d, nm) \in Named(d, nm)
    BY <1>3 DEF FindChild
  <2>2. FindChild(d, nm) \in Node
    BY <2>1, <1>1 DEF Named
  <2> QED
    BY <2>1, <2>2, RootNode DEF Named
<1> QED
  BY <1>2, <1>3

(* ramfs_alloc_node finds a node if there is one. *)
LEMMA NewNodeFacts ==
  ASSUME Unused # {}
  PROVE  NewNode \in Node /\ ~used[NewNode]
<1>1. Unused \in SUBSET Nat
  BY DEF Unused, Node
<1>2. \E n \in Unused : \A o \in Unused : n <= o
  BY <1>1, LeastNumber
<1>3. NewNode \in Unused
  BY <1>2 DEF NewNode
<1> QED
  BY <1>3 DEF Unused

(* The nodes w on the way along path p.                                     *)
Leads(w, p) ==
  /\ w \in [0 .. Len(p) -> Node] /\ w[0] = Root
  /\ \A i \in 1 .. Len(p) : w[i] \in ToSet(children[w[i-1]]) /\ name[w[i]] = p[i]

(* The sets of nodes Lookup goes through, for the first k names of p; they  *)
(* exist by induction on k.                                                 *)
Walking(f, p, k) ==
  f = [i \in 0 .. k |-> IF i = 0 THEN {Root} ELSE UNION { Named(d, p[i]) : d \in { n \in f[i-1] : dir[n] } }]

LEMMA WalkExists ==
  ASSUME NEW p, NEW k \in Nat
  PROVE  \E f : Walking(f, p, k)
<1> DEFINE Fails == { j \in Nat : ~ \E f : Walking(f, p, j) }
<1> SUFFICES ASSUME Fails # {} PROVE FALSE
  OBVIOUS
<1>1. PICK j \in Fails : \A i \in Fails : j <= i
  <2>1. Fails \in SUBSET Nat
    OBVIOUS
  <2> HIDE DEF Fails
  <2> QED
    BY <2>1, LeastNumber
<1>2. CASE j = 0
  <2>1. Walking([i \in 0 .. 0 |-> {Root}], p, 0)
    <3>1. [i \in 0 .. 0 |-> {Root}]
            = [i \in 0 .. 0 |-> IF i = 0 THEN {Root}
                                ELSE UNION { Named(d, p[i]) : d \in { n \in [m \in 0 .. 0 |-> {Root}][i-1] : dir[n] } }]
      OBVIOUS
    <3> QED
      BY <3>1 DEF Walking
  <2> QED
    BY <2>1, <1>1, <1>2
<1>3. CASE j # 0
  <2>1. j \in Nat /\ j - 1 \in Nat /\ j - 1 \notin Fails
    BY <1>1, <1>3
  <2>2. PICK f : Walking(f, p, j - 1)
    BY <2>1
  <2> DEFINE step(h, i) == UNION { Named(d, p[i]) : d \in { n \in h[i-1] : dir[n] } }
             g == [i \in 0 .. j |-> IF i = j THEN step(f, j) ELSE f[i]]
  <2>3. f = [i \in 0 .. j - 1 |-> IF i = 0 THEN {Root} ELSE step(f, i)]
    BY <2>2 DEF Walking
  <2>4. ASSUME NEW i \in 0 .. j PROVE g[i] = (IF i = 0 THEN {Root} ELSE step(g, i))
    <3>1. CASE i = j
      <4>1. g[i] = step(f, j)
        BY <3>1
      <4>2. g[i-1] = f[i-1]
        BY <3>1, <2>1
      <4> QED
        BY <4>1, <4>2, <3>1, <1>3
    <3>2. CASE i # j
      <4>1. g[i] = f[i] /\ i \in 0 .. j - 1
        BY <3>2, <2>1
      <4>2. i # 0 => g[i-1] = f[i-1]
        BY <3>2, <2>1
      <4>3. f[i] = (IF i = 0 THEN {Root} ELSE step(f, i))
        <5> HIDE DEF step, g
        <5> QED
          BY <4>1, <2>3
      <4> QED
        BY <4>1, <4>2, <4>3
    <3> QED
      BY <3>1, <3>2
  <2>5. g = [i \in 0 .. j |-> g[i]]
    OBVIOUS
  <2>6. g = [i \in 0 .. j |-> IF i = 0 THEN {Root} ELSE step(g, i)]
    <3> HIDE DEF g, step
    <3> QED
      BY <2>4, <2>5
  <2>7. Walking(g, p, j)
    <3> HIDE DEF g
    <3> QED
      BY <2>6 DEF Walking
  <2> QED
    BY <2>7, <1>1
<1> QED
  BY <1>2, <1>3

(* A path that is found is the names of the nodes on the way.               *)
LEMMA LookupLeads ==
  ASSUME HereTree, NEW p \in Seq(Names), Lookup(p) # None
  PROVE  Lookup(p) \in Node /\ \E w : Leads(w, p) /\ w[Len(p)] = Lookup(p)
<1> DEFINE L == Len(p)
           f == CHOOSE h : Walking(h, p, L)
<1>1. L \in Nat
  OBVIOUS
<1>2. Walking(f, p, L)
  BY <1>1, WalkExists
<1>3. Lookup(p) = IF f[L] = {} THEN None ELSE CHOOSE n \in f[L] : TRUE
  BY DEF Lookup, Walking
<1> HIDE DEF f
<1>4. Lookup(p) \in f[L]
  BY <1>3
<1>5. /\ f[0] = {Root}
      /\ \A i \in 1 .. L : f[i] = UNION { Named(d, p[i]) : d \in { n \in f[i-1] : dir[n] } }
  <2>1. f = [i \in 0 .. L |-> IF i = 0 THEN {Root} ELSE UNION { Named(d, p[i]) : d \in { n \in f[i-1] : dir[n] } }]
    BY <1>2 DEF Walking
  <2>2. 0 \in 0 .. L /\ \A i \in 1 .. L : i \in 0 .. L /\ i # 0
    BY <1>1
  <2> HIDE DEF L
  <2>3. f[0] = {Root}
    BY <2>1, <2>2, Zenon
  <2>4. ASSUME NEW i \in 1 .. L
        PROVE  f[i] = UNION { Named(d, p[i]) : d \in { n \in f[i-1] : dir[n] } }
    BY <2>1, <2>2, Zenon
  <2> QED
    BY <2>3, <2>4
<1>6. ASSUME NEW d \in Node, NEW i \in 1 .. L, NEW c \in Named(d, p[i])
      PROVE  c \in Node /\ c \in ToSet(children[d]) /\ name[c] = p[i]
  <2>1. children \in [Node -> Seq(Node)]
    BY DEF HereTree, Tree, LinkTypes
  <2>2. c \in ToSet(children[d]) /\ name[c] = p[i]
    BY DEF Named
  <2> QED
    BY <2>1, <2>2 DEF ToSet
<1> DEFINE Way(w, k) ==
             /\ w \in [0 .. k -> Node] /\ w[0] = Root
             /\ \A i \in 1 .. k : w[i] \in ToSet(children[w[i-1]]) /\ name[w[i]] = p[i]
           Found(k) == \A n \in f[k] : \E w : Way(w, k) /\ w[k] = n
           Fails == { k \in 0 .. L : ~Found(k) }
<1>7. Fails = {}
  <2> SUFFICES ASSUME Fails # {} PROVE FALSE
    OBVIOUS
  <2>1. PICK k \in Fails : \A i \in Fails : k <= i
    <3>1. Fails \in SUBSET Nat
      BY <1>1
    <3> HIDE DEF Fails
    <3> QED
      BY <3>1, LeastNumber
  <2>2. PICK n \in f[k] : ~ \E w : Way(w, k) /\ w[k] = n
    BY <2>1
  <2> HIDE DEF Found
  <2>3. CASE k = 0
    <3> DEFINE w == [i \in 0 .. 0 |-> Root]
    <3>1. Way(w, 0) /\ w[0] = Root
      BY RootNode
    <3>2. n = Root
      BY <2>3, <1>5
    <3> HIDE DEF w, Way
    <3> QED
      BY <3>1, <3>2, <2>2, <2>3
  <2>4. CASE k # 0
    <3>1. k \in 1 .. L /\ k - 1 \in 0 .. L /\ Found(k - 1)
      <4>1. k \in 1 .. L /\ k - 1 \in 0 .. L
        BY <2>1, <2>4, <1>1
      <4>2. k - 1 \notin Fails
        <5> HIDE DEF Fails
        <5> QED
          BY <2>1, <4>1, <1>1
      <4> QED
        BY <4>1, <4>2
    <3>2. PICK d \in f[k-1] : n \in Named(d, p[k])
      BY <3>1, <1>5
    <3>3. PICK v : Way(v, k - 1) /\ v[k-1] = d
      BY <3>1, <3>2 DEF Found
    <3>4. v \in [0 .. k - 1 -> Node] /\ d \in Node
      BY <3>1, <3>3
    <3>5. n \in Node /\ n \in ToSet(children[d]) /\ name[n] = p[k]
      BY <3>1, <3>2, <3>4, <1>6
    <3> DEFINE w == [i \in 0 .. k |-> IF i = k THEN n ELSE v[i]]
    <3>6. w \in [0 .. k -> Node] /\ w[k] = n /\ \A i \in 0 .. k - 1 : w[i] = v[i]
      BY <3>1, <3>4, <3>5
    <3> HIDE DEF w
    <3>7. w[0] = Root
      BY <3>1, <3>3, <3>6
    <3>8. ASSUME NEW i \in 1 .. k PROVE w[i] \in ToSet(children[w[i-1]]) /\ name[w[i]] = p[i]
      <4>1. CASE i = k
        <5>1. w[i] = n /\ w[i-1] = d
          BY <4>1, <3>1, <3>3, <3>6
        <5> QED
          BY <5>1, <4>1, <3>5
      <4>2. CASE i # k
        <5>1. i \in 1 .. k - 1 /\ w[i] = v[i] /\ w[i-1] = v[i-1]
          BY <4>2, <3>1, <3>6
        <5> QED
          BY <5>1, <3>3
      <4> QED
        BY <4>1, <4>2
    <3>9. Way(w, k)
      BY <3>6, <3>7, <3>8
    <3> HIDE DEF Way
    <3> QED
      BY <3>6, <3>9, <2>2
  <2> QED
    BY <2>3, <2>4
<1>8. PICK w : Way(w, L) /\ w[L] = Lookup(p)
  <2>1. L \in 0 .. L
    BY <1>1
  <2>2. Found(L)
    <3> HIDE DEF Found
    <3> QED
      BY <2>1, <1>7
  <2> HIDE DEF Way
  <2> QED
    BY <2>2, <1>4
<1>9. Leads(w, p)
  BY <1>8 DEF Leads
<1>10. Lookup(p) \in Node
  BY <1>1, <1>8
<1> QED
  BY <1>8, <1>9, <1>10

(* A node has one path: what leads to it on the way of q is all of q up to  *)
(* there.                                                                   *)
LEMMA OnePath ==
  ASSUME HereTree, NEW p \in Seq(Names), NEW q \in Seq(Names), NEW w, NEW v,
         Leads(w, p), Leads(v, q), NEW i \in 0 .. Len(q), w[Len(p)] = v[i]
  PROVE  i = Len(p) /\ \A k \in 1 .. Len(p) : p[k] = q[k]
<1> DEFINE L == Len(p)
<1>1. L \in Nat /\ Len(q) \in Nat
  OBVIOUS
<1>2. /\ w \in [0 .. L -> Node] /\ w[0] = Root
      /\ v \in [0 .. Len(q) -> Node] /\ v[0] = Root
      /\ \A k \in 1 .. L : w[k] \in ToSet(children[w[k-1]]) /\ name[w[k]] = p[k]
      /\ \A k \in 1 .. Len(q) : v[k] \in ToSet(children[v[k-1]]) /\ name[v[k]] = q[k]
  BY DEF Leads
<1>3. \A d \in Node : \A c \in ToSet(children[d]) : c # Root /\ parent[c] = d
  BY DEF HereTree, Tree, Listing, EntryOf
<1>4. ASSUME NEW k \in 1 .. L PROVE w[k] # Root /\ parent[w[k]] = w[k-1]
  <2>1. k - 1 \in 0 .. L
    BY <1>1
  <2>2. w[k-1] \in Node
    BY <2>1, <1>2
  <2>3. w[k] \in ToSet(children[w[k-1]])
    BY <1>2
  <2> QED
    BY <2>2, <2>3, <1>3
<1>5. ASSUME NEW k \in 1 .. Len(q) PROVE v[k] # Root /\ parent[v[k]] = v[k-1]
  <2>1. k - 1 \in 0 .. Len(q)
    BY <1>1
  <2>2. v[k-1] \in Node
    BY <2>1, <1>2
  <2>3. v[k] \in ToSet(children[v[k-1]])
    BY <1>2
  <2> QED
    BY <2>2, <2>3, <1>3
<1> DEFINE Same(m) == m <= i /\ w[L - m] = v[i - m]
           Fails == { m \in 0 .. L : ~Same(m) }
<1>6. ASSUME NEW m \in 0 .. L PROVE Same(m)
  <2> SUFFICES ASSUME Fails # {} PROVE FALSE
    OBVIOUS
  <2> HIDE DEF L, Same
  <2>1. PICK k \in Fails : \A o \in Fails : k <= o
    <3>1. Fails \in SUBSET Nat
      BY <1>1
    <3> HIDE DEF Fails
    <3> QED
      BY <3>1, LeastNumber
  <2>2. k \in 0 .. L /\ ~Same(k)
    BY <2>1
  <2>3. k # 0
    <3>1. Same(0)
      BY <1>1 DEF Same, L
    <3> QED
      BY <3>1, <2>2
  <2>4. k \in 1 .. L /\ k - 1 \in 0 .. L
    BY <2>2, <2>3, <1>1
  <2>5. Same(k - 1)
    BY <2>1, <2>4, <1>1
  <2>6. k - 1 <= i /\ w[L - (k - 1)] = v[i - (k - 1)]
    BY <2>5 DEF Same
  <2>7. L - (k - 1) \in 1 .. L /\ L - (k - 1) - 1 = L - k
    BY <2>4, <1>1
  <2>8. w[L - (k - 1)] # Root /\ parent[w[L - (k - 1)]] = w[L - k]
    BY <2>7, <1>4 DEF L
  <2>9. i - (k - 1) # 0
    BY <2>6, <2>8, <1>2
  <2>10. i - (k - 1) \in 1 .. Len(q) /\ i - (k - 1) - 1 = i - k /\ k <= i
    BY <2>4, <2>6, <2>9, <1>1
  <2>11. parent[v[i - (k - 1)]] = v[i - k]
    BY <2>10, <1>5
  <2>12. Same(k)
    BY <2>6, <2>8, <2>10, <2>11 DEF Same
  <2> QED
    BY <2>2, <2>12
<1> HIDE DEF L
<1>7. L <= i /\ w[0] = v[i - L]
  <2>1. L \in 0 .. L /\ L - L = 0
    BY <1>1 DEF L
  <2> QED
    BY <2>1, <1>6 DEF L
<1>8. i = L
  <2>1. i - L \in 0 .. Len(q) /\ (i - L # 0 => i - L \in 1 .. Len(q))
    BY <1>1, <1>7 DEF L
  <2>2. i - L = 0
    BY <2>1, <1>2, <1>5, <1>7
  <2> QED
    BY <2>2, <1>1 DEF L
<1>9. ASSUME NEW k \in 1 .. L PROVE p[k] = q[k]
  <2>1. L - k \in 0 .. L /\ L - (L - k) = k /\ k \in 1 .. Len(q)
    BY <1>1, <1>8 DEF L
  <2>2. w[k] = v[k]
    BY <2>1, <1>6, <1>8
  <2> QED
    BY <2>1, <2>2, <1>2 DEF L
<1> QED
  BY <1>8, <1>9 DEF L

(* A rename that does not go below the node it moves leaves the new         *)
(* directory e where the root leads to without that node.                   *)
LEMMA TargetReached ==
  ASSUME HereTree, NEW p \in Seq(Names), p # <<>>, NEW r \in Seq(Names), ~IsPrefix(p, r),
         Holder(p) # None, FindChild(Holder(p), Last(p)) # None, Lookup(r) # None,
         NEW S \in SUBSET Node, Root \in S,
         \A m \in S : ToSet(children[m]) \ {FindChild(Holder(p), Last(p))} \subseteq S
  PROVE  Lookup(r) \in S
<1> DEFINE d == Holder(p)
           n == FindChild(d, Last(p))
           L == Len(p)
           R == Len(r)
<1>1. L \in Nat \ {0} /\ R \in Nat
  BY EmptySeq
<1>2. /\ Front(p) \in Seq(Names) /\ Len(Front(p)) = L - 1
      /\ \A k \in 1 .. L - 1 : Front(p)[k] = p[k]
  <2> DEFINE F == Front(p)
  <2>1. F = SubSeq(p, 1, L - 1) /\ L - 1 \in Int /\ \A k \in 1 .. L - 1 : p[k] \in Names
    BY <1>1 DEF Front
  <2> HIDE DEF F
  <2>2. /\ F \in Seq(Names)
        /\ Len(F) = IF 1 <= L - 1 THEN L - 1 - 1 + 1 ELSE 0
        /\ \A k \in 1 .. L - 1 - 1 + 1 : F[k] = p[1 + k - 1]
    BY <2>1, SubSeqProperties
  <2> HIDE DEF L
  <2>3. Len(F) = L - 1
    BY <1>1, <2>2
  <2>4. ASSUME NEW k \in 1 .. L - 1 PROVE F[k] = p[k]
    <3>1. k \in 1 .. L - 1 - 1 + 1 /\ 1 + k - 1 = k
      BY <1>1
    <3> QED
      BY <3>1, <2>2
  <2> QED
    BY <2>2, <2>3, <2>4 DEF F
<1>3. PICK w : Leads(w, Front(p)) /\ w[L - 1] = d
  <2>1. Lookup(Front(p)) # None /\ d = Lookup(Front(p))
    BY DEF Holder
  <2> QED
    BY <2>1, <1>2, LookupLeads
<1>4. PICK v : Leads(v, r) /\ v[R] = Lookup(r)
  BY LookupLeads
<1>5. /\ w \in [0 .. L - 1 -> Node] /\ w[0] = Root
      /\ \A i \in 1 .. L - 1 : w[i] \in ToSet(children[w[i-1]]) /\ name[w[i]] = p[i]
  BY <1>2, <1>3 DEF Leads
<1>6. d \in Node
  BY <1>2, LookupLeads DEF Holder
<1>7. n \in ToSet(children[d]) /\ n \in Node /\ name[n] = Last(p)
  BY <1>6, FindFacts
<1> HIDE DEF d, n
<1> DEFINE u == [i \in 0 .. L |-> IF i = L THEN n ELSE w[i]]
<1>8. /\ u \in [0 .. L -> Node] /\ u[L] = n /\ \A i \in 0 .. L - 1 : u[i] = w[i]
  <2>1. ASSUME NEW i \in 0 .. L PROVE (IF i = L THEN n ELSE w[i]) \in Node
    BY <1>1, <1>5, <1>7
  <2> QED
    BY <2>1, <1>1
<1> HIDE DEF u
<1>9. Leads(u, p) /\ u[Len(p)] = n
  <2>1. u[0] = Root
    BY <1>1, <1>5, <1>8
  <2>2. ASSUME NEW i \in 1 .. L PROVE u[i] \in ToSet(children[u[i-1]]) /\ name[u[i]] = p[i]
    <3>1. CASE i = L
      <4>1. u[i] = n /\ u[i-1] = d /\ p[i] = Last(p)
        BY <3>1, <1>1, <1>3, <1>8 DEF Last
      <4> QED
        BY <4>1, <1>7
    <3>2. CASE i # L
      <4>1. i \in 1 .. L - 1 /\ i - 1 \in 0 .. L - 1 /\ i \in 0 .. L - 1
        BY <3>2, <1>1
      <4>2. u[i] = w[i] /\ u[i-1] = w[i-1]
        BY <4>1, <1>8
      <4> QED
        BY <4>1, <4>2, <1>5
    <3> QED
      BY <3>1, <3>2
  <2> QED
    BY <2>1, <2>2, <1>8 DEF Leads
<1>10. ASSUME NEW i \in 0 .. R PROVE v[i] # n
  <2> SUFFICES ASSUME v[i] = n PROVE FALSE
    OBVIOUS
  <2>1. i = L /\ \A k \in 1 .. L : p[k] = r[k]
    BY <1>4, <1>9, OnePath
  <2>2. L <= R /\ L \in Nat
    BY <2>1, <1>1
  <2>3. SubSeq(p, 1, L) = p
    BY SubSeqFull
  <2>4. /\ SubSeq(r, 1, L) \in Seq(Names) /\ Len(SubSeq(r, 1, L)) = L
        /\ \A k \in 1 .. L : SubSeq(r, 1, L)[k] = r[k]
    <3>1. 1 \in Int /\ L \in Int /\ \A k \in 1 .. L : r[k] \in Names
      BY <2>2, <1>1
    <3>2. /\ SubSeq(r, 1, L) \in Seq(Names)
          /\ Len(SubSeq(r, 1, L)) = IF 1 <= L THEN L - 1 + 1 ELSE 0
          /\ \A k \in 1 .. L - 1 + 1 : SubSeq(r, 1, L)[k] = r[1 + k - 1]
      BY <3>1, SubSeqProperties
    <3>3. Len(SubSeq(r, 1, L)) = L
      BY <3>2, <1>1
    <3>4. ASSUME NEW k \in 1 .. L PROVE SubSeq(r, 1, L)[k] = r[k]
      <4>1. k \in 1 .. L - 1 + 1 /\ 1 + k - 1 = k
        BY <1>1
      <4> QED
        BY <4>1, <3>2
    <3> QED
      BY <3>2, <3>3, <3>4
  <2>5. SubSeq(r, 1, L) = p
    BY <2>1, <2>4, SeqEqual
  <2> QED
    BY <2>2, <2>3, <2>5 DEF IsPrefix
<1>11. /\ v \in [0 .. R -> Node] /\ v[0] = Root
       /\ \A i \in 1 .. R : v[i] \in ToSet(children[v[i-1]])
  BY <1>4 DEF Leads
<1> DEFINE Fails == { i \in 0 .. R : v[i] \notin S }
<1>12. Fails = {}
  <2> SUFFICES ASSUME Fails # {} PROVE FALSE
    OBVIOUS
  <2>1. PICK i \in Fails : \A o \in Fails : i <= o
    <3>1. Fails \in SUBSET Nat
      BY <1>1
    <3> HIDE DEF Fails
    <3> QED
      BY <3>1, LeastNumber
  <2>2. i \in 0 .. R /\ v[i] \notin S
    BY <2>1
  <2>3. i # 0
    BY <2>2, <1>11
  <2>4. i \in 1 .. R /\ i - 1 \in 0 .. R
    BY <2>2, <2>3, <1>1
  <2>5. v[i-1] \in S
    BY <2>1, <2>4, <1>1
  <2>6. v[i] \in ToSet(children[v[i-1]])
    BY <2>4, <1>11
  <2>7. v[i] # n
    BY <2>2, <1>10
  <2>8. ToSet(children[v[i-1]]) \ {n} \subseteq S
    BY <2>5 DEF n, d
  <2> QED
    BY <2>2, <2>6, <2>7, <2>8
<1> QED
  BY <1>1, <1>4, <1>12

-----------------------------------------------------------------------------
(* The bytes.                                                               *)

HereBytes == ByteTypes(data, size, capacity, pool) /\ ExtentsDisjoint

(* A file that gets an extent within the pool, apart from the others'.      *)
LEMMA ExtentGiven ==
  ASSUME HereBytes, NEW n \in Node, NEW d \in Nat, NEW c \in Nat,
         data' = [data EXCEPT ![n] = d], size' = [size EXCEPT ![n] = c],
         capacity' = [capacity EXCEPT ![n] = c],
         pool' \in Seq(Nat), Len(pool) <= Len(pool'), Len(pool') <= PoolBytes, d + c <= Len(pool'),
         \A m \in Node \ {n} : c > 0 /\ capacity[m] > 0 =>
           d + c <= data[m] \/ data[m] + capacity[m] <= d
  PROVE  /\ ByteTypes(data', size', capacity', pool') /\ ExtentsDisjoint'
         /\ \A m \in Node \ {n} : capacity'[m] = capacity[m]
<1>1. /\ data \in [Node -> Nat] /\ size \in [Node -> Nat] /\ capacity \in [Node -> Nat]
      /\ Len(pool) \in Nat /\ Len(pool') \in Nat
      /\ \A m \in Node : size[m] = capacity[m] /\ data[m] + capacity[m] <= Len(pool)
      /\ \A m, o \in Node : m # o /\ capacity[m] > 0 /\ capacity[o] > 0
           => data[m] + capacity[m] <= data[o] \/ data[o] + capacity[o] <= data[m]
  BY DEF HereBytes, ByteTypes, ExtentsDisjoint
<1>2. /\ data' \in [Node -> Nat] /\ size' \in [Node -> Nat] /\ capacity' \in [Node -> Nat]
      /\ data'[n] = d /\ size'[n] = c /\ capacity'[n] = c
      /\ \A m \in Node \ {n} : data'[m] = data[m] /\ size'[m] = size[m] /\ capacity'[m] = capacity[m]
  BY <1>1
<1>3. ByteTypes(data', size', capacity', pool')
  BY <1>2 DEF ByteTypes
<1>4. ASSUME NEW m \in Node PROVE size'[m] = capacity'[m] /\ data'[m] + capacity'[m] <= Len(pool')
  <2>1. CASE m = n
    BY <2>1, <1>2
  <2>2. CASE m # n
    <3>1. data[m] \in Nat /\ capacity[m] \in Nat
      BY <1>1
    <3>2. data[m] + capacity[m] <= Len(pool')
      BY <3>1, <1>1
    <3> QED
      BY <2>2, <3>2, <1>1, <1>2
  <2> QED
    BY <2>1, <2>2
<1>5. ASSUME NEW m \in Node, NEW o \in Node, m # o, capacity'[m] > 0, capacity'[o] > 0
      PROVE  data'[m] + capacity'[m] <= data'[o] \/ data'[o] + capacity'[o] <= data'[m]
  <2>1. CASE m = n
    <3>1. o \in Node \ {n}
      BY <2>1, <1>5
    <3> QED
      BY <2>1, <3>1, <1>2, <1>5
  <2>2. CASE o = n
    <3>1. m \in Node \ {n}
      BY <2>2, <1>5
    <3> QED
      BY <2>2, <3>1, <1>2, <1>5
  <2>3. CASE m # n /\ o # n
    <3>1. /\ m \in Node \ {n} /\ o \in Node \ {n}
          /\ data'[m] = data[m] /\ capacity'[m] = capacity[m]
          /\ data'[o] = data[o] /\ capacity'[o] = capacity[o]
      BY <2>3, <1>2
    <3> QED
      BY <3>1, <1>1, <1>5
  <2> QED
    BY <2>1, <2>2, <2>3
<1>6. ExtentsDisjoint'
  BY <1>4, <1>5 DEF ExtentsDisjoint
<1> QED
  BY <1>2, <1>3, <1>6

(* ramfs_op_create_file and ramfs_alloc_bytes. *)
LEMMA StoreBytes ==
  ASSUME HereBytes, NEW n \in Node, NEW t \in Seq(Nat), Store(n, t, capacity[n])
  PROVE  /\ ByteTypes(data', size', capacity', pool') /\ ExtentsDisjoint'
         /\ \A m \in Node \ {n} : capacity'[m] = capacity[m]
<1>1. /\ data \in [Node -> Nat] /\ size \in [Node -> Nat] /\ capacity \in [Node -> Nat]
      /\ pool \in Seq(Nat) /\ Len(pool) \in Nat /\ Len(pool) <= PoolBytes /\ PoolBytes \in Nat
      /\ \A m \in Node : data[m] + capacity[m] <= Len(pool)
      /\ \A m, o \in Node : m # o /\ capacity[m] > 0 /\ capacity[o] > 0
           => data[m] + capacity[m] <= data[o] \/ data[o] + capacity[o] <= data[m]
  BY TableAssumption DEF HereBytes, ByteTypes, ExtentsDisjoint
<1>2. Len(t) \in Nat /\ Len(<<>>) = 0
  BY EmptySeq
<1> DEFINE Is(d) == /\ data' = [data EXCEPT ![n] = d]
                    /\ size' = [size EXCEPT ![n] = Len(t)]
                    /\ capacity' = [capacity EXCEPT ![n] = Len(t)]
<1>3. CASE t = <<>> /\ Is(0) /\ pool' = pool
  <2>1. Len(t) = 0 /\ 0 + 0 <= Len(pool') /\ Len(pool) <= Len(pool') /\ Len(pool') <= PoolBytes
    BY <1>1, <1>2, <1>3
  <2>2. data' = [data EXCEPT ![n] = 0] /\ size' = [size EXCEPT ![n] = 0] /\ capacity' = [capacity EXCEPT ![n] = 0]
    BY <1>3, <2>1
  <2> DEFINE c == 0
             d == 0
  <2>3. /\ c \in Nat /\ d \in Nat /\ d + c <= Len(pool')
        /\ \A m \in Node \ {n} : ~(c > 0)
    BY <2>1
  <2>4. data' = [data EXCEPT ![n] = d] /\ size' = [size EXCEPT ![n] = c] /\ capacity' = [capacity EXCEPT ![n] = c]
    BY <2>2
  <2>5. pool' \in Seq(Nat)
    BY <1>1, <1>3
  <2> HIDE DEF c, d
  <2> QED
    BY <2>1, <2>3, <2>4, <2>5, ExtentGiven
<1>4. CASE InPlace(t, capacity[n]) /\ Is(data[n]) /\ pool' = Overlay(data[n], t)
  <2>1. pool' \in Seq(Nat) /\ Len(pool') = Len(pool)
    <3> DEFINE f(i) == IF i \in data[n] + 1 .. data[n] + Len(t) THEN t[i - data[n]] ELSE pool[i]
    <3>1. ASSUME NEW i \in 1 .. Len(pool) PROVE f(i) \in Nat
      <4>1. CASE i \in data[n] + 1 .. data[n] + Len(t)
        <5>1. i - data[n] \in 1 .. Len(t)
          BY <4>1, <1>1, <1>2
        <5>2. t[i - data[n]] \in Nat
          BY <5>1, ElementOfSeq
        <5> QED
          BY <4>1, <5>2
      <4>2. CASE i \notin data[n] + 1 .. data[n] + Len(t)
        BY <4>2, <1>1
      <4> QED
        BY <4>1, <4>2
    <3>2. pool' = [i \in 1 .. Len(pool) |-> f(i)]
      BY <1>4 DEF Overlay
    <3> HIDE DEF f
    <3> QED
      BY <3>1, <3>2, <1>1
  <2> DEFINE c == Len(t)
             d == data[n]
  <2>2. c <= capacity[n] /\ c \in Nat /\ d \in Nat /\ capacity[n] \in Nat
    BY <1>1, <1>2, <1>4 DEF InPlace
  <2>3. d + c <= Len(pool') /\ Len(pool) <= Len(pool') /\ Len(pool') <= PoolBytes
    <3>1. d + capacity[n] <= Len(pool)
      BY <1>1
    <3> HIDE DEF c, d
    <3> QED
      BY <2>1, <2>2, <3>1, <1>1
  <2>4. ASSUME NEW m \in Node \ {n}, c > 0, capacity[m] > 0
        PROVE  d + c <= data[m] \/ data[m] + capacity[m] <= d
    <3>1. d + capacity[n] <= data[m] \/ data[m] + capacity[m] <= d
      <4>1. capacity[n] > 0
        BY <2>2, <2>4
      <4> QED
        BY <4>1, <2>4, <1>1
    <3>2. data[m] \in Nat
      BY <1>1
    <3> HIDE DEF c, d
    <3> QED
      BY <2>2, <3>1, <3>2
  <2>5. data' = [data EXCEPT ![n] = d] /\ size' = [size EXCEPT ![n] = c] /\ capacity' = [capacity EXCEPT ![n] = c]
    BY <1>4
  <2> HIDE DEF c, d
  <2> QED
    BY <2>1, <2>2, <2>3, <2>4, <2>5, ExtentGiven
<1>5. CASE Len(pool) + Len(t) <= PoolBytes /\ Is(Len(pool)) /\ pool' = pool \o t
  <2> DEFINE c == Len(t)
             d == Len(pool)
  <2>1. pool' \in Seq(Nat) /\ Len(pool') = d + c
    BY <1>1, <1>5, ConcatProperties
  <2>2. c \in Nat /\ d \in Nat /\ d + c <= PoolBytes
    BY <1>1, <1>2, <1>5
  <2>3. \A m \in Node \ {n} : data[m] + capacity[m] <= d
    BY <1>1
  <2>4. data' = [data EXCEPT ![n] = d] /\ size' = [size EXCEPT ![n] = c] /\ capacity' = [capacity EXCEPT ![n] = c]
    BY <1>5
  <2>5. d + c <= Len(pool') /\ Len(pool) <= Len(pool') /\ Len(pool') <= PoolBytes
    BY <2>1, <2>2
  <2> HIDE DEF c, d
  <2> QED
    BY <2>1, <2>2, <2>3, <2>4, <2>5, ExtentGiven
<1>6. CASE UNCHANGED bytes
  <2>1. data' = data /\ size' = size /\ capacity' = capacity /\ pool' = pool
    BY <1>6 DEF bytes
  <2> QED
    BY <2>1 DEF HereBytes, ByteTypes, ExtentsDisjoint
<1> QED
  BY <1>3, <1>4, <1>5, <1>6 DEF Store

-----------------------------------------------------------------------------
(* The steps.                                                               *)

LEMMA InvParts ==
  ASSUME RamInv
  PROVE  /\ HereTree /\ Cleared(used, dir, capacity) /\ HereBytes
         /\ call \in [at : Node, rest : Seq(Names)] /\ used[call.at] /\ dir[call.at]
<1>1. HereTree /\ Cleared(used, dir, capacity) /\ used[call.at] /\ dir[call.at]
  BY InvTree DEF HereTree
<1>2. HereBytes /\ call \in [at : Node, rest : Seq(Names)]
  BY DEF RamInv, RamTypeOK, HereBytes, ByteTypes
<1> QED
  BY <1>1, <1>2

(* A creating call stands in a directory. *)
LEMMA CreatingFacts ==
  ASSUME RamInv, NEW cl \in Creating
  PROVE  cl.at \in Node /\ used[cl.at] /\ dir[cl.at] /\ cl.rest \in Seq(Names)
<1>1. CASE cl = call
  BY <1>1, InvParts
<1>2. CASE \E p \in Paths : cl = [at |-> Root, rest |-> p]
  BY <1>2, RootNode, PathsAssumption DEF RamInv
<1> QED
  BY <1>1, <1>2 DEF Creating

LEMMA CreateStep ==
  ASSUME RamInv, NEW d \in Node, dir[d], NEW nm \in Names, NEW isdir \in BOOLEAN,
         FindChild(d, nm) = None, Room(d), CreateChild(d, nm, isdir), cut' = cut
  PROVE  /\ NewNode \in Node /\ ~used[NewNode]
         /\ Tree(used', dir', parent', name', children', cut')
         /\ used'[NewNode] /\ dir'[NewNode] = isdir
         /\ \A m \in Node \ {NewNode} : used'[m] = used[m] /\ dir'[m] = dir[m]
<1>1. HereTree
  BY InvParts
<1>2. NewNode \in Node /\ ~used[NewNode]
  BY NewNodeFacts DEF Room
<1>3. \A c \in ToSet(children[d]) : name[c] # nm
  BY <1>1, FindFacts
<1>4. Tree(used, dir, parent, name, children, cut) /\ Len(children[d]) < MaxChildren
  BY <1>1 DEF HereTree, Room
<1> DEFINE n == NewNode
<1>5. /\ used' = [used EXCEPT ![n] = TRUE] /\ dir' = [dir EXCEPT ![n] = isdir]
      /\ parent' = [parent EXCEPT ![n] = d] /\ name' = [name EXCEPT ![n] = nm]
      /\ children' = [children EXCEPT ![n] = <<>>, ![d] = Append(@, n)]
  BY DEF CreateChild
<1>6. used \in [Node -> BOOLEAN] /\ dir \in [Node -> BOOLEAN]
  BY DEF RamInv, RamTypeOK
<1> HIDE DEF n
<1>7. n \in Node /\ ~used[n]
  BY <1>2 DEF n
<1>8. Tree(used', dir', parent', name', children', cut')
  BY <1>3, <1>4, <1>5, <1>7, CreateTree
<1>9. /\ used'[n] /\ dir'[n] = isdir
      /\ \A m \in Node \ {n} : used'[m] = used[m] /\ dir'[m] = dir[m]
  BY <1>5, <1>6, <1>7
<1> QED
  BY <1>2, <1>8, <1>9 DEF n

LEMMA NoCallFacts ==
  ASSUME Tree(used', dir', parent', name', children', cut'), call' = NoCall
  PROVE  call' \in [at : Node, rest : Seq(Names)] /\ used'[call'.at] /\ dir'[call'.at]
BY RootNode DEF Tree, NoCall

(* Nothing but the call in progress changes. *)
LEMMA IdleStep ==
  ASSUME RamInv, UNCHANGED <<links, bytes, cut>>,
         call' \in [at : Node, rest : Seq(Names)], used[call'.at], dir[call'.at]
  PROVE  RamInv'
<1>1. /\ used' = used /\ dir' = dir /\ parent' = parent /\ name' = name /\ children' = children
      /\ data' = data /\ size' = size /\ capacity' = capacity /\ pool' = pool /\ cut' = cut
  BY DEF links, bytes
<1>2. RamTypeOK'
  BY <1>1 DEF RamInv, RamTypeOK
<1>3. LinksAgree'
  BY <1>1 DEF RamInv, LinksAgree, Listed, NotForgotten
<1>4. ExtentsDisjoint' /\ NothingLost'
  BY <1>1 DEF RamInv, ExtentsDisjoint, NothingLost, Reached, Closed
<1> QED
  BY <1>1, <1>2, <1>3, <1>4 DEF RamInv

(* ramfs_create_child with the bytes of the file system as they are. *)
LEMMA MkdirStep ==
  ASSUME RamInv, NEW d \in Node, dir[d], NEW nm \in Names, NEW isdir \in BOOLEAN,
         FindChild(d, nm) = None, Room(d), CreateChild(d, nm, isdir), UNCHANGED <<bytes, cut>>,
         call' = NoCall \/ (isdir /\ call' \in [at : {NewNode}, rest : Seq(Names)])
  PROVE  RamInv'
<1>1. /\ NewNode \in Node /\ ~used[NewNode]
      /\ Tree(used', dir', parent', name', children', cut')
      /\ used'[NewNode] /\ dir'[NewNode] = isdir
      /\ \A m \in Node \ {NewNode} : used'[m] = used[m] /\ dir'[m] = dir[m]
  BY CreateStep
<1>2. data' = data /\ size' = size /\ capacity' = capacity /\ pool' = pool
  BY DEF bytes
<1>3. Cleared(used', dir', capacity')
  BY <1>1, <1>2, InvParts DEF Cleared
<1>4. ByteTypes(data', size', capacity', pool') /\ ExtentsDisjoint'
  BY <1>2, InvParts DEF HereBytes, ExtentsDisjoint
<1>5. call' \in [at : Node, rest : Seq(Names)] /\ used'[call'.at] /\ dir'[call'.at]
  <2>1. CASE call' = NoCall
    BY <2>1, <1>1, NoCallFacts
  <2>2. CASE isdir /\ call' \in [at : {NewNode}, rest : Seq(Names)]
    BY <2>2, <1>1
  <2> QED
    BY <2>1, <2>2
<1> QED
  BY <1>1, <1>3, <1>4, <1>5, TreeInv

LEMMA DescendStep ==
  ASSUME RamInv, NEW cl \in Creating, Descend(cl)
  PROVE  RamInv'
<1> DEFINE d == cl.at
           nm == Head(cl.rest)
           c == FindChild(d, nm)
<1>1. d \in Node /\ used[d] /\ dir[d] /\ cl.rest \in Seq(Names) /\ Len(cl.rest) > 1
  BY CreatingFacts DEF Descend
<1>2. nm \in Names /\ Tail(cl.rest) \in Seq(Names)
  BY <1>1, EmptySeq, HeadTailProperties
<1>3. CASE c # None /\ dir[c] /\ call' = [at |-> c, rest |-> Tail(cl.rest)] /\ UNCHANGED links
  <2>1. c \in Node /\ used[c]
    BY <1>1, <1>3, InvParts, FindFacts
  <2>2. call' \in [at : Node, rest : Seq(Names)] /\ used[call'.at] /\ dir[call'.at]
    BY <1>2, <1>3, <2>1
  <2>3. UNCHANGED <<links, bytes, cut>>
    BY <1>3 DEF Descend
  <2> QED
    BY <2>2, <2>3, IdleStep
<1>4. CASE call' = NoCall /\ UNCHANGED links
  <2>1. call' \in [at : Node, rest : Seq(Names)] /\ used[call'.at] /\ dir[call'.at]
    BY <1>4, RootNode DEF RamInv, NoCall
  <2>2. UNCHANGED <<links, bytes, cut>>
    BY <1>4 DEF Descend
  <2> QED
    BY <2>1, <2>2, IdleStep
<1>5. CASE c = None /\ Room(d) /\ CreateChild(d, nm, TRUE) /\ call' = [at |-> NewNode, rest |-> Tail(cl.rest)]
  <2>1. call' \in [at : {NewNode}, rest : Seq(Names)]
    BY <1>2, <1>5
  <2>2. UNCHANGED <<bytes, cut>>
    BY DEF Descend
  <2> HIDE DEF d, nm
  <2> QED
    BY <1>1, <1>2, <1>5, <2>1, <2>2, MkdirStep
<1> QED
  BY <1>3, <1>4, <1>5 DEF Descend

LEMMA MkdirLeafStep ==
  ASSUME RamInv, NEW cl \in Creating, MkdirLeaf(cl)
  PROVE  RamInv'
<1> DEFINE d == cl.at
           nm == cl.rest[1]
<1>1. d \in Node /\ used[d] /\ dir[d] /\ cl.rest \in Seq(Names) /\ Len(cl.rest) = 1
  BY CreatingFacts DEF MkdirLeaf
<1>2. nm \in Names
  BY <1>1
<1>3. call' = NoCall /\ UNCHANGED <<bytes, cut>>
  BY DEF MkdirLeaf
<1>4. CASE FindChild(d, nm) = None /\ Room(d) /\ CreateChild(d, nm, TRUE)
  <2> HIDE DEF d, nm
  <2> QED
    BY <1>1, <1>2, <1>3, <1>4, MkdirStep
<1>5. CASE UNCHANGED links
  <2>1. call' \in [at : Node, rest : Seq(Names)] /\ used[call'.at] /\ dir[call'.at]
    BY <1>3, RootNode DEF RamInv, NoCall
  <2> QED
    BY <2>1, <1>3, <1>5, IdleStep
<1> QED
  BY <1>4, <1>5 DEF MkdirLeaf

LEMMA CreateLeafStep ==
  ASSUME RamInv, NEW cl \in Creating, NEW text \in Contents, CreateLeaf(cl, text)
  PROVE  RamInv'
<1> DEFINE d == cl.at
           nm == cl.rest[1]
           c == FindChild(d, nm)
<1>1. d \in Node /\ used[d] /\ dir[d] /\ cl.rest \in Seq(Names) /\ Len(cl.rest) = 1
  BY CreatingFacts DEF CreateLeaf
<1>2. nm \in Names /\ text \in Seq(Nat)
  BY <1>1, ContentsAssumption
<1>3. call' = NoCall /\ cut' = cut
  BY DEF CreateLeaf
<1>4. HereTree /\ Cleared(used, dir, capacity) /\ HereBytes
  BY InvParts
<1>5. CASE c # None /\ ~dir[c] /\ Store(c, text, capacity[c]) /\ UNCHANGED links
  <2>1. c \in Node /\ used[c]
    BY <1>1, <1>4, <1>5, FindFacts
  <2>2. /\ ByteTypes(data', size', capacity', pool') /\ ExtentsDisjoint'
        /\ \A m \in Node \ {c} : capacity'[m] = capacity[m]
    <3> HIDE DEF c
    <3> QED
      BY <1>2, <1>4, <1>5, <2>1, StoreBytes
  <2>3. used' = used /\ dir' = dir /\ parent' = parent /\ name' = name /\ children' = children
    BY <1>5 DEF links
  <2>4. Tree(used', dir', parent', name', children', cut')
    BY <1>3, <1>4, <2>3 DEF HereTree
  <2>5. Cleared(used', dir', capacity')
    BY <1>4, <2>1, <2>2, <2>3 DEF Cleared
  <2> QED
    BY <1>3, <2>2, <2>4, <2>5, NoCallFacts, TreeInv
<1>6. CASE c = None /\ Room(d) /\ CreateChild(d, nm, FALSE) /\ Store(NewNode, text, 0)
  <2>1. /\ NewNode \in Node /\ ~used[NewNode]
        /\ Tree(used', dir', parent', name', children', cut')
        /\ used'[NewNode] /\ dir'[NewNode] = FALSE
        /\ \A m \in Node \ {NewNode} : used'[m] = used[m] /\ dir'[m] = dir[m]
    <3> HIDE DEF d, nm
    <3> QED
      BY <1>1, <1>2, <1>3, <1>6, CreateStep
  <2>2. capacity[NewNode] = 0
    BY <1>4, <2>1 DEF Cleared
  <2>3. /\ ByteTypes(data', size', capacity', pool') /\ ExtentsDisjoint'
        /\ \A m \in Node \ {NewNode} : capacity'[m] = capacity[m]
    BY <1>2, <1>4, <1>6, <2>1, <2>2, StoreBytes
  <2>4. Cleared(used', dir', capacity')
    BY <1>4, <2>1, <2>3 DEF Cleared
  <2> QED
    BY <1>3, <2>1, <2>3, <2>4, NoCallFacts, TreeInv
<1>7. CASE UNCHANGED <<links, bytes>>
  <2>1. call' \in [at : Node, rest : Seq(Names)] /\ used[call'.at] /\ dir[call'.at]
    BY <1>3, RootNode DEF RamInv, NoCall
  <2> QED
    BY <2>1, <1>3, <1>7, IdleStep
<1> QED
  BY <1>5, <1>6, <1>7 DEF CreateLeaf

(* Taking an extent away leaves the others apart. *)
LEMMA RemoveBytes ==
  ASSUME HereBytes, NEW n \in Node, pool' = pool,
         data' = [data EXCEPT ![n] = 0], size' = [size EXCEPT ![n] = 0], capacity' = [capacity EXCEPT ![n] = 0]
  PROVE  /\ ByteTypes(data', size', capacity', pool') /\ ExtentsDisjoint'
         /\ \A m \in Node \ {n} : capacity'[m] = capacity[m]
<1> DEFINE c == 0
           d == 0
<1>1. pool \in Seq(Nat) /\ Len(pool) \in Nat /\ Len(pool) <= PoolBytes
  BY DEF HereBytes, ByteTypes
<1>2. /\ c \in Nat /\ d \in Nat /\ d + c <= Len(pool') /\ Len(pool) <= Len(pool')
      /\ \A m \in Node \ {n} : ~(c > 0)
  BY <1>1
<1>3. data' = [data EXCEPT ![n] = d] /\ size' = [size EXCEPT ![n] = c] /\ capacity' = [capacity EXCEPT ![n] = c]
  OBVIOUS
<1> HIDE DEF c, d
<1> QED
  BY <1>1, <1>2, <1>3, ExtentGiven

LEMMA RemoveStep ==
  ASSUME RamInv, NEW p \in Paths, RemoveNode(p)
  PROVE  RamInv'
<1> DEFINE d == Holder(p)
           n == FindChild(d, Last(p))
<1>1. HereTree /\ Cleared(used, dir, capacity) /\ HereBytes
  BY InvParts
<1>2. d \in Node /\ dir[d] /\ n # None /\ Removable(n)
  BY DEF RemoveNode, IsHolder
<1>3. n \in ToSet(children[d]) /\ n \in Node /\ used[n]
  BY <1>1, <1>2, FindFacts
<1>4. ToSet(children[n]) = {}
  <2>1. \A c \in ToSet(children[n]) : dir[n]
    BY <1>1, <1>3 DEF HereTree, Tree, Listing, EntryOf
  <2>2. dir[n] => children[n] = <<>>
    BY <1>2 DEF Removable
  <2> QED
    BY <2>1, <2>2, EmptyList
<1>5. /\ children' = [children EXCEPT ![d] = Detached(@, n), ![n] = <<>>]
      /\ used' = [used EXCEPT ![n] = FALSE] /\ dir' = [dir EXCEPT ![n] = FALSE]
      /\ parent' = [parent EXCEPT ![n] = 0] /\ name' = [name EXCEPT ![n] = NoName]
      /\ data' = [data EXCEPT ![n] = 0] /\ size' = [size EXCEPT ![n] = 0]
      /\ capacity' = [capacity EXCEPT ![n] = 0]
      /\ pool' = pool /\ cut' = cut /\ call' = NoCall
  BY DEF RemoveNode
<1> HIDE DEF d, n
<1>6. Tree(used', dir', parent', name', children', cut')
  BY <1>1, <1>2, <1>3, <1>4, <1>5, RemoveTree DEF HereTree
<1>7. /\ ByteTypes(data', size', capacity', pool') /\ ExtentsDisjoint'
      /\ \A m \in Node \ {n} : capacity'[m] = capacity[m]
  BY <1>1, <1>3, <1>5, RemoveBytes
<1>8. Cleared(used', dir', capacity')
  <2>1. /\ used \in [Node -> BOOLEAN] /\ dir \in [Node -> BOOLEAN] /\ capacity \in [Node -> Nat]
    BY DEF RamInv, RamTypeOK
  <2>2. ~dir'[n] /\ capacity'[n] = 0
    BY <2>1, <1>3, <1>5
  <2>3. \A m \in Node \ {n} : used'[m] = used[m] /\ dir'[m] = dir[m]
    BY <2>1, <1>5
  <2> QED
    BY <2>2, <2>3, <1>1, <1>7 DEF Cleared
<1> QED
  BY <1>5, <1>6, <1>7, <1>8, NoCallFacts, TreeInv

(* The path a rename goes to. *)
LEMMA TargetPath ==
  ASSUME NEW p \in Paths, NEW suffix \in Targets
  PROVE  /\ p \in Seq(Names) /\ p # <<>>
         /\ Front(Front(p) \o suffix) \in Seq(Names) /\ Last(Front(p) \o suffix) \in Names
<1>1. p \in Seq(Names) /\ p # <<>> /\ suffix \in Seq(Names) /\ suffix # <<>>
  BY PathsAssumption
<1> DEFINE f == Front(p)
           q == f \o suffix
<1>2. f \in Seq(Names)
  <2>1. 1 \in Int /\ Len(p) - 1 \in Int /\ \A i \in 1 .. Len(p) - 1 : p[i] \in Names
    BY <1>1
  <2> QED
    BY <2>1, SubSeqProperties DEF Front
<1> HIDE DEF f
<1>3. q \in Seq(Names) /\ Len(q) = Len(f) + Len(suffix) /\ Len(f) \in Nat /\ Len(suffix) \in Nat \ {0}
  BY <1>1, <1>2, ConcatProperties, EmptySeq
<1> HIDE DEF q
<1>4. Last(q) \in Names
  <2>1. Len(q) \in 1 .. Len(q)
    BY <1>3
  <2> QED
    BY <2>1, <1>3, ElementOfSeq DEF Last
<1>5. Front(q) \in Seq(Names)
  <2>1. 1 \in Int /\ Len(q) - 1 \in Int /\ \A i \in 1 .. Len(q) - 1 : q[i] \in Names
    BY <1>3
  <2> QED
    BY <2>1, SubSeqProperties DEF Front
<1> QED
  BY <1>1, <1>4, <1>5 DEF q, f

LEMMA RenameStep ==
  ASSUME RamInv, NEW p \in Paths, NEW suffix \in Targets, Rename(p, suffix)
  PROVE  RamInv'
<1> DEFINE q == Front(p) \o suffix
           d == Holder(p)
           e == Holder(q)
           n == FindChild(d, Last(p))
           nm == Last(q)
<1>1. HereTree /\ Cleared(used, dir, capacity) /\ HereBytes
  BY InvParts
<1>2. /\ d \in Node /\ dir[d] /\ n # None /\ e \in Node /\ dir[e] /\ FindChild(e, nm) = None
  BY DEF Rename, IsHolder, TargetFree
<1>3. n \in ToSet(children[d]) /\ n \in Node
  BY <1>1, <1>2, FindFacts
<1>4. \A c \in ToSet(children[e]) : name[c] # nm
  BY <1>1, <1>2, FindFacts
<1>5. /\ p \in Seq(Names) /\ p # <<>> /\ Front(q) \in Seq(Names) /\ nm \in Names
  BY TargetPath
<1>6. /\ used' = used /\ dir' = dir /\ data' = data /\ size' = size /\ capacity' = capacity /\ pool' = pool
      /\ call' = NoCall
  BY DEF Rename, bytes
<1> SUFFICES Tree(used', dir', parent', name', children', cut')
  <2>1. Cleared(used', dir', capacity')
    BY <1>1, <1>6
  <2>2. ByteTypes(data', size', capacity', pool') /\ ExtentsDisjoint'
    BY <1>1, <1>6 DEF HereBytes, ExtentsDisjoint
  <2> QED
    BY <2>1, <2>2, <1>6, NoCallFacts, TreeInv
<1>7. Tree(used, dir, parent, name, children, cut)
  BY <1>1 DEF HereTree
<1>8. CASE /\ d = e
           /\ name' = [name EXCEPT ![n] = nm]
           /\ UNCHANGED <<parent, children, cut>>
  <2> HIDE DEF d, e, n, nm
  <2>1. Tree(used, dir, parent, [name EXCEPT ![n] = nm], children, cut)
    BY <1>2, <1>3, <1>4, <1>5, <1>7, <1>8, RenameTree
  <2> QED
    BY <2>1, <1>6, <1>8
<1>9. CASE /\ d # e
           /\ children' = [children EXCEPT ![d] = Detached(@, n)]
           /\ cut' = cut \cup {n}
           /\ UNCHANGED <<name, parent>>
  <2> HIDE DEF d, e, n
  <2>1. Tree(used, dir, parent, name, [children EXCEPT ![d] = Detached(@, n)], cut \cup {n})
    BY <1>2, <1>3, <1>7, LoseTree
  <2> QED
    BY <2>1, <1>6, <1>9
<1>10. CASE /\ d # e /\ Len(children[e]) < MaxChildren
            /\ children' = [children EXCEPT ![d] = Detached(@, n), ![e] = Append(@, n)]
            /\ parent' = [parent EXCEPT ![n] = e]
            /\ name' = [name EXCEPT ![n] = nm]
            /\ cut' = IF IsPrefix(p, Front(q)) THEN cut \cup {n} ELSE cut
  <2>1. n \in cut' \/ \A S \in SUBSET Node :
                        Root \in S /\ (\A m \in S : ToSet(children[m]) \ {n} \subseteq S) => e \in S
    <3>1. CASE IsPrefix(p, Front(q))
      BY <3>1, <1>10
    <3>2. CASE ~IsPrefix(p, Front(q))
      <4> SUFFICES ASSUME NEW S \in SUBSET Node, Root \in S,
                          \A m \in S : ToSet(children[m]) \ {n} \subseteq S
                   PROVE  e \in S
        OBVIOUS
      <4>1. d # None /\ n # None /\ Lookup(Front(q)) # None /\ e = Lookup(Front(q))
        BY <1>2, RootNode DEF Holder
      <4>2. Lookup(Front(q)) \in S
        <5> HIDE DEF q
        <5> QED
          BY <3>2, <4>1, <1>1, <1>5, TargetReached
      <4> QED
        BY <4>1, <4>2
    <3> QED
      BY <3>1, <3>2
  <2>2. cut' \in {cut, cut \cup {n}}
    BY <1>10
  <2> HIDE DEF q, d, e, n, nm
  <2>3. Tree(used, dir, [parent EXCEPT ![n] = e], [name EXCEPT ![n] = nm],
             [children EXCEPT ![d] = Detached(@, n), ![e] = Append(@, n)], cut')
    BY <2>1, <2>2, <1>2, <1>3, <1>4, <1>5, <1>7, <1>10, MoveTree
  <2> QED
    BY <2>3, <1>6, <1>10
<1> QED
  BY <1>8, <1>9, <1>10 DEF Rename, Reparent

-----------------------------------------------------------------------------
(* The invariant.                                                           *)

LEMMA InitRamInv == RamInit => RamInv
<1> SUFFICES ASSUME RamInit PROVE RamInv
  OBVIOUS
<1> USE RootNode
<1>1. /\ used = [n \in Node |-> n = Root] /\ dir = [n \in Node |-> n = Root]
      /\ parent = [n \in Node |-> 0] /\ name = [n \in Node |-> NoName]
      /\ children = [n \in Node |-> <<>>]
      /\ data = [n \in Node |-> 0] /\ size = [n \in Node |-> 0] /\ capacity = [n \in Node |-> 0]
      /\ pool = <<>> /\ call = NoCall /\ cut = {}
  BY DEF RamInit
<1>2. /\ used[Root] /\ dir[Root]
      /\ \A n \in Node : /\ used[n] <=> n = Root
                         /\ dir[n] <=> n = Root
                         /\ children[n] = <<>> /\ data[n] = 0 /\ size[n] = 0 /\ capacity[n] = 0
  BY <1>1
<1>3. RamTypeOK
  <2>1. parent \in [Node -> Node]
    BY <1>1 DEF Root
  <2>2. children \in [Node -> Seq(Node)] /\ \A n \in Node : Len(children[n]) <= MaxChildren
    BY <1>1, EmptyList, TableAssumption
  <2>3. pool \in Seq(Nat) /\ Len(pool) <= PoolBytes
    BY <1>1, TableAssumption
  <2>4. call \in [at : Node, rest : Seq(Names)]
    BY <1>1 DEF NoCall
  <2> QED
    BY <1>1, <2>1, <2>2, <2>3, <2>4 DEF RamTypeOK
<1>4. LinksAgree
  <2>1. \A n \in Node : 1 .. Len(children[n]) = {}
    BY <1>2, EmptyList
  <2>2. Listed
    BY <1>2, <2>1 DEF Listed
  <2>3. NotForgotten
    BY <1>2 DEF NotForgotten
  <2> QED
    BY <1>1, <1>2, <2>2, <2>3 DEF LinksAgree, NoCall
<1>5. ExtentsDisjoint
  BY <1>1, <1>2 DEF ExtentsDisjoint
<1>6. NothingLost
  BY <1>2 DEF NothingLost, Reached
<1> QED
  BY <1>2, <1>3, <1>4, <1>5, <1>6 DEF RamInv

LEMMA RamInvStep == RamInv /\ [RamNext]_ram_vars => RamInv'
<1> SUFFICES ASSUME RamInv, [RamNext]_ram_vars PROVE RamInv'
  OBVIOUS
<1>1. CASE \E cl \in Creating : Descend(cl)
  BY <1>1, DescendStep
<1>2. CASE \E cl \in Creating : MkdirLeaf(cl)
  BY <1>2, MkdirLeafStep
<1>3. CASE \E cl \in Creating, text \in Contents : CreateLeaf(cl, text)
  BY <1>3, CreateLeafStep
<1>4. CASE \E p \in Paths : RemoveNode(p)
  BY <1>4, RemoveStep
<1>5. CASE \E p \in Paths, suffix \in Targets : Rename(p, suffix)
  BY <1>5, RenameStep
<1>6. CASE UNCHANGED ram_vars
  <2>1. UNCHANGED <<links, bytes, cut>> /\ call' = call
    BY <1>6 DEF ram_vars
  <2> QED
    BY <2>1, InvParts, IdleStep
<1> QED
  BY <1>1, <1>2, <1>3, <1>4, <1>5, <1>6 DEF RamNext

(* The inductive invariant of the RAM file system, for any number of nodes, *)
(* any length of the child lists and any size of the pool (ramfs.c:6-357).  *)
THEOREM SpecRamInv == RamSpec => []RamInv
<1> QED
  BY InitRamInv, RamInvStep, PTL DEF RamSpec

(* Whatever the order of mkdir, create, write, remove and rename, the child *)
(* lists and the parent links of ramfs.c agree, and no name is in a         *)
(* directory twice.                                                         *)
THEOREM SpecLinksAgree == RamSpec => []LinksAgree
<1>1. RamInv => LinksAgree
  BY DEF RamInv
<1> QED
  BY <1>1, SpecRamInv, PTL

(* A write in place (ramfs.c:195) never reaches the bytes of another file,  *)
(* and the pool of ramfs_alloc_bytes is not overrun.                        *)
THEOREM SpecExtentsDisjoint == RamSpec => []ExtentsDisjoint
<1>1. RamInv => ExtentsDisjoint
  BY DEF RamInv
<1> QED
  BY <1>1, SpecRamInv, PTL

(* Each node in use is found from the root, or is or lies below one that    *)
(* ramfs_op_rename (ramfs.c:332) lost: in a full directory or below itself. *)
THEOREM SpecRamNothingLost == RamSpec => []NothingLost
<1>1. RamInv => NothingLost
  BY DEF RamInv
<1> QED
  BY <1>1, SpecRamInv, PTL
=============================================================================
