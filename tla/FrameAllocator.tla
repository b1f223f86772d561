--------------------------- MODULE FrameAllocator ---------------------------
(***************************************************************************)
(* The physical page allocator mm/pmm.c: the bitmap laid out by pmm_init   *)
(* from the boot loader's memory map, pmm_alloc_page and pmm_free_page.    *)
(*                                                                         *)
(* Nothing guards the bitmap: a call may be preempted between the test of  *)
(* a bit and the store that changes it, and two calls on one byte may then *)
(* overlap (raced).  The bitmap itself lives in the first usable range     *)
(* that is large enough, and init cuts it off that range to the byte, not  *)
(* to the page.                                                            *)
(***************************************************************************)
EXTENDS Integers, FiniteSets

CONSTANTS
  MemMap,     (* the memory map: a sequence of [base, length, usable]       *)
  PageSize,   (* PAGE_SIZE, in bytes                                        *)
  WordBits,   (* pages per word of the scan: 64                             *)
  CountMod,   (* 2^64: free_pages is a size_t                               *)
  ByteBits,   (* pages per byte of the bitmap: 8                            *)
  Threads,    (* the callers                                                *)
  Contents    (* what owners write to a page, as the set of the 1 bits      *)

ASSUME PageAssumption    == PageSize \in Nat \ {0} /\ WordBits \in Nat \ {0}
ASSUME CountAssumption   == CountMod \in Nat \ {0} /\ ByteBits \in Nat \ {0}

-----------------------------------------------------------------------------
(* pmm_init                                                                 *)

Entries == DOMAIN MemMap
End(i)  == MemMap[i].base + MemMap[i].length

HighestAddr == CHOOSE a \in {End(i) : i \in Entries} : \A i \in Entries : End(i) <= a
TotalPages  == HighestAddr \div PageSize
BitmapSize  == TotalPages \div ByteBits + 1
Pages       == 0 .. TotalPages - 1

(* The first usable range with room for the bitmap hosts it. *)
CanHost(i) == MemMap[i].usable /\ MemMap[i].length >= BitmapSize
Host       == CHOOSE i \in Entries : CanHost(i) /\ \A j \in Entries : CanHost(j) => i <= j

ASSUME MapAssumption ==
  /\ \A i \in Entries : MemMap[i].base \in Nat /\ MemMap[i].length \in Nat
  /\ TotalPages \in Nat \ {0}
  /\ \E i \in Entries : CanHost(i)

(* The boot protocol: usable ranges start on a page boundary. *)
ASSUME AlignedAssumption ==
  \A i \in Entries : MemMap[i].usable => \E b \in 0 .. MemMap[i].base : MemMap[i].base = b * PageSize

BitmapBase == MemMap[Host].base

FirstAddr(i) == MemMap[i].base + IF i = Host THEN BitmapSize ELSE 0

(* Mutant: the loop runs while addr <= end. *)
MutCleared ==
  UNION { { p \in Pages : \E k \in Pages : /\ FirstAddr(i) + k * PageSize <= End(i)
                                           /\ p = (FirstAddr(i) + k * PageSize) \div PageSize }
          : i \in { j \in Entries : MemMap[j].usable } }

(* The pages init frees: whole pages counted from the first free byte, each *)
(* entered under the number of the page its first byte is in.               *)
Cleared ==
  UNION { { p \in Pages : \E k \in Pages : /\ FirstAddr(i) + (k + 1) * PageSize <= End(i)
                                           /\ p = (FirstAddr(i) + k * PageSize) \div PageSize }
          : i \in { j \in Entries : MemMap[j].usable } }

FreeAtInit == Cleared \ {0}

(* The pages that lie in a usable range as a whole. *)
UsablePages ==
  { p \in Pages : \E i \in Entries : /\ MemMap[i].usable /\ MemMap[i].base <= p * PageSize
                                    /\ (p + 1) * PageSize <= End(i) }

(* The page that holds the bit of page p, and the bits a page holds. *)
HomeOfBit(p) == (BitmapBase + p \div ByteBits) \div PageSize
BitsIn(f)    == { p \in Pages : HomeOfBit(p) = f }

(* The other bits of the byte of page p. *)
ByteMates(p) == { q \in Pages : q \div ByteBits = p \div ByteBits }

-----------------------------------------------------------------------------

VARIABLES
  used,             (* the pages whose bit is set                           *)
  free_pages,       (* the counter                                          *)
  last_alloc_page,  (* where the next scan starts                           *)
  owned,            (* per thread: the pages it was given and has not freed *)
  call,             (* per thread: the call in progress                     *)
  raced,            (* history: the pages of the bytes on which two calls   *)
                    (* have overlapped                                      *)
  spoiled           (* history: an owner has written to a page with bits    *)

vars == <<used, free_pages, last_alloc_page, owned, call, raced, spoiled>>

Idle == [at |-> "Idle", page |-> 0, byte |-> {}]

Init ==
  /\ used = Pages \ FreeAtInit
  /\ free_pages = Cardinality(FreeAtInit) % CountMod
  /\ last_alloc_page = 1
  /\ owned = [t \in Threads |-> {}]
  /\ call = [t \in Threads |-> Idle]
  /\ raced = {} /\ spoiled = FALSE

(* Thread t comes to store to the byte of page p, which it has tested. *)
Starts(t, at, p) ==
  /\ call' = [call EXCEPT ![t] = [at |-> at, page |-> p, byte |-> used \cap ByteMates(p)]]
  /\ raced' = raced \cup { q \in ByteMates(p) : \E u \in Threads \ {t} :
                                /\ call[u].at # "Idle"
                                /\ ByteMates(call[u].page) = ByteMates(p) }

Words     == { p \div WordBits : p \in Pages }
InWord(w) == { p \in Pages : p \div WordBits = w /\ p \notin used }
Least(S)  == { p \in S : \A q \in S : p <= q }

(* Mutant: the guard for page 0 is dropped. *)
MutCandidateZero(w) == InWord(w) # {}

(* The word has a clear bit and the lowest one is not that of page 0, for   *)
(* which the whole word is skipped.                                         *)
Candidate(w) == InWord(w) # {} /\ 0 \notin InWord(w)

(* Mutant: the second pass starts where the first did. *)
MutFoundNoWrap ==
  LET later == { w \in Words : Candidate(w) /\ w >= last_alloc_page \div WordBits }
  IN  UNION { Least(InWord(w)) : w \in Least(later) }

(* The page the two passes arrive at, as a set of at most one page: the     *)
(* first word from the one of last_alloc_page on, else the first of all,    *)
(* and in it the lowest clear bit (ctz of the inverted word).               *)
Found ==
  LET all   == { w \in Words : Candidate(w) }
      later == { w \in all : w >= last_alloc_page \div WordBits }
  IN  UNION { Least(InWord(w)) : w \in Least(IF later # {} THEN later ELSE all) }

(* pmm_alloc_page up to the test of the bit ... *)
AllocScan(t) ==
  /\ call[t].at = "Idle"
  /\ \E p \in Found : Starts(t, "Take", p)
  /\ UNCHANGED <<used, free_pages, last_alloc_page, owned, spoiled>>

(* ... or, with no page left, to the end *)
AllocFails(t) ==
  /\ call[t].at = "Idle"
  /\ Found = {}
  /\ UNCHANGED vars

(* A read-modify-write of the byte of page p: of the byte as it is now, or, *)
(* when the compiler kept the byte it tested, of that one.                  *)
StoreByte(t, p, bits) ==
  \E old \in {used \cap ByteMates(p), call[t].byte} :
    used' = (used \ ByteMates(p)) \cup ((old \ {p}) \cup bits)

(* Mutants of the stores. *)
MutAllocTakeNoSet(t) ==
  /\ call[t].at = "Take"
  /\ free_pages' = (free_pages - 1) % CountMod
  /\ last_alloc_page' = IF call[t].page + 1 >= TotalPages THEN 1 ELSE call[t].page + 1
  /\ owned' = [owned EXCEPT ![t] = @ \cup {call[t].page}]
  /\ call' = [call EXCEPT ![t] = Idle]
  /\ UNCHANGED <<used, raced, spoiled>>

(* set_bit, the counter, the hint and the return. *)
AllocTake(t) ==
  /\ call[t].at = "Take"
  /\ StoreByte(t, call[t].page, {call[t].page})
  /\ free_pages' = (free_pages - 1) % CountMod
  /\ last_alloc_page' = IF call[t].page + 1 >= TotalPages THEN 1 ELSE call[t].page + 1
  /\ owned' = [owned EXCEPT ![t] = @ \cup {call[t].page}]
  /\ call' = [call EXCEPT ![t] = Idle]
  /\ UNCHANGED <<raced, spoiled>>

(* pmm_free_page of a page the caller was given: a clear bit or page 0 is   *)
(* left alone ...                                                           *)
FreeTest(t, p) ==
  /\ call[t].at = "Idle"
  /\ p \in owned[t]
  /\ owned' = [owned EXCEPT ![t] = @ \ {p}]
  /\ IF p # 0 /\ p \in used
     THEN Starts(t, "Clear", p)
     ELSE UNCHANGED <<call, raced>>
  /\ UNCHANGED <<used, free_pages, last_alloc_page, spoiled>>

(* ... a set one is cleared.  last_alloc_page stays.                        *)
FreeClear(t) ==
  /\ call[t].at = "Clear"
  /\ StoreByte(t, call[t].page, {})
  /\ free_pages' = (free_pages + 1) % CountMod
  /\ call' = [call EXCEPT ![t] = Idle]
  /\ UNCHANGED <<last_alloc_page, owned, raced, spoiled>>

(* An owner writes to its page; if the page holds part of the bitmap, those *)
(* bits become whatever it writes.                                          *)
OwnerWrites(t, f) ==
  /\ call[t].at = "Idle"
  /\ f \in owned[t] /\ BitsIn(f) # {}
  /\ \E S \in Contents : used' = (used \ BitsIn(f)) \cup (S \cap BitsIn(f))
  /\ spoiled' = TRUE
  /\ UNCHANGED <<free_pages, last_alloc_page, owned, call, raced>>

Next ==
  \E t \in Threads :
    \/ AllocScan(t) \/ AllocFails(t) \/ AllocTake(t) \/ FreeClear(t)
    \/ \E p \in Pages : FreeTest(t, p) \/ OwnerWrites(t, p)

Spec == Init /\ [][Next]_vars

-----------------------------------------------------------------------------
(* Properties                                                               *)

(* Every variable keeps its type. *)
TypeOK ==
  /\ used \subseteq Pages
  /\ free_pages \in 0 .. CountMod - 1
  /\ last_alloc_page \in Nat
  /\ owned \in [Threads -> SUBSET Pages]
  /\ call \in [Threads -> [at : {"Idle", "Take", "Clear"}, page : Pages, byte : SUBSET Pages]]
  /\ raced \subseteq Pages /\ spoiled \in BOOLEAN

(* "Never hand out the zero page (NULL)" (pmm.c:83): whatever is written to *)
(* the bitmap and wherever callers are preempted.                           *)
ZeroPageKept == \A t \in Threads : 0 \notin owned[t]

(* While no owner has overwritten part of the bitmap: a page is given to    *)
(* two callers, or loses its bit while it has an owner, only if two calls   *)
(* overlapped on its byte (nothing in pmm.c or around it prevents that).    *)
ExclusivePages ==
  ~spoiled => /\ \A t \in Threads : owned[t] \subseteq used \cup raced
              /\ \A t, u \in Threads : t # u => owned[t] \cap owned[u] \subseteq raced

(* While no owner has overwritten part of the bitmap: only pages of usable  *)
(* ranges are handed out, so firmware tables and the kernel stay untouched. *)
UsablePagesOnly == ~spoiled => \A t \in Threads : owned[t] \subseteq UsablePages

FreedPagesOnly == ~spoiled => \A t \in Threads : owned[t] \subseteq FreeAtInit

(* pmm_alloc_page gives up only when every page is taken: the hint, the two *)
(* passes and the skipped words hide none.                                  *)
GivesUpOnlyWhenFull == (~spoiled /\ Found = {}) => Pages \ {0} \subseteq used

(* The inductive invariant behind ZeroPageKept. *)
ZeroInv ==
  /\ TypeOK
  /\ ZeroPageKept
  /\ \A t \in Threads : call[t].at = "Take" => call[t].page # 0

CallInv(t) ==
  LET p == call[t].page
  IN  ~spoiled =>
        /\ call[t].byte \subseteq ByteMates(p)
        /\ Pages \ FreeAtInit \subseteq call[t].byte \cup (Pages \ ByteMates(p))
        /\ p \in FreeAtInit
        /\ p \notin raced =>
             /\ \A u \in Threads \ {t} :
                  call[u].at # "Idle" => ByteMates(call[u].page) # ByteMates(p)
             /\ call[t].byte = used \cap ByteMates(p)
             /\ call[t].at = "Take" => p \notin used
             /\ call[t].at = "Clear" => \A u \in Threads : p \notin owned[u]

(* The inductive invariant behind ExclusivePages: on a byte that has seen   *)
(* no overlap a call is alone, and what it tested is still so; a page about *)
(* to be taken is free, and one about to be cleared is no longer anybody's. *)
OwnerInv ==
  /\ TypeOK
  /\ ExclusivePages
  /\ FreedPagesOnly
  /\ ~spoiled => Pages \ FreeAtInit \subseteq used
  /\ \A p \in raced : ByteMates(p) \subseteq raced
  /\ \A t \in Threads : call[t].at # "Idle" => CallInv(t)
=============================================================================
