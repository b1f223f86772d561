------------------------ MODULE FrameAllocatorProofs ------------------------
(***************************************************************************)
(* Proofs about FrameAllocator for every memory map, page size and set of  *)
(* callers, which may be preempted anywhere.                               *)
(***************************************************************************)
EXTENDS FrameAllocator, FiniteSetTheorems, WellFoundedInduction, TLAPS

(* Every number of a page that pmm_init frees is a page other than 0. *)
LEMMA FreeAtInitPages == FreeAtInit \subseteq Pages \ {0}
  BY DEF FreeAtInit, Cleared

(* The byte of a page holds the bit of that page, and bits of pages only. *)
LEMMA ByteMatesPages ==
  ASSUME NEW p \in Pages PROVE p \in ByteMates(p) /\ ByteMates(p) \subseteq Pages
  BY DEF ByteMates

(* The counter after init is a number of the counter's width. *)
LEMMA InitCount == Cardinality(FreeAtInit) % CountMod \in 0 .. CountMod - 1
<1>1. IsFiniteSet(Pages)
  BY FS_Interval, MapAssumption DEF Pages
<1>2. IsFiniteSet(FreeAtInit)
  BY <1>1, FS_Subset, FreeAtInitPages
<1>3. Cardinality(FreeAtInit) \in Nat
  BY <1>2, FS_CardinalityType
<1> QED
  BY <1>3, CountAssumption

(* The scan arrives at clear bits only, and never at page 0. *)
LEMMA FoundIsFree ==
  ASSUME NEW p \in Found PROVE p \in Pages /\ p \notin used /\ p # 0
<1> DEFINE all   == { w \in Words : Candidate(w) }
           later == { w \in all : w >= last_alloc_page \div WordBits }
<1>1. PICK w \in Least(IF later # {} THEN later ELSE all) : p \in Least(InWord(w))
  BY Zenon DEF Found
<1>2. Candidate(w) /\ p \in InWord(w)
  BY <1>1 DEF Least
<1> QED
  BY <1>2 DEF Candidate, InWord

(* Init establishes type correctness. *)
LEMMA InitType == Init => TypeOK
<1> SUFFICES ASSUME Init PROVE TypeOK
  OBVIOUS
<1>1. Idle \in [at : {"Idle", "Take", "Clear"}, page : Pages, byte : SUBSET Pages]
  BY MapAssumption DEF Idle, Pages
<1> QED
  BY <1>1, InitCount DEF Init, TypeOK

(* Every step preserves type correctness. *)
LEMMA NextType == TypeOK /\ [Next]_vars => TypeOK'
<1> SUFFICES ASSUME TypeOK, [Next]_vars PROVE TypeOK'
  OBVIOUS
<1>z. Idle \in [at : {"Idle", "Take", "Clear"}, page : Pages, byte : SUBSET Pages]
  BY MapAssumption DEF Idle, Pages
<1>a. \A n \in Int : n % CountMod \in 0 .. CountMod - 1
  BY CountAssumption
<1>b. \A p \in Pages : p + 1 \in Nat
  BY MapAssumption DEF Pages
<1>1. ASSUME NEW t \in Threads, AllocScan(t) PROVE TypeOK'
  <2>1. PICK p \in Found : Starts(t, "Take", p)
    BY <1>1 DEF AllocScan
  <2> QED
    BY <1>1, <2>1, FoundIsFree, ByteMatesPages DEF AllocScan, Starts, TypeOK
<1>2. ASSUME NEW t \in Threads, AllocTake(t) PROVE TypeOK'
  <2>1. call[t].byte \subseteq Pages
    BY DEF TypeOK
  <2>2. call[t].page \in Pages
    BY DEF TypeOK
  <2>3. used' \subseteq Pages
    BY <1>2, <2>1, <2>2, ByteMatesPages DEF AllocTake, StoreByte, TypeOK
  <2>4. free_pages' \in 0 .. CountMod - 1 /\ last_alloc_page' \in Nat
    BY <1>2, <1>a, <1>b, <2>2, CountAssumption DEF AllocTake, TypeOK
  <2>5. owned' \in [Threads -> SUBSET Pages] /\ spoiled' \in BOOLEAN /\ raced' \subseteq Pages
    BY <1>2, <2>2 DEF AllocTake, TypeOK
  <2>6. call' \in [Threads -> [at : {"Idle", "Take", "Clear"}, page : Pages,
                               byte : SUBSET Pages]]
    BY <1>2, <1>z DEF AllocTake, TypeOK
  <2> QED
    BY <2>3, <2>4, <2>5, <2>6 DEF TypeOK
<1>3. ASSUME NEW t \in Threads, FreeClear(t) PROVE TypeOK'
  <2>1. call[t].page \in Pages /\ call[t].byte \subseteq Pages
    BY DEF TypeOK
  <2>3. used' \subseteq Pages
    BY <1>3, <2>1 DEF FreeClear, StoreByte, TypeOK
  <2>4. free_pages' \in 0 .. CountMod - 1
    BY <1>3, <1>a, CountAssumption DEF FreeClear, TypeOK
  <2>6. call' \in [Threads -> [at : {"Idle", "Take", "Clear"}, page : Pages,
                               byte : SUBSET Pages]]
    BY <1>3, <1>z DEF FreeClear, TypeOK
  <2> QED
    BY <1>3, <2>3, <2>4, <2>6 DEF FreeClear, TypeOK
<1>4. ASSUME NEW t \in Threads, NEW p \in Pages, FreeTest(t, p) PROVE TypeOK'
  BY <1>4, ByteMatesPages DEF FreeTest, Starts, TypeOK
<1>5. ASSUME NEW t \in Threads, NEW p \in Pages, OwnerWrites(t, p) PROVE TypeOK'
  BY <1>5 DEF OwnerWrites, TypeOK, BitsIn
<1>6. ASSUME UNCHANGED vars PROVE TypeOK'
  BY <1>6 DEF vars, TypeOK
<1> QED
  BY <1>1, <1>2, <1>3, <1>4, <1>5, <1>6 DEF Next, AllocFails

(* Type correctness of the page allocator. *)
THEOREM SpecTypeOK == Spec => []TypeOK
  BY InitType, NextType, PTL DEF Spec

-----------------------------------------------------------------------------
(* Every step preserves ZeroInv. *)
LEMMA NextZeroInv == ZeroInv /\ [Next]_vars => ZeroInv'
<1> SUFFICES ASSUME ZeroInv, [Next]_vars PROVE ZeroInv'
  OBVIOUS
<1>0. TypeOK'
  BY NextType DEF ZeroInv
<1> USE DEF ZeroInv, ZeroPageKept, TypeOK
<1>1. ASSUME NEW t \in Threads, AllocScan(t) PROVE ZeroInv'
  <2>1. PICK p \in Found : Starts(t, "Take", p)
    BY <1>1 DEF AllocScan
  <2> QED
    BY <1>0, <1>1, <2>1, FoundIsFree DEF AllocScan, Starts
<1>2. ASSUME NEW t \in Threads, AllocTake(t) PROVE ZeroInv'
  BY <1>0, <1>2 DEF AllocTake, Idle
<1>3. ASSUME NEW t \in Threads, FreeClear(t) PROVE ZeroInv'
  BY <1>0, <1>3 DEF FreeClear, Idle
<1>4. ASSUME NEW t \in Threads, NEW p \in Pages, FreeTest(t, p) PROVE ZeroInv'
  BY <1>0, <1>4 DEF FreeTest, Starts
<1>5. ASSUME NEW t \in Threads, NEW p \in Pages, OwnerWrites(t, p) PROVE ZeroInv'
  BY <1>0, <1>5 DEF OwnerWrites
<1>6. ASSUME UNCHANGED vars PROVE ZeroInv'
  BY <1>0, <1>6 DEF vars
<1> QED
  BY <1>1, <1>2, <1>3, <1>4, <1>5, <1>6 DEF Next, AllocFails

(* Page 0 is never handed out, whatever owners write to the bitmap and      *)
(* wherever callers are preempted (pmm_alloc_page skips its word).          *)
THEOREM SpecZeroPageKept == Spec => []ZeroPageKept
<1>1. Init => ZeroInv
  BY InitType DEF Init, ZeroInv, ZeroPageKept, Idle
<1>2. ZeroInv => ZeroPageKept
  BY DEF ZeroInv
<1> QED
  BY <1>1, <1>2, NextZeroInv, PTL DEF Spec

-----------------------------------------------------------------------------
(* Two pages share their byte or have none in common. *)
LEMMA SameByte ==
  ASSUME NEW p \in Pages, NEW q \in ByteMates(p)
  PROVE  q \in Pages /\ p \in ByteMates(q) /\ ByteMates(q) = ByteMates(p)
  BY DEF ByteMates

(* What Starts changes: the call of one thread, and raced by whole bytes. *)
LEMMA StartsInv ==
  ASSUME OwnerInv, NEW t \in Threads, NEW p \in Pages, NEW at \in {"Take", "Clear"},
         call[t].at = "Idle", Starts(t, at, p),
         used' = used, spoiled' = spoiled, TypeOK',
         ~spoiled => p \in FreeAtInit,
         \A u \in Threads : owned'[u] \subseteq owned[u],
         ~spoiled /\ at = "Take" => p \notin used,
         ~spoiled /\ p \notin raced /\ at = "Clear" => \A u \in Threads : p \notin owned'[u]
  PROVE  OwnerInv'
<1> USE DEF OwnerInv, TypeOK
<1>1. raced \subseteq raced'
  BY DEF Starts
<1>2. ExclusivePages' /\ FreedPagesOnly'
  BY <1>1 DEF ExclusivePages, FreedPagesOnly
<1>3. (~spoiled => Pages \ FreeAtInit \subseteq used)'
  OBVIOUS
<1>5. \A q \in raced' : ByteMates(q) \subseteq raced'
  BY SameByte DEF Starts
<1>4. ASSUME NEW u \in Threads, call'[u].at # "Idle" PROVE CallInv(u)'
  <2> SUFFICES ASSUME ~spoiled PROVE CallInv(u)'
    BY DEF CallInv
  <2>1. CASE u = t
    <3>1. call'[t] = [at |-> at, page |-> p, byte |-> used \cap ByteMates(p)]
      BY DEF Starts
    <3>2. Pages \ FreeAtInit \subseteq call'[t].byte \cup (Pages \ ByteMates(p))
      BY <3>1
    <3>3. ASSUME p \notin raced', NEW w \in Threads \ {t}, call'[w].at # "Idle"
          PROVE  ByteMates(call'[w].page) # ByteMates(p)
      <4>1. call'[w] = call[w] /\ p \in ByteMates(p)
        BY ByteMatesPages DEF Starts
      <4> QED
        BY <3>3, <4>1 DEF Starts
    <3> QED
      BY <2>1, <3>1, <3>2, <3>3, <1>1 DEF CallInv
  <2>2. CASE u # t
    <3> DEFINE q == call[u].page
    <3>1. call'[u] = call[u] /\ CallInv(u) /\ q \in Pages /\ call[u].at # "Idle"
      BY <1>4, <2>2 DEF Starts
    <3>2. ASSUME q \notin raced' PROVE ByteMates(q) # ByteMates(p)
      BY <2>2, <3>1, <3>2, ByteMatesPages DEF Starts
    <3>3. \A w \in Threads \ {t} : call'[w] = call[w]
      BY DEF Starts
    <3>4. call'[t].page = p
      BY DEF Starts
    <3>5. q \notin raced' => q \notin raced
      BY <1>1
    <3> QED
      BY <2>2, <3>1, <3>2, <3>3, <3>4, <3>5 DEF CallInv
  <2> QED
    BY <2>1, <2>2
<1> QED
  BY <1>2, <1>3, <1>4, <1>5

(* A store changes its own byte only, to what it was tested to be with one  *)
(* bit more or less; without an overlap, to what it is with that bit.       *)
LEMMA StoreInv ==
  ASSUME OwnerInv, ~spoiled, NEW t \in Threads, call[t].at # "Idle",
         NEW bits, bits \in {{}, {call[t].page}}, StoreByte(t, call[t].page, bits)
  PROVE  LET p == call[t].page
         IN  /\ \A q \in Pages \ ByteMates(p) : q \in used' <=> q \in used
             /\ Pages \ FreeAtInit \subseteq used'
             /\ p \notin raced => used' = (used \ {p}) \cup bits
<1> DEFINE p == call[t].page
<1> USE DEF OwnerInv, TypeOK
<1>1. CallInv(t) /\ p \in Pages /\ used \subseteq Pages
  OBVIOUS
<1>2. PICK old \in {used \cap ByteMates(p), call[t].byte} :
        used' = (used \ ByteMates(p)) \cup ((old \ {p}) \cup bits)
  BY DEF StoreByte
<1>3. p \in ByteMates(p) /\ ByteMates(p) \subseteq Pages
  BY <1>1, ByteMatesPages
<1>4. Pages \ FreeAtInit \subseteq old \cup (Pages \ ByteMates(p))
  BY <1>1, <1>2 DEF CallInv
<1>4a. old \subseteq ByteMates(p)
  BY <1>1, <1>2 DEF CallInv
<1>5. p \in FreeAtInit
  BY <1>1 DEF CallInv
<1>6. p \notin raced => old = used \cap ByteMates(p)
  BY <1>1, <1>2 DEF CallInv
<1>7. \A q \in Pages \ ByteMates(p) : q \in used' <=> q \in used
  BY <1>1, <1>2, <1>3, <1>4a
<1>8. Pages \ FreeAtInit \subseteq used'
  BY <1>1, <1>2, <1>4, <1>5
<1>9. p \notin raced => used' = (used \ {p}) \cup bits
  BY <1>1, <1>2, <1>3, <1>6
<1> QED
  BY <1>7, <1>8, <1>9
(* After the store of thread t to the byte of page p, the calls of the      *)
(* others are as good as before.                                            *)
LEMMA OthersInv ==
  ASSUME OwnerInv, ~spoiled, NEW t \in Threads, call[t].at # "Idle",
         call' = [call EXCEPT ![t] = Idle], raced' = raced,
         \A q \in Pages \ ByteMates(call[t].page) : q \in used' <=> q \in used,
         used' \subseteq Pages,
         \A u \in Threads : owned'[u] \subseteq owned[u] \cup {call[t].page},
         NEW u \in Threads, call'[u].at # "Idle"
  PROVE  CallInv(u)'
<1> DEFINE p == call[t].page
           q == call[u].page
<1> USE DEF OwnerInv, TypeOK
<1>1. u # t /\ call'[u] = call[u] /\ CallInv(u) /\ CallInv(t)
  BY DEF Idle
<1>2. p \in Pages /\ q \in Pages
  OBVIOUS
<1>3. CASE q \in raced
  BY <1>1, <1>3 DEF CallInv
<1>4. CASE q \notin raced
  <2>1. ByteMates(p) # ByteMates(q)
    BY <1>1, <1>4 DEF CallInv
  <2>2. ByteMates(p) \cap ByteMates(q) = {}
    BY <2>1, <1>2, SameByte
  <2>3. q # p /\ used' \cap ByteMates(q) = used \cap ByteMates(q)
    BY <1>2, <2>2, ByteMatesPages
  <2>4. \A w \in Threads \ {u} : call'[w].at # "Idle" => call'[w] = call[w]
    BY DEF Idle
  <2>5. q \in used' <=> q \in used
    BY <1>2, <2>3, ByteMatesPages
  <2> QED
    BY <1>1, <1>4, <2>3, <2>4, <2>5 DEF CallInv
<1> QED
  BY <1>3, <1>4

(* Every step preserves OwnerInv. *)
LEMMA NextOwnerInv == OwnerInv /\ [Next]_vars => OwnerInv'
<1> SUFFICES ASSUME OwnerInv, [Next]_vars PROVE OwnerInv'
  OBVIOUS
<1>0. TypeOK'
  BY NextType DEF OwnerInv
<1> USE DEF OwnerInv, TypeOK
<1>1. ASSUME NEW t \in Threads, AllocScan(t) PROVE OwnerInv'
  <2>1. PICK p \in Found : Starts(t, "Take", p)
    BY <1>1 DEF AllocScan
  <2>2. p \in Pages /\ p \notin used /\ (~spoiled => p \in FreeAtInit)
    BY <2>1, FoundIsFree
  <2> QED
    BY <1>0, <1>1, <2>1, <2>2, StartsInv DEF AllocScan
<1>2. ASSUME NEW t \in Threads, AllocTake(t) PROVE OwnerInv'
  <2> DEFINE p == call[t].page
  <2>1. CASE spoiled
    BY <1>0, <1>2, <2>1 DEF AllocTake, ExclusivePages, FreedPagesOnly, CallInv
  <2>2. CASE ~spoiled
    <3>1. /\ StoreByte(t, p, {p}) /\ call[t].at = "Take"
          /\ owned' = [owned EXCEPT ![t] = @ \cup {p}]
          /\ call' = [call EXCEPT ![t] = Idle]
          /\ raced' = raced /\ spoiled' = spoiled
      BY <1>2 DEF AllocTake
    <3>2. /\ \A q \in Pages \ ByteMates(p) : q \in used' <=> q \in used
          /\ Pages \ FreeAtInit \subseteq used'
          /\ p \notin raced => used' = used \cup {p}
      BY <2>2, <3>1, StoreInv
    <3>3. CallInv(t) /\ p \in Pages
      BY <3>1
    <3>4. p \in FreeAtInit /\ (p \notin raced => p \notin used)
      BY <2>2, <3>1, <3>3 DEF CallInv
    <3>5. \A q \in Pages : q \in used /\ q \notin raced => q \in used'
      BY <3>2, <3>3, SameByte
    <3>6. ExclusivePages' /\ FreedPagesOnly'
      <4>1. \A u \in Threads : owned'[u] \subseteq used' \cup raced
        BY <2>2, <3>1, <3>2, <3>5 DEF ExclusivePages
      <4>2. \A u \in Threads : p \in owned[u] => p \in raced
        BY <2>2, <3>4 DEF ExclusivePages
      <4>3. \A u, w \in Threads : u # w => owned'[u] \cap owned'[w] \subseteq raced
        BY <2>2, <3>1, <4>2 DEF ExclusivePages
      <4> QED
        BY <2>2, <3>1, <3>4, <4>1, <4>3 DEF ExclusivePages, FreedPagesOnly
    <3>7. ASSUME NEW u \in Threads, call'[u].at # "Idle" PROVE CallInv(u)'
      BY <1>0, <2>2, <3>1, <3>2, <3>7, OthersInv
    <3> QED
      BY <1>0, <3>1, <3>2, <3>6, <3>7
  <2> QED
    BY <2>1, <2>2
<1>3. ASSUME NEW t \in Threads, FreeClear(t) PROVE OwnerInv'
  <2> DEFINE p == call[t].page
  <2>1. CASE spoiled
    BY <1>0, <1>3, <2>1 DEF FreeClear, ExclusivePages, FreedPagesOnly, CallInv
  <2>2. CASE ~spoiled
    <3>1. /\ StoreByte(t, p, {}) /\ call[t].at = "Clear" /\ owned' = owned
          /\ call' = [call EXCEPT ![t] = Idle]
          /\ raced' = raced /\ spoiled' = spoiled
      BY <1>3 DEF FreeClear
    <3>2. /\ \A q \in Pages \ ByteMates(p) : q \in used' <=> q \in used
          /\ Pages \ FreeAtInit \subseteq used'
          /\ p \notin raced => used' = used \ {p}
      BY <2>2, <3>1, StoreInv
    <3>3. CallInv(t) /\ p \in Pages
      BY <3>1
    <3>4. p \notin raced => \A u \in Threads : p \notin owned[u]
      BY <2>2, <3>1, <3>3 DEF CallInv
    <3>5. \A q \in Pages : q \in used /\ q \notin raced => q \in used' \/ q = p
      BY <3>2, <3>3, SameByte
    <3>6. ExclusivePages' /\ FreedPagesOnly'
      BY <2>2, <3>1, <3>4, <3>5 DEF ExclusivePages, FreedPagesOnly
    <3>7. ASSUME NEW u \in Threads, call'[u].at # "Idle" PROVE CallInv(u)'
      BY <1>0, <2>2, <3>1, <3>2, <3>7, OthersInv
    <3> QED
      BY <1>0, <3>1, <3>2, <3>6, <3>7
  <2> QED
    BY <2>1, <2>2
<1>4. ASSUME NEW t \in Threads, NEW p \in Pages, FreeTest(t, p) PROVE OwnerInv'
  <2>1. /\ call[t].at = "Idle" /\ p \in owned[t]
        /\ owned' = [owned EXCEPT ![t] = @ \ {p}]
        /\ used' = used /\ spoiled' = spoiled
    BY <1>4 DEF FreeTest
  <2>2. \A u \in Threads : owned'[u] \subseteq owned[u]
    BY <2>1
  <2>3. CASE call' = call /\ raced' = raced
    <3>1. ExclusivePages' /\ FreedPagesOnly'
      BY <2>1, <2>2, <2>3 DEF ExclusivePages, FreedPagesOnly
    <3>2. \A u \in Threads : CallInv(u) => CallInv(u)'
      BY <2>1, <2>2, <2>3 DEF CallInv
    <3> QED
      BY <1>0, <2>1, <2>3, <3>1, <3>2
  <2>4. CASE Starts(t, "Clear", p)
    <3>1. ~spoiled => p \in FreeAtInit
      BY <2>1 DEF FreedPagesOnly
    <3>2. ~spoiled /\ p \notin raced => \A u \in Threads : p \notin owned'[u]
      BY <2>1 DEF ExclusivePages
    <3> QED
      BY <1>0, <2>1, <2>2, <2>4, <3>1, <3>2, StartsInv
  <2> QED
    BY <1>4, <2>3, <2>4 DEF FreeTest
<1>5. ASSUME NEW t \in Threads, NEW p \in Pages, OwnerWrites(t, p) PROVE OwnerInv'
  BY <1>0, <1>5 DEF OwnerWrites, ExclusivePages, FreedPagesOnly, CallInv
<1>6. ASSUME UNCHANGED vars PROVE OwnerInv'
  BY <1>0, <1>6 DEF vars, ExclusivePages, FreedPagesOnly, CallInv
<1> QED
  BY <1>1, <1>2, <1>3, <1>4, <1>5, <1>6 DEF Next, AllocFails

(* OwnerInv holds in every reachable state. *)
LEMMA SpecOwnerInv == Spec => []OwnerInv
<1>1. Init => OwnerInv
  BY InitType DEF Init, OwnerInv, ExclusivePages, FreedPagesOnly, Idle
<1> QED
  BY <1>1, NextOwnerInv, PTL DEF Spec

(* For every memory map and any number of callers, preempted anywhere: a    *)
(* page has two owners, or an owned page a clear bit, only on a byte where  *)
(* calls overlapped, or after a write to the bitmap.                        *)
THEOREM SpecExclusivePages == Spec => []ExclusivePages
<1>1. OwnerInv => ExclusivePages
  BY DEF OwnerInv
<1> QED
  BY <1>1, SpecOwnerInv, PTL

(* The page number of an address, without division. *)
LEMMA PageOf ==
  ASSUME NEW a \in Nat
  PROVE  LET p == a \div PageSize
         IN  p \in Nat /\ p * PageSize <= a /\ a < (p + 1) * PageSize
  BY PageAssumption, SMTT(30)

(* A page number times the page size grows with the number. *)
LEMMA PagesGrow ==
  ASSUME NEW b \in Nat, NEW p \in Nat, b * PageSize < (p + 1) * PageSize
  PROVE  b * PageSize <= p * PageSize
  BY PageAssumption, SMTT(30)

(* What pmm_init frees lies in usable ranges as a whole: the bitmap is cut  *)
(* off at the front, and a rest shorter than a page is left out.            *)
LEMMA FreedIsUsable == FreeAtInit \subseteq UsablePages
<1> SUFFICES ASSUME NEW p \in FreeAtInit PROVE p \in UsablePages
  OBVIOUS
<1>1. PICK i \in Entries, k \in Pages :
        /\ MemMap[i].usable
        /\ FirstAddr(i) + (k + 1) * PageSize <= End(i)
        /\ p = (FirstAddr(i) + k * PageSize) \div PageSize
  BY DEF FreeAtInit, Cleared
<1>2. p \in Pages
  BY FreeAtInitPages
<1> DEFINE a == FirstAddr(i) + k * PageSize
<1>3. PICK b \in Nat : MemMap[i].base = b * PageSize
  BY <1>1, AlignedAssumption, MapAssumption
<1>4. BitmapSize \in Nat
  <2>1. TotalPages \in Nat /\ ByteBits \in Nat \ {0}
    BY MapAssumption, CountAssumption
  <2>2. TotalPages \div ByteBits \in Nat
    BY <2>1
  <2> QED
    BY <2>2 DEF BitmapSize
<1>5. k * PageSize \in Nat /\ (k + 1) * PageSize = k * PageSize + PageSize
  BY PageAssumption, MapAssumption DEF Pages
<1>6. a \in Nat /\ MemMap[i].base <= a /\ a + PageSize <= End(i)
  BY <1>1, <1>4, <1>5, MapAssumption, PageAssumption DEF FirstAddr, End
<1>7. p \in Nat /\ p * PageSize <= a /\ a < (p + 1) * PageSize
  BY <1>1, <1>6, PageOf
<1>8. b * PageSize < (p + 1) * PageSize
  BY <1>3, <1>6, <1>7, PageAssumption
<1>9. MemMap[i].base <= p * PageSize
  BY <1>3, <1>7, <1>8, PagesGrow
<1>10. (p + 1) * PageSize <= End(i)
  <2>1. (p + 1) * PageSize = p * PageSize + PageSize
    BY <1>7, PageAssumption
  <2> QED
    BY <2>1, <1>6, <1>7, PageAssumption, MapAssumption DEF End
<1> QED
  BY <1>1, <1>2, <1>9, <1>10 DEF UsablePages

(* Only pages of usable ranges are handed out until an owner writes to the  *)
(* bitmap: calls that overlap do not change that.                           *)
THEOREM SpecUsablePagesOnly == Spec => []UsablePagesOnly
<1>1. OwnerInv => UsablePagesOnly
  BY FreedIsUsable DEF OwnerInv, FreedPagesOnly, UsablePagesOnly
<1> QED
  BY <1>1, SpecOwnerInv, PTL

(* A set of page or word numbers that is not empty has a least member.      *)
LEMMA LeastOf ==
  ASSUME NEW S \in SUBSET Nat, S # {}
  PROVE  Least(S) # {}
<1> DEFINE R == OpToRel(<, Nat)
<1>1. ASSUME NEW a \in Nat, NEW b \in Nat, a < b PROVE <<a, b>> \in R
  BY <1>1 DEF OpToRel
<1>2. IsWellFoundedOn(R, Nat)
  BY NatLessThanWellFounded
<1> HIDE DEF R
<1>3. PICK p \in S : \A q \in S : ~ (<<q, p>> \in R)
  BY <1>2, WFMin
<1>4. ASSUME NEW q \in S PROVE p <= q
  <2>1. ~ (<<q, p>> \in R)
    BY <1>3
  <2>2. ~ (q < p)
    BY <2>1, <1>1
  <2> QED
    BY <2>2
<1> QED
  BY <1>3, <1>4 DEF Least

(* While page 0 is taken, the two passes of the scan find a clear bit       *)
(* whenever there is one: no word that has one is passed over.              *)
LEMMA ScanFindsFree ==
  ASSUME NEW p \in Pages, p \notin used, 0 \in used
  PROVE  Found # {}
<1> DEFINE all   == { w \in Words : Candidate(w) }
           later == { w \in all : w >= last_alloc_page \div WordBits }
           scan  == IF later # {} THEN later ELSE all
<1>1. Words \subseteq Nat
  BY PageAssumption, MapAssumption DEF Words, Pages
<1>2. p \div WordBits \in all
  BY DEF Words, Candidate, InWord
<1>3. scan \in SUBSET Nat /\ scan # {} /\ scan \subseteq all
  BY <1>1, <1>2
<1> HIDE DEF scan
<1>4. PICK w \in Least(scan) : TRUE
  BY <1>3, LeastOf, Zenon
<1>5. w \in all
  BY <1>3, <1>4 DEF Least
<1>6. InWord(w) \in SUBSET Nat /\ InWord(w) # {}
  BY <1>5, MapAssumption DEF Candidate, InWord, Pages
<1>7. PICK q \in Least(InWord(w)) : TRUE
  BY <1>6, LeastOf, Zenon
<1>8. Found = UNION { Least(InWord(v)) : v \in Least(scan) }
  BY Zenon DEF Found, scan
<1> QED
  BY <1>4, <1>7, <1>8, Zenon

(* For every memory map, wherever the hint stands and however calls overlap: *)
(* while no owner has overwritten part of the bitmap, pmm_alloc_page returns *)
(* no page only when every page but page 0 is taken.                         *)
THEOREM SpecGivesUpOnlyWhenFull == Spec => []GivesUpOnlyWhenFull
<1>1. OwnerInv => GivesUpOnlyWhenFull
  <2> SUFFICES ASSUME OwnerInv, ~spoiled, Found = {}, NEW p \in Pages \ {0}
               PROVE  p \in used
    BY DEF GivesUpOnlyWhenFull
  <2>1. 0 \in used
    BY MapAssumption, FreeAtInitPages DEF OwnerInv, Pages
  <2> QED
    BY <2>1, ScanFindsFree
<1> QED
  BY <1>1, SpecOwnerInv, PTL
=============================================================================
