------------------------ MODULE AddressSpacesProofs ------------------------
(***************************************************************************)
(* For any number of threads, frames and slots, and any ranges: the        *)
(* inductive invariant of AddressSpaces, and what follows from it.         *)
(***************************************************************************)
EXTENDS AddressSpaces, TLAPS

-----------------------------------------------------------------------------
(* Walks of the tables                                                      *)

LEMMA FollowIs ==
  ASSUME NEW S, NEW i, NEW x
  PROVE  x \in Follow(S, i) <=> \E p \in S : \E e \in table[p] : e[1] = i /\ e[2] = x
BY DEF Follow, Entries

(* The same of the tables after a step. *)
LEMMA WalkNext ==
  ASSUME NEW r, NEW v, NEW x
  PROVE  /\ x \in Dir(r)' <=> \E p \in Root(r) : \E e \in table'[p] : e[1] = Low /\ e[2] = x
         /\ x \in Tables(r, v)' <=> \E p \in Dir(r)' : \E e \in table'[p] : e[1] = Region(v) /\ e[2] = x
         /\ x \in Leaf(r, v)' <=> \E p \in Tables(r, v)' : \E e \in table'[p] : e[1] = v /\ e[2] = x
<1>1. x \in Dir(r)' <=> \E p \in Root(r) : \E e \in table'[p] : e[1] = Low /\ e[2] = x
  BY DEF Dir, Follow, Entries, Root, Low
<1>2. x \in Tables(r, v)' <=> \E p \in Dir(r)' : \E e \in table'[p] : e[1] = Region(v) /\ e[2] = x
  BY DEF Tables, Follow, Entries, Region
<1>3. x \in Leaf(r, v)' <=> \E p \in Tables(r, v)' : \E e \in table'[p] : e[1] = v /\ e[2] = x
  BY DEF Leaf, Follow, Entries
<1> QED BY <1>1, <1>2, <1>3

LEMMA BelowIs ==
  ASSUME NEW S, NEW x
  PROVE  x \in Below(S) <=> \E p \in S : \E e \in table[p] : e[2] = x
BY DEF Below, Entries

LEMMA FollowBelow == ASSUME NEW S, NEW i PROVE Follow(S, i) \subseteq Below(S)
BY FollowIs, BelowIs

LEMMA BelowGrows ==
  ASSUME NEW S, NEW T, S \subseteq T
  PROVE  Below(S) \subseteq Below(T)
BY BelowIs

(* What the index of an entry cannot see does not change a walk. *)
LEMMA LeafSame ==
  ASSUME NEW r, NEW v,
         \A p \in Root(r) : \A e : e[1] = Low => (e \in table'[p] <=> e \in table[p]),
         \A p \in Dir(r) : \A e : e[1] = Region(v) => (e \in table'[p] <=> e \in table[p]),
         \A p \in Tables(r, v) : \A e : e[1] = v => (e \in table'[p] <=> e \in table[p])
  PROVE  Leaf(r, v)' = Leaf(r, v)
<1>1. Dir(r)' = Dir(r)
  <2>1. ASSUME NEW x PROVE x \in Dir(r)' <=> x \in Dir(r)
    <3>1. x \in Dir(r)' <=> \E p \in Root(r) : \E e \in table'[p] : e[1] = Low /\ e[2] = x
      BY WalkNext
    <3>2. x \in Dir(r) <=> \E p \in Root(r) : \E e \in table[p] : e[1] = Low /\ e[2] = x
      BY FollowIs DEF Dir
    <3> QED BY <3>1, <3>2
  <2> QED BY <2>1
<1>2. Tables(r, v)' = Tables(r, v)
  <2>1. ASSUME NEW x PROVE x \in Tables(r, v)' <=> x \in Tables(r, v)
    <3>1. x \in Tables(r, v)' <=> \E p \in Dir(r) : \E e \in table'[p] : e[1] = Region(v) /\ e[2] = x
      BY <1>1, WalkNext
    <3>2. x \in Tables(r, v) <=> \E p \in Dir(r) : \E e \in table[p] : e[1] = Region(v) /\ e[2] = x
      BY FollowIs DEF Tables
    <3> QED BY <3>1, <3>2
  <2> QED BY <2>1
<1>3. ASSUME NEW x PROVE x \in Leaf(r, v)' <=> x \in Leaf(r, v)
  <2>1. x \in Leaf(r, v)' <=> \E p \in Tables(r, v) : \E e \in table'[p] : e[1] = v /\ e[2] = x
    BY <1>2, WalkNext
  <2>2. x \in Leaf(r, v) <=> \E p \in Tables(r, v) : \E e \in table[p] : e[1] = v /\ e[2] = x
    BY FollowIs DEF Leaf
  <2> QED BY <2>1, <2>2
<1> QED BY <1>3

-----------------------------------------------------------------------------
(* The forest                                                               *)

Links == TypeOK /\ Forest /\ RootsOK

LEMMA BelowUsed ==
  ASSUME Links, NEW S, S \subseteq Used
  PROVE  Below(S) \subseteq Used \ Roots
BY BelowIs DEF Links, Forest

LEMMA BelowApart ==
  ASSUME Links, NEW S, NEW T, S \subseteq Used, T \subseteq Used, S \cap T = {}
  PROVE  Below(S) \cap Below(T) = {}
<1> SUFFICES ASSUME NEW x \in Below(S), x \in Below(T) PROVE FALSE
    OBVIOUS
<1>1. PICK p \in S : \E e \in table[p] : e[2] = x
  BY BelowIs
<1>2. PICK q \in T : \E e \in table[q] : e[2] = x
  BY BelowIs
<1> QED BY <1>1, <1>2 DEF Links, Forest

(* What is below the root of a living thread. *)
LEMMA LevelsUsed ==
  ASSUME Links, NEW t \in Living
  PROVE  /\ Root(user_cr3[t]) \subseteq Used /\ Root(user_cr3[t]) \subseteq Roots
         /\ Dir(user_cr3[t]) \subseteq Used \ Roots
         /\ Below(Dir(user_cr3[t])) \subseteq Used \ Roots
         /\ Below(Below(Dir(user_cr3[t]))) \subseteq Used \ Roots
<1> DEFINE r == user_cr3[t]
<1>1. Root(r) \subseteq Used /\ Root(r) \subseteq Roots
  BY DEF Links, RootsOK, Root, Roots
<1>2. Dir(r) \subseteq Used \ Roots
  BY <1>1, FollowBelow, BelowUsed DEF Dir
<1>3. Below(Dir(r)) \subseteq Used \ Roots
  BY <1>2, BelowUsed
<1>4. Below(Below(Dir(r))) \subseteq Used \ Roots
  BY <1>3, BelowUsed
<1> QED BY <1>1, <1>2, <1>3, <1>4

LEMMA WalkBelow ==
  ASSUME NEW r, NEW v
  PROVE  Tables(r, v) \subseteq Below(Dir(r)) /\ Leaf(r, v) \subseteq Below(Below(Dir(r)))
<1>1. Tables(r, v) \subseteq Below(Dir(r))
  BY FollowBelow DEF Tables
<1>2. Leaf(r, v) \subseteq Below(Tables(r, v))
  BY FollowBelow DEF Leaf
<1> QED BY <1>1, <1>2, BelowGrows

(* A directory, its tables and their pages are different frames ... *)
LEMMA LevelsApart ==
  ASSUME Links, NEW t \in Living
  PROVE  LET d == Dir(user_cr3[t])
         IN  d \cap Below(d) = {} /\ d \cap Below(Below(d)) = {} /\ Below(d) \cap Below(Below(d)) = {}
<1> DEFINE r == user_cr3[t]
           d == Dir(r)
<1>1. /\ Root(r) \subseteq Used /\ Root(r) \subseteq Roots
      /\ d \subseteq Used \ Roots /\ Below(d) \subseteq Used \ Roots
  BY LevelsUsed
<1>2. d \subseteq Below(Root(r))
  BY FollowBelow DEF Dir
<1>3. d \cap Below(d) = {}
  <2>1. Below(Root(r)) \cap Below(d) = {}
    BY <1>1, BelowApart
  <2> QED BY <2>1, <1>2
<1>4. d \cap Below(Below(d)) = {}
  <2>1. Below(Root(r)) \cap Below(Below(d)) = {}
    BY <1>1, BelowApart
  <2> QED BY <2>1, <1>2
<1>5. Below(d) \cap Below(Below(d)) = {}
  BY <1>1, <1>3, BelowApart
<1> QED BY <1>3, <1>4, <1>5

(* ... and so are those of two threads. *)
LEMMA SpacesApart == Links => SpacesSound
<1> SUFFICES ASSUME Links PROVE SpacesSound
    OBVIOUS
<1>1. ASSUME NEW t \in Living PROVE SpaceOf(t) \cap free = {}
  BY LevelsUsed DEF SpaceOf, Space, Used
<1>2. ASSUME NEW t \in Living, NEW u \in Living \ {t} PROVE SpaceOf(t) \cap SpaceOf(u) = {}
  <2> DEFINE r == user_cr3[t]
             s == user_cr3[u]
             d == Dir(r)
             e == Dir(s)
  <2>1. /\ Root(r) \subseteq Used /\ Root(r) \subseteq Roots
        /\ d \subseteq Used \ Roots /\ Below(d) \subseteq Used \ Roots
        /\ Below(Below(d)) \subseteq Used \ Roots
    BY LevelsUsed
  <2>2. /\ Root(s) \subseteq Used /\ Root(s) \subseteq Roots
        /\ e \subseteq Used \ Roots /\ Below(e) \subseteq Used \ Roots
        /\ Below(Below(e)) \subseteq Used \ Roots
    BY LevelsUsed
  <2>3. d \subseteq Below(Root(r)) /\ e \subseteq Below(Root(s))
    BY FollowBelow DEF Dir
  <2>4. Root(r) \cap Root(s) = {}
    BY DEF Root, Links, RootsOK
  <2> HIDE DEF r, s
  <2>5. d \cap e = {}
    <3>1. Below(Root(r)) \cap Below(Root(s)) = {}
      BY <2>1, <2>2, <2>4, BelowApart
    <3> QED BY <3>1, <2>3
  <2> HIDE DEF d, e
  <2>6. d \cap Below(e) = {} /\ d \cap Below(Below(e)) = {}
    <3>1. Below(Root(r)) \cap Below(e) = {}
      BY <2>1, <2>2, BelowApart
    <3>2. Below(Root(r)) \cap Below(Below(e)) = {}
      BY <2>1, <2>2, BelowApart
    <3> QED BY <3>1, <3>2, <2>3
  <2>7. Below(d) \cap e = {} /\ Below(Below(d)) \cap e = {}
    <3>1. Below(d) \cap Below(Root(s)) = {}
      BY <2>1, <2>2, BelowApart
    <3>2. Below(Below(d)) \cap Below(Root(s)) = {}
      BY <2>1, <2>2, BelowApart
    <3> QED BY <3>1, <3>2, <2>3
  <2>8. Below(d) \cap Below(e) = {}
    BY <2>1, <2>2, <2>5, BelowApart
  <2>9. Below(d) \cap Below(Below(e)) = {}
    BY <2>1, <2>2, <2>6, BelowApart
  <2>10. Below(Below(d)) \cap Below(e) = {}
    BY <2>1, <2>2, <2>7, BelowApart
  <2>11. Below(Below(d)) \cap Below(Below(e)) = {}
    BY <2>1, <2>2, <2>8, BelowApart
  <2>12. SpaceOf(t) = Root(r) \cup d \cup Below(d) \cup Below(Below(d))
    BY DEF SpaceOf, Space, r, d
  <2>13. SpaceOf(u) = Root(s) \cup e \cup Below(e) \cup Below(Below(e))
    BY DEF SpaceOf, Space, s, e
  <2> QED BY <2>1, <2>2, <2>4, <2>5, <2>6, <2>7, <2>8, <2>9, <2>10, <2>11, <2>12, <2>13
<1> QED BY <1>1, <1>2 DEF SpacesSound

-----------------------------------------------------------------------------
(* What a step does to the tables                                           *)

LEMMA BelowFrames ==
  ASSUME TypeOK, NEW S, S \subseteq Frames
  PROVE  Below(S) \subseteq Frames
<1> SUFFICES ASSUME NEW x \in Below(S) PROVE x \in Frames
    OBVIOUS
<1>1. PICK p \in S : \E e \in table[p] : e[2] = x
  BY BelowIs
<1> QED BY <1>1 DEF TypeOK

LEMMA SpaceFrames ==
  ASSUME TypeOK, NEW r \in Frames \cup {0}
  PROVE  Space(r) \subseteq Frames
<1>1. Root(r) \subseteq Frames
  BY DEF Root
<1>2. Dir(r) \subseteq Frames
  BY <1>1, BelowFrames, FollowBelow DEF Dir
<1>3. Below(Dir(r)) \subseteq Frames
  BY <1>2, BelowFrames
<1>4. Below(Below(Dir(r))) \subseteq Frames
  BY <1>3, BelowFrames
<1> QED BY <1>1, <1>2, <1>3, <1>4 DEF Space

LEMMA EmptySpace == Space(0) = {}
<1>1. Root(0) = {}
  BY DEF Root
<1>2. \A S : S = {} => Below(S) = {}
  BY DEF Below, Entries
<1>3. Dir(0) = {}
  BY <1>1, <1>2, FollowBelow DEF Dir
<1> QED BY <1>1, <1>2, <1>3 DEF Space

Announced == \A t \in Threads : cr3[t] \in {0, user_cr3[t]}

(* The reaper frees what is in the spaces of the threads it removes, and    *)
(* takes the entries to it away.                                            *)
LEMMA ReapFrees ==
  ASSUME TypeOK, Announced, Reap
  PROVE  \E gone \in SUBSET Frames :
           /\ free' = free \cup gone
           /\ table' = [f \in Frames |-> { e \in table[f] : e[2] \notin gone }]
           /\ \A x \in gone : \E t \in Reaped : x \in SpaceOf(t)
<1> DEFINE gone == UNION { FreedSpace(t) : t \in Reaped }
<1>1. ASSUME NEW t \in Reaped PROVE FreedSpace(t) \subseteq Space(cr3[t])
  <2>1. FreedLeaves(t) \subseteq Below(Below(Dir(cr3[t])))
    BY WalkBelow DEF FreedLeaves
  <2> QED BY <2>1 DEF FreedSpace, FreedTables, FreedDir, Space
<1>2. ASSUME NEW t \in Reaped PROVE FreedSpace(t) \subseteq SpaceOf(t)
  BY <1>1, EmptySpace DEF Announced, Reaped, SpaceOf
<1>3. ASSUME NEW t \in Reaped PROVE SpaceOf(t) \subseteq Frames
  <2>1. user_cr3[t] \in Frames \cup {0}
    BY DEF Reaped, TypeOK
  <2> QED BY <2>1, SpaceFrames DEF SpaceOf
<1>4. gone \subseteq Frames /\ \A x \in gone : \E t \in Reaped : x \in SpaceOf(t)
  BY <1>2, <1>3
<1>5. free' = free \cup gone /\ table' = [f \in Frames |-> { e \in table[f] : e[2] \notin gone }]
  BY DEF Reap
<1> HIDE DEF gone
<1> QED BY <1>4, <1>5

LEMMA GapIs ==
  ASSUME NEW r, NEW v \in Nat, NEW g \in Gap(r, v)
  PROVE  g[2] \in Nat /\ g[1] \in Root(r) \cup Dir(r) \cup Tables(r, v)
<1>1. Low \in Nat /\ Region(v) \in Nat
  BY CountsAssumption DEF Low, Region
<1>2. CASE Dir(r) = {}
  BY <1>1, <1>2 DEF Gap
<1>3. CASE Dir(r) # {} /\ Tables(r, v) = {}
  BY <1>1, <1>3 DEF Gap
<1>4. CASE Dir(r) # {} /\ Tables(r, v) # {}
  BY <1>4 DEF Gap
<1> QED BY <1>2, <1>3, <1>4

LEMMA PagesAreNumbers == TypeOK => \A t \in Threads : range[t] \subseteq Nat
BY RangesAssumption DEF TypeOK

-----------------------------------------------------------------------------
(* Types                                                                    *)

Control == \A t \in Threads : ControlOK(t)

LEMMA ControlAnnounces == Control => Announced
BY DEF Control, ControlOK, Announced

LEMMA ReapTypes ==
  ASSUME TypeOK, Announced, Reap
  PROVE  /\ free' \subseteq Frames /\ table' \in [Frames -> SUBSET (Nat \X Frames)]
         /\ image' \subseteq Frames /\ heaped' \subseteq Threads
<1>1. PICK gone \in SUBSET Frames :
         free' = free \cup gone /\ table' = [f \in Frames |-> { e \in table[f] : e[2] \notin gone }]
  BY ReapFrees
<1>2. \A f \in Frames : { e \in table[f] : e[2] \notin gone } \subseteq Nat \X Frames
  BY DEF TypeOK
<1> QED BY <1>1, <1>2 DEF TypeOK, Reap

LEMMA StatusAfter ==
  TypeOK => Afterwards \in [Threads -> {"NULL", "READY", "RUNNING", "BLOCKED", "TERMINATED", "GONE"}]
BY DEF TypeOK, Afterwards

TableType == [Frames -> SUBSET (Nat \X Frames)]

(* A frame is taken and an entry is made. *)
LEMMA LinkTypes ==
  ASSUME NEW T \in TableType, NEW f \in Frames, NEW p, NEW A \in SUBSET (Nat \X Frames),
         NEW B, p \in Frames => B \subseteq Nat \X Frames
  PROVE  [T EXCEPT ![f] = A, ![p] = B] \in TableType
BY DEF TableType

LEMMA HeapGrowTypes ==
  ASSUME TypeOK, NEW t \in Threads, HeapGrow(t)
  PROVE  free' \subseteq Frames /\ image' \subseteq Frames /\ table' \in TableType
<1>1. HeapPage \in Nat /\ Region(HeapPage) \in Nat
  BY CountsAssumption, RangesAssumption DEF Region
<1>2. table \in TableType /\ \A p \in Frames : table[p] \subseteq Nat \X Frames
  BY DEF TypeOK, TableType
<1>3. ASSUME NEW f \in Frames, NEW p,
             table' = [table EXCEPT ![f] = {}, ![p] = { e \in table[p] : e[1] # HeapPage } \cup {<<HeapPage, f>>}]
      PROVE  table' \in TableType
  <2>1. p \in Frames => { e \in table[p] : e[1] # HeapPage } \cup {<<HeapPage, f>>} \subseteq Nat \X Frames
    BY <1>1, <1>2
  <2> QED BY <1>2, <1>3, <2>1, LinkTypes
<1>4. ASSUME NEW f \in Frames, NEW p \in Frames, NEW d,
             table' = [table EXCEPT ![f] = {}, ![p] = {<<HeapPage, f>>}, ![d] = table[d] \cup {<<Region(HeapPage), p>>}]
      PROVE  table' \in TableType
  <2>1. d \in Frames => table[d] \cup {<<Region(HeapPage), p>>} \subseteq Nat \X Frames
    BY <1>1, <1>2
  <2>2. {<<HeapPage, f>>} \subseteq Nat \X Frames
    BY <1>1
  <2>3. [table EXCEPT ![f] = {}, ![p] = {<<HeapPage, f>>}] \in TableType
    BY <1>2, <2>2, LinkTypes
  <2> QED BY <1>4, <2>1, <2>3 DEF TableType
<1>5. Lowest(free) \subseteq Frames
  BY DEF Lowest, TypeOK
<1>6. \A f : Lowest(free \ {f}) \subseteq Frames
  BY DEF Lowest, TypeOK
<1> QED BY <1>3, <1>4, <1>5, <1>6 DEF HeapGrow, TypeOK

LEMMA TypeStep == TypeOK /\ Control /\ [Next]_vars => TypeOK'
<1> SUFFICES ASSUME TypeOK, Control, [Next]_vars PROVE TypeOK'
    OBVIOUS
<1> USE DEF threads, memory, launch, Goto, ReleaseSlot
<1>1. CASE NoSwitch
  <2>1. status' \in [Threads -> {"NULL", "READY", "RUNNING", "BLOCKED", "TERMINATED", "GONE"}]
    BY <1>1, StatusAfter DEF NoSwitch
  <2> QED BY <1>1, <2>1, ReapTypes, ControlAnnounces DEF NoSwitch, TypeOK
<1>2. ASSUME NEW t \in Threads, SwitchTo(t) PROVE TypeOK'
  <2>1. status' \in [Threads -> {"NULL", "READY", "RUNNING", "BLOCKED", "TERMINATED", "GONE"}]
    BY <1>2, StatusAfter DEF SwitchTo
  <2>2. loaded' \in Frames \cup {0}
    BY <1>2 DEF SwitchTo, TablesOf, Kernel, TypeOK
  <2>3. out' \subseteq Threads
    BY <1>2 DEF SwitchTo, TypeOK
  <2> QED BY <1>2, <2>1, <2>2, <2>3, ReapTypes, ControlAnnounces DEF SwitchTo, TypeOK
<1>3. ASSUME NEW t \in Threads, Create(t) \/ Block(t) \/ Wake(t) \/ Exit(t) PROVE TypeOK'
  BY <1>3 DEF Create, Block, Wake, Exit, TypeOK
<1>4. ASSUME NEW t \in Threads, NEW u \in Threads, Kill(t, u) PROVE TypeOK'
  BY <1>4 DEF Kill, TypeOK
<1>5. ASSUME NEW t \in Threads, Reserve(t) PROVE TypeOK'
  BY <1>5 DEF Reserve, TypeOK
<1>6. ASSUME NEW t \in Threads, ReserveFails(t) \/ OutOfFrames(t) \/ CopyFails(t) \/ Release(t) PROVE TypeOK'
  BY <1>6 DEF ReserveFails, OutOfFrames, CopyFails, Release, TypeOK
<1>7. ASSUME NEW t \in Threads, Clone(t) PROVE TypeOK'
  <2>1. Lowest(free) \subseteq Frames
    BY DEF Lowest, TypeOK
  <2> QED BY <1>7, <2>1 DEF Clone, TypeOK
<1>8. ASSUME NEW t \in Threads, Map(t) PROVE TypeOK'
  <2>1. PICK v \in Unmapped(t) : AddFrame(user_cr3[t], v)
    BY <1>8 DEF Map
  <2>2. v \in Nat
    BY PagesAreNumbers DEF Unmapped
  <2>3. PICK f \in Lowest(free), g \in Gap(user_cr3[t], v) :
          /\ free' = free \ {f}
          /\ table' = [table EXCEPT ![f] = {}, ![g[1]] = table[g[1]] \cup {<<g[2], f>>}]
          /\ image' = image \ {f}
    BY <2>1 DEF AddFrame
  <2>4. f \in Frames /\ g[2] \in Nat
    BY <2>2, GapIs DEF Lowest, TypeOK
  <2>5. table \in TableType /\ (g[1] \in Frames => table[g[1]] \cup {<<g[2], f>>} \subseteq Nat \X Frames)
    BY <2>4 DEF TableType, TypeOK
  <2>6. table' \in TableType
    BY <2>3, <2>4, <2>5, LinkTypes
  <2> QED BY <1>8, <2>3, <2>6 DEF Map, TypeOK, TableType
<1>9. ASSUME NEW t \in Threads, Enter(t) \/ Leave(t) \/ SetRange(t) \/ SetRoot(t) \/ Jump(t) PROVE TypeOK'
  <2>1. CASE Enter(t)
    BY <2>1 DEF Enter, TypeOK
  <2>2. CASE Leave(t)
    BY <2>2 DEF Leave, TypeOK
  <2>3. CASE SetRange(t)
    BY <2>3 DEF SetRange, TypeOK
  <2>4. CASE SetRoot(t)
    BY <2>4 DEF SetRoot, TypeOK
  <2>5. CASE Jump(t)
    BY <2>5 DEF Jump, TypeOK
  <2> QED BY <1>9, <2>1, <2>2, <2>3, <2>4, <2>5
<1>10. ASSUME NEW t \in Threads, Copy(t) PROVE TypeOK'
  <2>1. ASSUME NEW v PROVE Leaf(loaded, v) \subseteq Frames
    BY SpaceFrames, WalkBelow DEF Space, TypeOK
  <2> QED BY <1>10, <2>1 DEF Copy, TypeOK
<1>11. ASSUME NEW t \in Threads, CopyAstray(t) PROVE TypeOK'
  BY <1>11 DEF CopyAstray, TypeOK
<1>12. ASSUME NEW t \in Threads, HeapGrow(t) PROVE TypeOK'
  BY <1>12, HeapGrowTypes DEF HeapGrow, TypeOK, TableType
<1>13. ASSUME NEW t \in Threads, HeapTrim(t) PROVE TypeOK'
  <2>1. Leaf(loaded, HeapPage) \subseteq Frames
    BY SpaceFrames, WalkBelow DEF Space, TypeOK
  <2>2. table' \in [Frames -> SUBSET (Nat \X Frames)]
    BY <1>13 DEF HeapTrim, TypeOK
  <2> QED BY <1>13, <2>1, <2>2 DEF HeapTrim, TypeOK
<1>14. CASE UNCHANGED vars
  BY <1>14 DEF vars, TypeOK
<1> QED BY <1>1, <1>2, <1>3, <1>4, <1>5, <1>6, <1>7, <1>8, <1>9, <1>10, <1>11, <1>12, <1>13, <1>14 DEF Next

-----------------------------------------------------------------------------
(* Links                                                                    *)

(* A thread that comes to life has no tables. *)
LEMMA LivingStep ==
  ASSUME TypeOK, Control, [Next]_vars, NEW u \in Threads, Alive(u)'
  PROVE  Alive(u) \/ (user_cr3'[u] = 0 /\ pc'[u] = "Reserve")
<1> USE DEF threads, launch, Goto, Alive
<1>1. CASE NoSwitch
  BY <1>1 DEF NoSwitch, Afterwards, TypeOK
<1>2. ASSUME NEW t \in Threads, SwitchTo(t) PROVE Alive(u)
  BY <1>2 DEF SwitchTo, Ready, Afterwards, TypeOK
<1>3. ASSUME NEW t \in Threads, Create(t) PROVE Alive(u) \/ (user_cr3'[u] = 0 /\ pc'[u] = "Reserve")
  BY <1>3 DEF Create, TypeOK, Control, ControlOK
<1>4. ASSUME NEW t \in Threads, Block(t) \/ Wake(t) \/ Exit(t) \/ HeapTrim(t) PROVE Alive(u)
  BY <1>4 DEF Block, Wake, Exit, HeapTrim, At, TypeOK
<1>5. ASSUME NEW t \in Threads, NEW v \in Threads, Kill(t, v) PROVE Alive(u)
  BY <1>5 DEF Kill, TypeOK
<1>6. CASE UNCHANGED status
  BY <1>6
<1>7. ASSUME NEW t \in Threads,
             \/ Reserve(t) \/ ReserveFails(t) \/ Clone(t) \/ Map(t) \/ OutOfFrames(t)
             \/ Enter(t) \/ Copy(t) \/ CopyAstray(t) \/ CopyFails(t) \/ Leave(t)
             \/ SetRange(t) \/ SetRoot(t) \/ Release(t) \/ Jump(t) \/ HeapGrow(t)
      PROVE  UNCHANGED status
  BY <1>7 DEF Reserve, ReserveFails, Clone, Map, OutOfFrames, Enter, Copy, CopyAstray, CopyFails,
              Leave, SetRange, SetRoot, Release, Jump, HeapGrow
<1> QED BY <1>1, <1>2, <1>3, <1>4, <1>5, <1>6, <1>7 DEF Next, vars

(* The steps that change tables, and the others. *)
LEMMA TablesChange ==
  ASSUME [Next]_vars
  PROVE  \/ UNCHANGED <<free, table, user_cr3>>
         \/ Reap /\ UNCHANGED user_cr3 /\ (NoSwitch \/ \E t \in Threads : SwitchTo(t))
         \/ \E t \in Threads : Clone(t) \/ Map(t) \/ HeapGrow(t) \/ HeapTrim(t)
<1> USE DEF memory, launch, ReleaseSlot
<1>1. CASE NoSwitch
  BY <1>1 DEF NoSwitch
<1>2. ASSUME NEW t \in Threads, SwitchTo(t) PROVE Reap /\ UNCHANGED user_cr3
  BY <1>2 DEF SwitchTo
<1>3. ASSUME NEW t \in Threads, Create(t) \/ Block(t) \/ Wake(t) \/ Exit(t) PROVE UNCHANGED <<free, table, user_cr3>>
  BY <1>3 DEF Create, Block, Wake, Exit
<1>4. ASSUME NEW t \in Threads, NEW v \in Threads, Kill(t, v) PROVE UNCHANGED <<free, table, user_cr3>>
  BY <1>4 DEF Kill
<1>5. ASSUME NEW t \in Threads,
             \/ Reserve(t) \/ ReserveFails(t) \/ OutOfFrames(t)
             \/ Enter(t) \/ Copy(t) \/ CopyAstray(t) \/ CopyFails(t) \/ Leave(t)
             \/ SetRange(t) \/ SetRoot(t) \/ Release(t) \/ Jump(t)
      PROVE  UNCHANGED <<free, table, user_cr3>>
  BY <1>5 DEF Reserve, ReserveFails, OutOfFrames, Enter, Copy, CopyAstray, CopyFails,
              Leave, SetRange, SetRoot, Release, Jump
<1>6. CASE UNCHANGED vars
  BY <1>6 DEF vars
<1> QED BY <1>1, <1>2, <1>3, <1>4, <1>5, <1>6 DEF Next

(* Roots stay roots as long as none of a living thread is freed. *)
LEMMA RootsKept ==
  ASSUME Links, UNCHANGED user_cr3,
         \A u \in Threads : Alive(u)' => Alive(u) \/ user_cr3'[u] = 0,
         \A u \in Living : Alive(u)' /\ user_cr3[u] # 0 => user_cr3[u] \notin free'
  PROVE  RootsOK' /\ Roots' \subseteq Roots
<1>1. \A u \in Living' : user_cr3'[u] # 0 => u \in Living
  BY DEF Living
<1>2. Roots' \subseteq Roots
  BY <1>1 DEF Roots
<1>3. RootsOK'
  BY <1>1 DEF Links, RootsOK, Used, Living
<1> QED BY <1>2, <1>3

(* An entry to a frame that was free, with or without the others that were  *)
(* in its table.                                                            *)
LEMMA ForestLink ==
  ASSUME Links, NEW f \in free, NEW p \in Used, NEW i, NEW kept \in SUBSET table[p],
         free' = free \ {f},
         table' = [table EXCEPT ![f] = {}, ![p] = kept \cup {<<i, f>>}],
         Roots' \subseteq Roots
  PROVE  Forest'
<1>1. f \in Frames /\ f \notin Used /\ f # p /\ p \in Frames /\ Used' = Used \cup {f}
  BY DEF Links, TypeOK, Used
<1>2. f \notin Roots
  BY <1>1 DEF Links, RootsOK, Roots
<1>3. \A q \in Used : \A e \in table[q] : e[2] \in Used \ Roots
  BY DEF Links, Forest
<1>4. \A q \in Used' : \A e \in table'[q] :
         \/ q \in Used /\ e \in table[q] /\ e[2] \in Used \ Roots
         \/ q = p /\ e = <<i, f>> /\ e[2] = f
  BY <1>1, <1>3 DEF Links, TypeOK, Used
<1>5. ASSUME NEW q \in Used', NEW e \in table'[q]
      PROVE  /\ e[2] \in Used' \ Roots'
             /\ \A q2 \in Used' : \A d \in table'[q2] : d[2] = e[2] => q2 = q /\ d = e
  <2>1. e[2] \in Used' \ Roots'
    BY <1>1, <1>2, <1>4
  <2>2. ASSUME NEW q2 \in Used', NEW d \in table'[q2], d[2] = e[2] PROVE q2 = q /\ d = e
    <3>1. CASE e[2] = f
      BY <1>1, <1>4, <2>2, <3>1
    <3>2. CASE e[2] # f
      <4>1. q \in Used /\ e \in table[q]
        BY <1>4, <3>2
      <4>2. q2 \in Used /\ d \in table[q2]
        BY <1>4, <2>2, <3>2
      <4> QED BY <4>1, <4>2, <2>2 DEF Links, Forest
    <3> QED BY <3>1, <3>2
  <2> QED BY <2>1, <2>2
<1> QED BY <1>5 DEF Forest

(* After the reaper's pass a living thread was not one of its victims. *)
LEMMA LivingNotReaped ==
  ASSUME TypeOK, NEW u \in Threads, Alive(u)', NoSwitch \/ \E t \in Threads : SwitchTo(t)
  PROVE  Alive(u) /\ u \notin Reaped
<1>1. CASE NoSwitch
  BY <1>1 DEF NoSwitch, Afterwards, Reaped, Alive, TypeOK
<1>2. ASSUME NEW t \in Threads, SwitchTo(t) PROVE Alive(u) /\ u \notin Reaped
  BY <1>2 DEF SwitchTo, Ready, Afterwards, Reaped, Alive, TypeOK
<1> QED BY <1>1, <1>2

LEMMA ReapLinks ==
  ASSUME Links, Announced, Reap, UNCHANGED user_cr3, NoSwitch \/ \E t \in Threads : SwitchTo(t)
  PROVE  Forest' /\ RootsOK'
<1>1. PICK gone \in SUBSET Frames :
         /\ free' = free \cup gone
         /\ table' = [f \in Frames |-> { e \in table[f] : e[2] \notin gone }]
         /\ \A x \in gone : \E t \in Reaped : x \in SpaceOf(t)
  BY ReapFrees DEF Links
<1>2. RootsOK' /\ Roots' \subseteq Roots
  <2>1. \A u \in Threads : Alive(u)' => Alive(u) /\ u \notin Reaped
    BY LivingNotReaped DEF Links
  <2>2. ASSUME NEW u \in Living, Alive(u)', user_cr3[u] # 0 PROVE user_cr3[u] \notin free'
    <3>1. user_cr3[u] \in SpaceOf(u)
      BY <2>2 DEF SpaceOf, Space, Root
    <3>2. \A t \in Reaped : t \in Living \ {u}
      BY <2>1, <2>2 DEF Reaped, Living, Alive
    <3>3. user_cr3[u] \notin free /\ \A t \in Reaped : user_cr3[u] \notin SpaceOf(t)
      BY <3>1, <3>2, SpacesApart DEF SpacesSound
    <3> QED BY <3>3, <1>1
  <2> QED BY <2>1, <2>2, RootsKept
<1>3. Used' = Used \ gone /\ \A p \in Used' : \A e \in table'[p] : p \in Used /\ e \in table[p] /\ e[2] \notin gone
  BY <1>1 DEF Used
<1>4. Forest'
  BY <1>2, <1>3 DEF Links, Forest
<1> QED BY <1>2, <1>4

LEMMA CloneLinks ==
  ASSUME Links, Control, NEW t \in Threads, Clone(t)
  PROVE  Forest' /\ RootsOK'
<1>1. PICK f \in Lowest(free) :
        /\ free' = free \ {f}
        /\ table' = [table EXCEPT ![f] = {}]
        /\ user_cr3' = [user_cr3 EXCEPT ![t] = f]
  BY DEF Clone
<1>2. f \in free /\ f \in Frames /\ f \notin Used /\ Used' = Used \cup {f}
  BY <1>1 DEF Lowest, Links, TypeOK, Used
<1>3. UNCHANGED status /\ Living' = Living
  BY DEF Clone, threads, Living, Alive
<1>4. Roots' \subseteq Roots \cup {f}
  BY <1>1, <1>3 DEF Roots, Links, TypeOK
<1>5. f # 0
  BY <1>2 DEF Frames
<1>6. RootsOK'
  BY <1>1, <1>2, <1>3, <1>5 DEF Links, RootsOK, TypeOK, Living
<1>7. \A q \in Used' : \A e \in table'[q] : q \in Used /\ e \in table[q]
  BY <1>1, <1>2 DEF Links, TypeOK, Used
<1>8. Forest'
  BY <1>2, <1>4, <1>7 DEF Links, Forest
<1> QED BY <1>6, <1>8

LEMMA SameRoots ==
  ASSUME Links, UNCHANGED <<status, user_cr3>>, free' \cap Used \cap Roots = {}
  PROVE  RootsOK' /\ Roots' \subseteq Roots
<1>1. Living' = Living /\ Roots' = Roots
  BY DEF Living, Alive, Roots
<1>2. \A u \in Living : user_cr3[u] # 0 => user_cr3[u] \in Used' 
  BY DEF Links, RootsOK, Roots, Used
<1> QED BY <1>1, <1>2 DEF Links, RootsOK

(* The frames on the way to a page that is missing are in use. *)
LEMMA GapUsed ==
  ASSUME Links, NEW t \in Living, NEW v \in Nat, NEW g \in Gap(user_cr3[t], v)
  PROVE  g[1] \in Used /\ g[1] \in SpaceOf(t)
BY GapIs, LevelsUsed, WalkBelow DEF SpaceOf, Space

LEMMA MapLinks ==
  ASSUME Links, NEW t \in Threads, Map(t)
  PROVE  Forest' /\ RootsOK'
<1>1. PICK v \in Unmapped(t) : AddFrame(user_cr3[t], v)
  BY DEF Map
<1>2. v \in Nat /\ t \in Living
  BY PagesAreNumbers DEF Unmapped, Map, At, Living, Alive, Links
<1>3. PICK f \in Lowest(free), g \in Gap(user_cr3[t], v) :
        /\ free' = free \ {f}
        /\ table' = [table EXCEPT ![f] = {}, ![g[1]] = table[g[1]] \cup {<<g[2], f>>}]
  BY <1>1 DEF AddFrame
<1>4. f \in free /\ g[1] \in Used
  BY <1>2, GapUsed DEF Lowest
<1>5. UNCHANGED <<status, user_cr3>>
  BY DEF Map, threads, launch
<1>6. RootsOK' /\ Roots' \subseteq Roots
  BY <1>3, <1>5, SameRoots DEF Used
<1>7. Forest'
  BY <1>3, <1>4, <1>6, ForestLink
<1> QED BY <1>6, <1>7

(* The tables that are loaded in user mode. *)
LEMMA UserTables ==
  ASSUME Links, Control, NEW t \in Threads, At(t, "User")
  PROVE  /\ t \in Living /\ loaded = user_cr3[t] /\ cr3[t] = user_cr3[t]
         /\ Dir(loaded) \subseteq Used /\ Tables(loaded, HeapPage) \subseteq Used
         /\ Leaf(loaded, HeapPage) \subseteq Used \ Roots
         /\ Dir(loaded) \subseteq SpaceOf(t) /\ Tables(loaded, HeapPage) \subseteq SpaceOf(t)
         /\ Leaf(loaded, HeapPage) \subseteq SpaceOf(t)
<1>1. t \in Living /\ loaded = user_cr3[t] /\ cr3[t] = user_cr3[t]
  BY DEF At, Control, ControlOK, Living, Alive
<1> QED BY <1>1, LevelsUsed, WalkBelow DEF SpaceOf, Space

LEMMA HeapGrowLinks ==
  ASSUME Links, Control, NEW t \in Threads, HeapGrow(t)
  PROVE  Forest' /\ RootsOK'
<1>1. UNCHANGED <<status, user_cr3>> /\ At(t, "User")
  BY DEF HeapGrow, threads, launch
<1>2. PICK f \in Lowest(free) :
       \/ \E p \in Tables(loaded, HeapPage) :
            /\ free' = free \ {f}
            /\ table' = [table EXCEPT ![f] = {},
                           ![p] = { e \in table[p] : e[1] # HeapPage } \cup {<<HeapPage, f>>}]
       \/ \E p \in Lowest(free \ {f}), d \in Dir(loaded) :
            /\ free' = free \ {f, p}
            /\ table' = [table EXCEPT ![f] = {}, ![p] = {<<HeapPage, f>>},
                                      ![d] = table[d] \cup {<<Region(HeapPage), p>>}]
  BY DEF HeapGrow
<1>3. f \in free /\ f \in Frames /\ f \notin Used
  BY DEF Lowest, Links, TypeOK, Used
<1>4. free' \subseteq free
  BY <1>2
<1>5. RootsOK' /\ Roots' \subseteq Roots
  BY <1>1, <1>4, SameRoots DEF Used
<1>6. ASSUME NEW p \in Tables(loaded, HeapPage),
             free' = free \ {f},
             table' = [table EXCEPT ![f] = {},
                        ![p] = { e \in table[p] : e[1] # HeapPage } \cup {<<HeapPage, f>>}]
      PROVE  Forest'
  <2>1. p \in Used
    BY <1>1, UserTables
  <2>2. { e \in table[p] : e[1] # HeapPage } \in SUBSET table[p]
    OBVIOUS
  <2> QED BY <1>3, <1>5, <1>6, <2>1, <2>2, ForestLink
<1>7. ASSUME NEW p \in Lowest(free \ {f}), NEW d \in Dir(loaded),
             free' = free \ {f, p},
             table' = [table EXCEPT ![f] = {}, ![p] = {<<HeapPage, f>>},
                                      ![d] = table[d] \cup {<<Region(HeapPage), p>>}]
      PROVE  Forest'
  <2>1. d \in Used
    BY <1>1, UserTables
  <2>2. p \in free /\ p \in Frames /\ p \notin Used /\ p # f /\ d # p /\ d # f /\ d \in Frames
    BY <1>3, <2>1 DEF Lowest, Links, TypeOK, Used
  <2>3. Used' = Used \cup {f, p} /\ f \notin Roots /\ p \notin Roots
    BY <1>3, <1>7, <2>2 DEF Used, Links, RootsOK, Roots
  <2>4. \A q \in Used : \A e \in table[q] : e[2] \in Used \ Roots
    BY DEF Links, Forest
  <2>5. ASSUME NEW q \in Used', NEW e \in table'[q]
        PROVE  \/ q \in Used /\ e \in table[q] /\ e[2] \in Used \ Roots
               \/ q = p /\ e = <<HeapPage, f>> /\ e[2] = f
               \/ q = d /\ e = <<Region(HeapPage), p>> /\ e[2] = p
    <3>1. DOMAIN table = Frames /\ q \in Frames /\ (q \in Used \/ q = f \/ q = p)
      BY <2>3 DEF Links, TypeOK, Used
    <3>2. CASE q = f
      BY <1>3, <1>7, <2>2, <3>1, <3>2
    <3>3. CASE q = p
      <4>1. table'[p] = {<<HeapPage, f>>}
        BY <1>7, <2>2, <3>1
      <4> QED BY <4>1, <3>3
    <3>4. CASE q = d
      <4>1. table'[d] = table[d] \cup {<<Region(HeapPage), p>>}
        BY <1>7, <2>2, <3>1
      <4> QED BY <4>1, <3>4, <2>1, <2>4
    <3>5. CASE q \notin {f, p, d}
      <4>1. table'[q] = table[q]
        BY <1>7, <3>1, <3>5
      <4> QED BY <4>1, <3>1, <3>5, <2>4
    <3> QED BY <3>2, <3>3, <3>4, <3>5
  <2>6. ASSUME NEW q \in Used', NEW e \in table'[q]
        PROVE  /\ e[2] \in Used' \ Roots'
               /\ \A q2 \in Used' : \A x \in table'[q2] : x[2] = e[2] => q2 = q /\ x = e
    <3>1. e[2] \in Used' \ Roots'
      BY <1>5, <2>3, <2>5
    <3>2. ASSUME NEW q2 \in Used', NEW x \in table'[q2], x[2] = e[2] PROVE q2 = q /\ x = e
      <4>1. CASE e[2] \in {f, p}
        BY <1>3, <2>2, <2>5, <3>2, <4>1
      <4>2. CASE e[2] \notin {f, p}
        <5>1. q \in Used /\ e \in table[q] /\ q2 \in Used /\ x \in table[q2]
          BY <2>5, <3>2, <4>2
        <5> QED BY <5>1, <3>2 DEF Links, Forest
      <4> QED BY <4>1, <4>2
    <3> QED BY <3>1, <3>2
  <2> QED BY <2>6 DEF Forest
<1> QED BY <1>2, <1>5, <1>6, <1>7

LEMMA HeapTrimLinks ==
  ASSUME Links, Control, NEW t \in Threads, HeapTrim(t)
  PROVE  Forest' /\ RootsOK'
<1> DEFINE page == Leaf(loaded, HeapPage)
           tabs == Tables(loaded, HeapPage)
<1>1. /\ At(t, "User")
      /\ free' = free \cup page
      /\ table' = [f \in Frames |-> IF f \in tabs THEN { e \in table[f] : e[1] # HeapPage } ELSE table[f]]
      /\ UNCHANGED user_cr3
  BY DEF HeapTrim, launch
<1>2. page \subseteq Used \ Roots /\ tabs \subseteq Used
  BY <1>1, UserTables
<1>3. RootsOK' /\ Roots' \subseteq Roots
  <2>1. \A u \in Threads : Alive(u)' => Alive(u) \/ user_cr3'[u] = 0
    BY LivingStep DEF Next, Links
  <2>2. \A u \in Living : user_cr3[u] # 0 => user_cr3[u] \notin free'
    BY <1>1, <1>2 DEF Links, RootsOK, Roots, Used
  <2> QED BY <1>1, <2>1, <2>2, RootsKept
<1>4. ASSUME NEW x \in page PROVE \E q \in tabs : \E e \in table[q] : e[1] = HeapPage /\ e[2] = x
  BY FollowIs DEF Leaf
<1> HIDE DEF page, tabs
<1>5. Used' = Used \ page
  BY <1>1 DEF Used
<1>6. ASSUME NEW p \in Used', NEW e \in table'[p] PROVE p \in Used /\ e \in table[p] /\ e[2] \notin page
  <2>1. p \in Used /\ e \in table[p] /\ (p \in tabs => e[1] # HeapPage)
    BY <1>1, <1>5, <1>6 DEF Used
  <2>2. ASSUME e[2] \in page PROVE FALSE
    <3>1. PICK q \in tabs : \E x \in table[q] : x[1] = HeapPage /\ x[2] = e[2]
      BY <1>4, <2>2
    <3> QED BY <1>2, <2>1, <3>1 DEF Links, Forest
  <2> QED BY <2>1, <2>2
<1>7. Forest'
  BY <1>3, <1>5, <1>6 DEF Links, Forest
<1> QED BY <1>3, <1>7

LEMMA LinksStep ==
  ASSUME Links, Control, [Next]_vars
  PROVE  Forest' /\ RootsOK'
<1>1. CASE UNCHANGED <<free, table, user_cr3>>
  <2>1. \A u \in Threads : Alive(u)' => Alive(u) \/ user_cr3'[u] = 0
    BY LivingStep DEF Links
  <2>2. RootsOK' /\ Roots' \subseteq Roots
    BY <1>1, <2>1, RootsKept DEF Links, RootsOK, Used
  <2>3. Forest'
    BY <1>1, <2>2 DEF Links, Forest, Used
  <2> QED BY <2>2, <2>3
<1>2. CASE Reap /\ UNCHANGED user_cr3 /\ (NoSwitch \/ \E t \in Threads : SwitchTo(t))
  BY <1>2, ReapLinks, ControlAnnounces
<1>3. CASE \E t \in Threads : Clone(t) \/ Map(t) \/ HeapGrow(t) \/ HeapTrim(t)
  BY <1>3, CloneLinks, MapLinks, HeapGrowLinks, HeapTrimLinks
<1> QED BY <1>1, <1>2, <1>3, TablesChange

-----------------------------------------------------------------------------
(* Control                                                                  *)

LEMMA ControlStep ==
  ASSUME TypeOK, RootsOK, Control, [Next]_vars
  PROVE  Control'
<1> SUFFICES ASSUME NEW u \in Threads PROVE ControlOK(u)'
    BY DEF Control
<1> USE NoneAssumption DEF threads, launch, memory, Goto, ReleaseSlot, Alive, Control
<1>1. CASE NoSwitch
  <2>1. UNCHANGED <<pc, cr3, user_cr3, saved_cr3, loaded, out>>
    BY <1>1 DEF NoSwitch
  <2>2. CASE \E t \in Threads : current = t /\ status[t] = "RUNNING"
    <3>1. status' = [Afterwards EXCEPT ![current] = "RUNNING"] /\ UNCHANGED current
      BY <1>1, <2>2 DEF NoSwitch
    <3>2. current \in Threads /\ status[current] = "RUNNING"
      BY <2>2
    <3>3. status'[u] \in {status[u], "GONE"} /\ (u = current => status'[u] = status[u])
      BY <3>1, <3>2 DEF Afterwards, TypeOK, Reaped
    <3> QED BY <2>1, <3>1, <3>3 DEF ControlOK
  <2>3. CASE ~ \E t \in Threads : current = t /\ status[t] = "RUNNING"
    <3>1. status' = Afterwards /\ current' = None /\ Ready = {}
      BY <1>1, <2>3 DEF NoSwitch
    <3>2. status'[u] \in {status[u], "GONE"} /\ current' # u /\ status[u] # "READY"
      BY <3>1, <2>3 DEF Afterwards, TypeOK, Ready
    <3> QED BY <2>1, <2>3, <3>2 DEF ControlOK, TypeOK
  <2> QED BY <2>2, <2>3
<1>2. ASSUME NEW t \in Threads, SwitchTo(t) PROVE ControlOK(u)'
  <2>1. /\ UNCHANGED <<pc, cr3, user_cr3, saved_cr3>> /\ current' = t /\ status[t] = "READY"
        /\ loaded' = IF t = current THEN loaded ELSE TablesOf(t)
        /\ out' = out \cup { w \in Threads : current = w /\ pc[w] = "Copy" }
    BY <1>2 DEF SwitchTo, Ready
  <2>2. status'[t] = "RUNNING"
    BY <1>2 DEF SwitchTo, Afterwards, TypeOK
  <2>3. CASE u = t
    <3>1. loaded' \in {0, user_cr3[t]} /\ (pc[t] = "User" => loaded' = user_cr3[t])
      BY <2>1 DEF TablesOf, Kernel, ControlOK
    <3>2. pc[t] = "Copy" => loaded' = user_cr3[t] \/ t \in out
      BY <2>1 DEF ControlOK
    <3> QED BY <2>1, <2>2, <2>3, <3>1, <3>2 DEF ControlOK
  <2>4. CASE u # t
    <3>1. /\ status'[u] = "NULL" => status[u] = "NULL"
          /\ status'[u] = "BLOCKED" => status[u] = "BLOCKED"
          /\ status'[u] \notin {"NULL", "GONE", "TERMINATED"} => status[u] \notin {"NULL", "GONE", "TERMINATED"}
      BY <1>2, <2>4 DEF SwitchTo, Afterwards, TypeOK
    <3>2. pc[u] = "Copy" /\ status'[u] \notin {"NULL", "GONE", "TERMINATED"} => u \in out'
      BY <2>1, <3>1 DEF ControlOK
    <3> QED BY <2>1, <2>4, <3>1, <3>2 DEF ControlOK
  <2> QED BY <2>3, <2>4
<1>3. ASSUME NEW t \in Threads, Create(t) \/ Block(t) \/ Wake(t) PROVE ControlOK(u)'
  <2>1. UNCHANGED <<current, pc, cr3, user_cr3, saved_cr3, loaded, out>>
    BY <1>3 DEF Create, Block, Wake
  <2>2. CASE Create(t)
    BY <2>1, <2>2 DEF Create, ControlOK, TypeOK
  <2>3. CASE Block(t)
    BY <2>1, <2>3 DEF Block, ControlOK, TypeOK, At
  <2>4. CASE Wake(t)
    BY <2>1, <2>4 DEF Wake, ControlOK, TypeOK
  <2> QED BY <1>3, <2>2, <2>3, <2>4
<1>4. ASSUME NEW t \in Threads, NEW w \in Threads, Kill(t, w) PROVE ControlOK(u)'
  BY <1>4 DEF Kill, ControlOK, TypeOK
<1>5. ASSUME NEW t \in Threads, Exit(t) \/ HeapTrim(t) PROVE ControlOK(u)'
  <2>1. /\ UNCHANGED <<current, cr3, user_cr3, saved_cr3, loaded, out>> /\ current = t /\ status[t] \notin {"NULL", "GONE"}
        /\ pc' = [pc EXCEPT ![t] = "Dead"] /\ status' = [status EXCEPT ![t] = "TERMINATED"]
    BY <1>5 DEF Exit, HeapTrim, At
  <2> QED BY <2>1 DEF ControlOK, TypeOK
<1>6. ASSUME NEW t \in Threads, ReserveFails(t) \/ Reserve(t) \/ OutOfFrames(t) \/ CopyFails(t) PROVE ControlOK(u)'
  <2>1. /\ UNCHANGED <<current, status, cr3, user_cr3, saved_cr3, loaded, out>>
        /\ current = t /\ status[t] \notin {"NULL", "BLOCKED"}
        /\ \/ pc[t] = "Reserve" /\ pc' = [pc EXCEPT ![t] = "Clone"]
           \/ pc' = [pc EXCEPT ![t] = "Exit"]
           \/ pc' = [pc EXCEPT ![t] = "GiveUp"]
    BY <1>6 DEF ReserveFails, Reserve, OutOfFrames, CopyFails, At
  <2> QED BY <2>1 DEF ControlOK, TypeOK
<1>7. ASSUME NEW t \in Threads, Clone(t) PROVE ControlOK(u)'
  <2>1. PICK f \in Lowest(free) : user_cr3' = [user_cr3 EXCEPT ![t] = f]
    BY <1>7 DEF Clone
  <2>2. f # 0
    BY DEF Lowest, TypeOK, Frames
  <2>3. /\ UNCHANGED <<current, status, cr3, saved_cr3, loaded, out>> /\ pc[t] = "Clone" /\ current = t
        /\ status[t] \notin {"NULL", "BLOCKED"} /\ pc' = [pc EXCEPT ![t] = "Map"]
    BY <1>7 DEF Clone, At
  <2> QED BY <2>1, <2>2, <2>3 DEF ControlOK, TypeOK
<1>8. ASSUME NEW t \in Threads, Map(t) \/ Copy(t) \/ CopyAstray(t) \/ HeapGrow(t) PROVE ControlOK(u)'
  BY <1>8 DEF Map, Copy, CopyAstray, HeapGrow, ControlOK
<1>9. ASSUME NEW t \in Threads, Enter(t) PROVE ControlOK(u)'
  <2>1. /\ UNCHANGED <<current, status, cr3, user_cr3, out>> /\ pc[t] = "Map" /\ current = t
        /\ status[t] \notin {"NULL", "BLOCKED"} /\ pc' = [pc EXCEPT ![t] = "Copy"]
        /\ saved_cr3' = [saved_cr3 EXCEPT ![t] = loaded] /\ loaded' = user_cr3[t]
    BY <1>9 DEF Enter, At
  <2> QED BY <2>1 DEF ControlOK, TypeOK
<1>10. ASSUME NEW t \in Threads, Leave(t) PROVE ControlOK(u)'
  <2>1. /\ UNCHANGED <<current, status, cr3, user_cr3, saved_cr3, out>> /\ current = t
        /\ status[t] \notin {"NULL", "BLOCKED"} /\ loaded' = saved_cr3[t]
        /\ \/ pc' = [pc EXCEPT ![t] = "Exit"]
           \/ pc[t] = "Copy" /\ pc' = [pc EXCEPT ![t] = "SetRange"]
    BY <1>10 DEF Leave, At
  <2> QED BY <2>1 DEF ControlOK, TypeOK
<1>11. ASSUME NEW t \in Threads, SetRange(t) PROVE ControlOK(u)'
  BY <1>11 DEF SetRange, At, ControlOK, TypeOK
<1>12. ASSUME NEW t \in Threads, SetRoot(t) PROVE ControlOK(u)'
  <2>1. /\ UNCHANGED <<current, status, user_cr3, saved_cr3, loaded, out>> /\ current = t
        /\ status[t] \notin {"NULL", "BLOCKED"} /\ pc[t] = "SetRoot" /\ pc' = [pc EXCEPT ![t] = "Release"]
        /\ cr3' = [cr3 EXCEPT ![t] = user_cr3[t]]
    BY <1>12 DEF SetRoot, At
  <2> QED BY <2>1 DEF ControlOK, TypeOK
<1>13. ASSUME NEW t \in Threads, Release(t) PROVE ControlOK(u)'
  BY <1>13 DEF Release, At, ControlOK, TypeOK
<1>14. ASSUME NEW t \in Threads, Jump(t) PROVE ControlOK(u)'
  <2>1. /\ UNCHANGED <<current, status, cr3, user_cr3, saved_cr3, out>> /\ current = t
        /\ status[t] \notin {"NULL", "BLOCKED"} /\ pc[t] = "Jump" /\ pc' = [pc EXCEPT ![t] = "User"]
        /\ loaded' = user_cr3[t]
    BY <1>14 DEF Jump, At
  <2> QED BY <2>1 DEF ControlOK, TypeOK
<1>15. CASE UNCHANGED vars
  BY <1>15 DEF vars, ControlOK
<1> QED BY <1>1, <1>2, <1>3, <1>4, <1>5, <1>6, <1>7, <1>8, <1>9, <1>10, <1>11, <1>12, <1>13, <1>14, <1>15 DEF Next

-----------------------------------------------------------------------------
(* The images                                                               *)

(* A step that leaves the frames of a thread alone leaves its walks alone. *)
LEMMA LeafKept ==
  ASSUME Links, NEW u \in Living, NEW v, user_cr3'[u] = user_cr3[u],
         \A p \in SpaceOf(u) : table'[p] = table[p]
  PROVE  Leaf(user_cr3[u], v)' = Leaf(user_cr3[u], v)
<1>1. PICK r : r = user_cr3[u]
  OBVIOUS
<1>2. Root(r) \cup Dir(r) \cup Tables(r, v) \subseteq SpaceOf(u)
  BY <1>1, WalkBelow DEF SpaceOf, Space
<1>3. Leaf(r, v)' = Leaf(r, v)
  BY <1>2, LeafSame
<1> QED BY <1>1, <1>3

Mapped == {"Copy", "SetRange", "SetRoot", "Release", "Jump", "User"}

LEMMA ImageKept ==
  ASSUME Links, NEW u \in Living, ImageOK(u), UNCHANGED range,
         pc'[u] = pc[u] \/ pc[u] \in Mapped \ {"Copy"},
         \A v : Leaf(user_cr3[u], v)' = Leaf(user_cr3[u], v),
         \A x \in SpaceOf(u) : x \in image => x \in image'
  PROVE  ImageOK(u)'
<1> SUFFICES ASSUME pc'[u] \in Mapped, NEW v \in Segments(u)
             PROVE  /\ Leaf(user_cr3[u], v)' # {}
                    /\ pc'[u] # "Copy" => Leaf(user_cr3[u], v)' \subseteq image'
    BY DEF ImageOK, Segments, Mapped
<1>1. Leaf(user_cr3[u], v) \subseteq SpaceOf(u)
  BY WalkBelow DEF SpaceOf, Space
<1>2. /\ Leaf(user_cr3[u], v) # {}
      /\ pc[u] # "Copy" => Leaf(user_cr3[u], v) \subseteq image
  BY DEF ImageOK, Living, Mapped
<1> QED BY <1>1, <1>2 DEF Mapped

(* Nothing else belongs to two threads, so what one does to its tables is   *)
(* not seen in another's.                                                   *)
LEMMA OthersKept ==
  ASSUME Links, NEW t \in Living, NEW u \in Living \ {t}, NEW v,
         user_cr3'[u] = user_cr3[u],
         \A p \in Frames \ (free \cup SpaceOf(t)) : table'[p] = table[p]
  PROVE  Leaf(user_cr3[u], v)' = Leaf(user_cr3[u], v)
<1>1. SpaceOf(u) \subseteq Frames \ free /\ SpaceOf(u) \cap SpaceOf(t) = {}
  <2>1. SpaceOf(u) \subseteq Frames
    BY SpaceFrames DEF SpaceOf, Living, Links, TypeOK
  <2> QED BY <2>1, SpacesApart DEF SpacesSound
<1> QED BY <1>1, LeafKept

(* How a thread moves in steps that leave the tables alone. *)
LEMMA QuietMoves ==
  ASSUME TypeOK, [Next]_vars, UNCHANGED <<free, table, user_cr3>>, NEW u \in Threads
  PROVE  /\ UNCHANGED range /\ image \subseteq image'
         /\ \/ pc'[u] = pc[u] \/ pc'[u] \notin Mapped
            \/ pc[u] \in Mapped \ {"Copy"}
            \/ pc'[u] = "Copy" /\ Unmapped(u) = {}
            \/ pc[u] = "Copy" /\ Uncopied(u) = {}
<1> USE DEF threads, launch, memory, Goto, ReleaseSlot, Mapped
<1>1. CASE NoSwitch
  BY <1>1 DEF NoSwitch, Reap
<1>2. ASSUME NEW t \in Threads, SwitchTo(t) PROVE UNCHANGED <<range, pc, image>>
  BY <1>2 DEF SwitchTo, Reap
<1>3. ASSUME NEW t \in Threads, Create(t) \/ Block(t) \/ Wake(t) PROVE UNCHANGED <<range, pc, image>>
  BY <1>3 DEF Create, Block, Wake
<1>4. ASSUME NEW t \in Threads, NEW w \in Threads, Kill(t, w) PROVE UNCHANGED <<range, pc, image>>
  BY <1>4 DEF Kill
<1>5. ASSUME NEW t \in Threads, Reserve(t) \/ ReserveFails(t) \/ OutOfFrames(t) \/ CopyFails(t) \/ Exit(t)
      PROVE  UNCHANGED <<range, image>> /\ \E p \in {"Clone", "Exit", "GiveUp", "Dead"} : pc' = [pc EXCEPT ![t] = p]
  BY <1>5 DEF Reserve, ReserveFails, OutOfFrames, CopyFails, Exit
<1>6. ASSUME NEW t \in Threads, Clone(t) PROVE FALSE
  BY <1>6 DEF Clone, Lowest, TypeOK
<1>7. ASSUME NEW t \in Threads, Map(t) PROVE FALSE
  BY <1>7 DEF Map, AddFrame, Lowest, TypeOK
<1>8. ASSUME NEW t \in Threads, HeapGrow(t) PROVE FALSE
  BY <1>8 DEF HeapGrow, Lowest, TypeOK
<1>9. ASSUME NEW t \in Threads, HeapTrim(t)
      PROVE  UNCHANGED <<range, image>> /\ pc' = [pc EXCEPT ![t] = "Dead"]
  BY <1>9 DEF HeapTrim
<1>10. ASSUME NEW t \in Threads, Enter(t)
       PROVE  UNCHANGED <<range, image>> /\ Unmapped(t) = {} /\ pc' = [pc EXCEPT ![t] = "Copy"]
  BY <1>10 DEF Enter
<1>11. ASSUME NEW t \in Threads, Copy(t) \/ CopyAstray(t)
       PROVE  UNCHANGED <<range, pc>> /\ image \subseteq image'
  BY <1>11 DEF Copy, CopyAstray
<1>12. ASSUME NEW t \in Threads, Leave(t)
       PROVE  /\ UNCHANGED <<range, image>>
              /\ \/ pc' = [pc EXCEPT ![t] = "Exit"]
                 \/ pc[t] = "Copy" /\ Uncopied(t) = {} /\ pc' = [pc EXCEPT ![t] = "SetRange"]
  BY <1>12 DEF Leave, At
<1>13. ASSUME NEW t \in Threads, SetRange(t) \/ SetRoot(t) \/ Release(t) \/ Jump(t)
       PROVE  /\ UNCHANGED <<range, image>> /\ pc[t] \in Mapped \ {"Copy"}
              /\ \E p \in Mapped : pc' = [pc EXCEPT ![t] = p]
  BY <1>13 DEF SetRange, SetRoot, Release, Jump, At
<1>14. CASE UNCHANGED vars
  BY <1>14 DEF vars
<1>15. u \in DOMAIN pc
  BY DEF TypeOK
<1>16. ASSUME NEW t \in Threads, NEW p \in {"Clone", "Exit", "GiveUp", "Dead"}, pc' = [pc EXCEPT ![t] = p]
       PROVE  pc'[u] = pc[u] \/ pc'[u] \notin Mapped
  BY <1>15, <1>16
<1>17. ASSUME NEW t \in Threads, NEW p, pc' = [pc EXCEPT ![t] = p]
       PROVE  pc'[u] = pc[u] \/ (u = t /\ pc'[u] = p)
  <2>1. CASE u = t
    BY <1>15, <1>17, <2>1
  <2>2. CASE u # t
    BY <1>15, <1>17, <2>2
  <2> QED BY <2>1, <2>2
<1> HIDE DEF Mapped
<1>18. ASSUME NEW t \in Threads, Enter(t) \/ Leave(t) \/ SetRange(t) \/ SetRoot(t) \/ Release(t) \/ Jump(t)
       PROVE  /\ UNCHANGED <<range, image>>
              /\ \/ pc'[u] = pc[u] \/ pc'[u] \notin Mapped
                 \/ pc[u] \in Mapped \ {"Copy"}
                 \/ pc'[u] = "Copy" /\ Unmapped(u) = {}
                 \/ pc[u] = "Copy" /\ Uncopied(u) = {}
  <2>1. "Exit" \notin Mapped
    BY DEF Mapped
  <2>2. CASE Enter(t)
    BY <2>2, <1>10, <1>17
  <2>3. CASE Leave(t)
    BY <2>3, <1>12, <1>17, <2>1
  <2>4. CASE SetRange(t) \/ SetRoot(t) \/ Release(t) \/ Jump(t)
    BY <2>4, <1>13, <1>17
  <2> QED BY <1>18, <2>2, <2>3, <2>4
<1> QED BY <1>1, <1>2, <1>3, <1>4, <1>5, <1>6, <1>7, <1>8, <1>9, <1>11, <1>14, <1>16, <1>18 DEF Next

LEMMA ReapKeeps ==
  ASSUME Links, Announced, Reap, UNCHANGED user_cr3, NoSwitch \/ \E t \in Threads : SwitchTo(t),
         NEW u \in Threads, Alive(u)', NEW v
  PROVE  Leaf(user_cr3[u], v)' = Leaf(user_cr3[u], v)
<1>1. PICK gone \in SUBSET Frames :
         /\ free' = free \cup gone
         /\ table' = [f \in Frames |-> { e \in table[f] : e[2] \notin gone }]
         /\ \A x \in gone : \E t \in Reaped : x \in SpaceOf(t)
  BY ReapFrees DEF Links
<1>2. Alive(u) /\ u \notin Reaped /\ u \in Living
  BY LivingNotReaped DEF Links, Living
<1>3. gone \cap SpaceOf(u) = {}
  <2>1. \A t \in Reaped : t \in Living \ {u}
    BY <1>2 DEF Reaped, Living, Alive
  <2>2. \A t \in Reaped : SpaceOf(t) \cap SpaceOf(u) = {}
    BY <1>2, <2>1, SpacesApart DEF SpacesSound
  <2> QED BY <1>1, <2>2
<1>4. PICK r : r = user_cr3[u]
  OBVIOUS
<1>5. /\ SpaceOf(u) \subseteq Frames /\ Dir(r) \subseteq SpaceOf(u) /\ Root(r) \subseteq SpaceOf(u)
      /\ Tables(r, v) \subseteq SpaceOf(u) /\ Leaf(r, v) \subseteq SpaceOf(u)
  BY <1>2, <1>4, SpaceFrames, WalkBelow DEF SpaceOf, Space, Links, TypeOK
<1>6. \A p \in SpaceOf(u) : \A e : e \in table'[p] <=> e \in table[p] /\ e[2] \notin gone
  BY <1>1, <1>5
<1>7. \A p \in Root(r) : \A e : e[1] = Low => (e \in table'[p] <=> e \in table[p])
  <2>1. \A p \in Root(r) : \A e \in table[p] : e[1] = Low => e[2] \in Dir(r)
    BY FollowIs DEF Dir
  <2> QED BY <1>3, <1>5, <1>6, <2>1
<1>8. \A p \in Dir(r) : \A e : e[1] = Region(v) => (e \in table'[p] <=> e \in table[p])
  <2>1. \A p \in Dir(r) : \A e \in table[p] : e[1] = Region(v) => e[2] \in Tables(r, v)
    BY FollowIs DEF Tables
  <2> QED BY <1>3, <1>5, <1>6, <2>1
<1>9. \A p \in Tables(r, v) : \A e : e[1] = v => (e \in table'[p] <=> e \in table[p])
  <2>1. \A p \in Tables(r, v) : \A e \in table[p] : e[1] = v => e[2] \in Leaf(r, v)
    BY FollowIs DEF Leaf
  <2> QED BY <1>3, <1>5, <1>6, <2>1
<1>10. Leaf(r, v)' = Leaf(r, v)
  BY <1>7, <1>8, <1>9, LeafSame
<1> QED BY <1>4, <1>10

(* The heap page of a program comes into its own tables, beside its image. *)
LEMMA HeapBeside ==
  ASSUME Links, Control, NEW t \in Threads, HeapGrow(t),
         NEW v \in Nat, v # HeapPage, Leaf(user_cr3[t], v) # {}
  PROVE  Leaf(user_cr3[t], v)' = Leaf(user_cr3[t], v)
<1>1. PICK r : r = user_cr3[t]
  OBVIOUS
<1>2. t \in Living /\ loaded = r /\ user_cr3' = user_cr3
  BY <1>1, UserTables DEF HeapGrow, launch
<1>3. PICK f \in Lowest(free) :
       \/ \E p \in Tables(r, HeapPage) :
            table' = [table EXCEPT ![f] = {},
                       ![p] = { e \in table[p] : e[1] # HeapPage } \cup {<<HeapPage, f>>}]
       \/ \E p \in Lowest(free \ {f}), d \in Dir(r) :
            /\ Tables(r, HeapPage) = {}
            /\ table' = [table EXCEPT ![f] = {}, ![p] = {<<HeapPage, f>>},
                                      ![d] = table[d] \cup {<<Region(HeapPage), p>>}]
  BY <1>2 DEF HeapGrow
<1>4. /\ Root(r) \subseteq Used /\ Dir(r) \subseteq Used /\ Tables(r, v) \subseteq Used
      /\ Tables(r, HeapPage) \subseteq Used
      /\ Root(r) \cap Dir(r) = {} /\ Root(r) \cap Tables(r, HeapPage) = {}
      /\ Dir(r) \cap Tables(r, v) = {} /\ Dir(r) \cap Tables(r, HeapPage) = {}
  <2>1. /\ Root(r) \subseteq Used /\ Root(r) \subseteq Roots
        /\ Dir(r) \subseteq Used \ Roots /\ Below(Dir(r)) \subseteq Used \ Roots
    BY <1>1, <1>2, LevelsUsed
  <2>2. Dir(r) \cap Below(Dir(r)) = {}
    BY <1>1, <1>2, LevelsApart
  <2>3. \A w : Tables(r, w) \subseteq Below(Dir(r))
    BY WalkBelow
  <2> QED BY <2>1, <2>2, <2>3
<1>5. f \notin Used /\ \A p \in Lowest(free \ {f}) : p \notin Used
  BY DEF Lowest, Used
<1>6. DOMAIN table = Frames /\ Used \subseteq Frames
  BY DEF Links, TypeOK, Used
<1>7. ASSUME NEW p \in Tables(r, HeapPage),
             table' = [table EXCEPT ![f] = {},
                        ![p] = { e \in table[p] : e[1] # HeapPage } \cup {<<HeapPage, f>>}]
      PROVE  Leaf(r, v)' = Leaf(r, v)
  <2>1. \A q \in Used \ {p} : table'[q] = table[q]
    BY <1>5, <1>6, <1>7
  <2>2. table'[p] = { e \in table[p] : e[1] # HeapPage } \cup {<<HeapPage, f>>}
    BY <1>4, <1>6, <1>7
  <2>3. \A q \in Root(r) \cup Dir(r) : table'[q] = table[q]
    BY <1>4, <2>1
  <2>4. \A q \in Tables(r, v) : \A e : e[1] = v => (e \in table'[q] <=> e \in table[q])
    BY <1>4, <2>1, <2>2
  <2> QED BY <2>3, <2>4, LeafSame
<1>8. ASSUME NEW p \in Lowest(free \ {f}), NEW d \in Dir(r), Tables(r, HeapPage) = {},
             table' = [table EXCEPT ![f] = {}, ![p] = {<<HeapPage, f>>},
                                      ![d] = table[d] \cup {<<Region(HeapPage), p>>}]
      PROVE  Leaf(r, v)' = Leaf(r, v)
  <2>1. \A q \in Used \ {d} : table'[q] = table[q]
    BY <1>5, <1>6, <1>8
  <2>2. table'[d] = table[d] \cup {<<Region(HeapPage), p>>}
    BY <1>4, <1>5, <1>6, <1>8
  <2>3. Region(v) # Region(HeapPage)
    <3>1. Tables(r, v) # {}
      BY <1>1, FollowIs DEF Leaf
    <3> QED BY <1>8, <3>1 DEF Tables
  <2>4. \A q \in Dir(r) : \A e : e[1] = Region(v) => (e \in table'[q] <=> e \in table[q])
    BY <1>4, <2>1, <2>2, <2>3
  <2>5. \A q \in Root(r) \cup Tables(r, v) : table'[q] = table[q]
    BY <1>4, <2>1
  <2> QED BY <2>4, <2>5, LeafSame
<1>9. Leaf(r, v)' = Leaf(r, v)
  BY <1>3, <1>7, <1>8
<1> QED BY <1>1, <1>2, <1>9

(* The frames that come into use take nothing from an image. *)
LEMMA ImageFrames ==
  ASSUME Links, NEW u \in Living, NEW F, F \subseteq free, image' = image \ F
  PROVE  \A x \in SpaceOf(u) : x \in image => x \in image'
BY SpacesApart DEF SpacesSound

LEMMA ImageStep ==
  ASSUME Links, Control, \A t \in Threads : ImageOK(t), [Next]_vars
  PROVE  \A t \in Threads : ImageOK(t)'
<1> SUFFICES ASSUME NEW u \in Threads, Alive(u)', pc'[u] \in Mapped PROVE ImageOK(u)'
    BY DEF ImageOK, Mapped
<1>1. u \in Living
  <2>1. pc'[u] # "Reserve"
    BY DEF Mapped
  <2> QED BY <2>1, LivingStep DEF Links, Living
<1>2. CASE UNCHANGED <<free, table, user_cr3>>
  <2>1. /\ UNCHANGED range /\ image \subseteq image'
        /\ \/ pc'[u] = pc[u]
           \/ pc[u] \in Mapped \ {"Copy"}
           \/ pc'[u] = "Copy" /\ Unmapped(u) = {}
           \/ pc[u] = "Copy" /\ Uncopied(u) = {}
    BY <1>2, QuietMoves DEF Links
  <2>2. \A v : Leaf(user_cr3[u], v)' = Leaf(user_cr3[u], v)
    BY <1>1, <1>2, LeafKept
  <2>3. CASE pc'[u] = pc[u] \/ pc[u] \in Mapped \ {"Copy"}
    BY <1>1, <2>1, <2>2, <2>3, ImageKept
  <2>4. CASE pc'[u] = "Copy" /\ Unmapped(u) = {}
    <3>1. \A v \in Segments(u) : Leaf(user_cr3[u], v) # {}
      BY <2>4 DEF Unmapped, Segments
    <3> QED BY <2>1, <2>2, <2>4, <3>1 DEF ImageOK, Segments
  <2>5. CASE pc[u] = "Copy" /\ Uncopied(u) = {}
    <3>1. \A v \in Segments(u) : Leaf(user_cr3[u], v) # {} /\ Leaf(user_cr3[u], v) \subseteq image
      BY <1>1, <2>5 DEF Uncopied, ImageOK, Living
    <3> QED BY <2>1, <2>2, <3>1 DEF ImageOK, Segments
  <2> QED BY <2>1, <2>3, <2>4, <2>5
<1>3. CASE Reap /\ UNCHANGED user_cr3 /\ (NoSwitch \/ \E t \in Threads : SwitchTo(t))
  <2>1. UNCHANGED <<range, pc, image>>
    BY <1>3 DEF NoSwitch, SwitchTo, Reap, launch
  <2>2. \A v : Leaf(user_cr3[u], v)' = Leaf(user_cr3[u], v)
    BY <1>3, ReapKeeps, ControlAnnounces
  <2> QED BY <1>1, <2>1, <2>2, ImageKept
<1>4. ASSUME NEW t \in Threads, Clone(t) PROVE ImageOK(u)'
  <2>1. PICK f \in Lowest(free) :
          /\ table' = [table EXCEPT ![f] = {}] /\ image' = image \ {f}
          /\ user_cr3' = [user_cr3 EXCEPT ![t] = f]
    BY <1>4 DEF Clone
  <2>2. UNCHANGED range /\ pc' = [pc EXCEPT ![t] = "Map"] /\ t \in Living
    BY <1>4 DEF Clone, Goto, At, Living, Alive
  <2>3. f \in free
    BY DEF Lowest
  <2>4. u # t /\ pc'[u] = pc[u] /\ user_cr3'[u] = user_cr3[u]
    BY <2>1, <2>2 DEF Mapped, Links, TypeOK
  <2>5. \A p \in Frames \ free : table'[p] = table[p]
    BY <2>1, <2>3 DEF Links, TypeOK
  <2>6. \A v : Leaf(user_cr3[u], v)' = Leaf(user_cr3[u], v)
    BY <1>1, <2>2, <2>4, <2>5, OthersKept
  <2>7. \A x \in SpaceOf(u) : x \in image => x \in image'
    BY <1>1, <2>1, <2>3, ImageFrames
  <2> QED BY <1>1, <2>2, <2>4, <2>6, <2>7, ImageKept
<1>5. ASSUME NEW t \in Threads, Map(t) PROVE ImageOK(u)'
  <2>1. PICK v \in Unmapped(t) : AddFrame(user_cr3[t], v)
    BY <1>5 DEF Map
  <2>2. v \in Nat /\ t \in Living /\ pc[t] = "Map" /\ UNCHANGED <<pc, range, user_cr3>>
    BY <1>5, PagesAreNumbers DEF Unmapped, Map, At, Living, Alive, Links, launch
  <2>3. PICK f \in Lowest(free), g \in Gap(user_cr3[t], v) :
          /\ table' = [table EXCEPT ![f] = {}, ![g[1]] = table[g[1]] \cup {<<g[2], f>>}]
          /\ image' = image \ {f}
    BY <2>1 DEF AddFrame
  <2>4. f \in free /\ g[1] \in SpaceOf(t)
    BY <2>2, GapUsed DEF Lowest
  <2>5. u # t
    BY <2>2 DEF Mapped
  <2>6. \A p \in Frames \ (free \cup SpaceOf(t)) : table'[p] = table[p]
    BY <2>3, <2>4 DEF Links, TypeOK
  <2>7. \A w : Leaf(user_cr3[u], w)' = Leaf(user_cr3[u], w)
    BY <1>1, <2>2, <2>5, <2>6, OthersKept
  <2>8. \A x \in SpaceOf(u) : x \in image => x \in image'
    BY <1>1, <2>3, <2>4, ImageFrames
  <2> QED BY <1>1, <2>2, <2>7, <2>8, ImageKept
<1>6. ASSUME NEW t \in Threads, HeapGrow(t) PROVE ImageOK(u)'
  <2>1. At(t, "User") /\ UNCHANGED <<pc, range, user_cr3>>
    BY <1>6 DEF HeapGrow, launch
  <2>2. t \in Living /\ Dir(loaded) \subseteq SpaceOf(t) /\ Tables(loaded, HeapPage) \subseteq SpaceOf(t)
    BY <2>1, UserTables
  <2>3. PICK f \in Lowest(free) :
         \/ \E p \in Tables(loaded, HeapPage) :
              /\ table' = [table EXCEPT ![f] = {},
                             ![p] = { e \in table[p] : e[1] # HeapPage } \cup {<<HeapPage, f>>}]
              /\ image' = image \ {f}
         \/ \E p \in Lowest(free \ {f}), d \in Dir(loaded) :
              /\ table' = [table EXCEPT ![f] = {}, ![p] = {<<HeapPage, f>>},
                                        ![d] = table[d] \cup {<<Region(HeapPage), p>>}]
              /\ image' = image \ {f, p}
    BY <1>6 DEF HeapGrow
  <2>4. f \in free /\ \A p \in Lowest(free \ {f}) : p \in free
    BY DEF Lowest
  <2>5. \A p \in Frames \ (free \cup SpaceOf(t)) : table'[p] = table[p]
    BY <2>2, <2>3, <2>4 DEF Links, TypeOK
  <2>6. \A x \in SpaceOf(u) : x \in image => x \in image'
    <3>1. CASE image' = image \ {f}
      BY <1>1, <2>4, <3>1, ImageFrames
    <3>2. ASSUME NEW p \in Lowest(free \ {f}), image' = image \ {f, p} PROVE \A x \in SpaceOf(u) : x \in image => x \in image'
      BY <1>1, <2>4, <3>2, ImageFrames
    <3> QED BY <2>3, <3>1, <3>2
  <2>7. CASE u # t
    <3>1. \A v : Leaf(user_cr3[u], v)' = Leaf(user_cr3[u], v)
      BY <1>1, <2>1, <2>2, <2>5, <2>7, OthersKept
    <3> QED BY <1>1, <2>1, <2>6, <3>1, ImageKept
  <2>8. CASE u = t
    <3> SUFFICES ASSUME NEW v \in Segments(u)
                 PROVE  Leaf(user_cr3[u], v)' # {} /\ Leaf(user_cr3[u], v)' \subseteq image'
      BY <2>1 DEF ImageOK, Segments
    <3>1. Leaf(user_cr3[u], v) # {} /\ Leaf(user_cr3[u], v) \subseteq image
      BY <1>1, <2>1, <2>8 DEF ImageOK, At, Living
    <3>2. v \in Nat /\ v # HeapPage
      BY PagesAreNumbers DEF Segments, Links
    <3>3. Leaf(user_cr3[u], v)' = Leaf(user_cr3[u], v)
      BY <1>6, <2>8, <3>1, <3>2, HeapBeside
    <3>4. Leaf(user_cr3[u], v) \subseteq SpaceOf(u)
      BY WalkBelow DEF SpaceOf, Space
    <3> QED BY <2>6, <3>1, <3>3, <3>4
  <2> QED BY <2>7, <2>8
<1>7. ASSUME NEW t \in Threads, HeapTrim(t) PROVE ImageOK(u)'
  <2>1. /\ At(t, "User") /\ UNCHANGED <<range, user_cr3, image>> /\ pc' = [pc EXCEPT ![t] = "Dead"]
        /\ table' = [f \in Frames |-> IF f \in Tables(loaded, HeapPage)
                                      THEN { e \in table[f] : e[1] # HeapPage } ELSE table[f]]
    BY <1>7 DEF HeapTrim, launch, Goto
  <2>2. t \in Living /\ Tables(loaded, HeapPage) \subseteq SpaceOf(t)
    BY <2>1, UserTables
  <2>3. u # t /\ pc'[u] = pc[u]
    BY <2>1 DEF Mapped, Links, TypeOK
  <2>4. \A p \in Frames \ (free \cup SpaceOf(t)) : table'[p] = table[p]
    BY <2>1, <2>2
  <2>5. \A v : Leaf(user_cr3[u], v)' = Leaf(user_cr3[u], v)
    BY <1>1, <2>1, <2>2, <2>3, <2>4, OthersKept
  <2> QED BY <1>1, <2>1, <2>3, <2>5, ImageKept
<1> QED BY <1>2, <1>3, <1>4, <1>5, <1>6, <1>7, TablesChange

-----------------------------------------------------------------------------
(* Theorems                                                                 *)

LEMMA InitIInv == Init => IInv
<1> SUFFICES ASSUME Init PROVE IInv
    OBVIOUS
<1>1. TypeOK
  BY DEF Init, TypeOK, Kernel
<1>2. Forest /\ RootsOK
  BY DEF Init, Forest, RootsOK, Used, Living
<1>3. \A t \in Threads : ControlOK(t) /\ ImageOK(t)
  BY NoneAssumption DEF Init, ControlOK, ImageOK, Kernel
<1> QED BY <1>1, <1>2, <1>3 DEF IInv, Init

(* A store goes astray only in a thread that was switched out. *)
LEMMA StrayStep ==
  ASSUME TypeOK, Control, stray # None => stray \in out, [Next]_vars
  PROVE  (stray # None => stray \in out)'
<1> USE DEF threads, launch, memory
<1>1. ASSUME NEW t \in Threads, CopyAstray(t) PROVE t \in out' /\ stray' = t
  BY <1>1, NoneAssumption DEF CopyAstray, At, Control, ControlOK
<1>2. ASSUME NEW t \in Threads, SwitchTo(t) PROVE UNCHANGED stray /\ out \subseteq out'
  BY <1>2 DEF SwitchTo
<1>3. CASE UNCHANGED <<stray, out>>
  BY <1>3
<1>4. ASSUME NEW t \in Threads,
             \/ Reserve(t) \/ ReserveFails(t) \/ Clone(t) \/ Map(t) \/ OutOfFrames(t)
             \/ Enter(t) \/ Copy(t) \/ CopyFails(t) \/ Leave(t)
             \/ SetRange(t) \/ SetRoot(t) \/ Release(t) \/ Jump(t) \/ HeapGrow(t)
             \/ HeapTrim(t) \/ Create(t) \/ Block(t) \/ Wake(t) \/ Exit(t)
      PROVE  UNCHANGED <<stray, out>>
  BY <1>4 DEF Reserve, ReserveFails, Clone, Map, OutOfFrames, Enter, Copy, CopyFails,
              Leave, SetRange, SetRoot, Release, Jump, HeapGrow, HeapTrim, Create, Block, Wake, Exit
<1>5. ASSUME NEW t \in Threads, NEW u \in Threads, Kill(t, u) PROVE UNCHANGED <<stray, out>>
  BY <1>5 DEF Kill
<1> QED BY <1>1, <1>2, <1>3, <1>4, <1>5 DEF Next, NoSwitch, vars

LEMMA IInvStep == IInv /\ [Next]_vars => IInv'
<1> SUFFICES ASSUME IInv, [Next]_vars PROVE IInv'
    OBVIOUS
<1>1. Links /\ Control /\ TypeOK /\ RootsOK /\ \A t \in Threads : ImageOK(t)
  BY DEF IInv, Links, Control
<1>2. TypeOK'
  BY <1>1, TypeStep
<1>3. Forest' /\ RootsOK'
  BY <1>1, LinksStep
<1>4. \A t \in Threads : ControlOK(t)'
  BY <1>1, ControlStep DEF Control
<1>5. \A t \in Threads : ImageOK(t)'
  BY <1>1, ImageStep
<1>6. (stray # None => stray \in out)'
  BY <1>1, StrayStep DEF IInv
<1> QED BY <1>2, <1>3, <1>4, <1>5, <1>6 DEF IInv

(* The inductive invariant of elf_launch_thread, schedule_core, the user    *)
(* heap and the reaper acting on the same tables.                           *)
THEOREM SpecIInv == Spec => []IInv
BY InitIInv, IInvStep, PTL DEF Spec

(* module_loader_free_user_space frees nothing that is another's, and no    *)
(* table or page of a program until it is reaped is free or shared.         *)
THEOREM SpecSpacesSound == Spec => []SpacesSound
<1>1. IInv => SpacesSound
  BY SpacesApart DEF IInv, Links
<1> QED BY <1>1, SpecIInv, PTL

(* The tables in CR3 are not given back under a current thread; a program   *)
(* runs on its own, with its whole image mapped and copied; and only a      *)
(* switch while it copied puts the loader on other tables.                  *)
THEOREM SpecOwnTables == Spec => []OwnTables
<1>1. IInv => OwnTables
  <2> SUFFICES ASSUME IInv PROVE OwnTables
      OBVIOUS
  <2>1. ASSUME current # None PROVE Space(loaded) \cap free = {}
    <3>1. current \in Living /\ loaded \in {0, user_cr3[current]}
      BY <2>1 DEF IInv, TypeOK, ControlOK, Living
    <3> QED BY <3>1, EmptySpace, SpacesApart DEF SpacesSound, SpaceOf, IInv, Links
  <2>2. ASSUME NEW t \in Threads, At(t, "User")
        PROVE  /\ loaded = user_cr3[t]
               /\ \A v \in Segments(t) : Leaf(loaded, v) # {} /\ Leaf(loaded, v) \subseteq image
    BY <2>2 DEF IInv, ControlOK, ImageOK, At
  <2> QED BY <2>1, <2>2 DEF OwnTables, IInv
<1> QED BY <1>1, SpecIInv, PTL

-----------------------------------------------------------------------------
(* What is lost                                                             *)

LEMMA StagesStep ==
  ASSUME TypeOK, Control, \A t \in Threads : StagesOK(t), [Next]_vars
  PROVE  \A t \in Threads : StagesOK(t)'
<1> SUFFICES ASSUME NEW u \in Threads PROVE StagesOK(u)'
    OBVIOUS
<1> USE DEF threads, launch, memory, Goto, ReleaseSlot
<1>1. CASE UNCHANGED <<pc, launch>>
  BY <1>1 DEF StagesOK
<1>2. ASSUME NEW t \in Threads, NEW w \in Threads,
             NoSwitch \/ SwitchTo(t) \/ Create(t) \/ Block(t) \/ Wake(t) \/ Kill(t, w)
      PROVE  UNCHANGED <<pc, launch>>
  BY <1>2 DEF NoSwitch, SwitchTo, Create, Block, Wake, Kill
<1>3. ASSUME NEW t \in Threads, Map(t) \/ Copy(t) \/ CopyAstray(t) \/ HeapGrow(t)
      PROVE  UNCHANGED <<pc, launch>>
  BY <1>3 DEF Map, Copy, CopyAstray, HeapGrow
<1>4. ASSUME NEW t \in Threads, Exit(t) \/ HeapTrim(t) PROVE StagesOK(u)'
  <2>1. pc[t] \in {"Exit", "User"} /\ pc' = [pc EXCEPT ![t] = "Dead"] /\ UNCHANGED launch
    BY <1>4 DEF Exit, HeapTrim, At
  <2> QED BY <2>1 DEF StagesOK, TypeOK
<1>5. ASSUME NEW t \in Threads, Reserve(t) \/ ReserveFails(t) PROVE StagesOK(u)'
  <2>1. /\ pc[t] = "Reserve" /\ UNCHANGED <<ranged, cr3>>
        /\ \/ pc' = [pc EXCEPT ![t] = "Clone"] /\ \E i : slot' = [slot EXCEPT ![t] = i]
           \/ pc' = [pc EXCEPT ![t] = "Exit"] /\ UNCHANGED slot
    BY <1>5 DEF Reserve, ReserveFails, At
  <2> QED BY <2>1 DEF StagesOK, TypeOK
<1>6. ASSUME NEW t \in Threads, OutOfFrames(t) \/ CopyFails(t) \/ Release(t) PROVE StagesOK(u)'
  <2>1. /\ UNCHANGED <<ranged, cr3>> /\ slot' = [slot EXCEPT ![t] = 0]
        /\ \/ pc' = [pc EXCEPT ![t] = "Exit"]
           \/ pc' = [pc EXCEPT ![t] = "GiveUp"]
           \/ pc[t] = "Release" /\ pc' = [pc EXCEPT ![t] = "Jump"]
    BY <1>6 DEF OutOfFrames, CopyFails, Release, At
  <2> QED BY <2>1 DEF StagesOK, TypeOK
<1>7. ASSUME NEW t \in Threads, Clone(t) \/ Enter(t) \/ Leave(t) \/ Jump(t) PROVE StagesOK(u)'
  <2>1. /\ UNCHANGED <<ranged, cr3, slot>>
        /\ \/ pc' = [pc EXCEPT ![t] = "Map"]
           \/ pc' = [pc EXCEPT ![t] = "Copy"]
           \/ pc[t] = "GiveUp" /\ pc' = [pc EXCEPT ![t] = "Exit"]
           \/ pc' = [pc EXCEPT ![t] = "SetRange"]
           \/ pc[t] = "Jump" /\ pc' = [pc EXCEPT ![t] = "User"]
    BY <1>7 DEF Clone, Enter, Leave, Jump, At
  <2> QED BY <2>1 DEF StagesOK, TypeOK
<1>8. ASSUME NEW t \in Threads, SetRange(t) PROVE StagesOK(u)'
  BY <1>8 DEF SetRange, StagesOK, TypeOK
<1>9. ASSUME NEW t \in Threads, SetRoot(t) PROVE StagesOK(u)'
  <2>1. /\ UNCHANGED <<ranged, slot>> /\ pc[t] = "SetRoot" /\ pc' = [pc EXCEPT ![t] = "Release"]
        /\ cr3' = [cr3 EXCEPT ![t] = user_cr3[t]]
    BY <1>9 DEF SetRoot, At
  <2> QED BY <2>1 DEF StagesOK, TypeOK
<1>10. CASE UNCHANGED vars
  BY <1>10, <1>1 DEF vars
<1> QED BY <1>1, <1>2, <1>3, <1>4, <1>5, <1>6, <1>7, <1>8, <1>9, <1>10 DEF Next

(* The levels of a space hold each other's entries. *)
LEMMA IndexIs ==
  ASSUME NEW r, NEW d \in Dir(r), NEW a \in table[d], NEW e \in table[a[2]]
  PROVE  /\ a[2] \in Below(Dir(r)) /\ e[2] \in Below(Below(Dir(r)))
         /\ a[1] = Region(e[1]) => a[2] \in Tables(r, e[1]) /\ e[2] \in Leaf(r, e[1])
<1>1. a[2] \in Below(Dir(r)) /\ e[2] \in Below(Below(Dir(r)))
  BY BelowIs
<1>2. ASSUME a[1] = Region(e[1]) PROVE a[2] \in Tables(r, e[1]) /\ e[2] \in Leaf(r, e[1])
  BY <1>2, FollowIs DEF Tables, Leaf
<1> QED BY <1>1, <1>2

(* Entries that are taken away leave the others in their places. *)
LEMMA IndexKept ==
  ASSUME NEW u \in Threads, user_cr3'[u] = user_cr3[u], Indexed(u),
         UNCHANGED range, heaped \subseteq heaped',
         \A p \in SpaceOf(u) : table'[p] \subseteq table[p]
  PROVE  Indexed(u)'
<1>1. PICK r : r = user_cr3[u]
  OBVIOUS
<1>2. SpaceOf(u) = Root(r) \cup Dir(r) \cup Below(Dir(r)) \cup Below(Below(Dir(r)))
  BY <1>1 DEF SpaceOf, Space
<1>3. Dir(r)' \subseteq Dir(r)
  <2>1. ASSUME NEW x \in Dir(r)' PROVE x \in Dir(r)
    <3>1. PICK p \in Root(r) : \E e \in table'[p] : e[1] = Low /\ e[2] = x
      BY WalkNext
    <3>2. \E e \in table[p] : e[1] = Low /\ e[2] = x
      BY <1>2, <3>1
    <3> QED BY <3>2, FollowIs DEF Dir
  <2> QED BY <2>1
<1>4. ASSUME NEW d \in Dir(r)', NEW a \in table'[d], NEW e \in table'[a[2]]
      PROVE  a[1] = Region(e[1]) /\ (e[1] \in range'[u] \/ (e[1] = HeapPage /\ u \in heaped'))
  <2>1. d \in Dir(r) /\ a \in table[d]
    BY <1>2, <1>3, <1>4
  <2>2. a[2] \in SpaceOf(u)
    BY <1>2, <2>1, BelowIs
  <2>3. e \in table[a[2]]
    BY <1>4, <2>2
  <2> QED BY <1>1, <2>1, <2>3 DEF Indexed
<1>5. user_cr3'[u] = r
  BY <1>1
<1> QED BY <1>4, <1>5 DEF Indexed, Region

(* Where the entry that Gap finds belongs. *)
LEMMA GapWhere ==
  ASSUME NEW r, NEW v, NEW g \in Gap(r, v)
  PROVE  \/ g[1] \in Root(r) /\ g[2] = Low
         \/ g[1] \in Dir(r) /\ g[2] = Region(v)
         \/ g[1] \in Tables(r, v) /\ g[2] = v
<1>1. CASE Dir(r) = {}
  BY <1>1 DEF Gap
<1>2. CASE Dir(r) # {} /\ Tables(r, v) = {}
  BY <1>2 DEF Gap
<1>3. CASE Dir(r) # {} /\ Tables(r, v) # {}
  BY <1>3 DEF Gap
<1> QED BY <1>1, <1>2, <1>3

LEMMA LevelsNext ==
  ASSUME NEW r, NEW x
  PROVE  /\ x \in Below(Dir(r))' <=> \E p \in Dir(r)' : \E e \in table'[p] : e[2] = x
         /\ x \in Below(Below(Dir(r)))' <=> \E p \in Below(Dir(r))' : \E e \in table'[p] : e[2] = x
<1>1. x \in Below(Dir(r))' <=> \E p \in Dir(r)' : \E e \in table'[p] : e[2] = x
  BY DEF Below, Entries
<1>2. x \in Below(Below(Dir(r)))' <=> \E p \in Below(Dir(r))' : \E e \in table'[p] : e[2] = x
  BY DEF Below, Entries
<1> QED BY <1>1, <1>2

(* Pages L apart, what is in the tables of a thread stays there while their *)
(* entries do.                                                              *)
LEMMA SpaceLeft ==
  ASSUME NEW u \in Threads, user_cr3'[u] = user_cr3[u], NEW L,
         \A p \in Root(user_cr3[u]) : \A e \in table[p] : e[1] = Low => e \in table'[p],
         \A p \in Dir(user_cr3[u]) : table[p] \subseteq table'[p],
         \A p \in Below(Dir(user_cr3[u])) : \A e \in table[p] : e \in table'[p] \/ e[2] \in L
  PROVE  /\ SpaceOf(u) \subseteq SpaceOf(u)' \cup L
         /\ Dir(user_cr3[u]) \subseteq Dir(user_cr3[u])'
         /\ Below(Dir(user_cr3[u])) \subseteq Below(Dir(user_cr3[u]))'
<1>1. PICK r : r = user_cr3[u]
  OBVIOUS
<1>2. Dir(r) \subseteq Dir(r)'
  <2> SUFFICES ASSUME NEW x \in Dir(r) PROVE x \in Dir(r)'
      OBVIOUS
  <2>1. PICK p \in Root(r) : \E e \in table[p] : e[1] = Low /\ e[2] = x
    BY FollowIs DEF Dir
  <2>2. \E e \in table'[p] : e[1] = Low /\ e[2] = x
    BY <1>1, <2>1
  <2> QED BY <2>2, WalkNext
<1>3. Below(Dir(r)) \subseteq Below(Dir(r))'
  <2> SUFFICES ASSUME NEW x \in Below(Dir(r)) PROVE x \in Below(Dir(r))'
      OBVIOUS
  <2>1. PICK p \in Dir(r) : \E e \in table[p] : e[2] = x
    BY BelowIs
  <2>2. p \in Dir(r)' /\ \E e \in table'[p] : e[2] = x
    BY <1>1, <1>2, <2>1
  <2> QED BY <2>2, LevelsNext
<1>4. Below(Below(Dir(r))) \subseteq Below(Below(Dir(r)))' \cup L
  <2> SUFFICES ASSUME NEW x \in Below(Below(Dir(r))), x \notin L PROVE x \in Below(Below(Dir(r)))'
      OBVIOUS
  <2>1. PICK p \in Below(Dir(r)) : \E e \in table[p] : e[2] = x
    BY BelowIs
  <2>2. p \in Below(Dir(r))' /\ \E e \in table'[p] : e[2] = x
    BY <1>1, <1>3, <2>1
  <2> QED BY <2>2, LevelsNext
<1>5. SpaceOf(u) = Root(r) \cup Dir(r) \cup Below(Dir(r)) \cup Below(Below(Dir(r)))
  BY <1>1 DEF SpaceOf, Space
<1>6. user_cr3'[u] = r
  BY <1>1
<1>7. SpaceOf(u)' = Root(r) \cup Dir(r)' \cup Below(Dir(r))' \cup Below(Below(Dir(r)))'
  BY <1>6 DEF SpaceOf, Space, Root
<1> QED BY <1>1, <1>2, <1>3, <1>4, <1>5, <1>7

(* An entry made in the tables of a thread puts a frame into its space. *)
LEMMA SpaceAdds ==
  ASSUME NEW u \in Threads, user_cr3'[u] = user_cr3[u], NEW p, NEW e \in table'[p],
         \/ p \in Root(user_cr3[u]) /\ e[1] = Low
         \/ p \in Dir(user_cr3[u])'
         \/ p \in Below(Dir(user_cr3[u]))'
  PROVE  e[2] \in SpaceOf(u)'
<1>1. PICK r : r = user_cr3[u]
  OBVIOUS
<1>2. user_cr3'[u] = r
  BY <1>1
<1>3. SpaceOf(u)' = Root(r) \cup Dir(r)' \cup Below(Dir(r))' \cup Below(Below(Dir(r)))'
  BY <1>2 DEF SpaceOf, Space, Root
<1>4. CASE p \in Root(r) /\ e[1] = Low
  <2>1. e[2] \in Dir(r)'
    BY <1>4, WalkNext
  <2> QED BY <1>3, <2>1
<1>5. CASE p \in Dir(r)'
  <2>1. e[2] \in Below(Dir(r))'
    BY <1>5, LevelsNext
  <2> QED BY <1>3, <2>1
<1>6. CASE p \in Below(Dir(r))'
  <2>1. e[2] \in Below(Below(Dir(r)))'
    BY <1>6, LevelsNext
  <2> QED BY <1>3, <2>1
<1> QED BY <1>1, <1>2, <1>4, <1>5, <1>6

(* The levels of a living thread's tables, for use together. *)
LEMMA LevelFacts ==
  ASSUME Links, NEW t \in Living
  PROVE  LET r == user_cr3[t]
         IN  /\ Root(r) \cup Dir(r) \cup Below(Dir(r)) \subseteq Used
             /\ Root(r) \cap Dir(r) = {} /\ Root(r) \cap Below(Dir(r)) = {} /\ Dir(r) \cap Below(Dir(r)) = {}
             /\ Root(r) \cup Dir(r) \cup Below(Dir(r)) \cup Below(Below(Dir(r))) = SpaceOf(t)
<1>1. /\ Root(user_cr3[t]) \subseteq Used /\ Root(user_cr3[t]) \subseteq Roots
      /\ Dir(user_cr3[t]) \subseteq Used \ Roots /\ Below(Dir(user_cr3[t])) \subseteq Used \ Roots
  BY LevelsUsed
<1>2. Dir(user_cr3[t]) \cap Below(Dir(user_cr3[t])) = {}
  BY LevelsApart
<1> QED BY <1>1, <1>2 DEF SpaceOf, Space

LEMMA DirNext ==
  ASSUME NEW r
  PROVE  \A x : x \in Dir(r)' <=> \E q \in Root(r) : \E e \in table'[q] : e[1] = Low /\ e[2] = x
BY WalkNext

(* A frame is put below the root, the directory, or, as a page of the range *)
(* or of the heap, the table of its region.                                 *)
LEMMA IndexAdded ==
  ASSUME Links, NEW t \in Living, Indexed(t), user_cr3'[t] = user_cr3[t],
         UNCHANGED range, heaped \subseteq heaped',
         NEW f \in free, NEW p, NEW i, NEW kept \in SUBSET table[p],
         table' = [table EXCEPT ![f] = {}, ![p] = kept \cup {<<i, f>>}],
         \/ p \in Root(user_cr3[t]) \cup Dir(user_cr3[t])
         \/ p \in Tables(user_cr3[t], i) /\ (i \in range[t] \/ (i = HeapPage /\ t \in heaped'))
  PROVE  Indexed(t)'
<1>1. PICK r : r = user_cr3[t]
  OBVIOUS
<1>2. \A x : x \in Dir(r)' <=> \E q \in Root(r) : \E e \in table'[q] : e[1] = Low /\ e[2] = x
  BY DirNext
<1>3. /\ Root(r) \subseteq Used /\ Dir(r) \subseteq Used /\ Below(Dir(r)) \subseteq Used
      /\ Root(r) \cap Below(Dir(r)) = {} /\ Dir(r) \cap Below(Dir(r)) = {}
  BY <1>1, LevelFacts
<1>4. f \notin Used /\ f \in Frames /\ Used \subseteq Frames /\ DOMAIN table = Frames
  BY DEF Links, TypeOK, Used
<1>5. p \in Used /\ p # f
  <2>1. Tables(r, i) \subseteq Below(Dir(r))
    BY WalkBelow
  <2> QED BY <1>1, <1>3, <1>4, <2>1
<1>6. /\ table'[f] = {} /\ table'[p] = kept \cup {<<i, f>>}
      /\ \A q \in Used \ {p} : table'[q] = table[q]
  BY <1>4, <1>5
<1>7. \A q \in Used : \A e \in table'[q] : e \in table[q] \/ (q = p /\ e = <<i, f>>)
  BY <1>6
<1>8. \A q \in Used : \A e \in table'[q] : table'[e[2]] # {} => e \in table[q]
  <2>1. <<i, f>>[2] = f
    OBVIOUS
  <2> QED BY <1>6, <1>7, <2>1
<1>9. ASSUME NEW d \in Dir(r)', NEW a \in table'[d], NEW e \in table'[a[2]]
      PROVE  a[1] = Region(e[1]) /\ (e[1] \in range'[t] \/ (e[1] = HeapPage /\ t \in heaped'))
  <2>1. d \in Dir(r)
    <3>1. PICK q \in Root(r) : \E x \in table'[q] : x[1] = Low /\ x[2] = d
      <4>1. d \in Dir(r)' <=> \E q \in Root(r) : \E x \in table'[q] : x[1] = Low /\ x[2] = d
        BY <1>2
      <4> QED BY <1>9, <4>1
    <3>2. PICK x \in table'[q] : x[1] = Low /\ x[2] = d
      BY <3>1
    <3>3. q \in Used /\ table'[x[2]] # {}
      BY <1>3, <1>9, <3>2
    <3>4. x \in table[q]
      BY <1>8, <3>3
    <3> QED BY <3>2, <3>4, FollowIs DEF Dir
  <2>2. a \in table[d]
    BY <1>3, <1>8, <1>9, <2>1
  <2>3. a[2] \in Below(Dir(r)) /\ a[2] \in Used
    BY <1>3, <2>1, <2>2, BelowIs
  <2>4. CASE e \in table[a[2]]
    BY <1>1, <2>1, <2>2, <2>4 DEF Indexed
  <2>5. CASE a[2] = p /\ e = <<i, f>>
    <3>1. p \in Tables(r, i) /\ (i \in range[t] \/ (i = HeapPage /\ t \in heaped'))
      BY <1>1, <1>3, <2>3, <2>5
    <3>2. PICK q \in Dir(r) : \E x \in table[q] : x[1] = Region(i) /\ x[2] = p
      BY <3>1, FollowIs DEF Tables
    <3>3. a[1] = Region(i)
      BY <1>3, <2>1, <2>2, <2>5, <3>2 DEF Links, Forest
    <3> QED BY <2>5, <3>1, <3>3
  <2> QED BY <1>7, <2>3, <2>4, <2>5
<1>10. user_cr3'[t] = r
  BY <1>1
<1> QED BY <1>9, <1>10 DEF Indexed, Region

(* umalloc makes a table of its own for the heap page. *)
LEMMA IndexTable ==
  ASSUME Links, NEW t \in Living, Indexed(t), user_cr3'[t] = user_cr3[t],
         UNCHANGED range, heaped \subseteq heaped', t \in heaped',
         NEW f \in free, NEW p \in free, p # f, NEW d \in Dir(user_cr3[t]),
         table' = [table EXCEPT ![f] = {}, ![p] = {<<HeapPage, f>>},
                                ![d] = table[d] \cup {<<Region(HeapPage), p>>}]
  PROVE  Indexed(t)'
<1>1. PICK r : r = user_cr3[t]
  OBVIOUS
<1>2. \A x : x \in Dir(r)' <=> \E q \in Root(r) : \E e \in table'[q] : e[1] = Low /\ e[2] = x
  BY DirNext
<1>3. /\ Root(r) \subseteq Used /\ Dir(r) \subseteq Used /\ Below(Dir(r)) \subseteq Used
      /\ Root(r) \cap Dir(r) = {} /\ Dir(r) \cap Below(Dir(r)) = {} /\ d \in Dir(r)
  BY <1>1, LevelFacts
<1>4. f \notin Used /\ p \notin Used /\ f \in Frames /\ p \in Frames /\ Used \subseteq Frames /\ DOMAIN table = Frames
  BY DEF Links, TypeOK, Used
<1>5. /\ table'[p] = {<<HeapPage, f>>} /\ table'[d] = table[d] \cup {<<Region(HeapPage), p>>}
      /\ \A q \in Used \ {d} : table'[q] = table[q]
  BY <1>3, <1>4
<1>6. Dir(r)' \subseteq Dir(r)
  <2> SUFFICES ASSUME NEW x \in Dir(r)' PROVE x \in Dir(r)
      OBVIOUS
  <2>1. \A q \in Root(r) : table'[q] = table[q]
    BY <1>3, <1>5
  <2>2. PICK q \in Root(r) : \E e \in table'[q] : e[1] = Low /\ e[2] = x
    BY <1>2
  <2>3. \E e \in table[q] : e[1] = Low /\ e[2] = x
    BY <2>1, <2>2
  <2> QED BY <2>3, FollowIs DEF Dir
<1>7. ASSUME NEW b \in Dir(r)', NEW a \in table'[b], NEW e \in table'[a[2]]
      PROVE  a[1] = Region(e[1]) /\ (e[1] \in range'[t] \/ (e[1] = HeapPage /\ t \in heaped'))
  <2>1. b \in Dir(r)
    BY <1>6
  <2>2. CASE a \in table[b]
    <3>1. a[2] \in Below(Dir(r))
      BY <2>1, <2>2, BelowIs
    <3>2. e \in table[a[2]]
      BY <1>3, <1>5, <3>1
    <3> QED BY <1>1, <2>1, <2>2, <3>2 DEF Indexed
  <2>3. CASE a = <<Region(HeapPage), p>>
    <3>1. a[1] = Region(HeapPage) /\ a[2] = p
      BY <2>3
    <3>2. e \in table'[p]
      BY <1>7, <3>1
    <3>3. e = <<HeapPage, f>>
      BY <1>5, <3>2
    <3>4. e[1] = HeapPage
      BY <3>3
    <3> QED BY <3>1, <3>4
  <2>4. a \in table[b] \/ a = <<Region(HeapPage), p>>
    BY <1>3, <1>5, <2>1
  <2> QED BY <2>2, <2>3, <2>4
<1>8. user_cr3'[t] = r
  BY <1>1
<1> QED BY <1>7, <1>8 DEF Indexed, Region

LEMMA RangesKept ==
  ASSUME [Next]_vars
  PROVE  UNCHANGED range /\ heaped \subseteq heaped'
<1> USE DEF threads, launch, memory, Goto, ReleaseSlot
<1>1. ASSUME NEW t \in Threads, NEW w \in Threads,
             NoSwitch \/ SwitchTo(t) \/ Create(t) \/ Block(t) \/ Wake(t) \/ Kill(t, w) \/ Exit(t)
      PROVE  UNCHANGED range /\ heaped \subseteq heaped'
  BY <1>1 DEF NoSwitch, SwitchTo, Reap, Create, Block, Wake, Kill, Exit
<1>2. ASSUME NEW t \in Threads,
             \/ Reserve(t) \/ ReserveFails(t) \/ Clone(t) \/ Map(t) \/ OutOfFrames(t)
             \/ Enter(t) \/ Copy(t) \/ CopyAstray(t) \/ CopyFails(t) \/ Leave(t)
      PROVE  UNCHANGED range /\ heaped \subseteq heaped'
  BY <1>2 DEF Reserve, ReserveFails, Clone, Map, OutOfFrames, Enter, Copy, CopyAstray, CopyFails, Leave
<1>3. ASSUME NEW t \in Threads, SetRange(t) \/ SetRoot(t) \/ Release(t) \/ Jump(t) \/ HeapGrow(t) \/ HeapTrim(t)
      PROVE  UNCHANGED range /\ heaped \subseteq heaped'
  BY <1>3 DEF SetRange, SetRoot, Release, Jump, HeapGrow, HeapTrim
<1>4. CASE NoSwitch
  BY <1>4 DEF NoSwitch, Reap
<1>5. CASE UNCHANGED vars
  BY <1>5 DEF vars
<1> QED BY <1>1, <1>2, <1>3, <1>4, <1>5 DEF Next

(* What one thread does to free frames and its own tables. *)
LEMMA OthersApart ==
  ASSUME Links, NEW t \in Living, NEW u \in Living \ {t},
         \A p \in Frames \ (free \cup SpaceOf(t)) : table'[p] = table[p]
  PROVE  \A p \in SpaceOf(u) : table'[p] = table[p]
<1>1. SpaceOf(u) \subseteq Frames
  BY SpaceFrames DEF SpaceOf, Living, Links, TypeOK
<1>2. SpaceOf(u) \cap free = {} /\ SpaceOf(u) \cap SpaceOf(t) = {}
  BY SpacesApart DEF SpacesSound
<1> QED BY <1>1, <1>2

(* The same of an action: its thread, and the tables it leaves alone. *)
LEMMA OwnChange ==
  ASSUME Links, Control, NEW t \in Threads, Clone(t) \/ Map(t) \/ HeapGrow(t) \/ HeapTrim(t)
  PROVE  /\ t \in Living
         /\ \A p \in Frames \ (free \cup SpaceOf(t)) : table'[p] = table[p]
         /\ \A u \in Threads \ {t} : user_cr3'[u] = user_cr3[u]
<1> DEFINE Same == \A p \in Frames \ (free \cup SpaceOf(t)) : table'[p] = table[p]
<1>1. ASSUME Clone(t) PROVE t \in Living /\ Same /\ \A u \in Threads \ {t} : user_cr3'[u] = user_cr3[u]
  <2>1. t \in Living
    BY <1>1 DEF Clone, At, Living, Alive
  <2>2. PICK f \in Lowest(free) :
          table' = [table EXCEPT ![f] = {}] /\ user_cr3' = [user_cr3 EXCEPT ![t] = f]
    BY <1>1 DEF Clone
  <2>3. f \in free
    BY DEF Lowest
  <2>4. Same
    BY <2>2, <2>3 DEF Links, TypeOK
  <2> QED BY <2>1, <2>2, <2>4 DEF Links, TypeOK
<1>2. ASSUME Map(t) PROVE t \in Living /\ Same /\ UNCHANGED user_cr3
  <2>1. PICK v \in Unmapped(t) : AddFrame(user_cr3[t], v)
    BY <1>2 DEF Map
  <2>2. v \in Nat /\ t \in Living /\ UNCHANGED user_cr3
    BY <1>2, PagesAreNumbers DEF Unmapped, Map, At, Living, Alive, Links, launch
  <2>3. PICK f \in Lowest(free), g \in Gap(user_cr3[t], v) :
          table' = [table EXCEPT ![f] = {}, ![g[1]] = table[g[1]] \cup {<<g[2], f>>}]
    BY <2>1 DEF AddFrame
  <2>4. f \in free /\ g[1] \in SpaceOf(t)
    BY <2>2, GapUsed DEF Lowest
  <2>5. Same
    BY <2>3, <2>4 DEF Links, TypeOK
  <2> QED BY <2>2, <2>5
<1>3. ASSUME HeapGrow(t) PROVE t \in Living /\ Same /\ UNCHANGED user_cr3
  <2>1. At(t, "User") /\ UNCHANGED user_cr3
    BY <1>3 DEF HeapGrow, launch
  <2>2. t \in Living /\ Dir(loaded) \subseteq SpaceOf(t) /\ Tables(loaded, HeapPage) \subseteq SpaceOf(t)
    BY <2>1, UserTables
  <2>3. PICK f \in Lowest(free) :
         \/ \E p \in Tables(loaded, HeapPage) :
              table' = [table EXCEPT ![f] = {},
                         ![p] = { e \in table[p] : e[1] # HeapPage } \cup {<<HeapPage, f>>}]
         \/ \E p \in Lowest(free \ {f}), d \in Dir(loaded) :
              table' = [table EXCEPT ![f] = {}, ![p] = {<<HeapPage, f>>},
                                     ![d] = table[d] \cup {<<Region(HeapPage), p>>}]
    BY <1>3 DEF HeapGrow
  <2>4. f \in free /\ \A p \in Lowest(free \ {f}) : p \in free
    BY DEF Lowest
  <2>5. Same
    BY <2>2, <2>3, <2>4 DEF Links, TypeOK
  <2> QED BY <2>1, <2>2, <2>5
<1>4. ASSUME HeapTrim(t) PROVE t \in Living /\ Same /\ UNCHANGED user_cr3
  <2>1. /\ At(t, "User") /\ UNCHANGED user_cr3
        /\ table' = [f \in Frames |-> IF f \in Tables(loaded, HeapPage)
                                      THEN { e \in table[f] : e[1] # HeapPage } ELSE table[f]]
    BY <1>4 DEF HeapTrim, launch
  <2>2. t \in Living /\ Tables(loaded, HeapPage) \subseteq SpaceOf(t)
    BY <2>1, UserTables
  <2>3. Same
    BY <2>1, <2>2
  <2> QED BY <2>1, <2>2, <2>3
<1> QED BY <1>1, <1>2, <1>3, <1>4

(* Tables with an empty root have nothing. *)
LEMMA IndexEmpty ==
  ASSUME NEW u \in Threads, user_cr3'[u] = 0 \/ table'[user_cr3'[u]] = {}
  PROVE  Indexed(u)'
<1>1. PICK r : r = user_cr3'[u]
  OBVIOUS
<1>2. \A x : x \in Dir(r)' <=> \E q \in Root(r) : \E e \in table'[q] : e[1] = Low /\ e[2] = x
  BY DirNext
<1>3. Dir(r)' = {}
  BY <1>1, <1>2 DEF Root
<1> QED BY <1>1, <1>3 DEF Indexed

LEMMA OwnIndexed ==
  ASSUME Links, Control, NEW t \in Threads, Indexed(t), UNCHANGED range, heaped \subseteq heaped',
         Clone(t) \/ Map(t) \/ HeapGrow(t) \/ HeapTrim(t)
  PROVE  Indexed(t)'
<1>1. CASE Clone(t)
  <2>1. PICK f \in Lowest(free) :
          table' = [table EXCEPT ![f] = {}] /\ user_cr3' = [user_cr3 EXCEPT ![t] = f]
    BY <1>1 DEF Clone
  <2>2. f \in Frames
    BY DEF Lowest, Links, TypeOK
  <2>3. table'[user_cr3'[t]] = {}
    BY <2>1, <2>2 DEF Links, TypeOK
  <2> QED BY <2>3, IndexEmpty
<1>2. CASE Map(t)
  <2>1. PICK v \in Unmapped(t) : AddFrame(user_cr3[t], v)
    BY <1>2 DEF Map
  <2>2. v \in range[t] /\ t \in Living /\ UNCHANGED user_cr3
    BY <1>2 DEF Unmapped, Map, At, Living, Alive, launch
  <2>3. PICK f \in Lowest(free), g \in Gap(user_cr3[t], v) :
          table' = [table EXCEPT ![f] = {}, ![g[1]] = table[g[1]] \cup {<<g[2], f>>}]
    BY <2>1 DEF AddFrame
  <2>4. PICK p, i : p = g[1] /\ i = g[2]
    OBVIOUS
  <2>5. \/ p \in Root(user_cr3[t]) \cup Dir(user_cr3[t])
        \/ p \in Tables(user_cr3[t], i) /\ (i \in range[t] \/ (i = HeapPage /\ t \in heaped'))
    BY <2>2, <2>4, GapWhere
  <2>6. f \in free /\ table[p] \in SUBSET table[p] /\ user_cr3'[t] = user_cr3[t]
    BY <2>2 DEF Lowest
  <2>7. table' = [table EXCEPT ![f] = {}, ![p] = table[p] \cup {<<i, f>>}]
    BY <2>3, <2>4
  <2> QED BY <2>2, <2>5, <2>6, <2>7, IndexAdded
<1>3. CASE HeapGrow(t)
  <2>1. At(t, "User") /\ UNCHANGED user_cr3 /\ t \in heaped'
    BY <1>3 DEF HeapGrow, launch
  <2>2. t \in Living /\ loaded = user_cr3[t]
    BY <2>1, UserTables
  <2>3. PICK f \in Lowest(free) :
         \/ \E p \in Tables(loaded, HeapPage) :
              table' = [table EXCEPT ![f] = {},
                         ![p] = { e \in table[p] : e[1] # HeapPage } \cup {<<HeapPage, f>>}]
         \/ \E p \in Lowest(free \ {f}), d \in Dir(loaded) :
              table' = [table EXCEPT ![f] = {}, ![p] = {<<HeapPage, f>>},
                                     ![d] = table[d] \cup {<<Region(HeapPage), p>>}]
    BY <1>3 DEF HeapGrow
  <2>4. f \in free /\ \A p \in Lowest(free \ {f}) : p \in free /\ p # f
    BY DEF Lowest
  <2>5. ASSUME NEW p \in Tables(loaded, HeapPage),
               table' = [table EXCEPT ![f] = {},
                          ![p] = { e \in table[p] : e[1] # HeapPage } \cup {<<HeapPage, f>>}]
        PROVE  Indexed(t)'
    <3>1. PICK kept : kept = { e \in table[p] : e[1] # HeapPage }
      OBVIOUS
    <3>2. kept \in SUBSET table[p] /\ table' = [table EXCEPT ![f] = {}, ![p] = kept \cup {<<HeapPage, f>>}]
      BY <2>5, <3>1
    <3>3. p \in Tables(user_cr3[t], HeapPage) /\ user_cr3'[t] = user_cr3[t]
      BY <2>1, <2>2
    <3> QED BY <2>1, <2>2, <2>4, <3>2, <3>3, IndexAdded
  <2>6. ASSUME NEW p \in Lowest(free \ {f}), NEW d \in Dir(loaded),
               table' = [table EXCEPT ![f] = {}, ![p] = {<<HeapPage, f>>},
                                      ![d] = table[d] \cup {<<Region(HeapPage), p>>}]
        PROVE  Indexed(t)'
    <3>1. d \in Dir(user_cr3[t]) /\ user_cr3'[t] = user_cr3[t] /\ p \in free /\ p # f
      BY <2>1, <2>2, <2>4
    <3> QED BY <2>1, <2>2, <2>4, <2>6, <3>1, IndexTable
  <2> QED BY <2>3, <2>5, <2>6
<1>4. CASE HeapTrim(t)
  <2>1. /\ UNCHANGED user_cr3
        /\ table' = [f \in Frames |-> IF f \in Tables(loaded, HeapPage)
                                      THEN { e \in table[f] : e[1] # HeapPage } ELSE table[f]]
    BY <1>4 DEF HeapTrim, launch
  <2>2. SpaceOf(t) \subseteq Frames
    BY SpaceFrames DEF SpaceOf, Links, TypeOK
  <2>3. \A p \in SpaceOf(t) : table'[p] \subseteq table[p]
    BY <2>1, <2>2
  <2>4. user_cr3'[t] = user_cr3[t]
    BY <2>1
  <2> QED BY <2>3, <2>4, IndexKept
<1> QED BY <1>1, <1>2, <1>3, <1>4

LEMMA LossInvStep == IInv /\ LossInv /\ [Next]_vars => LossInv'
<1> SUFFICES ASSUME IInv, LossInv, [Next]_vars PROVE LossInv'
    OBVIOUS
<1>1. Links /\ Control /\ TypeOK /\ Announced
  BY ControlAnnounces DEF IInv, Links, Control
<1>2. \A t \in Threads : StagesOK(t)'
  BY <1>1, StagesStep DEF LossInv
<1>3. UNCHANGED range /\ heaped \subseteq heaped'
  BY RangesKept
<1>4. ASSUME NEW u \in Threads, Alive(u)' PROVE Indexed(u)'
  <2>1. CASE ~ Alive(u)
    <3>1. user_cr3'[u] = 0
      BY <1>1, <1>4, <2>1, LivingStep
    <3> QED BY <3>1, IndexEmpty
  <2>2. CASE Alive(u)
    <3>1. u \in Living /\ Indexed(u)
      BY <2>2 DEF Living, LossInv
    <3>2. SpaceOf(u) \subseteq Frames
      BY <1>1, SpaceFrames DEF SpaceOf, TypeOK
    <3>3. CASE UNCHANGED <<free, table, user_cr3>>
      BY <1>3, <3>1, <3>3, IndexKept
    <3>4. CASE Reap /\ UNCHANGED user_cr3
      <4>1. PICK gone \in SUBSET Frames : table' = [f \in Frames |-> { e \in table[f] : e[2] \notin gone }]
        BY <1>1, <3>4, ReapFrees
      <4>2. \A p \in SpaceOf(u) : table'[p] \subseteq table[p]
        BY <3>2, <4>1
      <4> QED BY <1>3, <3>1, <3>4, <4>2, IndexKept
    <3>5. ASSUME NEW t \in Threads, Clone(t) \/ Map(t) \/ HeapGrow(t) \/ HeapTrim(t) PROVE Indexed(u)'
      <4>1. CASE u = t
        BY <1>1, <1>3, <3>1, <3>5, <4>1, OwnIndexed
      <4>2. CASE u # t
        <5>1. t \in Living /\ u \in Living \ {t} /\ user_cr3'[u] = user_cr3[u]
          BY <1>1, <3>1, <3>5, <4>2, OwnChange
        <5>2. \A p \in SpaceOf(u) : table'[p] = table[p]
          BY <1>1, <3>5, <5>1, OwnChange, OthersApart
        <5> QED BY <1>3, <3>1, <5>1, <5>2, IndexKept
      <4> QED BY <4>1, <4>2
    <3> QED BY <3>3, <3>4, <3>5, TablesChange
  <2> QED BY <2>1, <2>2
<1> QED BY <1>2, <1>4 DEF LossInv

(* A thread goes only in the reaper's pass. *)
LEMMA EndsReaped ==
  ASSUME TypeOK, [Next]_vars, NEW u \in Threads, Alive(u), ~ Alive(u)'
  PROVE  u \in Reaped /\ (NoSwitch \/ \E t \in Threads : SwitchTo(t))
<1> USE DEF threads, Goto, Alive
<1>1. CASE NoSwitch
  BY <1>1 DEF NoSwitch, Afterwards, TypeOK
<1>2. ASSUME NEW t \in Threads, SwitchTo(t) PROVE u \in Reaped
  BY <1>2 DEF SwitchTo, Afterwards, TypeOK
<1>3. ASSUME NEW t \in Threads, Create(t) \/ Block(t) \/ Wake(t) \/ Exit(t) \/ HeapTrim(t) PROVE FALSE
  BY <1>3 DEF Create, Block, Wake, Exit, HeapTrim, TypeOK
<1>4. ASSUME NEW t \in Threads, NEW v \in Threads, Kill(t, v) PROVE FALSE
  BY <1>4 DEF Kill, TypeOK
<1>5. ASSUME NEW t \in Threads,
             \/ Reserve(t) \/ ReserveFails(t) \/ Clone(t) \/ Map(t) \/ OutOfFrames(t)
             \/ Enter(t) \/ Copy(t) \/ CopyAstray(t) \/ CopyFails(t) \/ Leave(t)
             \/ SetRange(t) \/ SetRoot(t) \/ Release(t) \/ Jump(t) \/ HeapGrow(t)
      PROVE  FALSE
  BY <1>5 DEF Reserve, ReserveFails, Clone, Map, OutOfFrames, Enter, Copy, CopyAstray, CopyFails,
              Leave, SetRange, SetRoot, Release, Jump, HeapGrow
<1> QED BY <1>1, <1>2, <1>3, <1>4, <1>5 DEF Next, vars

(* What a slot may do in a step. *)
LEMMA SlotMoves ==
  ASSUME TypeOK, [Next]_vars
  PROVE  \/ UNCHANGED <<slot, in_use>>
         \/ \E t \in Threads, i \in Slots :
              /\ t \in Living' /\ pc[t] = "Reserve"
              /\ slot' = [slot EXCEPT ![t] = i] /\ in_use' = in_use \cup {i}
         \/ \E t \in Threads : slot' = [slot EXCEPT ![t] = 0] /\ in_use' = in_use \ {slot[t]}
<1> USE DEF launch, Goto
<1>1. ASSUME NEW t \in Threads, NEW w \in Threads,
             NoSwitch \/ SwitchTo(t) \/ Create(t) \/ Block(t) \/ Wake(t) \/ Kill(t, w) \/ Exit(t)
      PROVE  UNCHANGED <<slot, in_use>>
  BY <1>1 DEF NoSwitch, SwitchTo, Create, Block, Wake, Kill, Exit
<1>2. ASSUME NEW t \in Threads,
             \/ ReserveFails(t) \/ Clone(t) \/ Map(t) \/ Enter(t) \/ Copy(t) \/ CopyAstray(t) \/ Leave(t)
             \/ SetRange(t) \/ SetRoot(t) \/ Jump(t) \/ HeapGrow(t) \/ HeapTrim(t)
      PROVE  UNCHANGED <<slot, in_use>>
  BY <1>2 DEF ReserveFails, Clone, Map, Enter, Copy, CopyAstray, Leave, SetRange, SetRoot, Jump, HeapGrow, HeapTrim
<1>3. ASSUME NEW t \in Threads, Reserve(t)
      PROVE  \E i \in Slots :
              /\ t \in Living' /\ pc[t] = "Reserve"
              /\ slot' = [slot EXCEPT ![t] = i] /\ in_use' = in_use \cup {i}
  <2>1. t \in Living' /\ pc[t] = "Reserve"
    BY <1>3 DEF Reserve, threads, At, Living, Alive
  <2> QED BY <1>3, <2>1 DEF Reserve
<1>4. ASSUME NEW t \in Threads, OutOfFrames(t) \/ CopyFails(t) \/ Release(t)
      PROVE  slot' = [slot EXCEPT ![t] = 0] /\ in_use' = in_use \ {slot[t]}
  BY <1>4 DEF OutOfFrames, CopyFails, Release, ReleaseSlot
<1>5. CASE NoSwitch
  BY <1>5 DEF NoSwitch
<1>6. CASE UNCHANGED vars
  BY <1>6 DEF vars
<1> QED BY <1>1, <1>2, <1>3, <1>4, <1>5, <1>6 DEF Next

LEMMA SlotLoss ==
  ASSUME TypeOK, \A t \in Threads : StagesOK(t), [Next]_vars
  PROVE  in_use' \ Held' \subseteq
           (in_use \ Held) \cup { slot[t] : t \in { t \in Threads : Ends(t) /\ pc[t] \notin {"User", "Dead"} } }
<1> SUFFICES ASSUME NEW x \in in_use', x \notin Held', x \notin in_use \/ x \in Held
             PROVE  \E t \in Threads : Ends(t) /\ pc[t] \notin {"User", "Dead"} /\ x = slot[t]
    OBVIOUS
<1>1. \A t \in Threads : t \in Living' => slot'[t] # x
  BY DEF Held
<1>2. \A t \in Threads : slot[t] = x /\ x \in in_use => pc[t] \notin {"Reserve", "User", "Dead"}
  BY DEF StagesOK, TypeOK, Slots
<1>3. ASSUME x \in in_use, NEW t \in Living, slot[t] = x, slot'[t] = slot[t] \/ t \notin Living'
      PROVE  Ends(t) /\ pc[t] \notin {"User", "Dead"} /\ x = slot[t] /\ t \in Threads
  BY <1>1, <1>2, <1>3 DEF Living, Ends
<1>4. x \in in_use => \E t \in Living : slot[t] = x
  BY DEF Held
<1>5. CASE UNCHANGED <<slot, in_use>>
  BY <1>3, <1>4, <1>5
<1>6. ASSUME NEW t \in Threads, NEW i \in Slots, t \in Living', pc[t] = "Reserve",
             slot' = [slot EXCEPT ![t] = i], in_use' = in_use \cup {i}
      PROVE  \E u \in Threads : Ends(u) /\ pc[u] \notin {"User", "Dead"} /\ x = slot[u]
  <2>1. x \in in_use
    BY <1>1, <1>6 DEF TypeOK
  <2>2. PICK u \in Living : slot[u] = x
    BY <1>4, <2>1
  <2>3. u \in Threads /\ u # t
    BY <1>2, <1>6, <2>1, <2>2 DEF Living
  <2>4. slot'[u] = slot[u]
    BY <1>6, <2>3 DEF TypeOK
  <2> QED BY <1>3, <2>1, <2>2, <2>4
<1>7. ASSUME NEW t \in Threads, slot' = [slot EXCEPT ![t] = 0], in_use' = in_use \ {slot[t]}
      PROVE  \E u \in Threads : Ends(u) /\ pc[u] \notin {"User", "Dead"} /\ x = slot[u]
  <2>1. x \in in_use /\ x # slot[t]
    BY <1>7
  <2>2. PICK u \in Living : slot[u] = x
    BY <1>4, <2>1
  <2>3. slot'[u] = slot[u]
    BY <1>7, <2>1, <2>2 DEF TypeOK, Living
  <2> QED BY <1>3, <2>1, <2>2, <2>3
<1> QED BY <1>5, <1>6, <1>7, SlotMoves

(* What module_loader_free_user_space leaves of a program: what leads to a  *)
(* heap page outside the range.                                             *)
LEMMA LeftBehind ==
  ASSUME Links, NEW u \in Living, Indexed(u), ranged[u], cr3[u] # 0, cr3[u] = user_cr3[u],
         NEW x \in SpaceOf(u), x \notin FreedSpace(u)
  PROVE  /\ HeapPage \notin range[u] /\ Leaf(cr3[u], HeapPage) # {}
         /\ x \in Dir(cr3[u]) \cup Tables(cr3[u], HeapPage) \cup Leaf(cr3[u], HeapPage)
<1>1. PICK r : r = cr3[u]
  OBVIOUS
<1>2. FreedSpace(u) = FreedLeaves(u) \cup FreedTables(u) \cup FreedDir(u) \cup Root(r)
  BY <1>1 DEF FreedSpace
<1>3. SpaceOf(u) = Root(r) \cup Dir(r) \cup Below(Dir(r)) \cup Below(Below(Dir(r)))
  BY <1>1 DEF SpaceOf, Space
<1>4. \A v \in range[u] : Leaf(r, v) \subseteq FreedLeaves(u)
  BY <1>1 DEF FreedLeaves
<1>5. ASSUME NEW d \in Dir(r), NEW a \in table[d], NEW e \in table[a[2]], e[2] \notin FreedLeaves(u)
      PROVE  HeapPage \notin range[u] /\ a[2] \in Tables(r, HeapPage) /\ e[2] \in Leaf(r, HeapPage)
  <2>1. /\ a[1] = Region(e[1])
        /\ e[1] \in range[u] \/ e[1] = HeapPage
    BY <1>1, <1>5 DEF Indexed
  <2>2. a[2] \in Tables(r, e[1]) /\ e[2] \in Leaf(r, e[1])
    BY <2>1, IndexIs
  <2>3. e[1] \notin range[u]
    BY <1>4, <1>5, <2>2
  <2> QED BY <2>1, <2>2, <2>3
<1>6. ASSUME NEW q \in Below(Dir(r)), q \notin FreedTables(u)
      PROVE  HeapPage \notin range[u] /\ q \in Tables(r, HeapPage) /\ Leaf(r, HeapPage) # {}
  <2>1. PICK d \in Dir(r) : \E a \in table[d] : a[2] = q
    BY BelowIs
  <2>2. PICK a \in table[d] : a[2] = q
    BY <2>1
  <2>3. PICK y \in Below({q}) : y \notin FreedLeaves(u)
    BY <1>1, <1>6 DEF FreedTables
  <2>4. PICK e \in table[q] : e[2] = y
    BY <2>3, BelowIs
  <2> QED BY <1>5, <2>2, <2>3, <2>4
<1>7. CASE x \in Below(Below(Dir(r)))
  <2>1. PICK q \in Below(Dir(r)) : \E e \in table[q] : e[2] = x
    BY <1>7, BelowIs
  <2>2. PICK e \in table[q] : e[2] = x
    BY <2>1
  <2>3. PICK d \in Dir(r) : \E a \in table[d] : a[2] = q
    BY BelowIs
  <2>4. PICK a \in table[d] : a[2] = q
    BY <2>3
  <2>5. HeapPage \notin range[u] /\ x \in Leaf(r, HeapPage)
    BY <1>2, <1>5, <2>2, <2>4
  <2> QED BY <1>1, <2>5
<1>8. CASE x \in Below(Dir(r))
  <2>1. HeapPage \notin range[u] /\ x \in Tables(r, HeapPage) /\ Leaf(r, HeapPage) # {}
    BY <1>2, <1>6, <1>8
  <2> QED BY <1>1, <2>1
<1>9. CASE x \in Dir(r)
  <2>1. PICK q \in Below({x}) : q \notin FreedTables(u)
    BY <1>1, <1>2, <1>9 DEF FreedDir
  <2>2. q \in Below(Dir(r))
    BY <1>9, <2>1, BelowIs
  <2>3. HeapPage \notin range[u] /\ Leaf(r, HeapPage) # {}
    BY <1>6, <2>1, <2>2
  <2> QED BY <1>1, <1>9, <2>3
<1> QED BY <1>2, <1>3, <1>7, <1>8, <1>9

LEMMA LeafIndexed ==
  ASSUME NEW t \in Threads, Indexed(t), NEW v, Leaf(user_cr3[t], v) # {}
  PROVE  v \in range[t] \/ (v = HeapPage /\ t \in heaped)
<1>1. PICK x : x \in Leaf(user_cr3[t], v)
  OBVIOUS
<1>2. PICK q \in Tables(user_cr3[t], v) : \E e \in table[q] : e[1] = v /\ e[2] = x
  BY <1>1, FollowIs DEF Leaf
<1>3. PICK d \in Dir(user_cr3[t]) : \E a \in table[d] : a[1] = Region(v) /\ a[2] = q
  BY FollowIs DEF Tables
<1> QED BY <1>2, <1>3 DEF Indexed

(* Each action that takes or gives frames: where those it had in hand went. *)
LEMMA CloneAccounts ==
  ASSUME Links, Control, NEW t \in Threads, Clone(t)
  PROVE  free \cup SpaceOf(t) \subseteq free' \cup SpaceOf(t)'
<1>1. PICK f \in Lowest(free) :
        free' = free \ {f} /\ user_cr3' = [user_cr3 EXCEPT ![t] = f]
  BY DEF Clone
<1>2. f \in Frames /\ f # 0
  BY DEF Lowest, Links, TypeOK, Frames
<1>3. user_cr3'[t] = f
  BY <1>1 DEF Links, TypeOK
<1>4. f \in SpaceOf(t)'
  BY <1>2, <1>3 DEF SpaceOf, Space, Root
<1>5. user_cr3[t] = 0
  BY DEF Clone, At, Control, ControlOK
<1> QED BY <1>1, <1>4, <1>5, EmptySpace DEF SpaceOf

LEMMA MapAccounts ==
  ASSUME Links, NEW t \in Threads, Map(t)
  PROVE  free \cup SpaceOf(t) \subseteq free' \cup SpaceOf(t)'
<1>1. PICK v \in Unmapped(t) : AddFrame(user_cr3[t], v)
  BY DEF Map
<1>2. v \in Nat /\ t \in Living /\ user_cr3'[t] = user_cr3[t]
  BY PagesAreNumbers DEF Unmapped, Map, At, Living, Alive, Links, launch
<1>3. PICK f \in Lowest(free), g \in Gap(user_cr3[t], v) :
        /\ free' = free \ {f}
        /\ table' = [table EXCEPT ![f] = {}, ![g[1]] = table[g[1]] \cup {<<g[2], f>>}]
  BY <1>1 DEF AddFrame
<1>4. PICK r : r = user_cr3[t]
  OBVIOUS
<1>5. f \in free /\ f \in Frames /\ f \notin Used /\ g[1] \in Used /\ g[1] \in Frames
  BY <1>2, GapUsed DEF Lowest, Links, TypeOK, Used
<1>6. Root(r) \cup Dir(r) \cup Below(Dir(r)) \subseteq Used
  BY <1>2, <1>4, LevelFacts
<1>7. \A p \in Used : table[p] \subseteq table'[p]
  BY <1>3, <1>5 DEF Links, TypeOK, Used
<1>8. \A p \in Root(r) \cup Dir(r) \cup Below(Dir(r)) : table[p] \subseteq table'[p]
  BY <1>6, <1>7
<1>9. /\ SpaceOf(t) \subseteq SpaceOf(t)'
      /\ Dir(r) \subseteq Dir(r)' /\ Below(Dir(r)) \subseteq Below(Dir(r))'
  <2>1. PICK L : L = {}
    OBVIOUS
  <2>2. /\ SpaceOf(t) \subseteq SpaceOf(t)' \cup L
        /\ Dir(r) \subseteq Dir(r)' /\ Below(Dir(r)) \subseteq Below(Dir(r))'
    BY <1>2, <1>4, <1>8, SpaceLeft
  <2> QED BY <2>1, <2>2
<1>10. PICK p : \E e : p = g[1] /\ e = <<g[2], f>>
  OBVIOUS
<1>14. PICK e : p = g[1] /\ e = <<g[2], f>>
  BY <1>10
<1>15. e[1] = g[2] /\ e[2] = f
  BY <1>14
<1>11. e \in table'[p]
  BY <1>3, <1>5, <1>14 DEF Links, TypeOK
<1>12. \/ p \in Root(r) /\ e[1] = Low
       \/ p \in Dir(r)'
       \/ p \in Below(Dir(r))'
  <2>1. Tables(r, v) \subseteq Below(Dir(r))
    BY WalkBelow
  <2>2. \/ p \in Root(r) /\ e[1] = Low
        \/ p \in Dir(r)
        \/ p \in Tables(r, v)
    BY <1>4, <1>14, <1>15, GapWhere
  <2> QED BY <1>9, <2>1, <2>2
<1>13. f \in SpaceOf(t)'
  BY <1>2, <1>4, <1>11, <1>12, <1>15, SpaceAdds
<1> QED BY <1>3, <1>9, <1>13

LEMMA HeapGrowAccounts ==
  ASSUME Links, Control, NEW t \in Threads, Indexed(t), HeapGrow(t)
  PROVE  free \cup SpaceOf(t) \subseteq free' \cup SpaceOf(t)' \cup LostFrames(t)
<1>1. At(t, "User") /\ user_cr3'[t] = user_cr3[t] /\ UNCHANGED status /\ t \notin heaped
  BY DEF HeapGrow, launch, threads
<1>2. PICK r : r = user_cr3[t]
  OBVIOUS
<1>3. t \in Living /\ loaded = r
  BY <1>1, <1>2, UserTables
<1>4. Leaf(r, HeapPage) \subseteq LostFrames(t)
  <2>1. ~ Ends(t)
    BY <1>1 DEF Ends, Alive
  <2>2. LostFrames(t) = IF HeapPage \in range[t] /\ At(t, "User") THEN Leaf(loaded, HeapPage) ELSE {}
    BY <2>1 DEF LostFrames
  <2>3. CASE HeapPage \in range[t]
    BY <1>1, <1>3, <2>2, <2>3
  <2>4. CASE HeapPage \notin range[t]
    <3>1. Leaf(r, HeapPage) = {}
      BY <1>1, <1>2, <2>4, LeafIndexed
    <3> QED BY <3>1
  <2> QED BY <2>3, <2>4
<1>5. PICK f \in Lowest(free) :
       \/ \E p \in Tables(r, HeapPage) :
            /\ free' = free \ {f}
            /\ table' = [table EXCEPT ![f] = {},
                           ![p] = { e \in table[p] : e[1] # HeapPage } \cup {<<HeapPage, f>>}]
       \/ \E p \in Lowest(free \ {f}), d \in Dir(r) :
            /\ free' = free \ {f, p}
            /\ table' = [table EXCEPT ![f] = {}, ![p] = {<<HeapPage, f>>},
                                      ![d] = table[d] \cup {<<Region(HeapPage), p>>}]
  BY <1>3 DEF HeapGrow
<1>6. f \in free /\ f \notin Used /\ f \in Frames /\ \A p \in Lowest(free \ {f}) : p \notin Used /\ p # f /\ p \in Frames
  BY DEF Lowest, Used, Links, TypeOK
<1>7. /\ Root(r) \subseteq Used /\ Dir(r) \subseteq Used /\ Below(Dir(r)) \subseteq Used
      /\ Root(r) \cap Dir(r) = {} /\ Root(r) \cap Below(Dir(r)) = {} /\ Dir(r) \cap Below(Dir(r)) = {}
  BY <1>2, <1>3, LevelFacts
<1>8. DOMAIN table = Frames /\ Used \subseteq Frames
  BY DEF Links, TypeOK, Used
<1>9. ASSUME NEW p \in Tables(r, HeapPage), free' = free \ {f},
             table' = [table EXCEPT ![f] = {},
                            ![p] = { e \in table[p] : e[1] # HeapPage } \cup {<<HeapPage, f>>}]
      PROVE  free \cup SpaceOf(t) \subseteq free' \cup SpaceOf(t)' \cup LostFrames(t)
  <2>1. p \in Below(Dir(r)) /\ p \in Used
    BY <1>7, WalkBelow
  <2>2. \A q \in Used \ {p} : table'[q] = table[q]
    BY <1>6, <1>8, <1>9
  <2>3. table'[p] = { e \in table[p] : e[1] # HeapPage } \cup {<<HeapPage, f>>}
    BY <1>6, <1>8, <1>9, <2>1
  <2>4. \A q \in Root(r) \cup Dir(r) : table[q] \subseteq table'[q]
    BY <1>7, <2>1, <2>2
  <2>5. PICK L : L = Leaf(r, HeapPage)
    OBVIOUS
  <2>6. \A e \in table[p] : e[1] = HeapPage => e[2] \in L
    BY <2>5, FollowIs DEF Leaf
  <2>7. \A q \in Below(Dir(r)) : \A e \in table[q] : e \in table'[q] \/ e[2] \in L
    BY <1>7, <2>2, <2>3, <2>6
  <2>8. SpaceOf(t) \subseteq SpaceOf(t)' \cup L /\ Below(Dir(r)) \subseteq Below(Dir(r))'
    BY <1>1, <1>2, <2>4, <2>7, SpaceLeft
  <2>9. PICK e : e = <<HeapPage, f>>
    OBVIOUS
  <2>10. e \in table'[p] /\ p \in Below(Dir(r))' /\ e[2] = f
    BY <2>1, <2>3, <2>8, <2>9
  <2>11. f \in SpaceOf(t)'
    BY <1>1, <1>2, <2>10, SpaceAdds
  <2> QED BY <1>4, <1>9, <2>5, <2>8, <2>11
<1>10. ASSUME NEW p \in Lowest(free \ {f}), NEW d \in Dir(r), free' = free \ {f, p},
              table' = [table EXCEPT ![f] = {}, ![p] = {<<HeapPage, f>>},
                                      ![d] = table[d] \cup {<<Region(HeapPage), p>>}]
       PROVE  free \cup SpaceOf(t) \subseteq free' \cup SpaceOf(t)'
  <2>1. d \in Used /\ p \notin Used /\ p # f /\ p \in Frames
    BY <1>6, <1>7
  <2>2. /\ table'[p] = {<<HeapPage, f>>} /\ table'[d] = table[d] \cup {<<Region(HeapPage), p>>}
        /\ \A q \in Used \ {d} : table'[q] = table[q]
    BY <1>6, <1>8, <1>10, <2>1
  <2>3. \A q \in Root(r) \cup Dir(r) \cup Below(Dir(r)) : table[q] \subseteq table'[q]
    BY <1>7, <2>2
  <2>4. PICK L : L = {}
    OBVIOUS
  <2>5. SpaceOf(t) \subseteq SpaceOf(t)' \cup L /\ Dir(r) \subseteq Dir(r)'
    BY <1>1, <1>2, <2>3, SpaceLeft
  <2>6. PICK a : a = <<Region(HeapPage), p>>
    OBVIOUS
  <2>11. PICK e : e = <<HeapPage, f>>
    OBVIOUS
  <2>7. /\ a \in table'[d] /\ d \in Dir(r)' /\ e \in table'[p]
        /\ a[2] = p /\ e[2] = f
    BY <2>2, <2>5, <2>6, <2>11
  <2>8. p \in SpaceOf(t)'
    BY <1>1, <1>2, <2>7, SpaceAdds
  <2>9. p \in Below(Dir(r))'
    BY <2>7, LevelsNext
  <2>10. f \in SpaceOf(t)'
    BY <1>1, <1>2, <2>7, <2>9, SpaceAdds
  <2> QED BY <1>10, <2>4, <2>5, <2>8, <2>10
<1> QED BY <1>5, <1>9, <1>10

LEMMA HeapTrimAccounts ==
  ASSUME Links, Control, NEW t \in Threads, HeapTrim(t)
  PROVE  free \cup SpaceOf(t) \subseteq free' \cup SpaceOf(t)'
<1>1. PICK r : r = user_cr3[t]
  OBVIOUS
<1>2. At(t, "User") /\ user_cr3'[t] = user_cr3[t]
  BY DEF HeapTrim, launch
<1>3. t \in Living /\ loaded = r
  BY <1>1, <1>2, UserTables
<1>4. /\ free' = free \cup Leaf(r, HeapPage)
      /\ table' = [f \in Frames |-> IF f \in Tables(r, HeapPage)
                                    THEN { e \in table[f] : e[1] # HeapPage } ELSE table[f]]
  BY <1>3 DEF HeapTrim
<1>5. /\ Root(r) \cup Dir(r) \cup Below(Dir(r)) \subseteq Frames
      /\ Root(r) \cap Below(Dir(r)) = {} /\ Dir(r) \cap Below(Dir(r)) = {}
  BY <1>1, <1>3, LevelFacts DEF Used
<1>6. Tables(r, HeapPage) \subseteq Below(Dir(r))
  BY WalkBelow
<1>7. \A p \in Root(r) \cup Dir(r) : table[p] \subseteq table'[p]
  BY <1>4, <1>5, <1>6
<1>8. PICK L : L = Leaf(r, HeapPage)
  OBVIOUS
<1>9. \A p \in Tables(r, HeapPage) : \A e \in table[p] : e[1] = HeapPage => e[2] \in L
  BY <1>8, FollowIs DEF Leaf
<1>10. \A p \in Below(Dir(r)) : \A e \in table[p] : e \in table'[p] \/ e[2] \in L
  BY <1>4, <1>5, <1>9
<1>11. SpaceOf(t) \subseteq SpaceOf(t)' \cup L
  BY <1>1, <1>2, <1>7, <1>10, SpaceLeft
<1> QED BY <1>4, <1>8, <1>11

(* ... and what the other threads had is still theirs. *)
LEMMA OthersAccounts ==
  ASSUME Links, Control, NEW t \in Threads, Clone(t) \/ Map(t) \/ HeapGrow(t) \/ HeapTrim(t),
         NEW u \in Living \ {t}
  PROVE  SpaceOf(u) \subseteq SpaceOf(u)'
<1>1. t \in Living /\ user_cr3'[u] = user_cr3[u] /\ u \in Threads
  BY OwnChange DEF Living
<1>2. \A p \in SpaceOf(u) : table'[p] = table[p]
  BY <1>1, OwnChange, OthersApart
<1>3. PICK r : r = user_cr3[u]
  OBVIOUS
<1>4. Root(r) \cup Dir(r) \cup Below(Dir(r)) \subseteq SpaceOf(u)
  BY <1>3, LevelFacts
<1>5. PICK L : L = {}
  OBVIOUS
<1>6. SpaceOf(u) \subseteq SpaceOf(u)' \cup L
  BY <1>1, <1>2, <1>3, <1>4, SpaceLeft
<1> QED BY <1>5, <1>6

(* The reaper takes nothing from the threads that stay. *)
LEMMA StayersAccount ==
  ASSUME Links, Announced, Reap, UNCHANGED user_cr3, NoSwitch \/ \E t \in Threads : SwitchTo(t),
         NEW u \in Threads, Alive(u)'
  PROVE  SpaceOf(u) \subseteq SpaceOf(u)'
<1>1. PICK gone \in SUBSET Frames :
         /\ free' = free \cup gone
         /\ table' = [f \in Frames |-> { e \in table[f] : e[2] \notin gone }]
         /\ \A x \in gone : \E t \in Reaped : x \in SpaceOf(t)
  BY ReapFrees DEF Links
<1>2. Alive(u) /\ u \notin Reaped /\ u \in Living
  BY LivingNotReaped DEF Links, Living
<1>3. gone \cap SpaceOf(u) = {}
  <2>1. \A t \in Reaped : t \in Living \ {u}
    BY <1>2 DEF Reaped, Living, Alive
  <2>2. \A t \in Reaped : SpaceOf(t) \cap SpaceOf(u) = {}
    BY <1>2, <2>1, SpacesApart DEF SpacesSound
  <2> QED BY <1>1, <2>2
<1>4. PICK r : r = user_cr3[u]
  OBVIOUS
<1>5. /\ Root(r) \cup Dir(r) \cup Below(Dir(r)) \subseteq Frames
      /\ Root(r) \cup Dir(r) \cup Below(Dir(r)) \cup Below(Below(Dir(r))) = SpaceOf(u)
  BY <1>2, <1>4, LevelFacts DEF Used
<1>6. \A p \in Root(r) \cup Dir(r) \cup Below(Dir(r)) : \A e \in table[p] : e[2] \in SpaceOf(u) => e \in table'[p]
  BY <1>1, <1>3, <1>5
<1>7. \A p \in Root(r) : \A e \in table[p] : e[1] = Low => e \in table'[p]
  <2>1. \A p \in Root(r) : \A e \in table[p] : e[1] = Low => e[2] \in Dir(r)
    BY FollowIs DEF Dir
  <2> QED BY <1>5, <1>6, <2>1
<1>8. \A p \in Dir(r) : table[p] \subseteq table'[p]
  <2>1. \A p \in Dir(r) : \A e \in table[p] : e[2] \in Below(Dir(r))
    BY BelowIs
  <2> QED BY <1>5, <1>6, <2>1
<1>9. \A p \in Below(Dir(r)) : \A e \in table[p] : e \in table'[p]
  <2>1. \A p \in Below(Dir(r)) : \A e \in table[p] : e[2] \in Below(Below(Dir(r)))
    BY BelowIs
  <2> QED BY <1>5, <1>6, <2>1
<1>10. PICK L : L = {}
  OBVIOUS
<1>11. SpaceOf(u) \subseteq SpaceOf(u)' \cup L
  BY <1>4, <1>7, <1>8, <1>9, SpaceLeft
<1> QED BY <1>10, <1>11

(* Of a thread that goes it frees all but what LostFrames says. *)
LEMMA ReapedAccounts ==
  ASSUME Links, Announced, Reap, NEW u \in Living, u \in Reaped, ~ Alive(u)', StagesOK(u), Indexed(u)
  PROVE  SpaceOf(u) \subseteq free' \cup LostFrames(u)
<1>1. Ends(u) /\ u \in Threads
  BY DEF Ends, Living
<1>2. FreedSpace(u) \subseteq free'
  BY DEF Reap
<1>3. CASE cr3[u] = 0
  BY <1>1, <1>3 DEF LostFrames
<1>4. CASE cr3[u] # 0
  <2>1. cr3[u] = user_cr3[u] /\ ranged[u]
    BY <1>1, <1>4 DEF Announced, StagesOK
  <2> SUFFICES ASSUME NEW x \in SpaceOf(u), x \notin FreedSpace(u) PROVE x \in LostFrames(u)
      BY <1>2
  <2>2. /\ HeapPage \notin range[u] /\ Leaf(cr3[u], HeapPage) # {}
        /\ x \in Dir(cr3[u]) \cup Tables(cr3[u], HeapPage) \cup Leaf(cr3[u], HeapPage)
    BY <1>4, <2>1, LeftBehind
  <2> QED BY <1>1, <1>4, <2>2 DEF LostFrames
<1> QED BY <1>3, <1>4

LEMMA FrameLoss ==
  ASSUME IInv, LossInv, [Next]_vars
  PROVE  Orphans' \subseteq Orphans \cup UNION { LostFrames(t) : t \in Threads }
<1>1. Links /\ Control /\ TypeOK /\ Announced
  BY ControlAnnounces DEF IInv, Links, Control
<1> SUFFICES ASSUME NEW x \in Frames, x \notin free', \A u \in Living' : x \notin SpaceOf(u)',
                    x \in free \/ \E u \in Living : x \in SpaceOf(u)
             PROVE  \E t \in Threads : x \in LostFrames(t)
  <2>1. \A y \in Orphans' : y \in Frames /\ y \notin free' /\ \A u \in Living' : y \notin SpaceOf(u)'
    BY DEF Orphans
  <2>2. \A y \in Frames : y \in Orphans \/ y \in free \/ \E u \in Living : y \in SpaceOf(u)
    BY DEF Orphans
  <2> QED BY <2>1, <2>2
<1>2. \A u \in Living : u \in Threads /\ Alive(u)
  BY DEF Living
<1>3. \A u \in Threads : Alive(u)' => u \in Living'
  BY DEF Living
<1>4. ASSUME NEW u \in Living, x \in SpaceOf(u), ~ Alive(u)' PROVE x \in LostFrames(u)
  <2>1. u \in Reaped /\ (NoSwitch \/ \E t \in Threads : SwitchTo(t)) /\ u \in Threads
    BY <1>1, <1>2, <1>4, EndsReaped
  <2>2. Reap
    BY <2>1 DEF NoSwitch, SwitchTo
  <2>3. StagesOK(u) /\ Indexed(u)
    BY <1>2 DEF LossInv
  <2> QED BY <1>1, <1>4, <2>1, <2>2, <2>3, ReapedAccounts
<1>5. CASE \E u \in Living : x \in SpaceOf(u) /\ ~ Alive(u)'
  BY <1>2, <1>4, <1>5
<1>6. CASE \A u \in Living : x \in SpaceOf(u) => Alive(u)'
  <2>1. CASE UNCHANGED <<free, table, user_cr3>>
    <3>1. \A u \in Threads : SpaceOf(u)' = SpaceOf(u)
      BY <2>1 DEF SpaceOf, Space, Root, Dir, Follow, Below, Entries
    <3> QED BY <1>2, <1>3, <1>6, <2>1, <3>1
  <2>2. CASE Reap /\ UNCHANGED user_cr3 /\ (NoSwitch \/ \E t \in Threads : SwitchTo(t))
    <3>1. free \subseteq free'
      BY <2>2 DEF Reap
    <3>2. \A u \in Threads : Alive(u)' => SpaceOf(u) \subseteq SpaceOf(u)'
      BY <1>1, <2>2, StayersAccount
    <3> QED BY <1>2, <1>3, <1>6, <3>1, <3>2
  <2>3. ASSUME NEW t \in Threads, Clone(t) \/ Map(t) \/ HeapGrow(t) \/ HeapTrim(t)
        PROVE  x \in LostFrames(t)
    <3>1. t \in Living /\ free \cup SpaceOf(t) \subseteq free' \cup SpaceOf(t)' \cup LostFrames(t)
      <4>1. t \in Living
        BY <1>1, <2>3, OwnChange
      <4>2. Indexed(t)
        BY <1>2, <4>1 DEF LossInv
      <4> QED BY <1>1, <2>3, <4>1, <4>2, CloneAccounts, MapAccounts, HeapGrowAccounts, HeapTrimAccounts
    <3>2. \A u \in Living \ {t} : SpaceOf(u) \subseteq SpaceOf(u)'
      BY <1>1, <2>3, OthersAccounts
    <3>3. t \in Living'
      <4>1. Alive(t)
        BY <1>2, <3>1
      <4>2. Alive(t)'
        BY <1>1, <2>3, <4>1 DEF Clone, Map, HeapGrow, HeapTrim, threads, Alive, TypeOK
      <4> QED BY <1>3, <4>2
    <3> QED BY <1>2, <1>3, <1>6, <3>1, <3>2, <3>3
  <2> QED BY <2>1, <2>2, <2>3, TablesChange
<1> QED BY <1>5, <1>6

LEMMA InitLossInv == Init => LossInv
<1> SUFFICES ASSUME Init, NEW t \in Threads PROVE StagesOK(t) /\ (Alive(t) => Indexed(t))
    BY DEF LossInv
<1>1. StagesOK(t)
  BY DEF Init, StagesOK
<1>2. ~ Alive(t)
  BY DEF Init, Alive
<1> QED BY <1>1, <1>2

(* In every reachable state the tables elf_launch_thread and umalloc built  *)
(* lead to pages of the program's range and of its heap alone, no slot of   *)
(* g_user_resv is held before its reservation or after                      *)
(* release_user_range_slot, and the range is set before                     *)
(* thread_set_current_cr3.                                                  *)
THEOREM SpecLossInv == Spec => []LossInv
BY SpecIInv, InitLossInv, LossInvStep, PTL DEF Spec

(* No step of elf_launch_thread, of the heap or of the reaper loses a frame *)
(* or a slot but for those of a thread that ends before it announces its    *)
(* tables or releases its slot, and what leads to a heap page outside the   *)
(* range module_loader_free_user_space walks.                               *)
THEOREM SpecLossExplained == Spec => LossExplained
<1> DEFINE FramesLost == Orphans' \subseteq Orphans \cup UNION { LostFrames(t) : t \in Threads }
<1> DEFINE SlotsLost  ==
      in_use' \ Held' \subseteq
        (in_use \ Held) \cup { slot[t] : t \in { t \in Threads : Ends(t) /\ pc[t] \notin {"User", "Dead"} } }
<1>1. IInv /\ LossInv /\ [Next]_vars => FramesLost
  BY FrameLoss
<1>2. IInv /\ LossInv /\ [Next]_vars => SlotsLost
  BY SlotLoss DEF IInv, LossInv
<1>3. IInv /\ LossInv /\ [Next]_vars => [FramesLost /\ SlotsLost]_vars
  BY <1>1, <1>2
<1>4. LossExplained <=> [][FramesLost /\ SlotsLost]_vars
  BY PTL DEF LossExplained
<1> HIDE DEF FramesLost, SlotsLost
<1> QED BY <1>3, <1>4, SpecIInv, SpecLossInv, PTL DEF Spec
=============================================================================
