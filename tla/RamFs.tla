------------------------------- MODULE RamFs -------------------------------
(***************************************************************************)
(* The RAM file system fs/ramfs.c, mounted at "/", as the calls of fs/fs.c *)
(* reach it: a table of nodes, a tree linked by child lists, and a pool of *)
(* file bytes that only grows.                                             *)
(*                                                                         *)
(* fs_mkdir and fs_create_file make missing directories on their way       *)
(* (ramfs_resolve with create_dirs): one step per directory, with how far  *)
(* it got in call; which of the calls it is matters from the last name on. *)
(* Every other call reads its way down and acts, in one step.  There is no *)
(* lock in fs/: the calls of the model do not overlap.  The caller is      *)
(* root, whom vfs_perm_check lets pass; modes, owners, the length of names *)
(* and the mount table are left out, and "/" itself, which every call      *)
(* refuses to change, is not passed.                                       *)
(*                                                                         *)
(* ramfs_op_rename can lose the node it moves: it is detached before the   *)
(* new directory is found full, or it is put below itself.  cut remembers  *)
(* these nodes.                                                            *)
(***************************************************************************)
EXTENDS Integers, Sequences, SequencesExt, FiniteSets

CONSTANTS
  Names,        (* file names                                              *)
  NoName,       (* the name of a node not in use, and of the root          *)
  MaxNodes,     (* RAMFS_MAX_NODES                                         *)
  MaxChildren,  (* RAMFS_MAX_CHILDREN                                      *)
  PoolBytes,    (* RAMFS_MAX_FILE_BYTES                                    *)
  Paths,        (* the paths calls are made with                           *)
  Targets,      (* the new names of renames, which may hold slashes        *)
  Contents      (* the contents written                                    *)

ASSUME TableAssumption    == MaxNodes \in Nat \ {0} /\ MaxChildren \in Nat /\ PoolBytes \in Nat
ASSUME NamesAssumption    == NoName \notin Names
ASSUME PathsAssumption    == Paths \cup Targets \subseteq Seq(Names) \ {<<>>}
ASSUME ContentsAssumption == Contents \subseteq Seq(Nat)

Node == 0 .. MaxNodes - 1
Root == 0                      \* root_index: ramfs_init takes the first node
None == -1

VARIABLES
  used, dir, parent, name, children,   (* fs->nodes[], field by field       *)
  data, size, capacity,                (* data: an index into pool, or 0    *)
  pool,                                (* the bytes of file_pool handed out *)
  call,                                (* the creating call in progress     *)
  cut                                  (* nodes a rename has lost           *)

links == <<used, dir, parent, name, children>>
bytes == <<data, size, capacity, pool>>
ram_vars  == <<links, bytes, call, cut>>

NoCall == [at |-> Root, rest |-> <<>>]

(* ramfs_init *)
RamInit ==
  /\ used = [n \in Node |-> n = Root]
  /\ dir = [n \in Node |-> n = Root]
  /\ parent = [n \in Node |-> 0]
  /\ name = [n \in Node |-> NoName]
  /\ children = [n \in Node |-> <<>>]
  /\ data = [n \in Node |-> 0] /\ size = [n \in Node |-> 0] /\ capacity = [n \in Node |-> 0]
  /\ pool = <<>>
  /\ call = NoCall
  /\ cut = {}

-----------------------------------------------------------------------------
(* Looking up                                                               *)

(* ramfs_find_child.  No two children share a name (Listed).               *)
Named(d, nm)     == { c \in ToSet(children[d]) : used[c] /\ name[c] = nm }
FindChild(d, nm) == IF Named(d, nm) = {} THEN None ELSE CHOOSE c \in Named(d, nm) : TRUE

(* ramfs_resolve without create_dirs: the node the first i names of p lead  *)
(* to, if there is one, as a set.                                           *)
Lookup(p) ==
  LET walk[i \in 0 .. Len(p)] ==
        IF i = 0 THEN {Root} ELSE UNION { Named(d, p[i]) : d \in { n \in walk[i-1] : dir[n] } }
  IN  IF walk[Len(p)] = {} THEN None ELSE CHOOSE n \in walk[Len(p)] : TRUE

(* The directory a path ends in, if the walk gets there. *)
Holder(p) == Lookup(Front(p))
IsHolder(d) == d \in Node /\ dir[d]

-----------------------------------------------------------------------------
(* ramfs_create_child and ramfs_alloc_node                                  *)

Unused   == { n \in Node : ~used[n] }
NewNode  == CHOOSE n \in Unused : \A o \in Unused : n <= o

Room(d)  == Len(children[d]) < MaxChildren /\ Unused # {}

CreateChild(d, nm, isdir) ==
  /\ used' = [used EXCEPT ![NewNode] = TRUE]
  /\ dir' = [dir EXCEPT ![NewNode] = isdir]
  /\ parent' = [parent EXCEPT ![NewNode] = d]
  /\ name' = [name EXCEPT ![NewNode] = nm]
  /\ children' = [children EXCEPT ![NewNode] = <<>>, ![d] = Append(@, NewNode)]

-----------------------------------------------------------------------------
(* fs_mkdir, fs_create_file and fs_write_file                               *)

(* The calls that may take their next step: the one under way, or any that  *)
(* ramfs_op_mkdir, ramfs_op_create_file or ramfs_op_write_file starts.      *)
Creating == IF call # NoCall THEN {call} ELSE { [at |-> Root, rest |-> p] : p \in Paths }

(* ramfs_resolve with create_dirs, one directory of the path *)
Descend(cl) ==
  /\ Len(cl.rest) > 1
  /\ LET c == FindChild(cl.at, Head(cl.rest))
         Into(n) == call' = [at |-> n, rest |-> Tail(cl.rest)]
     IN  \/ /\ c # None /\ dir[c]
            /\ Into(c)
            /\ UNCHANGED links
         \/ /\ c # None /\ ~dir[c]                   \* -5
            /\ call' = NoCall
            /\ UNCHANGED links
         \/ /\ c = None /\ Room(cl.at)
            /\ CreateChild(cl.at, Head(cl.rest), TRUE)
            /\ Into(NewNode)
         \/ /\ c = None /\ ~Room(cl.at)               \* -4
            /\ call' = NoCall
            /\ UNCHANGED links
  /\ UNCHANGED <<bytes, cut>>

(* the last name of ramfs_op_mkdir *)
MkdirLeaf(cl) ==
  /\ Len(cl.rest) = 1
  /\ \/ /\ FindChild(cl.at, cl.rest[1]) = None /\ Room(cl.at)
        /\ CreateChild(cl.at, cl.rest[1], TRUE)
     \/ /\ FindChild(cl.at, cl.rest[1]) # None \/ ~Room(cl.at)
        /\ UNCHANGED links
  /\ call' = NoCall
  /\ UNCHANGED <<bytes, cut>>

(* The bytes from offset d on replaced by t: memcpy. *)
Overlay(d, t) ==
  [i \in 1 .. Len(pool) |-> IF i \in d + 1 .. d + Len(t) THEN t[i - d] ELSE pool[i]]

(* Mutant: any file that has bytes is written in place. *)
MutInPlace(t, cap) == cap > 0

InPlace(t, cap) == cap >= Len(t)

(* The end of ramfs_op_create_file, with ramfs_alloc_bytes: n has room for  *)
(* cap bytes.  Bytes that are given up are never handed out again.          *)
Store(n, t, cap) ==
  LET Is(d) == /\ data' = [data EXCEPT ![n] = d]
               /\ size' = [size EXCEPT ![n] = Len(t)]
               /\ capacity' = [capacity EXCEPT ![n] = Len(t)]
  IN  \/ t = <<>> /\ Is(0) /\ pool' = pool
      \/ t # <<>> /\ InPlace(t, cap) /\ Is(data[n]) /\ pool' = Overlay(data[n], t)
      \/ /\ t # <<>> /\ ~InPlace(t, cap) /\ Len(pool) + Len(t) <= PoolBytes
         /\ Is(Len(pool))
         /\ pool' = pool \o t
      \/ /\ t # <<>> /\ ~InPlace(t, cap) /\ Len(pool) + Len(t) > PoolBytes
         /\ UNCHANGED bytes                          \* -4: an old file stays as it is

(* the last name of ramfs_op_create_file: a new file whose bytes find no    *)
(* room in the pool stays behind, empty                                     *)
CreateLeaf(cl, text) ==
  /\ Len(cl.rest) = 1
  /\ LET c == FindChild(cl.at, cl.rest[1])
     IN  \/ /\ c # None /\ ~dir[c]
            /\ Store(c, text, capacity[c])
            /\ UNCHANGED links
         \/ /\ c = None /\ Room(cl.at)
            /\ CreateChild(cl.at, cl.rest[1], FALSE)
            /\ Store(NewNode, text, 0)
         \/ /\ (c # None /\ dir[c]) \/ (c = None /\ ~Room(cl.at))
            /\ UNCHANGED <<links, bytes>>
  /\ call' = NoCall
  /\ UNCHANGED cut

-----------------------------------------------------------------------------
(* fs_remove and fs_rename                                                  *)

(* ramfs_detach_child *)
Detached(q, c) == RemoveAt(q, CHOOSE i \in 1 .. Len(q) : q[i] = c)

(* Mutant: ramfs_dir_is_empty is not asked. *)
MutRemovable(n) == TRUE

Removable(n) == dir[n] => children[n] = <<>>

(* ramfs_op_remove: the node is cleared, its bytes stay taken. *)
RemoveNode(p) ==
  /\ call = NoCall /\ IsHolder(Holder(p))
  /\ LET d == Holder(p)
         n == FindChild(d, Last(p))
     IN  /\ n # None /\ Removable(n)
         /\ children' = [children EXCEPT ![d] = Detached(@, n), ![n] = <<>>]
         /\ used' = [used EXCEPT ![n] = FALSE]
         /\ dir' = [dir EXCEPT ![n] = FALSE]
         /\ parent' = [parent EXCEPT ![n] = 0]
         /\ name' = [name EXCEPT ![n] = NoName]
         /\ data' = [data EXCEPT ![n] = 0]
         /\ size' = [size EXCEPT ![n] = 0]
         /\ capacity' = [capacity EXCEPT ![n] = 0]
  /\ UNCHANGED <<pool, call, cut>>

(* Mutant: the node does not learn its new directory. *)
MutReparent(n, e) == parent

Reparent(n, e) == [parent EXCEPT ![n] = e]

(* Mutant: an existing target does not stop the rename. *)
MutTargetFree(e, nm) == TRUE

TargetFree(e, nm) == FindChild(e, nm) = None

(* ramfs_op_rename.  fs_rename puts the new name behind the directory of    *)
(* the old path; the name comes from the caller and may hold slashes.       *)
Rename(p, suffix) ==
  /\ call = NoCall
  /\ LET q == Front(p) \o suffix
         d == Holder(p)
         e == Holder(q)
         n == FindChild(d, Last(p))
     IN  /\ IsHolder(d) /\ n # None
         /\ IsHolder(e) /\ TargetFree(e, Last(q))
         /\ \/ /\ d = e
               /\ name' = [name EXCEPT ![n] = Last(q)]
               /\ UNCHANGED <<parent, children, cut>>
            \/ /\ d # e /\ Len(children[e]) >= MaxChildren     \* -1, detached
               /\ children' = [children EXCEPT ![d] = Detached(@, n)]
               /\ cut' = cut \cup {n}
               /\ UNCHANGED <<name, parent>>
            \/ /\ d # e /\ Len(children[e]) < MaxChildren
               /\ children' = [children EXCEPT ![d] = Detached(@, n), ![e] = Append(@, n)]
               /\ parent' = Reparent(n, e)
               /\ name' = [name EXCEPT ![n] = Last(q)]
               /\ cut' = IF IsPrefix(p, Front(q)) THEN cut \cup {n} ELSE cut
  /\ UNCHANGED <<used, dir, bytes, call>>

-----------------------------------------------------------------------------
RamNext ==
  \/ \E cl \in Creating : \/ Descend(cl)
                         \/ MkdirLeaf(cl)
                         \/ \E text \in Contents : CreateLeaf(cl, text)
  \/ \E p \in Paths : RemoveNode(p)
  \/ \E p \in Paths, suffix \in Targets : Rename(p, suffix)

RamSpec == RamInit /\ [][RamNext]_ram_vars

-----------------------------------------------------------------------------
(* Properties                                                               *)

(* The fields hold what their types say; no directory has more children     *)
(* than its array holds and the pool is not overrun.                        *)
RamTypeOK ==
  /\ used \in [Node -> BOOLEAN] /\ dir \in [Node -> BOOLEAN]
  /\ parent \in [Node -> Node] /\ name \in [Node -> Names \cup {NoName}]
  /\ children \in [Node -> Seq(Node)]
  /\ \A n \in Node : Len(children[n]) <= MaxChildren
  /\ data \in [Node -> Nat] /\ size \in [Node -> Nat] /\ capacity \in [Node -> Nat]
  /\ pool \in Seq(Nat) /\ Len(pool) <= PoolBytes
  /\ call \in [at : Node, rest : Seq(Names)]
  /\ cut \subseteq Node

(* Only directories in use list children; a child is in use and names its   *)
(* directory as parent; no two children of a directory share a name (nor    *)
(* is one listed twice).                                                    *)
Listed ==
  /\ \A n \in Node : ~used[n] => ~dir[n] /\ capacity[n] = 0
  /\ \A d \in Node : \A i \in 1 .. Len(children[d]) :
       LET c == children[d][i]
       IN  /\ dir[d] /\ used[c] /\ c # Root /\ parent[c] = d
           /\ \A j \in 1 .. Len(children[d]) : name[children[d][j]] = name[c] => i = j

(* Every node in use, but the root and those a rename has lost, is listed   *)
(* by the directory it names.                                               *)
NotForgotten ==
  \A n \in Node \ (cut \cup {Root}) :
    used[n] => \E i \in 1 .. Len(children[parent[n]]) : children[parent[n]][i] = n

(* The child lists and the parent links agree, through every order of       *)
(* create, remove and rename, and a creating call stands in a directory.    *)
LinksAgree ==
  /\ Listed
  /\ NotForgotten
  /\ used[call.at] /\ dir[call.at]

(* No two files share bytes of the pool, and none has bytes beyond those    *)
(* handed out: in-place writes stay within what the file was given.         *)
ExtentsDisjoint ==
  /\ \A n \in Node : size[n] = capacity[n] /\ data[n] + capacity[n] <= Len(pool)
  /\ \A n, m \in Node :
       n # m /\ capacity[n] > 0 /\ capacity[m] > 0
         => data[n] + capacity[n] <= data[m] \/ data[m] + capacity[m] <= data[n]

(* Nodes found from the root, or below a node a rename has lost: the least *)
(* set with these that has the children of its members.                     *)
Closed(S) == \A d \in S : ToSet(children[d]) \subseteq S
Reached   == { n \in Node : \A S \in SUBSET Node : {Root} \cup cut \subseteq S /\ Closed(S) => n \in S }

(* Nothing but a rename makes a node of the table unreachable: no operation *)
(* leaves behind a node that no path leads to.                              *)
NothingLost == \A n \in Node : used[n] => n \in Reached

(* What ramfs_op_read_file gives for a file, and a mark for a directory. *)
Content(n) == IF dir[n] THEN <<-1>> ELSE SubSeq(pool, data[n] + 1, data[n] + size[n])

(* The paths of the entries ramfs_op_list_dir finds, going down from the    *)
(* root.                                                                    *)
Entries ==
  LET Below(e) == { [path |-> Append(e.path, name[c]), node |-> c] : c \in ToSet(children[e.node]) }
      list[k \in 0 .. MaxNodes - 1] ==
        IF k = 0 THEN {[path |-> <<>>, node |-> Root]}
        ELSE UNION { {e} \cup Below(e) : e \in list[k-1] }
  IN  { e.path : e \in list[MaxNodes - 1] } \ {<<>>}

tree == [p \in Entries |-> Content(Lookup(p))]

FS == INSTANCE FileStore WITH
        store <- tree, Dir <- <<-1>>, Data <- Contents \cup {<<>>}, Width <- MaxChildren

(* Seen through paths, the table of nodes is the map of FileStore: a call   *)
(* changes the path it names (or what is below it) and nothing else, also   *)
(* when it fails half-way, and a rename loses its file only when the new    *)
(* directory is full or lies below the old path.                            *)
ImplementsFileStore == FS!Init /\ [][FS!NextOn(Names)]_tree

(* The inductive invariant: the root stays a directory, the links agree,    *)
(* files have their bytes for themselves, and what no path leads to was     *)
(* lost by a rename.                                                        *)
RamInv ==
  /\ RamTypeOK
  /\ used[Root] /\ dir[Root]
  /\ LinksAgree
  /\ ExtentsDisjoint
  /\ NothingLost
=============================================================================
