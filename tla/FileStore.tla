----------------------------- MODULE FileStore -----------------------------
(***************************************************************************)
(* What a file system promises its callers: a finite map from paths to     *)
(* directories and file contents in which every entry lies in a directory, *)
(* and in which a call touches nothing but the path it names.  A path is   *)
(* the sequence of its names; the root is the empty path and is not in the *)
(* map.  Lost is the one departure fs/ramfs.c makes: a rename into a full  *)
(* directory, or below itself, drops what it was told to move.             *)
(*                                                                         *)
(* The operations are relations of a map s and the map t they leave, so    *)
(* that a mapped store is computed once per step.                          *)
(***************************************************************************)
EXTENDS Integers, Sequences, SequencesExt, FiniteSets, TLC

CONSTANTS Dir,    (* what the map holds for a directory                    *)
          Data,   (* the contents a file may have                          *)
          Width   (* how many entries a directory takes                    *)

VARIABLE store

IsFile(s, p) == p \in DOMAIN s /\ s[p] # Dir
IsDir(s, p)  == p = <<>> \/ (p \in DOMAIN s /\ s[p] = Dir)
In(s, p)     == { q \in DOMAIN s : Front(q) = p }
Under(s, p)  == { q \in DOMAIN s : IsPrefix(p, q) }
Vacant(s, p) == p \notin DOMAIN s /\ IsDir(s, Front(p))
Fits(s, p)   == Vacant(s, p) /\ Cardinality(In(s, Front(p))) < Width

(* The paths, of names in S, at which something is or can be put. *)
Entries(s, S) == { p \in { Append(d, n) : d \in DOMAIN s \cup {<<>>}, n \in S } : IsDir(s, Front(p)) }

Only(s, P)   == [p \in P |-> s[p]]
Lost(s, p)   == Only(s, DOMAIN s \ Under(s, p))
Moved(p, q, r) == q \o SubSeq(r, Len(p) + 1, Len(r))
Renamed(s, p, q) ==
  [r \in { Moved(p, q, u) : u \in Under(s, p) } |-> s[Moved(q, p, r)]] @@ Lost(s, p)

(* A rename from p to q that is carried out, and one that loses p. *)
MayRename(s, p, q) ==
  /\ Vacant(s, q) /\ ~IsPrefix(p, q)
  /\ Front(p) = Front(q) \/ Fits(s, q)
MayLose(s, p, q) ==
  /\ Vacant(s, q) /\ Front(p) # Front(q)
  /\ IsPrefix(p, q) \/ ~Fits(s, q)

(* t is what one call, on any of the names in S, can leave of s. *)
OneCall(s, t, S) ==
  \/ \E p \in DOMAIN t :
       /\ t[p] \in Data \cup {Dir}
       /\ Fits(s, p) \/ (IsFile(s, p) /\ t[p] # Dir)
       /\ t = (p :> t[p]) @@ s
  \/ \E p \in DOMAIN s :
       /\ t = Lost(s, p)
       /\ Under(s, p) = {p} \/ \E q \in Entries(s, S) : MayLose(s, p, q)
  \/ \E p \in DOMAIN s \ DOMAIN t, q \in DOMAIN t :
       MayRename(s, p, q) /\ t = Renamed(s, p, q)

Init      == store = << >>

(* Nothing, or one call. *)
NextOn(S) == \E s \in {store}, t \in {store'} : s = t \/ OneCall(s, t, S)
=============================================================================
