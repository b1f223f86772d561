---------------------------- MODULE ThreadQueue ----------------------------
(***************************************************************************)
(* The two intrusive thread lists of sched/scheduler.c, the ready queue    *)
(* (rq_head .. rq_tail) and the wake list (wake_list_head ..               *)
(* wake_list_tail), seen as sequences of thread ids.  A thread is in a     *)
(* list exactly when its rq_queued / wl_queued flag is set, and every      *)
(* operation of the C code tests that flag first; here the flag is         *)
(* Contains(q, t).                                                         *)
(***************************************************************************)
EXTENDS Integers, Sequences, SequencesExt

(* Mutant: a new node is linked in front of rq_head. *)
MutEnqueueFront(q, t) == IF Contains(q, t) THEN q ELSE <<t>> \o q

(* rq_enqueue / wake_list_add: append, unless the thread is queued already. *)
Enqueue(q, t) == IF Contains(q, t) THEN q ELSE Append(q, t)

(* Position of a queued thread. *)
PosOf(q, t) == CHOOSE i \in 1 .. Len(q) : q[i] = t

(* rq_remove / wake_list_remove: unlink, unless the thread is not queued. *)
Unlink(q, t) == IF Contains(q, t) THEN RemoveAt(q, PosOf(q, t)) ELSE q

(* t->wl_next: the thread behind t in the list, or none (NULL). *)
Successor(q, t, none) ==
  IF Contains(q, t) /\ PosOf(q, t) < Len(q) THEN q[PosOf(q, t) + 1] ELSE none

(* No thread is linked twice. *)
Distinct(q) == \A i, j \in 1 .. Len(q) : q[i] = q[j] => i = j
=============================================================================
