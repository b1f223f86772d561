------------------------------ MODULE MCMemory ------------------------------
(* Two tasks and five page frames; the tasks are alike. *)
EXTENDS Memory
CONSTANTS t1, t2
Alike == Permutations(Tasks)
=============================================================================
