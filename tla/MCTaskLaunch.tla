---------------------------- MODULE MCTaskLaunch ----------------------------
(* The launch protocol with two or three callers. *)
EXTENDS TaskLaunch, TLC

MCSymmetry == Permutations(Callers)
=============================================================================
