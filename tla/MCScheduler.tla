---------------------------- MODULE MCScheduler ----------------------------
(* Workloads for the runs of Scheduler: which operations threads issue. *)
EXTENDS SchedulerInv

AllOps     == {"yield", "wait", "net", "exit", "kill", "selfkill", "create", "sys"}
LocalOps   == {"yield", "wait", "exit", "kill", "selfkill", "create", "sys"}
SleepOps   == {"yield", "wait", "exit", "sys"}
KillOps    == {"yield", "wait", "kill"}
=============================================================================
