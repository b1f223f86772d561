--------------------------- MODULE SchedulerInv ----------------------------
(***************************************************************************)
(* The inductive invariant behind the theorems of SchedulerProofs.  The    *)
(* properties of Scheduler are not inductive by themselves: that           *)
(* thread_exit_current never leaves its thread on the wake list, say,      *)
(* needs that the executing stack and current_thread_id agree, which in    *)
(* turn needs to know which stack every saved rsp names.                   *)
(***************************************************************************)
EXTENDS Scheduler

InWindow(s) == pc[s] \in {"Sw1", "Sw2"}

(* Local variables have been set where the code goes on to use them. *)
LocalsOK ==
  \A s \in Stk :
    /\ pc[s] = "KillReq" => loc[s].tgt \in Tid
    /\ InWindow(s) => loc[s].nxt \in Tid /\ loc[s].old \in {s, NoThread}
    /\ loc[s].tid \in {s, NoThread}
    /\ pc[s] = "ExitReq" /\ loc[s].tid \in Tid => state[loc[s].tid] # "BLOCKED"

(* Ids that were not handed out name no thread and no used stack. *)
FreshIds ==
  \A t \in Tid : t >= next_id =>
    /\ state[t] = "NULL" /\ t # cpu /\ pc[t] = "New" /\ irq[t] = "none"
    /\ \A u \in Tid : rsp[u] # t
    /\ \A s \in Stk : loc[s].rsi # t

(* A handler in progress is on the executing stack; the wake loop has a     *)
(* node; a rescheduling handler found a RUNNING thread.                     *)
HandlerOK ==
  /\ \A s \in Stk : irq[s] \in {"wake", "quant", "core"} => s = cpu
  /\ irq[cpu] = "wake" => cursor \in Tid
  /\ irq[cpu] = "core" /\ fault = "none" => OldRuns

(* Who may hold g_thread_lock. *)
LockOK ==
  /\ lock \in Stk => lock = cpu /\ pc[lock] \in CsLabels
  /\ lock = IrqHolds => irq[cpu] \in {"wake", "core"}
  /\ irq[cpu] \in {"wake", "core"} /\ fault = "none" => lock = IrqHolds
  /\ irq[cpu] = "off" => lock = Free

(* current_thread_id is the executing thread, or -1; between unlock and     *)
(* stack switch it is already the next thread.                              *)
CurrentOK ==
  fault = "none" => IF InWindow(cpu) THEN current = loc[cpu].nxt ELSE current \in {cpu, NoThread}

(* The thread current_thread_id names runs or is dead, except on its way    *)
(* from going to sleep to schedule_core.                                    *)
CurrentRuns ==
  fault = "none" /\ current \in Tid =>
    state[current] \in {"RUNNING", "TERMINATED"} \/ (pc[cpu] = "SchedReq" /\ state[current] # "NULL")

(* The frame on stack k belongs to thread t: t's own stack, or a stack that *)
(* was caught in the window on its way to t.  Freed stacks do not count.    *)
FrameOf(t, k) ==
  \/ k \in Tid /\ state[k] = "NULL"
  \/ k # cpu /\ IF InWindow(k) THEN loc[k].nxt = t ELSE k = t

FramesOK ==
  fault = "none" =>
    /\ \A t \in Tid : rsp[t] # Stale => FrameOf(t, rsp[t])
    /\ \A s \in Stk : pc[s] = "Sw2" /\ loc[s].rsi # Stale => FrameOf(loc[s].nxt, loc[s].rsi)

ControlInv == LocalsOK /\ FreshIds /\ HandlerOK /\ LockOK /\ CurrentOK /\ CurrentRuns /\ FramesOK

(* Lists, states and control agree: everything the theorems rest on. *)
IInv == TypeOK /\ ControlInv /\ ReadyQueueExact /\ WakeListExact /\ OneRunning

-----------------------------------------------------------------------------
(* What SleepIsLongEnough rests on: a thread inside INT80_WAIT_TICKS leaves *)
(* BLOCKED only when its deadline has come, and its code does not go on     *)
(* while it is dead.                                                        *)

(* Stack s is behind the first critical section of INT80_WAIT_TICKS. *)
Waiting(s) ==
  /\ loc[s].tid = s
  /\ \/ pc[s] \in {"WaitRecheck", "WaitHlt"}
     \/ loc[s].ret = "wait" /\ pc[s] \in {"SchedReq", "Sw1", "Sw2", "SchedRet"}

Live(t) == state[t] \in {"READY", "RUNNING", "BLOCKED"}

DeadlineKept ==
  \A s \in Tid : Waiting(s) =>
    /\ state[s] = "BLOCKED" => wake_tick[s] = loc[s].wake
    /\ state[s] \in {"READY", "RUNNING"} => now >= loc[s].wake

WakeInv ==
  fault = "none" =>
    /\ DeadlineKept
    /\ cpu \in Tid /\ Waiting(cpu) /\ ~InWindow(cpu) => Live(cpu)
    /\ InWindow(cpu) => state[loc[cpu].nxt] = "RUNNING"
    /\ \A s \in Stk : pc[s] = "YieldHlt" => loc[s].ret # "wait"

-----------------------------------------------------------------------------
(* What NoStaleResume rests on when no tick falls into the switch window    *)
(* and network_thread_block is not called: the saved rsp of every live      *)
(* thread that does not execute names its own stack, and a live thread that *)
(* executes without being current_thread_id is on its way out of            *)
(* INT80_WAIT_TICKS, where it does not call the scheduler again.            *)

NoNetCalls == \A s \in Stk : pc[s] # "NetReq" /\ loc[s].ret # "net"

WaitersKnown ==
  \A s \in Tid :
    (\/ pc[s] \in {"WaitRecheck", "WaitHlt"}
     \/ loc[s].ret = "wait" /\ pc[s] \in {"SchedReq", "Sw1", "Sw2", "SchedRet"}) => loc[s].tid = s

WindowClosed == \A s \in Stk : InWindow(s) => s = cpu /\ irq[s] = "none"

FramesWhole == \A t \in Tid : Live(t) /\ t # cpu => rsp[t] = t

SwitchReady ==
  InWindow(cpu) =>
    /\ loc[cpu].nxt # cpu
    /\ pc[cpu] = "Sw1" => rsp[loc[cpu].nxt] = loc[cpu].nxt
    /\ pc[cpu] = "Sw2" => loc[cpu].rsi = loc[cpu].nxt
    /\ cpu \in Tid /\ Live(cpu) => loc[cpu].old = cpu

OffDuty ==
  cpu \in Tid /\ current # cpu /\ ~InWindow(cpu) =>
    \/ Waiting(cpu) /\ pc[cpu] # "SchedReq"
    \/ pc[cpu] \in {"SchedReq", "SchedRet", "YieldHlt"} /\ ~Live(cpu)

SleeperWaits == cpu \in Tid /\ pc[cpu] = "SchedReq" /\ state[cpu] = "BLOCKED" => Waiting(cpu)

FrameInv ==
  /\ fault # "stale_resume"
  /\ fault = "none" => /\ NoNetCalls /\ WaitersKnown /\ WindowClosed /\ FramesWhole
                       /\ SwitchReady /\ OffDuty /\ SleeperWaits
=============================================================================
