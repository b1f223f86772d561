----------------------------- MODULE Scheduler -----------------------------
(***************************************************************************)
(* The thread scheduler of NTux-OS: sched/thread.c, sched/scheduler.c, the *)
(* timer interrupt of interrupt/timer.c and interrupt/irq.c, and the three *)
(* callers that block or leave the CPU (INT80_WAIT_TICKS and INT80_YIELD   *)
(* in syscall/int80.c, network_thread_block in net/network.c).             *)
(*                                                                         *)
(* One CPU executes one kernel stack at a time (cpu).  Every thread owns   *)
(* the stack with its id; BOOT is the stack kmain runs on, which belongs   *)
(* to no thread.  Thread-level code runs with interrupts enabled (int 0x80 *)
(* is a trap gate), so a timer interrupt may arrive between any two of its *)
(* steps; the handler itself runs with interrupts disabled.  g_thread_lock *)
(* is only ever tried, never waited for, by the handler.                   *)
(*                                                                         *)
(* Data left out: names, credentials, address spaces, the counters nothing *)
(* in the kernel reads back (cpu_ticks, idle_tick_count,                   *)
(* g_thread_blocked_count) and the register contents of a frame.           *)
(***************************************************************************)
EXTENDS ThreadQueue

CONSTANTS
  MaxThreads,   (* MAX_THREADS: ids ever handed out                         *)
  TimeSlice,    (* TIME_SLICE_DEFAULT                                       *)
  MaxTick,      (* bound: pit_ticks saturates here, interrupts go on        *)
  TickMod,      (* 2^64 in the code: wake = (now + wait_for) % TickMod      *)
  Waits,        (* the wait_for arguments of INT80_WAIT_TICKS               *)
  Ops,          (* the operations threads issue (the workload)              *)
  WindowTicks   (* TRUE: a tick may arrive between the unlock of scheduler()*)
                (* and the stack switch                                     *)

ASSUME ThreadsAssumption == MaxThreads \in Nat \ {0}
ASSUME SliceAssumption   == TimeSlice \in Nat \ {0}
ASSUME TickAssumption    == MaxTick \in Nat \ {0} /\ TickMod \in Nat \ {0}
ASSUME WaitAssumption    == Waits \subseteq Nat \ {0}
ASSUME OpsAssumption     == Ops \subseteq {"yield", "wait", "net", "exit", "kill",
                                           "selfkill", "create", "sys"}
ASSUME WindowAssumption  == WindowTicks \in BOOLEAN

Tid      == 0 .. MaxThreads - 1
NoThread == -1                      \* current_thread_id when nothing is scheduled
BOOT     == -1                      \* the boot stack
Stk      == Tid \cup {BOOT}
Stale    == -2                      \* an rsp slot whose frame has run on since it was saved
Free     == -2                      \* g_thread_lock is clear
IrqHolds == -3                      \* g_thread_lock was taken by timer_handler

States  == {"NULL", "READY", "RUNNING", "BLOCKED", "TERMINATED"}
(* Thread-level control points.  A label of CsLabels is a critical section  *)
(* of g_thread_lock: about to take it, or inside once lock names the stack. *)
CsLabels  == {"WaitReq", "WaitRecheck", "NetReq", "ExitReq", "KillReq", "CreateReq", "SchedReq"}
PcLabels  == CsLabels \cup {"New", "User", "Sys", "WaitHlt", "YieldHlt", "Sw1", "Sw2",
                            "SchedRet", "Halted"}
IrqLabels == {"none", "wake", "quant", "core", "off"}
Locals    == [ret : {"none", "yield", "wait", "net", "exit"}, tid : Stk, wake : Nat, tgt : Stk,
              old : Stk, nxt : Stk, rsi : Stk \cup {Stale}]
NoLocals  == [ret |-> "none", tid |-> NoThread, wake |-> 0, tgt |-> NoThread,
              old |-> NoThread, nxt |-> NoThread, rsi |-> Stale]
QuantumFloor == -1                  \* bound: the code only tests quantum <= 0

VARIABLES
  state,       (* thread_list[t]->state, "NULL" when thread_list[t] is NULL *)
  rq,          (* the ready queue                                           *)
  wl,          (* the wake list                                             *)
  quantum,     (* thread_list[t]->quantum                                   *)
  wake_tick,   (* thread_list[t]->wake_tick                                 *)
  current,     (* current_thread_id                                         *)
  next_id,     (* next_thread_id                                            *)
  lock,        (* g_thread_lock: Free, IrqHolds, or the stack that took it  *)
  cpu,         (* the stack the processor executes on                       *)
  pc,          (* thread-level control point of each stack                  *)
  irq,         (* progress of the timer interrupt frame on each stack       *)
  rsp,         (* thread_list[t]->rsp: the stack whose top frame it names   *)
  loc,         (* local variables of the call in progress on each stack     *)
  cursor,      (* t in the wake loop of timer_handler                       *)
  isr,         (* IRQ0 is in service: no end-of-interrupt sent yet          *)
  now,         (* pit_ticks                                                 *)
  fault        (* the first step with no defined outcome, or "none"         *)

lists == <<state, rq, wl, quantum, wake_tick, current, next_id>>
ctx   == <<cpu, pc, irq, rsp, loc>>
hw    == <<cursor, isr, now>>
vars  == <<lists, lock, ctx, hw, fault>>

Init ==
  /\ state = [t \in Tid |-> "NULL"]
  /\ rq = <<>> /\ wl = <<>>
  /\ quantum = [t \in Tid |-> 0]
  /\ wake_tick = [t \in Tid |-> 0]
  /\ current = NoThread
  /\ next_id = 0
  /\ lock = Free
  /\ cpu = BOOT
  /\ pc = [s \in Stk |-> IF s = BOOT THEN "User" ELSE "New"]
  /\ irq = [s \in Stk |-> "none"]
  /\ rsp = [t \in Tid |-> Stale]
  /\ loc = [s \in Stk |-> NoLocals]
  /\ cursor = NoThread
  /\ isr = FALSE
  /\ now = 0
  /\ fault = "none"

-----------------------------------------------------------------------------
(* Helpers                                                                  *)

(* tid >= 0 && tid < MAX_THREADS && thread_list[tid] *)
IsThread(t) == t \in Tid /\ state[t] # "NULL"

(* Stack s executes thread-level code. *)
Executing(s) == fault = "none" /\ cpu = s /\ irq[s] = "none"

(* Stack s is inside the critical section at label l. *)
Holding(s, l) == Executing(s) /\ pc[s] = l /\ lock = s

Goto(s, l) == pc' = [pc EXCEPT ![s] = l]

(* Mutant: wake_list_add is forgotten. *)
MutBlockNoWakeList(t) ==
  /\ state' = [state EXCEPT ![t] = "BLOCKED"]
  /\ rq' = Unlink(rq, t)
  /\ UNCHANGED wl

(* state = THREAD_BLOCKED; rq_remove; wake_list_add *)
Block(t) ==
  /\ state' = [state EXCEPT ![t] = "BLOCKED"]
  /\ rq' = Unlink(rq, t)
  /\ wl' = Enqueue(wl, t)

(* A saved frame can be resumed: it is the top of a stack that still exists. *)
Resumable(k) == k # Stale /\ k # cpu /\ (k \in Tid => state[k] # "NULL")

(* switch_context(&slot->rsp, k): save the executing stack in slot (a dummy *)
(* when slot is NoThread), go on with k.  Whatever named k's frame is stale *)
(* from then on.  Returning into a stale frame has no defined outcome.      *)
SwitchContext(slot, k) ==
  IF Resumable(k)
  THEN /\ cpu' = k
       /\ rsp' = [t \in Tid |-> IF t = slot THEN cpu
                                ELSE IF rsp[t] = k THEN Stale ELSE rsp[t]]
       /\ loc' = [s \in Stk |-> IF loc[s].rsi = k THEN [loc[s] EXCEPT !.rsi = Stale] ELSE loc[s]]
       /\ fault' = fault
  ELSE /\ fault' = "stale_resume"
       /\ UNCHANGED <<cpu, rsp, loc>>

-----------------------------------------------------------------------------
(* schedule_core: reap, put the running thread back, take the next one      *)

(* thread_reap_terminated frees these. *)
Reapable == {t \in Tid : state[t] = "TERMINATED" /\ t # current}

(* One iteration of thread_reap_terminated that frees a thread_t and its    *)
(* stack.  The wake list is not touched.                                    *)
ReapOne ==
  /\ \E t \in Reapable :
       /\ \A u \in Reapable : t <= u
       /\ rq' = Unlink(rq, t)
       /\ state' = [state EXCEPT ![t] = "NULL"]
       /\ quantum' = [quantum EXCEPT ![t] = 0]
       /\ wake_tick' = [wake_tick EXCEPT ![t] = 0]
       /\ rsp' = [rsp EXCEPT ![t] = Stale]
       /\ IF t = cpu
          THEN UNCHANGED <<pc, irq, loc>>   \* the freed stack is still in use
          ELSE /\ pc'  = [pc  EXCEPT ![t] = "New"]
               /\ irq' = [irq EXCEPT ![t] = "none"]
               /\ loc' = [loc EXCEPT ![t] = NoLocals]
  /\ UNCHANGED <<wl, current, next_id>>

(* old->state == THREAD_RUNNING *)
OldRuns == IsThread(current) /\ state[current] = "RUNNING"

(* Mutant: the old thread is made READY but not queued. *)
MutRqWithOldLost == rq

(* The queue and the states after the old thread was put back. *)
RqWithOld    == IF OldRuns THEN Enqueue(rq, current) ELSE rq
StateWithOld == IF OldRuns THEN [state EXCEPT ![current] = "READY"] ELSE state

(* rq_dequeue returns NULL: nothing left to run. *)
CoreIdle ==
  /\ Reapable = {}
  /\ RqWithOld = <<>>
  /\ rq' = <<>>
  /\ state' = StateWithOld
  /\ current' = NoThread
  /\ UNCHANGED <<wl, quantum, wake_tick, next_id>>

(* The old thread is the next one: a fresh time slice, no switch. *)
CoreSame ==
  /\ Reapable = {}
  /\ RqWithOld # <<>> /\ Head(RqWithOld) = current
  /\ rq' = Tail(RqWithOld)
  /\ state' = [StateWithOld EXCEPT ![current] = "RUNNING"]
  /\ quantum' = [quantum EXCEPT ![current] = TimeSlice]
  /\ UNCHANGED <<wl, wake_tick, current, next_id>>

(* Mutant: current_thread_id is set only when no thread was running. *)
MutCoreOtherKeepsCurrent ==
  /\ Reapable = {}
  /\ RqWithOld # <<>> /\ Head(RqWithOld) # current
  /\ state' = [StateWithOld EXCEPT ![Head(RqWithOld)] = "RUNNING"]
  /\ rq' = Tail(RqWithOld)
  /\ current' = IF OldRuns THEN current ELSE Head(RqWithOld)
  /\ UNCHANGED <<wl, quantum, wake_tick, next_id>>

(* Another thread is next: it keeps what is left of its time slice. *)
CoreOther ==
  /\ Reapable = {}
  /\ RqWithOld # <<>> /\ Head(RqWithOld) # current
  /\ LET n == Head(RqWithOld)
     IN /\ state' = [StateWithOld EXCEPT ![n] = "RUNNING"]
        /\ quantum' = [quantum EXCEPT ![n] = IF @ <= 0 THEN TimeSlice ELSE @]
        /\ current' = n
  /\ rq' = Tail(RqWithOld)
  /\ UNCHANGED <<wl, wake_tick, next_id>>

(* Mutant: the old context is always saved in the dummy slot. *)
MutOldSlotDummy == NoThread

(* The `old' schedule_core returns: NULL unless it is a live thread. *)
OldSlot == IF IsThread(current) THEN current ELSE NoThread

-----------------------------------------------------------------------------
(* Thread level: entry of each operation                                    *)

(* The CPU is in a thread's own code, outside any kernel operation. *)
AtUser(s, op) == Executing(s) /\ pc[s] = "User" /\ op \in Ops /\ s # BOOT

(* First instruction of a fresh thread (frame laid out by thread_init_common). *)
Start(s) ==
  /\ Executing(s) /\ pc[s] = "New"
  /\ Goto(s, "User")
  /\ UNCHANGED <<lists, lock, cpu, irq, rsp, loc, hw, fault>>

(* A system call that neither blocks nor reschedules; it may read           *)
(* current_thread_id anywhere between entry and exit.                       *)
SysEnter(s) ==
  /\ AtUser(s, "sys")
  /\ Goto(s, "Sys")
  /\ UNCHANGED <<lists, lock, cpu, irq, rsp, loc, hw, fault>>

SysLeave(s) ==
  /\ Executing(s) /\ pc[s] = "Sys"
  /\ Goto(s, "User")
  /\ UNCHANGED <<lists, lock, cpu, irq, rsp, loc, hw, fault>>

(* thread_yield, also the loop of kmain on the boot stack *)
YieldCall(s) ==
  /\ Executing(s) /\ pc[s] = "User" /\ (s = BOOT \/ "yield" \in Ops)
  /\ Goto(s, "SchedReq")
  /\ loc' = [loc EXCEPT ![s] = [NoLocals EXCEPT !.ret = "yield"]]
  /\ UNCHANGED <<lists, lock, cpu, irq, rsp, hw, fault>>

(* INT80_WAIT_TICKS(w), w # 0: the deadline is computed before the lock. *)
WaitCall(s, w) ==
  /\ AtUser(s, "wait")
  /\ (now + w) % TickMod <= MaxTick
  /\ Goto(s, "WaitReq")
  /\ loc' = [loc EXCEPT ![s] = [NoLocals EXCEPT !.wake = (now + w) % TickMod]]
  /\ UNCHANGED <<lists, lock, cpu, irq, rsp, hw, fault>>

NetCall(s) ==
  /\ AtUser(s, "net")
  /\ Goto(s, "NetReq")
  /\ loc' = [loc EXCEPT ![s] = NoLocals]
  /\ UNCHANGED <<lists, lock, cpu, irq, rsp, hw, fault>>

(* thread_exit_current reads current_thread_id before it takes the lock. *)
ExitCall(s) ==
  /\ AtUser(s, "exit")
  /\ Goto(s, "ExitReq")
  /\ loc' = [loc EXCEPT ![s] = [NoLocals EXCEPT !.tid = current]]
  /\ UNCHANGED <<lists, lock, cpu, irq, rsp, hw, fault>>

(* thread_kill(t): thread_list[t] is tested before the lock is taken. *)
KillCall(s, t) ==
  /\ AtUser(s, IF t = s THEN "selfkill" ELSE "kill")
  /\ IsThread(t)
  /\ Goto(s, "KillReq")
  /\ loc' = [loc EXCEPT ![s] = [NoLocals EXCEPT !.tgt = t]]
  /\ UNCHANGED <<lists, lock, cpu, irq, rsp, hw, fault>>

CreateCall(s) ==
  /\ Executing(s) /\ pc[s] = "User" /\ (s = BOOT \/ "create" \in Ops)
  /\ Goto(s, "CreateReq")
  /\ loc' = [loc EXCEPT ![s] = NoLocals]
  /\ UNCHANGED <<lists, lock, cpu, irq, rsp, hw, fault>>

(* thread_lock_global / thread_lock_spin: one successful test-and-set. *)
Acquire(s) ==
  /\ Executing(s) /\ pc[s] \in CsLabels
  /\ lock = Free
  /\ lock' = s
  /\ UNCHANGED <<lists, ctx, hw, fault>>

-----------------------------------------------------------------------------
(* Thread level: the critical sections                                      *)

(* INT80_WAIT_TICKS, first critical section: go to sleep, then scheduler(). *)
WaitBody(s) ==
  /\ Holding(s, "WaitReq")
  /\ IF IsThread(current)
     THEN /\ wake_tick' = [wake_tick EXCEPT ![current] = loc[s].wake]
          /\ IF state[current] # "BLOCKED"
             THEN Block(current)
             ELSE UNCHANGED <<state, rq, wl>>
     ELSE UNCHANGED <<wake_tick, state, rq, wl>>
  /\ lock' = Free
  /\ Goto(s, "SchedReq")
  /\ loc' = [loc EXCEPT ![s].ret = "wait", ![s].tid = current]
  /\ UNCHANGED <<quantum, current, next_id, cpu, irq, rsp, hw, fault>>

(* Second critical section: still asleep and too early, halt until the next *)
(* interrupt.                                                               *)
WaitAgain(s) ==
  /\ Holding(s, "WaitRecheck")
  /\ IsThread(loc[s].tid)
  /\ state[loc[s].tid] = "BLOCKED" /\ now < loc[s].wake
  /\ lock' = Free
  /\ Goto(s, "WaitHlt")
  /\ UNCHANGED <<lists, cpu, irq, rsp, loc, hw, fault>>

(* Second critical section: woken, or the deadline has passed. *)
WaitDone(s) ==
  /\ Holding(s, "WaitRecheck")
  /\ LET t == loc[s].tid
     IN IF IsThread(t)
        THEN /\ ~(state[t] = "BLOCKED" /\ now < loc[s].wake)
             /\ wl' = Unlink(wl, t)
             /\ state' = [state EXCEPT ![t] = "RUNNING"]
             /\ wake_tick' = [wake_tick EXCEPT ![t] = 0]
             /\ rq' = Unlink(rq, t)
             /\ current' = t
        ELSE UNCHANGED <<wl, state, wake_tick, rq, current>>
  /\ lock' = Free
  /\ Goto(s, "User")
  /\ loc' = [loc EXCEPT ![s] = NoLocals]
  /\ UNCHANGED <<quantum, next_id, cpu, irq, rsp, hw, fault>>

(* One tick later; at the bound the next interrupt is already late enough. *)
NextTick == IF now < MaxTick THEN now + 1 ELSE now

(* network_thread_block: sleep for one tick, then scheduler(). *)
NetBody(s) ==
  /\ Holding(s, "NetReq")
  /\ IF IsThread(current) /\ state[current] # "BLOCKED"
     THEN Block(current) /\ wake_tick' = [wake_tick EXCEPT ![current] = NextTick]
     ELSE UNCHANGED <<state, rq, wl, wake_tick>>
  /\ lock' = Free
  /\ Goto(s, "SchedReq")
  /\ loc' = [loc EXCEPT ![s].ret = "net", ![s].wake = NextTick]
  /\ UNCHANGED <<quantum, current, next_id, cpu, irq, rsp, hw, fault>>

(* thread_exit_current, then its scheduler() loop *)
ExitBody(s) ==
  /\ Holding(s, "ExitReq")
  /\ LET t == loc[s].tid
     IN IF IsThread(t)
        THEN rq' = Unlink(rq, t) /\ state' = [state EXCEPT ![t] = "TERMINATED"]
        ELSE UNCHANGED <<rq, state>>
  /\ lock' = Free
  /\ Goto(s, "SchedReq")
  /\ loc' = [loc EXCEPT ![s].ret = "exit"]
  /\ UNCHANGED <<wl, quantum, wake_tick, current, next_id, cpu, irq, rsp, hw, fault>>

(* thread_kill under the lock.  If the thread was reaped since KillCall     *)
(* tested it, the code dereferences NULL.                                   *)
KillBody(s) ==
  /\ Holding(s, "KillReq")
  /\ LET t == loc[s].tgt
     IN IF state[t] # "NULL"
        THEN /\ wl' = Unlink(wl, t)
             /\ rq' = Unlink(rq, t)
             /\ state' = [state EXCEPT ![t] = "TERMINATED"]
             /\ lock' = Free
             /\ fault' = fault
             /\ Goto(s, "User")
             /\ loc' = [loc EXCEPT ![s] = NoLocals]
        ELSE /\ fault' = "null_thread"
             /\ UNCHANGED <<wl, rq, state, lock, pc, loc>>
  /\ UNCHANGED <<quantum, wake_tick, current, next_id, cpu, irq, rsp, hw>>

(* thread_create fails: no id left, or no memory for the thread_t. *)
CreateFail(s) ==
  /\ Holding(s, "CreateReq")
  /\ lock' = Free
  /\ Goto(s, "User")
  /\ UNCHANGED <<lists, cpu, irq, rsp, loc, hw, fault>>

(* Mutant: the id limit is tested with > instead of >=. *)
MutCreateNoStackOffByOne(s) ==
  /\ Holding(s, "CreateReq")
  /\ next_id <= MaxThreads
  /\ next_id' = next_id + 1
  /\ lock' = Free
  /\ Goto(s, "User")
  /\ UNCHANGED <<state, rq, wl, quantum, wake_tick, current, cpu, irq, rsp, loc, hw, fault>>

(* thread_create fails after thread_init_common: no memory for the stack.   *)
(* The id is spent.                                                         *)
CreateNoStack(s) ==
  /\ Holding(s, "CreateReq")
  /\ next_id < MaxThreads
  /\ next_id' = next_id + 1
  /\ lock' = Free
  /\ Goto(s, "User")
  /\ UNCHANGED <<state, rq, wl, quantum, wake_tick, current, cpu, irq, rsp, loc, hw, fault>>

CreateOk(s) ==
  /\ Holding(s, "CreateReq")
  /\ next_id < MaxThreads
  /\ next_id' = next_id + 1
  /\ state' = [state EXCEPT ![next_id] = "READY"]
  /\ quantum' = [quantum EXCEPT ![next_id] = TimeSlice]
  /\ wake_tick' = [wake_tick EXCEPT ![next_id] = 0]
  /\ rq' = Enqueue(rq, next_id)
  /\ rsp' = [rsp EXCEPT ![next_id] = next_id]
  /\ lock' = Free
  /\ Goto(s, "User")
  /\ UNCHANGED <<wl, current, cpu, irq, loc, hw, fault>>

-----------------------------------------------------------------------------
(* scheduler() at thread level                                              *)

SchedReap(s) ==
  /\ Holding(s, "SchedReq")
  /\ ReapOne
  /\ UNCHANGED <<lock, cpu, hw, fault>>

(* schedule_core found nobody else: unlock and return to the caller. *)
SchedStay(s) ==
  /\ Holding(s, "SchedReq")
  /\ CoreIdle \/ CoreSame
  /\ lock' = Free
  /\ Goto(s, "SchedRet")
  /\ UNCHANGED <<cpu, irq, rsp, loc, hw, fault>>

(* schedule_core chose another thread: the lock is released first. *)
SchedPick(s) ==
  /\ Holding(s, "SchedReq")
  /\ CoreOther
  /\ lock' = Free
  /\ Goto(s, "Sw1")
  /\ loc' = [loc EXCEPT ![s].old = OldSlot, ![s].nxt = Head(RqWithOld)]
  /\ UNCHANGED <<cpu, irq, rsp, hw, fault>>

(* next->rsp is loaded into a register ... *)
LoadRsp(s) ==
  /\ Executing(s) /\ pc[s] = "Sw1"
  /\ Goto(s, "Sw2")
  /\ loc' = [loc EXCEPT ![s].rsi = rsp[loc[s].nxt]]
  /\ UNCHANGED <<lists, lock, cpu, irq, rsp, hw, fault>>

(* ... and switch_context moves it into the stack pointer. *)
Switch(s) ==
  /\ Executing(s) /\ pc[s] = "Sw2"
  /\ SwitchContext(loc[s].old, loc[s].rsi)
  /\ Goto(s, "SchedRet")
  /\ UNCHANGED <<lists, lock, irq, hw>>

(* What the caller of scheduler() does when it returns. *)
AfterSched(ret) ==
  CASE ret = "wait" -> "WaitRecheck"
    [] ret = "net"  -> "User"
    [] ret = "exit" -> IF current >= 0 THEN "Halted" ELSE "YieldHlt"
    [] OTHER        -> IF current >= 0 THEN "User" ELSE "YieldHlt"

SchedReturn(s) ==
  /\ Executing(s) /\ pc[s] = "SchedRet"
  /\ Goto(s, AfterSched(loc[s].ret))
  /\ loc' = [loc EXCEPT ![s].old = NoThread, ![s].nxt = NoThread, ![s].rsi = Stale]
  /\ UNCHANGED <<lists, lock, cpu, irq, rsp, hw, fault>>

-----------------------------------------------------------------------------
(* The timer interrupt                                                      *)

(* hlt ends with the interrupt: where the interrupted code goes on. *)
AfterHlt(l) ==
  CASE l = "WaitHlt"  -> "WaitRecheck"
    [] l = "YieldHlt" -> "SchedReq"
    [] OTHER          -> l

(* Mutant: the handler goes ahead without looking at the lock. *)
MutTryLockBlind == TRUE

(* thread_try_lock_global succeeds. *)
TryLock == lock = Free

(* IRQ0 is delivered on top of thread-level code; pit_update; the wake list *)
(* is walked only if it is not empty and the lock can be taken at once.     *)
TimerIrq(s) ==
  /\ Executing(s)
  /\ ~isr
  /\ WindowTicks \/ pc[s] \notin {"Sw1", "Sw2"}
  /\ isr' = TRUE
  /\ now' = NextTick
  /\ Goto(s, AfterHlt(pc[s]))
  /\ IF wl # <<>> /\ TryLock
     THEN irq' = [irq EXCEPT ![s] = "wake"] /\ lock' = IrqHolds /\ cursor' = Head(wl)
     ELSE irq' = [irq EXCEPT ![s] = "quant"] /\ UNCHANGED <<lock, cursor>>
  /\ UNCHANGED <<lists, cpu, rsp, loc, fault>>

(* The interrupt frame on stack s is the code being executed. *)
InIrq(s, l) == fault = "none" /\ cpu = s /\ irq[s] = l

(* Mutant: a sleeper is woken one tick early. *)
MutExpiredEarly(t) == state[t] = "BLOCKED" /\ wake_tick[t] > 0 /\ wake_tick[t] <= now + 1

(* t->state == THREAD_BLOCKED && t->wake_tick > 0 && t->wake_tick <= now *)
Expired(t) == state[t] = "BLOCKED" /\ wake_tick[t] > 0 /\ wake_tick[t] <= now

(* One iteration of the wake loop; behind the last node the lock is freed. *)
WakeOne(s) ==
  /\ InIrq(s, "wake")
  /\ LET t == cursor
         n == Successor(wl, t, NoThread)
     IN /\ IF Expired(t)
           THEN /\ state' = [state EXCEPT ![t] = "READY"]
                /\ wake_tick' = [wake_tick EXCEPT ![t] = 0]
                /\ rq' = Enqueue(rq, t)
                /\ wl' = Unlink(wl, t)
           ELSE UNCHANGED <<state, wake_tick, rq, wl>>
        /\ cursor' = n
        /\ IF n = NoThread
           THEN irq' = [irq EXCEPT ![s] = "quant"] /\ lock' = Free
           ELSE UNCHANGED <<irq, lock>>
  /\ UNCHANGED <<quantum, current, next_id, cpu, pc, rsp, loc, isr, now, fault>>

(* Mutant: pic_send_eoi is forgotten. *)
MutEndOfIrqNoEoi(s) == isr' = isr /\ irq' = [irq EXCEPT ![s] = "none"]

(* Return from the handler: end-of-interrupt, iretq. *)
EndOfIrq(s) == isr' = FALSE /\ irq' = [irq EXCEPT ![s] = "none"]

SliceLeft == quantum[current] - 1

(* The running thread is charged the tick. *)
ChargeTick ==
  quantum' = [quantum EXCEPT ![current] = IF SliceLeft < QuantumFloor THEN QuantumFloor ELSE SliceLeft]

(* No slice ended, nothing runs, or the lock is held: leave the handler. *)
QuantumKeep(s) ==
  /\ InIrq(s, "quant")
  /\ IF OldRuns
     THEN (SliceLeft > 0 \/ ~TryLock) /\ ChargeTick
     ELSE UNCHANGED quantum
  /\ EndOfIrq(s)
  /\ UNCHANGED <<state, rq, wl, wake_tick, current, next_id, lock, cpu, pc, rsp, loc,
                 cursor, now, fault>>

(* The slice is over and the lock is free: scheduler_from_irq. *)
QuantumEnd(s) ==
  /\ InIrq(s, "quant")
  /\ OldRuns /\ SliceLeft <= 0 /\ TryLock
  /\ ChargeTick
  /\ lock' = IrqHolds
  /\ irq' = [irq EXCEPT ![s] = "core"]
  /\ UNCHANGED <<state, rq, wl, wake_tick, current, next_id, cpu, pc, rsp, loc, hw, fault>>

IrqReap(s) ==
  /\ InIrq(s, "core")
  /\ ReapOne
  /\ UNCHANGED <<lock, cpu, hw, fault>>

(* No switch: timer_handler releases the lock and returns. *)
IrqStay(s) ==
  /\ InIrq(s, "core")
  /\ CoreIdle \/ CoreSame
  /\ lock' = Free
  /\ EndOfIrq(s)
  /\ UNCHANGED <<cpu, pc, rsp, loc, cursor, now, fault>>

(* Preemption: unlock and switch, interrupts disabled.  No end-of-interrupt *)
(* has been sent; that waits for the preempted stack to run again.          *)
IrqSwitch(s) ==
  /\ InIrq(s, "core")
  /\ CoreOther
  /\ lock' = Free
  /\ irq' = [irq EXCEPT ![s] = "off"]
  /\ SwitchContext(OldSlot, rsp[Head(RqWithOld)])
  /\ UNCHANGED <<pc, hw>>

(* A preempted stack goes on behind scheduler_from_irq: timer_handler calls *)
(* thread_unlock_global once more, then the interrupt ends.                 *)
IrqResume(s) ==
  /\ InIrq(s, "off")
  /\ lock' = Free
  /\ EndOfIrq(s)
  /\ UNCHANGED <<lists, cpu, pc, rsp, loc, cursor, now, fault>>

-----------------------------------------------------------------------------
Call(s) ==
  \/ Start(s) \/ SysEnter(s) \/ SysLeave(s) \/ YieldCall(s) \/ NetCall(s) \/ ExitCall(s)
  \/ CreateCall(s)
  \/ \E w \in Waits : WaitCall(s, w)
  \/ \E t \in Tid : KillCall(s, t)

Section(s) ==
  \/ Acquire(s) \/ WaitBody(s) \/ WaitAgain(s) \/ WaitDone(s) \/ NetBody(s) \/ ExitBody(s)
  \/ KillBody(s) \/ CreateFail(s) \/ CreateNoStack(s) \/ CreateOk(s)

Sched(s) ==
  \/ SchedReap(s) \/ SchedStay(s) \/ SchedPick(s) \/ LoadRsp(s) \/ Switch(s) \/ SchedReturn(s)

Handler(s) ==
  \/ WakeOne(s) \/ QuantumKeep(s) \/ QuantumEnd(s) \/ IrqReap(s) \/ IrqStay(s) \/ IrqSwitch(s)
  \/ IrqResume(s)

Next == \E s \in Stk : Call(s) \/ Section(s) \/ Sched(s) \/ TimerIrq(s) \/ Handler(s)

Spec == Init /\ [][Next]_vars

-----------------------------------------------------------------------------
(* Fairness                                                                 *)

(* A handler runs to its end, the interrupted code goes on between two      *)
(* ticks, and the PIT keeps raising IRQ0: whenever it can be delivered      *)
(* again and again it is.  This is all the hardware guarantees.             *)
ThreadStep == \E s \in Stk : Call(s) \/ Section(s) \/ Sched(s)
FairSpec ==
  /\ Spec
  /\ WF_vars(\E s \in Stk : Handler(s))
  /\ SF_vars(ThreadStep)
  /\ SF_vars(\E s \in Stk : TimerIrq(s))

(* In addition every thread gives the CPU up again and again, and the ticks *)
(* do not for ever fall into critical sections of g_thread_lock (the PIT is *)
(* not synchronised with the code).                                         *)
CooperativeSpec ==
  /\ FairSpec
  /\ \A s \in Stk : SF_vars(YieldCall(s))
  /\ SF_vars(\E s \in Stk : TimerIrq(s) /\ lock = Free)

-----------------------------------------------------------------------------
(* Properties                                                               *)

(* Every variable keeps its type; ids stay below MAX_THREADS. *)
TypeOK ==
  /\ state \in [Tid -> States]
  /\ rq \in Seq(Tid) /\ wl \in Seq(Tid)
  /\ quantum \in [Tid -> Int]
  /\ wake_tick \in [Tid -> Nat]
  /\ current \in Tid \cup {NoThread}
  /\ next_id \in 0 .. MaxThreads
  /\ lock \in Stk \cup {Free, IrqHolds}
  /\ cpu \in Stk
  /\ pc \in [Stk -> PcLabels]
  /\ irq \in [Stk -> IrqLabels]
  /\ rsp \in [Tid -> Stk \cup {Stale}]
  /\ loc \in [Stk -> Locals]
  /\ cursor \in Tid \cup {NoThread}
  /\ isr \in BOOLEAN
  /\ now \in 0 .. MaxTick
  /\ fault \in {"none", "stale_resume", "null_thread"}

(* The ready queue holds exactly the READY threads, each once, whatever     *)
(* order calls, wake-ups, kills and preemptions come in: a READY thread     *)
(* outside the queue would never run again, a queued thread in another      *)
(* state would be dispatched although it sleeps, is dead or runs already.   *)
ReadyQueueExact == Distinct(rq) /\ \A t \in Tid : Contains(rq, t) <=> state[t] = "READY"

(* The wake list holds exactly the BLOCKED threads, each once.  In          *)
(* particular thread_reap_terminated, which does not unlink from the wake   *)
(* list, never leaves a freed thread_t in it.                               *)
WakeListExact == Distinct(wl) /\ \A t \in Tid : Contains(wl, t) <=> state[t] = "BLOCKED"

(* At most one thread is RUNNING, the one current_thread_id names, although *)
(* INT80_WAIT_TICKS sets both fields itself, outside schedule_core.         *)
OneRunning == \A t \in Tid : state[t] = "RUNNING" => t = current

(* A thread's own code never finds another thread's id in                   *)
(* current_thread_id, even after a tick inside the window between unlock    *)
(* and stack switch (it may find -1).                                       *)
ThreadSeesItself ==
  \A s \in Tid : Executing(s) /\ pc[s] \in {"User", "Sys"} => current \in {s, NoThread}

(* g_thread_lock is released only by the code that took it.  timer_handler  *)
(* releases it a second time when a preempted thread resumes; at that point *)
(* nobody else can be inside a critical section.                            *)
LockHandover ==
  /\ lock \in Stk /\ lock' # lock => lock' = Free /\ Executing(lock)
  /\ lock = IrqHolds /\ lock' # lock => lock' = Free /\ irq[cpu] \in {"wake", "core"}
(* Every step hands g_thread_lock over like that. *)
LockReleasedByOwner == [][LockHandover]_vars

(* INT80_WAIT_TICKS called by the scheduled thread returns no earlier than  *)
(* its deadline.                                                            *)
SleepIsLongEnough ==
  [][\A s \in Tid : /\ pc[s] = "WaitRecheck" /\ pc'[s] = "User"
                    /\ loc[s].tid # NoThread
                    => now >= loc[s].wake]_vars

(* switch_context never returns into a frame that has been left already. *)
NoStaleResume == fault # "stale_resume"

(* Every READY thread is dispatched (or killed). *)
ReadyThreadRuns == \A t \in Tid : state[t] = "READY" ~> state[t] # "READY"

(* Every sleeping thread wakes up (or is killed). *)
SleeperWakes == \A t \in Tid : state[t] = "BLOCKED" ~> state[t] # "BLOCKED"

(* An interrupt in service is acknowledged: the timer comes back. *)
TimerComesBack == isr ~> ~isr
=============================================================================
