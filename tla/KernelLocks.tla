---------------------------- MODULE KernelLocks ----------------------------
(***************************************************************************)
(* The kernel's spin locks and who may be interrupted while holding one:   *)
(* g_thread_lock (sched/thread.c), g_kmalloc_lock (mm/kmalloc.c), the lock *)
(* of kb_buffer (drivers/ps2/ringbuffer.c) and g_user_range_lock           *)
(* (elf/module_loader.c).  None of them disables interrupts.               *)
(*                                                                         *)
(* Every kernel stack is a sequence of sections, the innermost last: the   *)
(* sections a system call has entered or waits to enter and, above them,   *)
(* those of an interrupt handler that hit it.  The module keeps the        *)
(* scheduling that decides who runs while a lock is held (preemption from  *)
(* the timer interrupt, the end-of-interrupt it owes, kills, reaping) and  *)
(* leaves out what Scheduler has besides: sleepers, quanta, saved frames.  *)
(* Thread 0 neither ends nor is killed, so the ready queue is never empty  *)
(* when another thread ends.  network_lock is taken with interrupts off    *)
(* and never held across a wait: on one CPU such a section is one step.    *)
(***************************************************************************)
EXTENDS ThreadQueue

CONSTANT MaxThreads      (* MAX_THREADS: ids ever handed out *)

ASSUME MaxThreadsAssumption == MaxThreads \in Nat \ {0}

Tid     == 0 .. MaxThreads - 1
Locks   == {"thread", "kmalloc", "keys", "range"}
Free    == -1
IrqOps  == {"timer", "timerEnd", "key"}
UserOps == {"heap", "keys", "range", "look", "create", "kill", "exit", "sched"}
Ops     == UserOps \cup IrqOps \cup {"uncreate"}

(* The lock a section is protected by. *)
LockOf(op) ==
  CASE op = "heap"             -> "kmalloc"
    [] op \in {"keys", "key"}  -> "keys"
    [] op = "range"            -> "range"
    [] OTHER                   -> "thread"

(* in: the lock is taken; left: calls of kmalloc or kfree still to come.    *)
Section == [op : Ops, in : BOOLEAN, left : 0 .. 2]

VARIABLES
  state,     (* thread_list[t]->state, "NULL" when there is no such thread   *)
  rq,        (* the ready queue                                              *)
  next_id,   (* next_thread_id                                               *)
  cpu,       (* the thread whose stack the processor executes on             *)
  stack,     (* per thread: the sections it is in, innermost last            *)
  lock,      (* per lock: the stack that took it, or Free                    *)
  isr        (* IRQ0 is in service: its end-of-interrupt is owed             *)

vars == <<state, rq, next_id, cpu, stack, lock, isr>>

Init ==
  /\ state = [t \in Tid |-> IF t = 0 THEN "RUNNING" ELSE "NULL"]
  /\ rq = <<>>
  /\ next_id = 1
  /\ cpu = 0
  /\ stack = [t \in Tid |-> <<>>]
  /\ lock = [l \in Locks |-> Free]
  /\ isr = FALSE

-----------------------------------------------------------------------------
(* Stacks of sections                                                       *)

Here       == stack[cpu]
Inside(op) == Here # <<>> /\ Last(Here).op = op /\ Last(Here).in
InIrq(s)   == \E i \in DOMAIN s : s[i].op \in IrqOps

(* The code on the CPU waits at the test-and-set of a lock. *)
Waits == Here # <<>> /\ ~Last(Here).in
Wanted == LockOf(Last(Here).op)

Wait(op, n)  == [op |-> op, in |-> FALSE, left |-> n]
Becomes(s)   == stack' = [stack EXCEPT ![cpu] = s]
Return       == Becomes(Front(Here))
Unlock(l)    == lock' = [lock EXCEPT ![l] = Free]

(* The lock is clear: the section is entered. *)
Acquire ==
  /\ Waits /\ lock[Wanted] = Free
  /\ lock' = [lock EXCEPT ![Wanted] = cpu]
  /\ Becomes([Here EXCEPT ![Len(Here)].in = TRUE])
  /\ UNCHANGED <<state, rq, next_id, cpu, isr>>

-----------------------------------------------------------------------------
(* System calls                                                             *)

(* thread_create calls kmalloc twice, for the thread and for its stack.     *)
CallsOf(op) == IF op = "create" THEN 2 ELSE 0

Call(op) ==
  /\ Here = <<>>
  /\ op = "exit" => cpu # 0
  /\ Becomes(<<Wait(op, CallsOf(op))>>)
  /\ UNCHANGED <<state, rq, next_id, cpu, lock, isr>>

(* Mutant: a return in the middle of a section forgets the lock. *)
MutLeaveForgets(op) ==
  /\ Inside(op)
  /\ \/ Unlock(LockOf(op))
     \/ op = "heap" /\ UNCHANGED lock
  /\ Return
  /\ UNCHANGED <<state, rq, next_id, cpu, isr>>

(* The end of a section that does nothing else here: kmalloc and kfree,     *)
(* rb_get, rb_put and rb_empty, the reservation of a range of addresses, a  *)
(* look at thread_list; also on every early return.                         *)
Leave(op) ==
  /\ Inside(op)
  /\ Unlock(LockOf(op))
  /\ Return
  /\ UNCHANGED <<state, rq, next_id, cpu, isr>>

(* thread_create: kmalloc under g_thread_lock, or kfree of the thread when  *)
(* there is no stack.                                                       *)
CreateAlloc ==
  /\ Inside("create") \/ Inside("uncreate")
  /\ next_id < MaxThreads \/ Inside("uncreate")
  /\ Last(Here).left > 0
  /\ Becomes(Append([Here EXCEPT ![Len(Here)].left = @ - 1], Wait("heap", 0)))
  /\ UNCHANGED <<state, rq, next_id, cpu, lock, isr>>

CreateOk ==
  /\ Inside("create") /\ Last(Here).left = 0 /\ next_id < MaxThreads
  /\ state' = [state EXCEPT ![next_id] = "READY"]
  /\ rq' = Enqueue(rq, next_id)
  /\ next_id' = next_id + 1
  /\ Unlock("thread")
  /\ Return
  /\ UNCHANGED <<cpu, isr>>

(* The stack could not be allocated: the id is spent. *)
CreateNoStack ==
  /\ Inside("create") /\ Last(Here).left = 0 /\ next_id < MaxThreads
  /\ next_id' = next_id + 1
  /\ Becomes([Here EXCEPT ![Len(Here)] = [op |-> "uncreate", in |-> TRUE, left |-> 1]])
  /\ UNCHANGED <<state, rq, cpu, lock, isr>>

(* No id left, no memory for the thread, or the stack was missing. *)
CreateFail ==
  /\ \/ Inside("create") /\ next_id = MaxThreads /\ Last(Here).left = 2
     \/ Inside("create") /\ Last(Here).left = 1
     \/ Inside("uncreate") /\ Last(Here).left = 0
  /\ Unlock("thread")
  /\ Return
  /\ UNCHANGED <<state, rq, next_id, cpu, isr>>

(* thread_kill: the thread ends wherever it is, in a section too. *)
Kill ==
  /\ Inside("kill")
  /\ \E v \in Tid \ {0, cpu} :
       /\ state[v] # "NULL"
       /\ state' = [state EXCEPT ![v] = "TERMINATED"]
       /\ rq' = Unlink(rq, v)
  /\ Unlock("thread")
  /\ Return
  /\ UNCHANGED <<next_id, cpu, isr>>

(* thread_exit_current *)
Exit ==
  /\ Inside("exit")
  /\ state' = [state EXCEPT ![cpu] = "TERMINATED"]
  /\ rq' = Unlink(rq, cpu)
  /\ Unlock("thread")
  /\ Becomes([Here EXCEPT ![Len(Here)] = Wait("sched", 0)])
  /\ UNCHANGED <<next_id, cpu, isr>>

-----------------------------------------------------------------------------
(* scheduler() and scheduler_from_irq(): schedule_core under g_thread_lock  *)

Scheduling == Inside("sched") \/ Inside("timer")
Corpses    == { t \in Tid \ {cpu} : state[t] = "TERMINATED" }

(* thread_reap_terminated frees a thread: kfree, with g_thread_lock held.   *)
(* The NULL stored afterwards is seen by nobody before the lock is free.    *)
Reap ==
  /\ Scheduling
  /\ \E t \in Corpses : state' = [state EXCEPT ![t] = "NULL"]
  /\ Becomes(Append(Here, Wait("heap", 0)))
  /\ UNCHANGED <<rq, next_id, cpu, lock, isr>>

(* The old thread goes to the end of the queue if it still runs. *)
Requeued == IF state[cpu] = "RUNNING" THEN Enqueue(rq, cpu) ELSE rq

(* What a preempted thread has left to do when it is resumed. *)
Owed == [op |-> "timerEnd", in |-> TRUE, left |-> 0]

(* The next thread is taken, the lock released, the stack switched.         *)
Dispatch ==
  /\ Scheduling /\ Corpses = {}
  /\ LET next == Head(Requeued) IN
       /\ rq' = Tail(Requeued)
       /\ cpu' = next
       /\ state' = [state EXCEPT ![cpu] = IF @ = "RUNNING" THEN "READY" ELSE @,
                                 ![next] = "RUNNING"]
       /\ Unlock("thread")
       /\ IF Inside("sched") \/ next = cpu
          THEN Return
          ELSE Becomes(Append(Front(Here), Owed))
       /\ isr' = (isr /\ ~(Inside("timer") /\ next = cpu))
  /\ UNCHANGED next_id

-----------------------------------------------------------------------------
(* Interrupts                                                               *)

(* An interrupt is delivered: the handlers run with interrupts off, and     *)
(* IRQ0 in service holds back itself and the keyboard's IRQ1.               *)
Interruptible == ~InIrq(Here) /\ ~isr

(* Mutant: the handler takes the lock whether or not it is free. *)
MutTimerIrqBlind ==
  /\ Interruptible /\ state[cpu] = "RUNNING"
  /\ lock' = [lock EXCEPT !["thread"] = cpu]
  /\ isr' = TRUE
  /\ Becomes(Append(Here, [op |-> "timer", in |-> TRUE, left |-> 0]))
  /\ UNCHANGED <<state, rq, next_id, cpu>>

(* Mutant: the handler waits for the lock. *)
MutTimerIrqSpins ==
  /\ Interruptible /\ state[cpu] = "RUNNING"
  /\ isr' = TRUE
  /\ Becomes(Append(Here, Wait("timer", 0)))
  /\ UNCHANGED <<state, rq, next_id, cpu, lock>>

(* A tick that ends the time slice and finds g_thread_lock free.  All other *)
(* ticks change nothing here: the lock is only tried.                       *)
TimerIrq ==
  /\ Interruptible /\ state[cpu] = "RUNNING" /\ lock["thread"] = Free
  /\ lock' = [lock EXCEPT !["thread"] = cpu]
  /\ isr' = TRUE
  /\ Becomes(Append(Here, [op |-> "timer", in |-> TRUE, left |-> 0]))
  /\ UNCHANGED <<state, rq, next_id, cpu>>

(* The preempted thread is back in timer_handler, which clears the lock,    *)
(* whoever holds it, and irq_handler_c sends the end-of-interrupt.          *)
TimerEnd ==
  /\ Inside("timerEnd")
  /\ Unlock("thread")
  /\ isr' = FALSE
  /\ Return
  /\ UNCHANGED <<state, rq, next_id, cpu>>

(* A key: keyboard_irq_handler, on its way to rb_put. *)
KeyIrq ==
  /\ Interruptible
  /\ Becomes(Append(Here, Wait("key", 0)))
  /\ UNCHANGED <<state, rq, next_id, cpu, lock, isr>>

-----------------------------------------------------------------------------
Leaves == \E op \in {"heap", "keys", "range", "look", "key"} : Leave(op)

(* A kill that names no live thread is a look at thread_list. *)
Code ==
  \/ Acquire \/ Leaves \/ CreateAlloc \/ CreateOk \/ CreateNoStack \/ CreateFail
  \/ Kill \/ Leave("kill") \/ Exit \/ Reap \/ Dispatch \/ TimerEnd

Next == Code \/ (\E op \in UserOps : Call(op)) \/ TimerIrq \/ KeyIrq

Spec == Init /\ [][Next]_vars

(* Handlers run to their end; a thread that gets the CPU again and again    *)
(* executes between the ticks and keys, and calls the scheduler; slices end. *)
ThreadCode(t) == cpu = t /\ ~InIrq(Here) /\ Code
YieldOf(t)    == cpu = t /\ Call("sched")
FairSpec ==
  /\ Spec
  /\ WF_vars(InIrq(Here) /\ Code)
  /\ \A t \in Tid : SF_vars(ThreadCode(t)) /\ SF_vars(YieldOf(t))
  /\ SF_vars(TimerIrq)

-----------------------------------------------------------------------------
(* Properties                                                               *)

(* The sections of lock l on stack s. *)
SectionsOf(s, l) ==
  { i \in DOMAIN s : s[i].in /\ s[i].op # "timerEnd" /\ LockOf(s[i].op) = l }

(* Mutual exclusion, and every lock names the stack that is in its section: *)
(* no section is entered twice, none is left with its lock set, and no lock *)
(* is cleared under a section, although timer_handler clears g_thread_lock  *)
(* a second time when a preempted thread comes back.                        *)
LocksMatchSections ==
  \A l \in Locks : \A t \in Tid :
    /\ lock[l] = t <=> SectionsOf(stack[t], l) # {}
    /\ \A i, j \in SectionsOf(stack[t], l) : i = j

(* Thread t is in a section of lock l and an interrupt has hit it there. *)
InterruptedIn(t, l) ==
  \E i, j \in DOMAIN stack[t] :
    /\ i < j /\ stack[t][j].op \in IrqOps
    /\ stack[t][i].in /\ LockOf(stack[t][i].op) = l

(* Nobody ever waits for g_thread_lock, and any other lock is waited for    *)
(* only because an interrupt hit its holder inside the section: there is no *)
(* circular wait, no second entry by the holder itself and no forgotten     *)
(* unlock, whatever is nested in what (kmalloc in thread_create, kfree in   *)
(* the reaper, the reaper in the timer interrupt).                          *)
WaitsOnlyForInterrupted ==
  Waits /\ lock[Wanted] # Free =>
    Wanted # "thread" /\ InterruptedIn(lock[Wanted], Wanted)

(* The code on the CPU waits for a lock and no tick takes the CPU from it:  *)
(* it is in a handler, a tick is still in service, or it has g_thread_lock. *)
Hung ==
  /\ Waits /\ lock[Wanted] # Free
  /\ ~(Interruptible /\ state[cpu] = "RUNNING" /\ lock["thread"] = Free)

(* A lock that is taken becomes free again, unless its holder is killed or  *)
(* the CPU hangs in the way WaitsOnlyForInterrupted describes.              *)
LocksComeBack ==
  \A l \in Locks : \A t \in Tid :
    lock[l] = t ~> (lock[l] # t \/ state[t] \in {"TERMINATED", "NULL"} \/ Hung)

-----------------------------------------------------------------------------
(* The inductive invariant                                                  *)

TypeOK ==
  /\ state \in [Tid -> {"NULL", "READY", "RUNNING", "TERMINATED"}]
  /\ rq \in Seq(Tid)
  /\ next_id \in 1 .. MaxThreads
  /\ cpu \in Tid
  /\ stack \in [Tid -> Seq(Section)]
  /\ lock \in [Locks -> Tid \cup {Free}]
  /\ isr \in BOOLEAN

(* Thread 0 is on the CPU or queued. *)
SomebodyRuns ==
  /\ Distinct(rq)
  /\ IF cpu = 0 THEN state[0] = "RUNNING" ELSE Contains(rq, 0)

(* What may lie on what. *)
WellNested(s) ==
  \A i \in DOMAIN s :
    /\ i > 1 => s[i].op \in IrqOps \cup {"heap"}
    /\ s[i].op \in {"timer", "timerEnd"} => s[i].in
    /\ s[i].op = "timerEnd" => i = Len(s)
    /\ i < Len(s) /\ (~s[i].in \/ LockOf(s[i].op) # "thread") => s[i + 1].op \in IrqOps

(* Nothing on stack s ends its thread. *)
NeverEnds(s) == \A i \in DOMAIN s : s[i].op # "exit"

Nesting == \A t \in Tid : WellNested(stack[t]) /\ (t = 0 => NeverEnds(stack[t]))

(* Off the CPU a thread is outside the kernel's sections or preempted. *)
OffCpu ==
  \A t \in Tid \ {cpu} : stack[t] # <<>> => Last(stack[t]).op = "timerEnd"

(* g_thread_lock is held only by the stack that executes. *)
ThreadLockHere ==
  /\ lock["thread"] \in {cpu, Free}
  /\ Inside("timerEnd") => lock["thread"] = Free

IInv ==
  TypeOK /\ SomebodyRuns /\ Nesting /\ OffCpu /\ ThreadLockHere /\ LocksMatchSections
=============================================================================
