-------------------------- MODULE SchedulerProofs --------------------------
(***************************************************************************)
(* Proofs that the scheduler keeps its lists, states and control in        *)
(* agreement for any number of threads, any time slice, any workload and   *)
(* any arrival of timer interrupts.  IInv (SchedulerInv) is the inductive  *)
(* invariant; there is one lemma per action, and the actions that only     *)
(* move one stack along share the lemma ThreadMoves.                       *)
(***************************************************************************)
EXTENDS SchedulerInv, SequenceTheorems, TLAPS

-----------------------------------------------------------------------------
(* What the list operations of sched/scheduler.c do to membership and to    *)
(* the absence of duplicates, for lists of any length over any set of       *)
(* threads.  The proofs below never look inside the sequences again.        *)

(* RemoveAt, the unlinking of rq_remove, drops position k and shifts what   *)
(* was behind it.                                                           *)
LEMMA RemoveAtShape ==
  ASSUME NEW T, NEW q \in Seq(T), NEW k \in 1 .. Len(q)
  PROVE  /\ RemoveAt(q, k) \in Seq(T)
         /\ Len(RemoveAt(q, k)) = Len(q) - 1
         /\ \A j \in 1 .. Len(q) - 1 : RemoveAt(q, k)[j] = IF j < k THEN q[j] ELSE q[j + 1]
<1> DEFINE a == SubSeq(q, 1, k - 1)
           b == SubSeq(q, k + 1, Len(q))
<1>1. a \in Seq(T) /\ Len(a) = k - 1 /\ \A i \in 1 .. k - 1 : a[i] = q[i]
  OBVIOUS
<1>2. b \in Seq(T) /\ Len(b) = Len(q) - k /\ \A i \in 1 .. Len(q) - k : b[i] = q[i + k]
  OBVIOUS
<1>3. RemoveAt(q, k) = a \o b
  BY DEF RemoveAt
<1> HIDE DEF a, b
<1>4. a \o b \in Seq(T)
  BY <1>1, <1>2, ConcatProperties
<1>5. Len(a \o b) = Len(a) + Len(b)
  BY <1>1, <1>2, ConcatProperties
<1>6. \A i \in 1 .. Len(a) + Len(b) : (a \o b)[i] = IF i <= Len(a) THEN a[i] ELSE b[i - Len(a)]
  BY <1>1, <1>2, ConcatProperties
<1>7. Len(q) \in Nat
  OBVIOUS
<1>8. ASSUME NEW j \in 1 .. Len(q) - 1
      PROVE  (a \o b)[j] = IF j < k THEN q[j] ELSE q[j + 1]
  <2>1. CASE j < k
    BY <2>1, <1>1, <1>2, <1>6, <1>7
  <2>2. CASE ~(j < k)
    <3>1. j - Len(a) \in 1 .. Len(q) - k /\ (j - Len(a)) + k = j + 1
      BY <2>2, <1>1, <1>7
    <3>2. (a \o b)[j] = b[j - Len(a)]
      BY <2>2, <1>1, <1>2, <1>6, <1>7
    <3> QED BY <3>1, <3>2, <1>2, <2>2
  <2> QED BY <2>1, <2>2
<1> QED BY <1>1, <1>2, <1>3, <1>4, <1>5, <1>7, <1>8

(* A queued thread has a position. *)
LEMMA PosOfQueued ==
  ASSUME NEW q, NEW t, Contains(q, t)
  PROVE  PosOf(q, t) \in 1 .. Len(q) /\ q[PosOf(q, t)] = t
BY DEF Contains, PosOf

(* rq_remove / wake_list_remove takes out exactly the given thread. *)
LEMMA UnlinkFacts ==
  ASSUME NEW T, NEW q \in Seq(T), NEW t, Distinct(q)
  PROVE  /\ Unlink(q, t) \in Seq(T)
         /\ Distinct(Unlink(q, t))
         /\ \A u \in T : Contains(Unlink(q, t), u) <=> Contains(q, u) /\ u # t
<1>1. CASE ~Contains(q, t)
  BY <1>1 DEF Unlink
<1>2. CASE Contains(q, t)
  <2> DEFINE k == PosOf(q, t)
             r == RemoveAt(q, k)
  <2>1. k \in 1 .. Len(q) /\ q[k] = t
    BY <1>2, PosOfQueued
  <2>2. Unlink(q, t) = r
    BY <1>2 DEF Unlink
  <2> HIDE DEF k
  <2>3. /\ r \in Seq(T) /\ Len(r) = Len(q) - 1
        /\ \A j \in 1 .. Len(q) - 1 : r[j] = IF j < k THEN q[j] ELSE q[j + 1]
    BY <2>1, RemoveAtShape
  <2> HIDE DEF r
  <2>4. Distinct(r)
    <3>1. SUFFICES ASSUME NEW i \in 1 .. Len(r), NEW j \in 1 .. Len(r), r[i] = r[j]
                   PROVE  i = j
      BY DEF Distinct
    <3>2. Len(q) \in Nat /\ k \in Int /\ i \in Int /\ j \in Int
      BY <2>1, <2>3
    <3>3. i \in 1 .. Len(q) - 1 /\ j \in 1 .. Len(q) - 1
      BY <2>3
    <3> DEFINE old(n) == IF n < k THEN n ELSE n + 1
    <3>4. old(i) \in 1 .. Len(q) /\ old(j) \in 1 .. Len(q)
      BY <3>2, <3>3
    <3>5. r[i] = q[old(i)] /\ r[j] = q[old(j)]
      BY <2>3, <3>3
    <3>6. old(i) = old(j)
      <4> HIDE DEF old
      <4> QED BY <3>1, <3>4, <3>5 DEF Distinct
    <3> QED BY <3>2, <3>6
  <2>5. ASSUME NEW u \in T, Contains(r, u)
        PROVE  Contains(q, u) /\ u # t
    BY <2>1, <2>3, <2>5 DEF Contains, Distinct
  <2>6. ASSUME NEW u \in T, Contains(q, u), u # t
        PROVE  Contains(r, u)
    <3>1. PICK i \in 1 .. Len(q) : q[i] = u
      BY <2>6 DEF Contains
    <3>2. CASE i < k
      <4>1. i \in 1 .. Len(q) - 1 /\ r[i] = u
        BY <3>1, <3>2, <2>1, <2>3
      <4> QED BY <4>1, <2>3 DEF Contains
    <3>3. CASE i > k
      <4>1. i - 1 \in 1 .. Len(q) - 1 /\ r[i - 1] = u
        BY <3>1, <3>3, <2>1, <2>3
      <4> QED BY <4>1, <2>3 DEF Contains
    <3> QED BY <3>1, <3>2, <3>3, <2>1, <2>6
  <2> QED BY <2>2, <2>3, <2>4, <2>5, <2>6
<1> QED BY <1>1, <1>2

(* rq_enqueue / wake_list_add puts in exactly the given thread. *)
LEMMA EnqueueFacts ==
  ASSUME NEW T, NEW q \in Seq(T), NEW t \in T, Distinct(q)
  PROVE  /\ Enqueue(q, t) \in Seq(T)
         /\ Distinct(Enqueue(q, t))
         /\ \A u \in T : Contains(Enqueue(q, t), u) <=> Contains(q, u) \/ u = t
         /\ Enqueue(q, t) # <<>>
<1>1. CASE Contains(q, t)
  BY <1>1 DEF Enqueue, Contains
<1>2. CASE ~Contains(q, t)
  <2> DEFINE r == Append(q, t)
  <2>1. Enqueue(q, t) = r
    BY <1>2 DEF Enqueue
  <2>2. /\ r \in Seq(T) /\ Len(r) = Len(q) + 1 /\ r[Len(q) + 1] = t
        /\ \A i \in 1 .. Len(q) : r[i] = q[i]
    OBVIOUS
  <2> HIDE DEF r
  <2>3. Distinct(r)
    BY <1>2, <2>2 DEF Distinct, Contains
  <2>4. \A u \in T : Contains(r, u) <=> Contains(q, u) \/ u = t
    BY <2>2 DEF Contains
  <2>5. r # <<>>
    BY <2>2
  <2> QED BY <2>1, <2>2, <2>3, <2>4, <2>5
<1> QED BY <1>1, <1>2

(* rq_dequeue takes out exactly the first thread. *)
LEMMA DequeueFacts ==
  ASSUME NEW T, NEW q \in Seq(T), q # <<>>, Distinct(q)
  PROVE  /\ Head(q) \in T
         /\ Contains(q, Head(q))
         /\ Tail(q) \in Seq(T)
         /\ Distinct(Tail(q))
         /\ \A u \in T : Contains(Tail(q), u) <=> Contains(q, u) /\ u # Head(q)
<1>1. /\ Len(q) \in Nat \ {0} /\ Head(q) = q[1] /\ Head(q) \in T
      /\ Tail(q) \in Seq(T) /\ Len(Tail(q)) = Len(q) - 1
      /\ \A i \in 1 .. Len(q) - 1 : Tail(q)[i] = q[i + 1]
  BY HeadTailProperties
<1>2. Contains(q, Head(q))
  BY <1>1 DEF Contains
<1>3. Distinct(Tail(q))
  BY <1>1 DEF Distinct
<1>4. ASSUME NEW u \in T, Contains(Tail(q), u)
      PROVE  Contains(q, u) /\ u # Head(q)
  BY <1>1, <1>4 DEF Contains, Distinct
<1>5. ASSUME NEW u \in T, Contains(q, u), u # Head(q)
      PROVE  Contains(Tail(q), u)
  <2>1. PICK i \in 1 .. Len(q) : q[i] = u
    BY <1>5 DEF Contains
  <2>2. i - 1 \in 1 .. Len(q) - 1 /\ Tail(q)[i - 1] = u
    BY <2>1, <1>1, <1>5
  <2> QED BY <2>2, <1>1 DEF Contains
<1> QED BY <1>1, <1>2, <1>3, <1>4, <1>5

(* The node behind a node of the list is a thread of the list. *)
LEMMA SuccessorFacts ==
  ASSUME NEW T, NEW q \in Seq(T), NEW t, NEW none
  PROVE  Successor(q, t, none) = none \/ (Successor(q, t, none) \in T /\ Contains(q, Successor(q, t, none)))
<1>1. CASE Contains(q, t) /\ PosOf(q, t) < Len(q)
  <2>1. PosOf(q, t) + 1 \in 1 .. Len(q)
    BY <1>1, PosOfQueued
  <2> QED BY <1>1, <2>1 DEF Successor, Contains
<1>2. CASE ~(Contains(q, t) /\ PosOf(q, t) < Len(q))
  BY <1>2 DEF Successor
<1> QED BY <1>1, <1>2

-----------------------------------------------------------------------------
USE ThreadsAssumption, SliceAssumption, TickAssumption, WaitAssumption

(* thread_init: before the first thread exists the invariant holds. *)
LEMMA InitIInv == Init => IInv
<1> SUFFICES ASSUME Init PROVE IInv
  OBVIOUS
<1>1. /\ 0 \in 0 .. MaxThreads /\ NoThread \in Stk /\ BOOT \in Stk
      /\ NoLocals \in Locals /\ Stale \notin Stk
  BY DEF Tid, Stk, NoThread, BOOT, NoLocals, Locals, Stale
<1>2. TypeOK
  BY <1>1 DEF Init, TypeOK, States, PcLabels, CsLabels, IrqLabels, Tid, NoThread, Free
<1>3. \A t \in Tid : ~Contains(<<>>, t)
  BY DEF Contains
<1>4. ReadyQueueExact /\ WakeListExact /\ OneRunning
  BY <1>3 DEF Init, ReadyQueueExact, WakeListExact, OneRunning, Distinct
<1>5. LocalsOK /\ FreshIds
  BY <1>1 DEF Init, LocalsOK, FreshIds, InWindow, NoLocals, Tid, Stk, BOOT, NoThread, Stale
<1>6. HandlerOK /\ LockOK /\ CurrentOK /\ CurrentRuns /\ FramesOK
  BY <1>1 DEF Init, HandlerOK, LockOK, CurrentOK, CurrentRuns, FramesOK, InWindow, NoThread, Tid, Stk, BOOT, IrqHolds, Free, Stale
<1> QED BY <1>2, <1>4, <1>5, <1>6 DEF IInv, ControlInv

(* The invariant does not mention more than the variables. *)
LEMMA StutterIInv == IInv /\ UNCHANGED vars => IInv'
BY DEF IInv, vars, lists, ctx, hw, TypeOK, ControlInv, ReadyQueueExact, WakeListExact, OneRunning,
       LocalsOK, FreshIds, HandlerOK, LockOK, CurrentOK, CurrentRuns, FramesOK, FrameOf, InWindow, OldRuns, IsThread

(* The executing stack moves to another control point, outside the switch   *)
(* window, without touching the lists; it may take or release the lock.     *)
LEMMA ThreadMoves ==
  ASSUME IInv, NEW s \in Stk, Executing(s), ~InWindow(s),
         NEW l \in PcLabels \ {"Sw1", "Sw2"}, pc' = [pc EXCEPT ![s] = l],
         NEW r \in Locals, loc' = [loc EXCEPT ![s] = r],
         r.rsi \in {Stale, loc[s].rsi}, r.tid \in {s, NoThread},
         l = "KillReq" => r.tgt \in Tid,
         l = "ExitReq" /\ r.tid \in Tid => state[r.tid] # "BLOCKED",
         pc[s] = "SchedReq" => l = "SchedReq",
         \/ lock' = lock /\ (lock = s => l \in CsLabels)
         \/ lock' = s /\ lock = Free /\ l \in CsLabels
         \/ lock' = Free /\ lock = s,
         UNCHANGED <<lists, cpu, irq, rsp, hw, fault>>
  PROVE  IInv'
<1> USE DEF lists, hw
<1>1. TypeOK'
  BY DEF IInv, TypeOK
<1>2. ReadyQueueExact' /\ WakeListExact' /\ OneRunning'
  BY DEF IInv, ReadyQueueExact, WakeListExact, OneRunning
<1>3. LocalsOK'
  BY DEF IInv, TypeOK, ControlInv, LocalsOK, InWindow
<1>4. FreshIds'
  <2> SUFFICES ASSUME NEW t \in Tid, t >= next_id
               PROVE  /\ state'[t] = "NULL" /\ t # cpu /\ pc'[t] = "New" /\ irq[t] = "none"
                      /\ \A u \in Tid : rsp[u] # t
                      /\ \A u \in Stk : loc'[u].rsi # t
    BY DEF FreshIds
  <2>1. /\ state[t] = "NULL" /\ t # cpu /\ pc[t] = "New" /\ irq[t] = "none"
        /\ \A u \in Tid : rsp[u] # t
        /\ \A u \in Stk : loc[u].rsi # t
    BY DEF IInv, ControlInv, FreshIds
  <2>2. t # s /\ t \in Stk /\ t # Stale
    BY <2>1 DEF Executing, Stk, Tid, Stale
  <2>3. /\ pc'[s] = l /\ loc'[s] = r
        /\ \A u \in Stk \ {s} : pc'[u] = pc[u] /\ loc'[u] = loc[u]
    BY DEF IInv, TypeOK
  <2> QED BY <2>1, <2>2, <2>3
<1>5. HandlerOK'
  BY DEF IInv, ControlInv, HandlerOK, OldRuns, IsThread
<1>6. LockOK'
  BY DEF IInv, TypeOK, ControlInv, LockOK, Executing, Free, IrqHolds, Stk, Tid, BOOT
<1>7. CurrentOK'
  BY DEF IInv, TypeOK, ControlInv, CurrentOK, InWindow, Executing
<1>8. CurrentRuns'
  BY DEF IInv, TypeOK, ControlInv, CurrentRuns, Executing
<1>9. FramesOK'
  <2>1. \A t \in Tid, k \in Stk : FrameOf(t, k) => FrameOf(t, k)'
    BY DEF IInv, TypeOK, FrameOf, InWindow, Executing
  <2>2. \A u \in Stk : pc'[u] = "Sw2" => u # s /\ pc[u] = "Sw2" /\ loc'[u] = loc[u]
    BY DEF IInv, TypeOK
  <2>3. \A u \in Stk : pc[u] = "Sw2" => loc[u].nxt \in Tid /\ loc[u].rsi \in Stk \cup {Stale}
    BY DEF IInv, TypeOK, Locals, ControlInv, LocalsOK, InWindow
  <2>4. \A t \in Tid : rsp[t] \in Stk \cup {Stale}
    BY DEF IInv, TypeOK
  <2>5. FramesOK /\ rsp' = rsp /\ fault' = fault
    BY DEF IInv, ControlInv
  <2> QED BY <2>1, <2>2, <2>3, <2>4, <2>5 DEF FramesOK
<1> QED BY <1>1, <1>2, <1>3, <1>4, <1>5, <1>6, <1>7, <1>8, <1>9 DEF IInv, ControlInv

(* Operations are entered and left without a change of the lists. *)
LEMMA CallIInv ==
  ASSUME IInv, NEW s \in Stk, Call(s)
  PROVE  IInv'
<1> USE DEF Goto
<1>0. /\ pc[s] \in PcLabels /\ loc[s] \in Locals /\ current \in Stk /\ NoThread \in Stk /\ BOOT \notin Tid
      /\ loc[s].tid \in {s, NoThread} /\ now \in Nat
  BY DEF IInv, TypeOK, ControlInv, LocalsOK, Stk, BOOT, NoThread, Tid
<1>1. NoLocals \in Locals /\ NoLocals.rsi = Stale /\ NoLocals.tid = NoThread
  BY <1>0 DEF NoLocals, Locals
<1>2. ASSUME Executing(s), pc[s] = "User" PROVE lock # s /\ ~InWindow(s)
  BY <1>2 DEF IInv, ControlInv, LockOK, CsLabels, InWindow
<1>10. {"NetReq", "CreateReq", "ExitReq", "KillReq", "WaitReq", "SchedReq"} \subseteq PcLabels \ {"Sw1", "Sw2"}
  BY DEF PcLabels, CsLabels
<1>3. CASE Start(s) \/ SysEnter(s) \/ SysLeave(s)
  <2>1. /\ Executing(s) /\ pc[s] \in {"New", "User", "Sys"} /\ pc' = [pc EXCEPT ![s] = IF pc[s] = "User" THEN "Sys" ELSE "User"]
        /\ loc' = [loc EXCEPT ![s] = loc[s]] /\ UNCHANGED <<lists, lock, cpu, irq, rsp, hw, fault>>
    BY <1>3 DEF Start, SysEnter, SysLeave, AtUser, IInv, TypeOK
  <2>2. ~InWindow(s) /\ lock # s
    BY <2>1 DEF IInv, ControlInv, LockOK, CsLabels, InWindow
  <2>3. (IF pc[s] = "User" THEN "Sys" ELSE "User") \in PcLabels \ {"Sw1", "Sw2", "KillReq", "ExitReq"}
    BY DEF PcLabels
  <2> QED BY <2>1, <2>2, <2>3, <1>0, ThreadMoves
<1>4. CASE YieldCall(s)
  <2> DEFINE r == [NoLocals EXCEPT !.ret = "yield"]
  <2>1. r \in Locals /\ r.rsi = Stale /\ r.tid = NoThread
    BY <1>0 DEF NoLocals, Locals
  <2> HIDE DEF r
  <2> QED BY <1>4, <1>2, <2>1, ThreadMoves DEF YieldCall, r, PcLabels, CsLabels
<1>5. CASE NetCall(s)
  <2>1. Executing(s) /\ pc[s] = "User" /\ UNCHANGED <<lists, lock, cpu, irq, rsp, hw, fault>>
        /\ pc' = [pc EXCEPT ![s] = "NetReq"] /\ loc' = [loc EXCEPT ![s] = NoLocals]
    BY <1>5 DEF NetCall, AtUser
  <2> QED BY <2>1, <1>1, <1>2, <1>10, ThreadMoves
<1>6. CASE ExitCall(s)
  <2> DEFINE r == [NoLocals EXCEPT !.tid = current]
  <2>1. r \in Locals /\ r.rsi = Stale /\ r.tid = current
    BY <1>0 DEF NoLocals, Locals
  <2>2. Executing(s) /\ pc[s] = "User" /\ ~InWindow(s) /\ lock # s
    BY <1>6, <1>2 DEF ExitCall, AtUser
  <2>4. /\ UNCHANGED <<lists, lock, cpu, irq, rsp, hw, fault>>
        /\ pc' = [pc EXCEPT ![s] = "ExitReq"] /\ loc' = [loc EXCEPT ![s] = r]
    BY <1>6 DEF ExitCall
  <2>3. current \in {s, NoThread} /\ (current \in Tid => state[current] # "BLOCKED")
    BY <2>2 DEF IInv, ControlInv, CurrentOK, CurrentRuns, Executing
  <2> HIDE DEF r
  <2> QED BY <2>1, <2>2, <2>3, <2>4, <1>10, ThreadMoves
<1>7. CASE CreateCall(s)
  <2>1. Executing(s) /\ pc[s] = "User" /\ UNCHANGED <<lists, lock, cpu, irq, rsp, hw, fault>>
        /\ pc' = [pc EXCEPT ![s] = "CreateReq"] /\ loc' = [loc EXCEPT ![s] = NoLocals]
    BY <1>7 DEF CreateCall
  <2> QED BY <2>1, <1>1, <1>2, <1>10, ThreadMoves
<1>8. ASSUME NEW w \in Waits, WaitCall(s, w) PROVE IInv'
  <2> DEFINE r == [NoLocals EXCEPT !.wake = (now + w) % TickMod]
  <2>1. r \in Locals /\ r.rsi = Stale /\ r.tid = NoThread
    <3>1. (now + w) % TickMod \in Nat
      BY <1>0
    <3> QED BY <3>1, <1>0 DEF NoLocals, Locals
  <2>2. /\ Executing(s) /\ pc[s] = "User" /\ UNCHANGED <<lists, lock, cpu, irq, rsp, hw, fault>>
        /\ pc' = [pc EXCEPT ![s] = "WaitReq"] /\ loc' = [loc EXCEPT ![s] = r]
    BY <1>8 DEF WaitCall, AtUser
  <2> HIDE DEF r
  <2> QED BY <2>1, <2>2, <1>2, <1>10, ThreadMoves
<1>9. ASSUME NEW t \in Tid, KillCall(s, t) PROVE IInv'
  <2> DEFINE r == [NoLocals EXCEPT !.tgt = t]
  <2>1. r \in Locals /\ r.rsi = Stale /\ r.tid = NoThread /\ r.tgt \in Tid
    BY <1>0 DEF NoLocals, Locals, Stk
  <2>2. /\ Executing(s) /\ pc[s] = "User" /\ UNCHANGED <<lists, lock, cpu, irq, rsp, hw, fault>>
        /\ pc' = [pc EXCEPT ![s] = "KillReq"] /\ loc' = [loc EXCEPT ![s] = r]
    BY <1>9 DEF KillCall, AtUser
  <2>3. lock # s /\ ~InWindow(s) /\ "KillReq" \in PcLabels \ {"Sw1", "Sw2"}
    BY <2>2, <1>2, <1>10
  <2> HIDE DEF r
  <2> QED BY <2>1, <2>2, <2>3, ThreadMoves
<1> QED BY <1>3, <1>4, <1>5, <1>6, <1>7, <1>8, <1>9 DEF Call

(* So are the steps that take the lock, or release it with nothing done,    *)
(* and the return from scheduler().                                         *)
LEMMA MoveIInv ==
  ASSUME IInv, NEW s \in Stk, Acquire(s) \/ CreateFail(s) \/ WaitAgain(s) \/ SchedReturn(s)
  PROVE  IInv'
<1> USE DEF Goto
<1>0. /\ pc[s] \in PcLabels /\ loc[s] \in Locals /\ NoThread \in Stk
      /\ loc[s].tid \in {s, NoThread} /\ pc \in [Stk -> PcLabels] /\ loc \in [Stk -> Locals]
  BY DEF IInv, TypeOK, ControlInv, LocalsOK, Stk, NoThread, BOOT
<1>1. CASE Acquire(s)
  <2>1. pc[s] = "KillReq" => loc[s].tgt \in Tid
    BY DEF IInv, ControlInv, LocalsOK
  <2>2. pc[s] = "ExitReq" /\ loc[s].tid \in Tid => state[loc[s].tid] # "BLOCKED"
    BY DEF IInv, ControlInv, LocalsOK
  <2>3. pc' = [pc EXCEPT ![s] = pc[s]] /\ loc' = [loc EXCEPT ![s] = loc[s]]
    BY <1>0, <1>1 DEF Acquire, ctx
  <2>4. pc[s] \in PcLabels \ {"Sw1", "Sw2"} /\ ~InWindow(s)
    BY <1>1 DEF Acquire, PcLabels, CsLabels, InWindow
  <2>5. UNCHANGED <<lists, cpu, irq, rsp, hw, fault>> /\ Executing(s) /\ lock = Free /\ lock' = s /\ pc[s] \in CsLabels
    BY <1>1 DEF Acquire, ctx
  <2> QED BY <1>0, <2>1, <2>2, <2>3, <2>4, <2>5, ThreadMoves
<1>2. CASE CreateFail(s)
  <2>1. loc' = [loc EXCEPT ![s] = loc[s]]
    BY <1>0, <1>2 DEF CreateFail
  <2>2. /\ Executing(s) /\ pc[s] = "CreateReq" /\ lock = s /\ lock' = Free /\ ~InWindow(s)
        /\ pc' = [pc EXCEPT ![s] = "User"] /\ UNCHANGED <<lists, cpu, irq, rsp, hw, fault>>
    BY <1>2 DEF CreateFail, Holding, InWindow
  <2>3. "User" \in PcLabels \ {"Sw1", "Sw2"}
    BY DEF PcLabels
  <2> QED BY <1>0, <2>1, <2>2, <2>3, ThreadMoves
<1>3. CASE WaitAgain(s)
  <2>1. loc' = [loc EXCEPT ![s] = loc[s]]
    BY <1>0, <1>3 DEF WaitAgain
  <2>2. /\ Executing(s) /\ pc[s] = "WaitRecheck" /\ lock = s /\ lock' = Free /\ ~InWindow(s)
        /\ pc' = [pc EXCEPT ![s] = "WaitHlt"] /\ UNCHANGED <<lists, cpu, irq, rsp, hw, fault>>
    BY <1>3 DEF WaitAgain, Holding, InWindow
  <2>3. "WaitHlt" \in PcLabels \ {"Sw1", "Sw2"}
    BY DEF PcLabels
  <2> QED BY <1>0, <2>1, <2>2, <2>3, ThreadMoves
<1>4. CASE SchedReturn(s)
  <2> DEFINE r == [loc[s] EXCEPT !.old = NoThread, !.nxt = NoThread, !.rsi = Stale]
             l == AfterSched(loc[s].ret)
  <2>1. r \in Locals /\ r.rsi = Stale /\ r.tid = loc[s].tid
    BY <1>0 DEF Locals
  <2>2. loc' = [loc EXCEPT ![s] = r] /\ pc' = [pc EXCEPT ![s] = l]
    BY <1>0, <1>4 DEF SchedReturn
  <2>3. l \in PcLabels \ {"Sw1", "Sw2", "KillReq", "ExitReq"}
    BY DEF AfterSched, PcLabels, CsLabels
  <2>4. /\ Executing(s) /\ pc[s] = "SchedRet" /\ lock' = lock
        /\ UNCHANGED <<lists, cpu, irq, rsp, hw, fault>>
    BY <1>4 DEF SchedReturn
  <2>5. ~InWindow(s) /\ lock # s
    BY <2>4 DEF InWindow, IInv, ControlInv, LockOK, CsLabels
  <2> HIDE DEF r, l
  <2> QED BY <1>0, <2>1, <2>2, <2>3, <2>4, <2>5, ThreadMoves
<1> QED BY <1>1, <1>2, <1>3, <1>4

(* A critical section of the executing stack ends: it changed the lists and *)
(* states, created and freed no thread, and put nobody else to sleep.       *)
LEMMA SectionEnds ==
  ASSUME IInv, NEW s \in Stk, Executing(s), lock = s, pc[s] \in CsLabels,
         NEW l \in {"User", "SchedReq"}, pc' = [pc EXCEPT ![s] = l],
         NEW r \in Locals, loc' = [loc EXCEPT ![s] = r],
         r.rsi \in {Stale, loc[s].rsi}, r.tid \in {s, NoThread}, lock' = Free,
         UNCHANGED <<quantum, next_id, cpu, irq, rsp, hw, fault>>,
         state' \in [Tid -> States], rq' \in Seq(Tid), wl' \in Seq(Tid), wake_tick' \in [Tid -> Nat],
         current' \in {s, NoThread}, current' \in Tid \cup {NoThread},
         ReadyQueueExact', WakeListExact', OneRunning',
         \A t \in Tid : state[t] = "NULL" <=> state'[t] = "NULL",
         \A t \in Tid : state'[t] = "BLOCKED" => state[t] = "BLOCKED" \/ t = s,
         current' \in Tid => \/ state'[current'] \in {"RUNNING", "TERMINATED"}
                             \/ l = "SchedReq" /\ state'[current'] # "NULL"
  PROVE  IInv'
<1> USE DEF hw
<1>0. l \in PcLabels /\ l \notin {"Sw1", "Sw2", "KillReq", "ExitReq"}
  BY DEF PcLabels, CsLabels
<1>1. TypeOK'
  <2>1. Free \in Stk \cup {Free, IrqHolds}
    OBVIOUS
  <2> QED BY <1>0, <2>1 DEF IInv, TypeOK
<1>2. /\ pc'[s] = l /\ loc'[s] = r
      /\ \A u \in Stk \ {s} : pc'[u] = pc[u] /\ loc'[u] = loc[u]
  BY DEF IInv, TypeOK
<1>3. LocalsOK'
  <2> SUFFICES ASSUME NEW u \in Stk
               PROVE  /\ pc'[u] = "KillReq" => loc'[u].tgt \in Tid
                      /\ pc'[u] \in {"Sw1", "Sw2"} => loc'[u].nxt \in Tid /\ loc'[u].old \in {u, NoThread}
                      /\ loc'[u].tid \in {u, NoThread}
                      /\ pc'[u] = "ExitReq" /\ loc'[u].tid \in Tid => state'[loc'[u].tid] # "BLOCKED"
    BY DEF LocalsOK, InWindow
  <2>1. CASE u = s
    BY <2>1, <1>0, <1>2
  <2>2. CASE u # s
    <3>1. LocalsOK /\ NoThread \notin Tid
      BY DEF IInv, ControlInv, NoThread, Tid
    <3> QED BY <2>2, <3>1, <1>2 DEF LocalsOK, InWindow
  <2> QED BY <2>1, <2>2
<1>4. FreshIds'
  <2> SUFFICES ASSUME NEW t \in Tid, t >= next_id
               PROVE  /\ state'[t] = "NULL" /\ t # cpu /\ pc'[t] = "New" /\ irq[t] = "none"
                      /\ \A u \in Tid : rsp[u] # t
                      /\ \A u \in Stk : loc'[u].rsi # t
    BY DEF FreshIds
  <2>1. /\ state[t] = "NULL" /\ t # cpu /\ pc[t] = "New" /\ irq[t] = "none"
        /\ \A u \in Tid : rsp[u] # t
        /\ \A u \in Stk : loc[u].rsi # t
    BY DEF IInv, ControlInv, FreshIds
  <2>2. t # s /\ t \in Stk /\ t # Stale
    BY <2>1 DEF Executing, Stk, Tid, Stale
  <2> QED BY <2>1, <2>2, <1>2
<1>5. HandlerOK'
  BY DEF IInv, ControlInv, HandlerOK, Executing
<1>6. LockOK'
  <2>1. Free \notin Stk /\ Free # IrqHolds
    BY DEF Free, IrqHolds, Stk, Tid, BOOT
  <2>2. irq[cpu] = "none"
    BY DEF Executing
  <2>3. lock' = Free /\ UNCHANGED <<irq, cpu, fault>>
    OBVIOUS
  <2> QED BY <2>1, <2>2, <2>3 DEF LockOK
<1>7. CurrentOK'
  BY <1>0 DEF IInv, TypeOK, ControlInv, CurrentOK, InWindow, Executing
<1>8. CurrentRuns'
  BY DEF IInv, TypeOK, ControlInv, CurrentRuns, Executing
<1>9. FramesOK'
  <2>1. \A t \in Tid, k \in Stk : FrameOf(t, k) => FrameOf(t, k)'
    BY DEF IInv, TypeOK, FrameOf, InWindow, Executing
  <2>2. \A u \in Stk : pc'[u] = "Sw2" => u # s /\ pc[u] = "Sw2" /\ loc'[u] = loc[u]
    BY <1>0 DEF IInv, TypeOK
  <2>3. \A u \in Stk : pc[u] = "Sw2" => loc[u].nxt \in Tid /\ loc[u].rsi \in Stk \cup {Stale}
    BY DEF IInv, TypeOK, Locals, ControlInv, LocalsOK, InWindow
  <2>4. \A t \in Tid : rsp[t] \in Stk \cup {Stale}
    BY DEF IInv, TypeOK
  <2>5. FramesOK /\ rsp' = rsp /\ fault' = fault
    BY DEF IInv, ControlInv
  <2> QED BY <2>1, <2>2, <2>3, <2>4, <2>5 DEF FramesOK
<1> QED BY <1>1, <1>3, <1>4, <1>5, <1>6, <1>7, <1>8, <1>9 DEF IInv, ControlInv

(* The caller goes to sleep, as INT80_WAIT_TICKS and network_thread_block do it. *)
LEMMA BlockLists ==
  ASSUME IInv, current \in Tid, state[current] # "NULL", Block(current), current' = current
  PROVE  /\ state' \in [Tid -> States] /\ rq' \in Seq(Tid) /\ wl' \in Seq(Tid)
         /\ ReadyQueueExact' /\ WakeListExact' /\ OneRunning'
         /\ \A t \in Tid : state[t] = "NULL" <=> state'[t] = "NULL"
         /\ \A t \in Tid : state'[t] = "BLOCKED" => state[t] = "BLOCKED" \/ t = current
         /\ state'[current'] # "NULL"
<1>1. /\ state \in [Tid -> States] /\ rq \in Seq(Tid) /\ wl \in Seq(Tid) /\ Distinct(rq) /\ Distinct(wl)
      /\ \A t \in Tid : Contains(rq, t) <=> state[t] = "READY"
      /\ \A t \in Tid : Contains(wl, t) <=> state[t] = "BLOCKED"
      /\ \A t \in Tid : state[t] = "RUNNING" => t = current
  BY DEF IInv, TypeOK, ReadyQueueExact, WakeListExact, OneRunning
<1>2. state' = [state EXCEPT ![current] = "BLOCKED"]
  BY DEF Block
<1>3. state' \in [Tid -> States]
  BY <1>1, <1>2 DEF States
<1>4. \A t \in Tid : state'[t] = IF t = current THEN "BLOCKED" ELSE state[t]
  BY <1>1, <1>2
<1>5. /\ rq' \in Seq(Tid) /\ Distinct(rq') /\ \A u \in Tid : Contains(rq', u) <=> Contains(rq, u) /\ u # current
  BY <1>1, UnlinkFacts DEF Block
<1>6. /\ wl' \in Seq(Tid) /\ Distinct(wl') /\ \A u \in Tid : Contains(wl', u) <=> Contains(wl, u) \/ u = current
  BY <1>1, EnqueueFacts DEF Block
<1>7. ReadyQueueExact' /\ WakeListExact' /\ OneRunning'
  BY <1>1, <1>4, <1>5, <1>6 DEF ReadyQueueExact, WakeListExact, OneRunning
<1> QED BY <1>1, <1>3, <1>4, <1>5, <1>6, <1>7

(* What the code of a critical section finds. *)
LEMMA SectionFacts ==
  ASSUME IInv, NEW s \in Stk, NEW l \in CsLabels, Holding(s, l)
  PROVE  /\ Executing(s) /\ lock = s /\ pc[s] = l /\ pc[s] \in CsLabels /\ fault = "none" /\ cpu = s
         /\ loc[s] \in Locals /\ loc[s].tid \in {s, NoThread}
         /\ current \in {s, NoThread} /\ current \in Tid \cup {NoThread} /\ NoThread \notin Tid
         /\ current \in Tid => state[current] # "NULL"
         /\ l # "SchedReq" /\ current \in Tid => state[current] \in {"RUNNING", "TERMINATED"}
         /\ l = "KillReq" => loc[s].tgt \in Tid
         /\ l = "ExitReq" /\ loc[s].tid \in Tid => state[loc[s].tid] # "BLOCKED"
         /\ l = "CreateReq" => next_id \in Nat
<1>1. Executing(s) /\ lock = s /\ pc[s] = l /\ fault = "none" /\ cpu = s
  BY DEF Holding, Executing
<1>2. ~InWindow(s)
  BY <1>1 DEF InWindow, CsLabels
<1>3. NoThread \notin Tid
  BY DEF NoThread, Tid
<1> QED BY <1>1, <1>2, <1>3 DEF IInv, TypeOK, ControlInv, LocalsOK, CurrentOK, CurrentRuns

(* INT80_WAIT_TICKS puts its caller to sleep. *)
LEMMA WaitBodyIInv ==
  ASSUME IInv, NEW s \in Stk, WaitBody(s)
  PROVE  IInv'
<1> DEFINE r == [loc[s] EXCEPT !.ret = "wait", !.tid = current]
<1>0. Holding(s, "WaitReq") /\ "WaitReq" \in CsLabels
  BY DEF WaitBody, CsLabels
<1>1. /\ Executing(s) /\ lock = s /\ pc[s] \in CsLabels /\ fault = "none" /\ loc[s] \in Locals
      /\ current \in {s, NoThread} /\ current \in Tid \cup {NoThread} /\ NoThread \notin Tid
      /\ current \in Tid => state[current] # "NULL"
  BY <1>0, SectionFacts
<1>2. r \in Locals /\ r.rsi = loc[s].rsi /\ r.tid = current
  BY <1>1 DEF Locals, Stk, NoThread, BOOT
<1>3. /\ pc' = [pc EXCEPT ![s] = "SchedReq"] /\ loc' = [loc EXCEPT ![s] = r] /\ lock' = Free
      /\ UNCHANGED <<quantum, current, next_id, cpu, irq, rsp, hw, fault>>
  BY <1>1 DEF WaitBody, Goto, IInv, TypeOK
<1>4. /\ state' \in [Tid -> States] /\ rq' \in Seq(Tid) /\ wl' \in Seq(Tid)
      /\ ReadyQueueExact' /\ WakeListExact' /\ OneRunning'
      /\ \A t \in Tid : state[t] = "NULL" <=> state'[t] = "NULL"
      /\ \A t \in Tid : state'[t] = "BLOCKED" => state[t] = "BLOCKED" \/ t = s
      /\ current' \in Tid => state'[current'] # "NULL"
  <2>1. CASE current \in Tid /\ state[current] # "BLOCKED"
    <3>1. Block(current)
      BY <2>1, <1>1 DEF WaitBody, IsThread
    <3> QED BY <2>1, <3>1, <1>1, <1>3, BlockLists
  <2>2. CASE ~(current \in Tid /\ state[current] # "BLOCKED")
    <3>1. UNCHANGED <<state, rq, wl>>
      BY <2>2 DEF WaitBody, IsThread
    <3> QED BY <3>1, <1>1, <1>3 DEF IInv, TypeOK, ReadyQueueExact, WakeListExact, OneRunning
  <2> QED BY <2>1, <2>2
<1>5. wake_tick' \in [Tid -> Nat]
  <2>1. loc[s].wake \in Nat
    BY <1>1 DEF Locals
  <2>2. wake_tick \in [Tid -> Nat]
    BY DEF IInv, TypeOK
  <2> QED BY <2>1, <2>2 DEF WaitBody
<1> HIDE DEF r
<1> QED BY <1>1, <1>2, <1>3, <1>4, <1>5, SectionEnds

(* network_thread_block puts its caller to sleep. *)
LEMMA NetBodyIInv ==
  ASSUME IInv, NEW s \in Stk, NetBody(s)
  PROVE  IInv'
<1> DEFINE r == [loc[s] EXCEPT !.ret = "net", !.wake = NextTick]
<1>0. Holding(s, "NetReq") /\ "NetReq" \in CsLabels
  BY DEF NetBody, CsLabels
<1>1. /\ Executing(s) /\ lock = s /\ pc[s] \in CsLabels /\ fault = "none" /\ loc[s] \in Locals
      /\ current \in {s, NoThread} /\ current \in Tid \cup {NoThread} /\ NoThread \notin Tid
      /\ current \in Tid => state[current] # "NULL"
      /\ loc[s].tid \in {s, NoThread}
  BY <1>0, SectionFacts
<1>2. NextTick \in Nat
  BY DEF NextTick, IInv, TypeOK
<1>3. r \in Locals /\ r.rsi = loc[s].rsi /\ r.tid = loc[s].tid
  BY <1>1, <1>2 DEF Locals
<1>4. /\ pc' = [pc EXCEPT ![s] = "SchedReq"] /\ loc' = [loc EXCEPT ![s] = r] /\ lock' = Free
      /\ UNCHANGED <<quantum, current, next_id, cpu, irq, rsp, hw, fault>>
  BY <1>1 DEF NetBody, Goto, IInv, TypeOK
<1>5. /\ state' \in [Tid -> States] /\ rq' \in Seq(Tid) /\ wl' \in Seq(Tid)
      /\ ReadyQueueExact' /\ WakeListExact' /\ OneRunning'
      /\ \A t \in Tid : state[t] = "NULL" <=> state'[t] = "NULL"
      /\ \A t \in Tid : state'[t] = "BLOCKED" => state[t] = "BLOCKED" \/ t = s
      /\ current' \in Tid => state'[current'] # "NULL"
  <2>1. CASE current \in Tid /\ state[current] # "BLOCKED"
    <3>1. Block(current)
      BY <2>1, <1>1 DEF NetBody, IsThread
    <3> QED BY <2>1, <3>1, <1>1, <1>4, BlockLists
  <2>2. CASE ~(current \in Tid /\ state[current] # "BLOCKED")
    <3>1. UNCHANGED <<state, rq, wl>>
      BY <2>2 DEF NetBody, IsThread
    <3> QED BY <3>1, <1>1, <1>4 DEF IInv, TypeOK, ReadyQueueExact, WakeListExact, OneRunning
  <2> QED BY <2>1, <2>2
<1>6. wake_tick' \in [Tid -> Nat]
  BY <1>2 DEF NetBody, IInv, TypeOK
<1> HIDE DEF r
<1> QED BY <1>1, <1>3, <1>4, <1>5, <1>6, SectionEnds

(* A thread leaves both lists and is RUNNING or TERMINATED from then on. *)
LEMMA LeaveLists ==
  ASSUME IInv, NEW t \in Tid, state[t] # "NULL", NEW x \in {"RUNNING", "TERMINATED"},
         state' = [state EXCEPT ![t] = x], rq' = Unlink(rq, t),
         wl' = Unlink(wl, t) \/ (wl' = wl /\ state[t] # "BLOCKED")
  PROVE  /\ state' \in [Tid -> States] /\ rq' \in Seq(Tid) /\ wl' \in Seq(Tid)
         /\ ReadyQueueExact' /\ WakeListExact'
         /\ \A u \in Tid : state[u] = "NULL" <=> state'[u] = "NULL"
         /\ \A u \in Tid : state'[u] = "BLOCKED" => state[u] = "BLOCKED"
         /\ \A u \in Tid : state'[u] = IF u = t THEN x ELSE state[u]
<1>1. /\ state \in [Tid -> States] /\ rq \in Seq(Tid) /\ wl \in Seq(Tid) /\ Distinct(rq) /\ Distinct(wl)
      /\ \A u \in Tid : Contains(rq, u) <=> state[u] = "READY"
      /\ \A u \in Tid : Contains(wl, u) <=> state[u] = "BLOCKED"
  BY DEF IInv, TypeOK, ReadyQueueExact, WakeListExact
<1>2. state' \in [Tid -> States]
  BY <1>1 DEF States
<1>3. \A u \in Tid : state'[u] = IF u = t THEN x ELSE state[u]
  BY <1>1
<1>4. /\ rq' \in Seq(Tid) /\ Distinct(rq') /\ \A u \in Tid : Contains(rq', u) <=> Contains(rq, u) /\ u # t
  BY <1>1, UnlinkFacts
<1>5. /\ wl' \in Seq(Tid) /\ Distinct(wl') /\ \A u \in Tid : Contains(wl', u) <=> Contains(wl, u) /\ u # t
  <2>1. CASE wl' = Unlink(wl, t)
    BY <2>1, <1>1, UnlinkFacts
  <2>2. CASE wl' = wl /\ state[t] # "BLOCKED"
    BY <2>2, <1>1
  <2> QED BY <2>1, <2>2
<1>6. ReadyQueueExact' /\ WakeListExact'
  BY <1>1, <1>3, <1>4, <1>5 DEF ReadyQueueExact, WakeListExact
<1> QED BY <1>1, <1>2, <1>3, <1>4, <1>5, <1>6

(* INT80_WAIT_TICKS makes its caller the running thread by itself. *)
LEMMA WaitDoneIInv ==
  ASSUME IInv, NEW s \in Stk, WaitDone(s)
  PROVE  IInv'
<1>0. Holding(s, "WaitRecheck") /\ "WaitRecheck" \in CsLabels
  BY DEF WaitDone, CsLabels
<1>1. /\ Executing(s) /\ lock = s /\ pc[s] \in CsLabels /\ loc[s] \in Locals /\ loc[s].tid \in {s, NoThread}
      /\ current \in {s, NoThread} /\ current \in Tid \cup {NoThread} /\ NoThread \notin Tid
      /\ current \in Tid => state[current] \in {"RUNNING", "TERMINATED"}
  BY <1>0, SectionFacts
<1>2. NoLocals \in Locals /\ NoLocals.rsi = Stale /\ NoLocals.tid = NoThread
  BY DEF NoLocals, Locals, Stk, NoThread, BOOT
<1>3. /\ pc' = [pc EXCEPT ![s] = "User"] /\ loc' = [loc EXCEPT ![s] = NoLocals] /\ lock' = Free
      /\ UNCHANGED <<quantum, next_id, cpu, irq, rsp, hw, fault>>
  BY DEF WaitDone, Goto
<1>4. CASE IsThread(loc[s].tid)
  <2>1. s \in Tid /\ loc[s].tid = s /\ state[s] # "NULL"
    BY <1>1, <1>4 DEF IsThread
  <2>2. /\ wl' = Unlink(wl, s) /\ state' = [state EXCEPT ![s] = "RUNNING"]
        /\ wake_tick' = [wake_tick EXCEPT ![s] = 0] /\ rq' = Unlink(rq, s) /\ current' = s
    BY <1>4, <2>1 DEF WaitDone
  <2>3. /\ state' \in [Tid -> States] /\ rq' \in Seq(Tid) /\ wl' \in Seq(Tid)
        /\ ReadyQueueExact' /\ WakeListExact'
        /\ \A u \in Tid : state[u] = "NULL" <=> state'[u] = "NULL"
        /\ \A u \in Tid : state'[u] = "BLOCKED" => state[u] = "BLOCKED"
        /\ \A u \in Tid : state'[u] = IF u = s THEN "RUNNING" ELSE state[u]
    BY <2>1, <2>2, LeaveLists
  <2>4. OneRunning'
    BY <1>1, <2>1, <2>2, <2>3 DEF IInv, OneRunning
  <2>5. wake_tick' \in [Tid -> Nat]
    BY <2>2 DEF IInv, TypeOK
  <2> QED BY <1>1, <1>2, <1>3, <2>1, <2>2, <2>3, <2>4, <2>5, SectionEnds
<1>5. CASE ~IsThread(loc[s].tid)
  <2>1. UNCHANGED <<wl, state, wake_tick, rq, current>>
    BY <1>5 DEF WaitDone
  <2>2. /\ state' \in [Tid -> States] /\ rq' \in Seq(Tid) /\ wl' \in Seq(Tid) /\ wake_tick' \in [Tid -> Nat]
        /\ ReadyQueueExact' /\ WakeListExact' /\ OneRunning'
    BY <2>1 DEF IInv, TypeOK, ReadyQueueExact, WakeListExact, OneRunning
  <2> QED BY <1>1, <1>2, <1>3, <2>1, <2>2, SectionEnds
<1> QED BY <1>4, <1>5

(* thread_exit_current does not unlink from the wake list; it need not. *)
LEMMA ExitBodyIInv ==
  ASSUME IInv, NEW s \in Stk, ExitBody(s)
  PROVE  IInv'
<1> DEFINE r == [loc[s] EXCEPT !.ret = "exit"]
<1>0. Holding(s, "ExitReq") /\ "ExitReq" \in CsLabels
  BY DEF ExitBody, CsLabels
<1>1. /\ Executing(s) /\ lock = s /\ pc[s] \in CsLabels /\ loc[s] \in Locals /\ loc[s].tid \in {s, NoThread}
      /\ current \in {s, NoThread} /\ current \in Tid \cup {NoThread} /\ NoThread \notin Tid
      /\ current \in Tid => state[current] # "NULL"
      /\ loc[s].tid \in Tid => state[loc[s].tid] # "BLOCKED"
  BY <1>0, SectionFacts
<1>2. r \in Locals /\ r.rsi = loc[s].rsi /\ r.tid = loc[s].tid
  BY <1>1 DEF Locals
<1>3. /\ pc' = [pc EXCEPT ![s] = "SchedReq"] /\ loc' = [loc EXCEPT ![s] = r] /\ lock' = Free
      /\ UNCHANGED <<wl, quantum, wake_tick, current, next_id, cpu, irq, rsp, hw, fault>>
  BY <1>1 DEF ExitBody, Goto, IInv, TypeOK
<1>4. wake_tick' \in [Tid -> Nat]
  BY <1>3 DEF IInv, TypeOK
<1> HIDE DEF r
<1>5. CASE IsThread(loc[s].tid)
  <2>1. s \in Tid /\ loc[s].tid = s /\ state[s] # "NULL"
    BY <1>1, <1>5 DEF IsThread
  <2>2. state' = [state EXCEPT ![s] = "TERMINATED"] /\ rq' = Unlink(rq, s) /\ wl' = wl /\ state[s] # "BLOCKED"
    BY <1>1, <1>3, <1>5, <2>1 DEF ExitBody
  <2>3. /\ state' \in [Tid -> States] /\ rq' \in Seq(Tid) /\ wl' \in Seq(Tid)
        /\ ReadyQueueExact' /\ WakeListExact'
        /\ \A u \in Tid : state[u] = "NULL" <=> state'[u] = "NULL"
        /\ \A u \in Tid : state'[u] = "BLOCKED" => state[u] = "BLOCKED"
        /\ \A u \in Tid : state'[u] = IF u = s THEN "TERMINATED" ELSE state[u]
    BY <2>1, <2>2, LeaveLists
  <2>4. OneRunning'
    BY <1>3, <2>3 DEF IInv, OneRunning
  <2> QED BY <1>1, <1>2, <1>3, <1>4, <2>1, <2>3, <2>4, SectionEnds
<1>6. CASE ~IsThread(loc[s].tid)
  <2>1. UNCHANGED <<wl, state, rq, current>>
    BY <1>3, <1>6 DEF ExitBody
  <2>2. /\ state' \in [Tid -> States] /\ rq' \in Seq(Tid) /\ wl' \in Seq(Tid)
        /\ ReadyQueueExact' /\ WakeListExact' /\ OneRunning'
    BY <2>1 DEF IInv, TypeOK, ReadyQueueExact, WakeListExact, OneRunning
  <2> QED BY <1>1, <1>2, <1>3, <1>4, <2>1, <2>2, SectionEnds
<1> QED BY <1>5, <1>6

(* thread_kill of any thread by any other; the NULL dereference stops the   *)
(* kernel and changes nothing else.                                         *)
LEMMA KillBodyIInv ==
  ASSUME IInv, NEW s \in Stk, KillBody(s)
  PROVE  IInv'
<1> DEFINE t == loc[s].tgt
<1>0. Holding(s, "KillReq") /\ "KillReq" \in CsLabels
  BY DEF KillBody, CsLabels
<1>1. /\ Executing(s) /\ lock = s /\ pc[s] \in CsLabels /\ loc[s] \in Locals /\ t \in Tid
      /\ current \in {s, NoThread} /\ current \in Tid \cup {NoThread} /\ NoThread \notin Tid
      /\ current \in Tid => state[current] \in {"RUNNING", "TERMINATED"}
  BY <1>0, SectionFacts
<1>2. NoLocals \in Locals /\ NoLocals.rsi = Stale /\ NoLocals.tid = NoThread
  BY DEF NoLocals, Locals, Stk, NoThread, BOOT
<1>3. CASE state[t] # "NULL"
  <2>1. /\ pc' = [pc EXCEPT ![s] = "User"] /\ loc' = [loc EXCEPT ![s] = NoLocals] /\ lock' = Free
        /\ UNCHANGED <<wake_tick, current, quantum, next_id, cpu, irq, rsp, hw, fault>>
        /\ wl' = Unlink(wl, t) /\ state' = [state EXCEPT ![t] = "TERMINATED"] /\ rq' = Unlink(rq, t)
    BY <1>3 DEF KillBody, Goto
  <2> HIDE DEF t
  <2>3. /\ state' \in [Tid -> States] /\ rq' \in Seq(Tid) /\ wl' \in Seq(Tid)
        /\ ReadyQueueExact' /\ WakeListExact'
        /\ \A u \in Tid : state[u] = "NULL" <=> state'[u] = "NULL"
        /\ \A u \in Tid : state'[u] = "BLOCKED" => state[u] = "BLOCKED"
        /\ \A u \in Tid : state'[u] = IF u = t THEN "TERMINATED" ELSE state[u]
    BY <1>1, <1>3, <2>1, LeaveLists
  <2>4. OneRunning'
    BY <2>1, <2>3 DEF IInv, OneRunning
  <2>5. wake_tick' \in [Tid -> Nat]
    BY <2>1 DEF IInv, TypeOK
  <2>6. current' \in Tid => state'[current'] \in {"RUNNING", "TERMINATED"}
    BY <1>1, <2>1, <2>3
  <2> QED BY <1>1, <1>2, <2>1, <2>3, <2>4, <2>5, <2>6, SectionEnds
<1>4. CASE state[t] = "NULL"
  <2>1. fault' = "null_thread" /\ UNCHANGED <<lists, lock, ctx, hw>>
    BY <1>4 DEF KillBody, lists, ctx, hw
  <2> QED BY <2>1, <1>1 DEF IInv, lists, ctx, hw, TypeOK, ControlInv, ReadyQueueExact, WakeListExact, OneRunning,
       LocalsOK, FreshIds, HandlerOK, LockOK, CurrentOK, CurrentRuns, FramesOK, FrameOf, InWindow, Executing
<1> QED BY <1>3, <1>4

(* FrameOf in the next state, for a thread and a stack named in this one. *)
FrameAfter(t, k) ==
  \/ k \in Tid /\ state'[k] = "NULL"
  \/ k # cpu' /\ IF pc'[k] \in {"Sw1", "Sw2"} THEN loc'[k].nxt = t ELSE k = t

(* FramesOK, put together in the next state. *)
LEMMA FramesAfter ==
  ASSUME \A t \in Tid : rsp'[t] # Stale => FrameAfter(t, rsp'[t]),
         \A u \in Stk : pc'[u] = "Sw2" /\ loc'[u].rsi # Stale => FrameAfter(loc'[u].nxt, loc'[u].rsi)
  PROVE  FramesOK'
BY DEF FramesOK, FrameOf, FrameAfter, InWindow

(* thread_create: the id handed out was never used, so no list, saved frame *)
(* or register can name the new thread already.                             *)
LEMMA CreateIInv ==
  ASSUME IInv, NEW s \in Stk, CreateNoStack(s) \/ CreateOk(s)
  PROVE  IInv'
<1>0. Holding(s, "CreateReq") /\ "CreateReq" \in CsLabels
  BY DEF CreateNoStack, CreateOk, CsLabels
<1>1. /\ Executing(s) /\ lock = s /\ pc[s] = "CreateReq" /\ fault = "none" /\ cpu = s
      /\ current \in {s, NoThread} /\ current \in Tid \cup {NoThread} /\ NoThread \notin Tid
      /\ current \in Tid => state[current] \in {"RUNNING", "TERMINATED"}
  BY <1>0, SectionFacts
<1>2. /\ next_id \in Tid /\ next_id' = next_id + 1 /\ next_id' \in 0 .. MaxThreads
      /\ \A t \in Tid : t >= next_id + 1 => t >= next_id /\ t # next_id
  BY DEF CreateNoStack, CreateOk, IInv, TypeOK, Tid
<1>3. /\ pc' = [pc EXCEPT ![s] = "User"] /\ lock' = Free
      /\ UNCHANGED <<wl, current, cpu, irq, loc, hw, fault>>
  BY DEF CreateNoStack, CreateOk, Goto
<1>4. pc'[s] = "User" /\ pc' \in [Stk -> PcLabels] /\ \A u \in Stk \ {s} : pc'[u] = pc[u]
  BY <1>3 DEF IInv, TypeOK, PcLabels
<1>5. \A t \in Tid : t >= next_id => /\ state[t] = "NULL" /\ t # s /\ pc[t] = "New" /\ irq[t] = "none"
                                     /\ \A u \in Tid : rsp[u] # t
                                     /\ \A u \in Stk : loc[u].rsi # t
  BY <1>1 DEF IInv, ControlInv, FreshIds
<1>6. HandlerOK'
  BY <1>1, <1>3 DEF hw, IInv, ControlInv, HandlerOK, Executing
<1>7. LockOK'
  BY <1>1, <1>3 DEF IInv, TypeOK, ControlInv, LockOK, Executing, Free, IrqHolds, Stk, Tid, BOOT
<1>8. CurrentOK'
  BY <1>1, <1>3, <1>4 DEF CurrentOK, InWindow
<1>9. CASE CreateNoStack(s)
  <2>1. UNCHANGED <<state, rq, quantum, wake_tick, rsp>>
    BY <1>9 DEF CreateNoStack
  <2>2. TypeOK'
    BY <1>2, <1>3, <1>4, <2>1 DEF IInv, TypeOK, hw
  <2>3. ReadyQueueExact' /\ WakeListExact' /\ OneRunning'
    BY <1>3, <2>1 DEF IInv, ReadyQueueExact, WakeListExact, OneRunning
  <2>4. LocalsOK'
    BY <1>3, <1>4, <2>1 DEF IInv, ControlInv, LocalsOK, InWindow
  <2>5. FreshIds'
    BY <1>1, <1>2, <1>3, <1>4, <1>5, <2>1 DEF FreshIds, Stk
  <2>6. CurrentRuns'
    BY <1>1, <1>3, <2>1 DEF CurrentRuns
  <2>7. FramesOK'
    BY <1>1, <1>3, <1>4, <2>1 DEF IInv, ControlInv, FramesOK, FrameOf, InWindow, Stk
  <2> QED BY <2>2, <2>3, <2>4, <2>5, <2>6, <2>7, <1>6, <1>7, <1>8 DEF IInv, ControlInv
<1>10. CASE CreateOk(s)
  <2>1. /\ state' = [state EXCEPT ![next_id] = "READY"] /\ quantum' = [quantum EXCEPT ![next_id] = TimeSlice]
        /\ wake_tick' = [wake_tick EXCEPT ![next_id] = 0] /\ rq' = Enqueue(rq, next_id)
        /\ rsp' = [rsp EXCEPT ![next_id] = next_id]
    BY <1>10 DEF CreateOk
  <2>2. /\ state' \in [Tid -> States] /\ rq \in Seq(Tid) /\ Distinct(rq)
        /\ \A t \in Tid : state'[t] = IF t = next_id THEN "READY" ELSE state[t]
    BY <1>2, <2>1 DEF IInv, TypeOK, States, ReadyQueueExact
  <2>3. rq' \in Seq(Tid) /\ Distinct(rq') /\ \A u \in Tid : Contains(rq', u) <=> Contains(rq, u) \/ u = next_id
    BY <1>2, <2>1, <2>2, EnqueueFacts
  <2>4. rsp' \in [Tid -> Stk \cup {Stale}] /\ \A t \in Tid : rsp'[t] = IF t = next_id THEN next_id ELSE rsp[t]
    BY <1>2, <2>1 DEF IInv, TypeOK, Stk
  <2>5. TypeOK'
    <3>1. quantum' \in [Tid -> Int] /\ wake_tick' \in [Tid -> Nat]
      BY <1>2, <2>1 DEF IInv, TypeOK
    <3> QED BY <1>2, <1>3, <1>4, <2>2, <2>3, <2>4, <3>1 DEF IInv, TypeOK, hw
  <2>6. ReadyQueueExact' /\ WakeListExact' /\ OneRunning'
    BY <1>2, <1>3, <1>5, <2>2, <2>3 DEF IInv, TypeOK, ReadyQueueExact, WakeListExact, OneRunning, Tid
  <2>7. LocalsOK'
    BY <1>3, <1>4, <2>2 DEF IInv, TypeOK, ControlInv, LocalsOK, InWindow
  <2>8. FreshIds'
    <3> SUFFICES ASSUME NEW t \in Tid, t >= next_id + 1
                 PROVE  /\ state'[t] = "NULL" /\ t # cpu' /\ pc'[t] = "New" /\ irq'[t] = "none"
                        /\ \A u \in Tid : rsp'[u] # t
                        /\ \A u \in Stk : loc'[u].rsi # t
      BY <1>2 DEF FreshIds
    <3>1. t >= next_id /\ t # next_id /\ t \in Stk
      BY <1>2 DEF Stk
    <3>2. /\ state[t] = "NULL" /\ t # s /\ pc[t] = "New" /\ irq[t] = "none"
          /\ \A u \in Tid : rsp[u] # t
          /\ \A u \in Stk : loc[u].rsi # t
      BY <3>1, <1>5
    <3> QED BY <3>1, <3>2, <1>1, <1>3, <1>4, <2>2, <2>4
  <2>9. CurrentRuns'
    BY <1>1, <1>2, <1>3, <1>5, <2>2 DEF CurrentRuns, Tid
  <2>10. FramesOK'
    <3>0. next_id >= next_id /\ next_id \in Stk /\ FramesOK
      BY <1>2 DEF Tid, Stk, IInv, ControlInv
    <3>1. FrameAfter(next_id, next_id)
      BY <1>1, <1>2, <1>3, <1>4, <1>5, <3>0 DEF FrameAfter
    <3>2. \A t \in Tid, k \in Stk \ {next_id} : FrameOf(t, k) => FrameAfter(t, k)
      BY <1>1, <1>2, <1>3, <1>4, <2>2 DEF FrameOf, FrameAfter, InWindow
    <3>3. ASSUME NEW t \in Tid, rsp'[t] # Stale PROVE FrameAfter(t, rsp'[t])
      <4>1. CASE t = next_id
        BY <4>1, <2>4, <3>1
      <4>2. CASE t # next_id
        <5>1. rsp'[t] = rsp[t] /\ rsp[t] \in Stk \ {next_id}
          BY <3>3, <4>2, <2>4, <1>2, <1>5, <3>0 DEF IInv, TypeOK
        <5> QED BY <5>1, <3>0, <3>2, <3>3, <1>1 DEF FramesOK
      <4> QED BY <4>1, <4>2
    <3>4. ASSUME NEW u \in Stk, pc'[u] = "Sw2", loc'[u].rsi # Stale
          PROVE  FrameAfter(loc'[u].nxt, loc'[u].rsi)
      <4>1. u # s /\ pc[u] = "Sw2" /\ loc'[u] = loc[u]
        BY <1>3, <1>4, <3>4
      <4>2. loc[u] \in Locals /\ loc[u].nxt \in Tid
        BY <4>1 DEF IInv, TypeOK, ControlInv, LocalsOK, InWindow
      <4>3. loc[u].rsi \in Stk \ {next_id}
        BY <4>1, <4>2, <1>2, <1>5, <3>0, <3>4 DEF Locals
      <4> QED BY <4>1, <4>2, <4>3, <3>0, <3>2, <3>4, <1>1 DEF FramesOK
    <3> QED BY <3>3, <3>4, FramesAfter
  <2> QED BY <2>5, <2>6, <2>7, <2>8, <2>9, <2>10, <1>6, <1>7, <1>8 DEF IInv, ControlInv
<1> QED BY <1>9, <1>10

(* thread_reap_terminated: a freed thread was in no list; whatever still    *)
(* names its stack names a stack that is never resumed.                     *)
LEMMA ReapIInv ==
  ASSUME IInv, ReapOne, fault = "none", UNCHANGED <<lock, cpu, hw, fault>>,
         (irq[cpu] = "none" /\ pc[cpu] = "SchedReq") \/ irq[cpu] = "core"
  PROVE  IInv'
<1>1. PICK t \in Tid :
        /\ state[t] = "TERMINATED" /\ t # current
        /\ rq' = Unlink(rq, t) /\ state' = [state EXCEPT ![t] = "NULL"]
        /\ quantum' = [quantum EXCEPT ![t] = 0] /\ wake_tick' = [wake_tick EXCEPT ![t] = 0]
        /\ rsp' = [rsp EXCEPT ![t] = Stale]
        /\ IF t = cpu THEN UNCHANGED <<pc, irq, loc>>
           ELSE /\ pc' = [pc EXCEPT ![t] = "New"] /\ irq' = [irq EXCEPT ![t] = "none"]
                /\ loc' = [loc EXCEPT ![t] = NoLocals]
  BY DEF ReapOne, Reapable
<1>2. UNCHANGED <<wl, current, next_id, lock, cpu, cursor, isr, now, fault>>
  BY DEF ReapOne, hw
<1>3. /\ pc \in [Stk -> PcLabels] /\ irq \in [Stk -> IrqLabels] /\ loc \in [Stk -> Locals] /\ t \in Stk
      /\ state \in [Tid -> States] /\ rsp \in [Tid -> Stk \cup {Stale}] /\ rq \in Seq(Tid) /\ Distinct(rq)
      /\ cpu \in Stk /\ NoThread \in Stk
  BY DEF IInv, TypeOK, ReadyQueueExact, Stk, NoThread, BOOT
<1>4. NoLocals \in Locals /\ NoLocals.rsi = Stale /\ NoLocals.tid = NoThread /\ "New" \in PcLabels /\ "none" \in IrqLabels
  BY <1>3 DEF NoLocals, Locals, PcLabels, IrqLabels
<1>5. /\ pc' \in [Stk -> PcLabels] /\ irq' \in [Stk -> IrqLabels] /\ loc' \in [Stk -> Locals]
      /\ \A u \in Stk : u # t \/ u = cpu => pc'[u] = pc[u] /\ irq'[u] = irq[u] /\ loc'[u] = loc[u]
      /\ t # cpu => pc'[t] = "New" /\ irq'[t] = "none" /\ loc'[t] = NoLocals
  BY <1>1, <1>3, <1>4
<1>6. state' \in [Tid -> States] /\ \A u \in Tid : state'[u] = IF u = t THEN "NULL" ELSE state[u]
  BY <1>1, <1>3 DEF States
<1>7. rsp' \in [Tid -> Stk \cup {Stale}] /\ \A u \in Tid : rsp'[u] = IF u = t THEN Stale ELSE rsp[u]
  BY <1>1, <1>3
<1>8. rq' \in Seq(Tid) /\ Distinct(rq') /\ \A u \in Tid : Contains(rq', u) <=> Contains(rq, u) /\ u # t
  BY <1>1, <1>3, UnlinkFacts
<1>9. TypeOK'
  <2>1. quantum' \in [Tid -> Int] /\ wake_tick' \in [Tid -> Nat]
    BY <1>1 DEF IInv, TypeOK
  <2> QED BY <1>2, <1>5, <1>6, <1>7, <1>8, <2>1 DEF IInv, TypeOK
<1>10. ReadyQueueExact' /\ WakeListExact' /\ OneRunning'
  BY <1>1, <1>2, <1>6, <1>8 DEF IInv, ReadyQueueExact, WakeListExact, OneRunning
<1>11. LocalsOK'
  <2> SUFFICES ASSUME NEW u \in Stk
               PROVE  /\ pc'[u] = "KillReq" => loc'[u].tgt \in Tid
                      /\ pc'[u] \in {"Sw1", "Sw2"} => loc'[u].nxt \in Tid /\ loc'[u].old \in {u, NoThread}
                      /\ loc'[u].tid \in {u, NoThread}
                      /\ pc'[u] = "ExitReq" /\ loc'[u].tid \in Tid => state'[loc'[u].tid] # "BLOCKED"
    BY DEF LocalsOK, InWindow
  <2>1. CASE u = t /\ t # cpu
    <3>1. pc'[u] = "New" /\ loc'[u] = NoLocals
      BY <2>1, <1>5
    <3> QED BY <3>1, <1>4
  <2>2. CASE u # t \/ u = cpu
    BY <2>2, <1>5, <1>6 DEF IInv, ControlInv, LocalsOK, InWindow
  <2> QED BY <2>1, <2>2
<1>12. FreshIds'
  <2> SUFFICES ASSUME NEW u \in Tid, u >= next_id
               PROVE  /\ state'[u] = "NULL" /\ u # cpu' /\ pc'[u] = "New" /\ irq'[u] = "none"
                      /\ \A v \in Tid : rsp'[v] # u
                      /\ \A v \in Stk : loc'[v].rsi # u
    BY <1>2 DEF FreshIds
  <2>1. /\ state[u] = "NULL" /\ u # cpu /\ pc[u] = "New" /\ irq[u] = "none"
        /\ \A v \in Tid : rsp[v] # u
        /\ \A v \in Stk : loc[v].rsi # u
    BY DEF IInv, ControlInv, FreshIds
  <2>2. u # Stale /\ u \in Stk /\ u # t
    BY <2>1, <1>1 DEF Stale, Stk, Tid
  <2>3. \A v \in Stk : loc'[v].rsi # u
    BY <2>1, <2>2, <1>4, <1>5
  <2> QED BY <2>1, <2>2, <2>3, <1>2, <1>5, <1>6, <1>7
<1>13. HandlerOK'
  <2>1. OldRuns => OldRuns'
    BY <1>1, <1>2, <1>6 DEF OldRuns, IsThread
  <2> QED BY <2>1, <1>2, <1>3, <1>5 DEF IInv, ControlInv, HandlerOK
<1>14. LockOK'
  BY <1>2, <1>3, <1>5 DEF IInv, ControlInv, LockOK
<1>15. CurrentOK' /\ CurrentRuns'
  BY <1>1, <1>2, <1>3, <1>5, <1>6 DEF IInv, ControlInv, CurrentOK, CurrentRuns, InWindow
<1>16. FramesOK'
  <2>0. FramesOK /\ LocalsOK
    BY DEF IInv, ControlInv
  <2>1. \A v \in Tid, k \in Stk : FrameOf(v, k) => FrameAfter(v, k)
    BY <1>1, <1>2, <1>5, <1>6 DEF FrameOf, FrameAfter, InWindow, Stk
  <2>2. ASSUME NEW v \in Tid, rsp'[v] # Stale PROVE FrameAfter(v, rsp'[v])
    BY <1>3, <1>7, <2>0, <2>1, <2>2 DEF FramesOK
  <2>3. ASSUME NEW u \in Stk, pc'[u] = "Sw2", loc'[u].rsi # Stale
        PROVE  FrameAfter(loc'[u].nxt, loc'[u].rsi)
    <3>1. pc[u] = "Sw2" /\ loc'[u] = loc[u]
      BY <2>3, <1>5
    <3>2. loc[u] \in Locals /\ loc[u].nxt \in Tid
      BY <3>1, <2>0, <1>3 DEF LocalsOK, InWindow
    <3>3. loc[u].rsi \in Stk
      BY <3>1, <3>2, <2>3 DEF Locals
    <3> QED BY <3>1, <3>2, <3>3, <2>0, <2>1, <2>3 DEF FramesOK
  <2> QED BY <2>2, <2>3, FramesAfter
<1> QED BY <1>9, <1>10, <1>11, <1>12, <1>13, <1>14, <1>15, <1>16 DEF IInv, ControlInv

(* schedule_core after it has put the running thread back: nobody runs, and *)
(* the queue holds exactly the READY threads.                               *)
LEMMA OldFacts ==
  ASSUME IInv
  PROVE  /\ StateWithOld \in [Tid -> States] /\ RqWithOld \in Seq(Tid) /\ Distinct(RqWithOld)
         /\ \A u \in Tid : Contains(RqWithOld, u) <=> StateWithOld[u] = "READY"
         /\ \A u \in Tid : /\ StateWithOld[u] # "RUNNING"
                           /\ StateWithOld[u] = "NULL" <=> state[u] = "NULL"
                           /\ StateWithOld[u] = "BLOCKED" <=> state[u] = "BLOCKED"
<1>1. /\ state \in [Tid -> States] /\ rq \in Seq(Tid) /\ Distinct(rq)
      /\ \A u \in Tid : Contains(rq, u) <=> state[u] = "READY"
      /\ \A u \in Tid : state[u] = "RUNNING" => u = current
  BY DEF IInv, TypeOK, ReadyQueueExact, OneRunning
<1>2. CASE OldRuns
  <2>1. current \in Tid /\ state[current] = "RUNNING"
    BY <1>2 DEF OldRuns, IsThread
  <2>2. StateWithOld = [state EXCEPT ![current] = "READY"] /\ RqWithOld = Enqueue(rq, current)
    BY <1>2 DEF StateWithOld, RqWithOld
  <2>3. \A u \in Tid : StateWithOld[u] = IF u = current THEN "READY" ELSE state[u]
    BY <2>2, <1>1
  <2>4. StateWithOld \in [Tid -> States]
    BY <2>2, <1>1 DEF States
  <2>5. /\ RqWithOld \in Seq(Tid) /\ Distinct(RqWithOld)
        /\ \A u \in Tid : Contains(RqWithOld, u) <=> Contains(rq, u) \/ u = current
    BY <1>1, <2>1, <2>2, EnqueueFacts
  <2> QED BY <1>1, <2>1, <2>3, <2>4, <2>5
<1>3. CASE ~OldRuns
  <2>1. StateWithOld = state /\ RqWithOld = rq
    BY <1>3 DEF StateWithOld, RqWithOld
  <2>2. \A u \in Tid : state[u] # "RUNNING"
    BY <1>1, <1>3 DEF OldRuns, IsThread
  <2> QED BY <1>1, <2>1, <2>2
<1> QED BY <1>2, <1>3

(* schedule_core keeps the lists exact, and the thread it names runs. *)
LEMMA CoreLists ==
  ASSUME IInv, CoreIdle \/ CoreSame \/ CoreOther
  PROVE  /\ state' \in [Tid -> States] /\ rq' \in Seq(Tid) /\ quantum' \in [Tid -> Int]
         /\ current' \in Tid \cup {NoThread}
         /\ UNCHANGED <<wl, wake_tick, next_id>>
         /\ ReadyQueueExact' /\ WakeListExact' /\ OneRunning'
         /\ \A u \in Tid : state[u] = "NULL" <=> state'[u] = "NULL"
         /\ \A u \in Tid : state'[u] = "BLOCKED" => state[u] = "BLOCKED"
         /\ current' \in Tid => state'[current'] = "RUNNING"
<1>1. /\ StateWithOld \in [Tid -> States] /\ RqWithOld \in Seq(Tid) /\ Distinct(RqWithOld)
      /\ \A u \in Tid : Contains(RqWithOld, u) <=> StateWithOld[u] = "READY"
      /\ \A u \in Tid : /\ StateWithOld[u] # "RUNNING"
                        /\ StateWithOld[u] = "NULL" <=> state[u] = "NULL"
                        /\ StateWithOld[u] = "BLOCKED" <=> state[u] = "BLOCKED"
  BY OldFacts
<1>2. /\ quantum \in [Tid -> Int] /\ TimeSlice \in Int /\ NoThread \notin Tid
      /\ current \in Tid \cup {NoThread} /\ Distinct(wl)
      /\ \A u \in Tid : Contains(wl, u) <=> state[u] = "BLOCKED"
  BY DEF IInv, TypeOK, NoThread, Tid, WakeListExact
<1>3. CASE CoreIdle
  <2>1. /\ RqWithOld = <<>> /\ rq' = RqWithOld /\ state' = StateWithOld /\ current' = NoThread
        /\ UNCHANGED <<wl, quantum, wake_tick, next_id>>
    BY <1>3 DEF CoreIdle
  <2> QED BY <1>1, <1>2, <2>1 DEF ReadyQueueExact, WakeListExact, OneRunning
<1>4. CASE CoreSame \/ CoreOther
  <2> DEFINE n == Head(RqWithOld)
  <2>1. /\ n \in Tid /\ Contains(RqWithOld, n) /\ Tail(RqWithOld) \in Seq(Tid) /\ Distinct(Tail(RqWithOld))
        /\ \A u \in Tid : Contains(Tail(RqWithOld), u) <=> Contains(RqWithOld, u) /\ u # n
    BY <1>1, <1>4, DequeueFacts DEF CoreSame, CoreOther
  <2>2. /\ state' = [StateWithOld EXCEPT ![n] = "RUNNING"] /\ rq' = Tail(RqWithOld) /\ current' = n
        /\ UNCHANGED <<wl, wake_tick, next_id>>
    BY <1>4 DEF CoreSame, CoreOther
  <2>3. quantum' \in [Tid -> Int]
    <3>1. CASE CoreSame
      BY <3>1, <1>2 DEF CoreSame
    <3>2. CASE CoreOther
      BY <3>2, <1>2 DEF CoreOther
    <3> QED BY <1>4, <3>1, <3>2
  <2> HIDE DEF n
  <2>4. state' \in [Tid -> States] /\ \A u \in Tid : state'[u] = IF u = n THEN "RUNNING" ELSE StateWithOld[u]
    BY <1>1, <2>1, <2>2 DEF States
  <2>5. ReadyQueueExact'
    BY <1>1, <2>1, <2>2, <2>4 DEF ReadyQueueExact
  <2>6. \A u \in Tid : /\ state[u] = "NULL" <=> state'[u] = "NULL"
                       /\ state[u] = "BLOCKED" <=> state'[u] = "BLOCKED"
    BY <1>1, <2>1, <2>4
  <2>7. WakeListExact'
    BY <1>2, <2>2, <2>6 DEF WakeListExact
  <2>8. OneRunning'
    BY <1>1, <2>2, <2>4 DEF OneRunning
  <2> QED BY <2>1, <2>2, <2>3, <2>4, <2>5, <2>6, <2>7, <2>8
<1> QED BY <1>3, <1>4

(* scheduler() decides: stay, or go into the switch window with the lock    *)
(* already released.                                                        *)
LEMMA SchedDecides ==
  ASSUME IInv, NEW s \in Stk, SchedStay(s) \/ SchedPick(s)
  PROVE  IInv'
<1>0. Holding(s, "SchedReq") /\ "SchedReq" \in CsLabels
  BY DEF SchedStay, SchedPick, CsLabels
<1>1. /\ Executing(s) /\ lock = s /\ pc[s] = "SchedReq" /\ fault = "none" /\ cpu = s /\ irq[s] = "none"
      /\ loc[s] \in Locals /\ loc[s].tid \in {s, NoThread}
      /\ current \in {s, NoThread} /\ current \in Tid \cup {NoThread} /\ NoThread \notin Tid
  BY <1>0, SectionFacts DEF Executing
<1>2. /\ state' \in [Tid -> States] /\ rq' \in Seq(Tid) /\ quantum' \in [Tid -> Int]
      /\ current' \in Tid \cup {NoThread}
      /\ UNCHANGED <<wl, wake_tick, next_id>>
      /\ ReadyQueueExact' /\ WakeListExact' /\ OneRunning'
      /\ \A u \in Tid : state[u] = "NULL" <=> state'[u] = "NULL"
      /\ \A u \in Tid : state'[u] = "BLOCKED" => state[u] = "BLOCKED"
      /\ current' \in Tid => state'[current'] = "RUNNING"
  BY CoreLists DEF SchedStay, SchedPick
<1>3. lock' = Free /\ UNCHANGED <<cpu, irq, rsp, cursor, isr, now, fault>>
  BY DEF SchedStay, SchedPick, hw
<1>4. PICK l \in {"SchedRet", "Sw1"}, r \in Locals :
        /\ pc' = [pc EXCEPT ![s] = l] /\ loc' = [loc EXCEPT ![s] = r]
        /\ r.rsi = loc[s].rsi /\ r.tid = loc[s].tid
        /\ l = "Sw1" => r.nxt \in Tid /\ r.old \in {s, NoThread} /\ current' = r.nxt
        /\ l = "SchedRet" => current' \in {s, NoThread}
  <2>1. CASE SchedStay(s)
    <3>1. pc' = [pc EXCEPT ![s] = "SchedRet"] /\ loc' = [loc EXCEPT ![s] = loc[s]]
      BY <2>1 DEF SchedStay, Goto, IInv, TypeOK
    <3>2. current' \in {s, NoThread}
      BY <2>1, <1>1 DEF SchedStay, CoreIdle, CoreSame
    <3> QED BY <3>1, <3>2, <1>1
  <2>2. CASE SchedPick(s)
    <3> DEFINE r == [loc[s] EXCEPT !.old = OldSlot, !.nxt = Head(RqWithOld)]
    <3>1. OldSlot \in {s, NoThread} /\ OldSlot \in Stk
      BY <1>1 DEF OldSlot, Stk, NoThread, BOOT
    <3>2. Head(RqWithOld) \in Tid /\ current' = Head(RqWithOld)
      BY <2>2, OldFacts, DequeueFacts DEF SchedPick, CoreOther
    <3>3. r \in Locals /\ r.rsi = loc[s].rsi /\ r.tid = loc[s].tid /\ r.nxt = Head(RqWithOld) /\ r.old = OldSlot
      BY <3>1, <3>2, <1>1 DEF Locals, Stk
    <3>4. pc' = [pc EXCEPT ![s] = "Sw1"] /\ loc' = [loc EXCEPT ![s] = r]
      BY <2>2 DEF SchedPick, Goto, IInv, TypeOK
    <3> HIDE DEF r
    <3> QED BY <3>1, <3>2, <3>3, <3>4
  <2> QED BY <2>1, <2>2
<1>5. /\ pc \in [Stk -> PcLabels] /\ loc \in [Stk -> Locals]
      /\ pc' \in [Stk -> PcLabels] /\ loc' \in [Stk -> Locals] /\ pc'[s] = l /\ loc'[s] = r
      /\ \A u \in Stk \ {s} : pc'[u] = pc[u] /\ loc'[u] = loc[u]
  BY <1>4 DEF IInv, TypeOK, PcLabels
<1>6. TypeOK'
  BY <1>2, <1>3, <1>5 DEF IInv, TypeOK
<1>7. LocalsOK'
  <2> SUFFICES ASSUME NEW u \in Stk
               PROVE  /\ pc'[u] = "KillReq" => loc'[u].tgt \in Tid
                      /\ pc'[u] \in {"Sw1", "Sw2"} => loc'[u].nxt \in Tid /\ loc'[u].old \in {u, NoThread}
                      /\ loc'[u].tid \in {u, NoThread}
                      /\ pc'[u] = "ExitReq" /\ loc'[u].tid \in Tid => state'[loc'[u].tid] # "BLOCKED"
    BY DEF LocalsOK, InWindow
  <2>1. CASE u = s
    BY <2>1, <1>1, <1>4, <1>5
  <2>2. CASE u # s
    BY <2>2, <1>2, <1>5 DEF IInv, ControlInv, LocalsOK, InWindow
  <2> QED BY <2>1, <2>2
<1>8. FreshIds'
  <2> SUFFICES ASSUME NEW t \in Tid, t >= next_id
               PROVE  /\ state'[t] = "NULL" /\ t # cpu /\ pc'[t] = "New" /\ irq[t] = "none"
                      /\ \A u \in Tid : rsp[u] # t
                      /\ \A u \in Stk : loc'[u].rsi # t
    BY <1>2, <1>3 DEF FreshIds
  <2>1. /\ state[t] = "NULL" /\ t # cpu /\ pc[t] = "New" /\ irq[t] = "none"
        /\ \A u \in Tid : rsp[u] # t
        /\ \A u \in Stk : loc[u].rsi # t
    BY DEF IInv, ControlInv, FreshIds
  <2>2. t # s /\ t \in Stk
    BY <2>1, <1>1 DEF Stk
  <2> QED BY <2>1, <2>2, <1>2, <1>4, <1>5
<1>9. HandlerOK'
  BY <1>1, <1>3 DEF IInv, ControlInv, HandlerOK
<1>10. LockOK'
  BY <1>1, <1>3 DEF IInv, TypeOK, ControlInv, LockOK, Free, IrqHolds, Stk, Tid, BOOT
<1>11. CurrentOK' /\ CurrentRuns'
  BY <1>1, <1>2, <1>3, <1>4, <1>5 DEF CurrentOK, CurrentRuns, InWindow
<1>12. FramesOK'
  <2>0. FramesOK /\ LocalsOK /\ rsp \in [Tid -> Stk \cup {Stale}]
    BY DEF IInv, TypeOK, ControlInv
  <2>1. \A t \in Tid, k \in Stk : FrameOf(t, k) => FrameAfter(t, k)
    BY <1>1, <1>2, <1>3, <1>5 DEF FrameOf, FrameAfter, InWindow
  <2>2. ASSUME NEW t \in Tid, rsp'[t] # Stale PROVE FrameAfter(t, rsp'[t])
    BY <1>1, <1>3, <2>0, <2>1, <2>2 DEF FramesOK
  <2>3. ASSUME NEW u \in Stk, pc'[u] = "Sw2", loc'[u].rsi # Stale
        PROVE  FrameAfter(loc'[u].nxt, loc'[u].rsi)
    <3>1. pc[u] = "Sw2" /\ loc'[u] = loc[u]
      BY <2>3, <1>4, <1>5
    <3>2. loc[u] \in Locals /\ loc[u].nxt \in Tid
      BY <3>1, <2>0, <1>5 DEF LocalsOK, InWindow
    <3>3. loc[u].rsi \in Stk
      BY <3>1, <3>2, <2>3 DEF Locals
    <3> QED BY <3>1, <3>2, <3>3, <2>0, <2>1, <2>3, <1>1 DEF FramesOK
  <2> QED BY <2>2, <2>3, FramesAfter
<1> QED BY <1>2, <1>6, <1>7, <1>8, <1>9, <1>10, <1>11, <1>12 DEF IInv, ControlInv

(* switch_context, from scheduler() or from the timer interrupt: the frame  *)
(* it saves belongs to the thread whose slot it is saved in, and the frame  *)
(* it returns into belongs to the thread current_thread_id names.           *)
LEMMA SwitchIInv ==
  ASSUME IInv, NEW s \in Stk, fault = "none", cpu = s,
         NEW slot \in Stk, NEW k \in Stk \cup {Stale}, SwitchContext(slot, k),
         NEW l \in {pc[s], "SchedRet"}, pc' = [pc EXCEPT ![s] = l],
         NEW i \in {"none", "off"}, irq' = [irq EXCEPT ![s] = i],
         IF l \in {"Sw1", "Sw2"} THEN loc[s].nxt = slot ELSE slot \in {s, NoThread},
         current' \in Tid, state'[current'] \in {"RUNNING", "TERMINATED"},
         k # Stale => FrameOf(current', k),
         state' \in [Tid -> States], rq' \in Seq(Tid), wl' \in Seq(Tid),
         quantum' \in [Tid -> Int], wake_tick' \in [Tid -> Nat],
         ReadyQueueExact', WakeListExact', OneRunning',
         \A u \in Tid : state[u] = "NULL" <=> state'[u] = "NULL",
         \A u \in Tid : state'[u] = "BLOCKED" => state[u] = "BLOCKED",
         lock' = Free, UNCHANGED <<next_id, hw>>
  PROVE  IInv'
<1>1. UNCHANGED <<next_id, cursor, isr, now>> /\ NoThread \notin Tid /\ Stale \notin Tid /\ Stale \notin Stk /\ Tid \subseteq Stk
  BY DEF hw, NoThread, Stale, Tid, Stk, BOOT
<1>2. /\ pc \in [Stk -> PcLabels] /\ irq \in [Stk -> IrqLabels] /\ loc \in [Stk -> Locals]
      /\ rsp \in [Tid -> Stk \cup {Stale}] /\ state \in [Tid -> States]
      /\ LocalsOK /\ FreshIds /\ FramesOK /\ HandlerOK
  BY DEF IInv, TypeOK, ControlInv
<1>3. /\ pc' \in [Stk -> PcLabels] /\ irq' \in [Stk -> IrqLabels] /\ pc'[s] = l /\ irq'[s] = i
      /\ \A u \in Stk \ {s} : pc'[u] = pc[u] /\ irq'[u] = irq[u]
  BY <1>2 DEF PcLabels, IrqLabels
<1>4. CASE Resumable(k)
  <2>1. k \in Stk /\ k # Stale /\ k # s /\ (k \in Tid => state[k] # "NULL")
    BY <1>4 DEF Resumable
  <2>2. /\ cpu' = k /\ fault' = fault
        /\ rsp' = [t \in Tid |-> IF t = slot THEN cpu ELSE IF rsp[t] = k THEN Stale ELSE rsp[t]]
        /\ loc' = [u \in Stk |-> IF loc[u].rsi = k THEN [loc[u] EXCEPT !.rsi = Stale] ELSE loc[u]]
    BY <1>4 DEF SwitchContext
  <2>3. \A u \in Stk : /\ loc'[u] \in Locals /\ loc'[u].tid = loc[u].tid /\ loc'[u].nxt = loc[u].nxt
                       /\ loc'[u].old = loc[u].old /\ loc'[u].tgt = loc[u].tgt
                       /\ loc'[u].rsi = IF loc[u].rsi = k THEN Stale ELSE loc[u].rsi
    <3> SUFFICES ASSUME NEW u \in Stk
                 PROVE  /\ loc'[u] \in Locals /\ loc'[u].tid = loc[u].tid /\ loc'[u].nxt = loc[u].nxt
                        /\ loc'[u].old = loc[u].old /\ loc'[u].tgt = loc[u].tgt
                        /\ loc'[u].rsi = IF loc[u].rsi = k THEN Stale ELSE loc[u].rsi
      OBVIOUS
    <3> DEFINE r == loc[u]
    <3>1. r \in Locals /\ loc'[u] = IF r.rsi = k THEN [r EXCEPT !.rsi = Stale] ELSE r
      BY <1>2, <2>2
    <3> HIDE DEF r
    <3>2. CASE r.rsi = k
      <4>1. loc'[u] = [r EXCEPT !.rsi = Stale]
        BY <3>1, <3>2
      <4> QED BY <4>1, <3>1, <3>2 DEF Locals, r
    <3>3. CASE r.rsi # k
      BY <3>1, <3>3 DEF r
    <3> QED BY <3>2, <3>3
  <2>4. loc' \in [Stk -> Locals] /\ rsp' \in [Tid -> Stk \cup {Stale}]
    BY <1>2, <2>2, <2>3
  <2>5. TypeOK'
    BY <1>1, <1>3, <2>1, <2>2, <2>4 DEF IInv, TypeOK
  <2>6. LocalsOK'
    <3> SUFFICES ASSUME NEW u \in Stk
                 PROVE  /\ pc'[u] = "KillReq" => loc'[u].tgt \in Tid
                        /\ pc'[u] \in {"Sw1", "Sw2"} => loc'[u].nxt \in Tid /\ loc'[u].old \in {u, NoThread}
                        /\ loc'[u].tid \in {u, NoThread}
                        /\ pc'[u] = "ExitReq" /\ loc'[u].tid \in Tid => state'[loc'[u].tid] # "BLOCKED"
      BY DEF LocalsOK, InWindow
    <3>1. pc'[u] = pc[u] \/ pc'[u] = "SchedRet"
      BY <1>3
    <3>2. /\ pc[u] = "KillReq" => loc[u].tgt \in Tid
          /\ pc[u] \in {"Sw1", "Sw2"} => loc[u].nxt \in Tid /\ loc[u].old \in {u, NoThread}
          /\ loc[u].tid \in {u, NoThread}
          /\ pc[u] = "ExitReq" /\ loc[u].tid \in Tid => state[loc[u].tid] # "BLOCKED"
      BY <1>2 DEF LocalsOK, InWindow
    <3>3. loc'[u].tid = loc[u].tid /\ loc'[u].nxt = loc[u].nxt /\ loc'[u].old = loc[u].old /\ loc'[u].tgt = loc[u].tgt
      BY <2>3
    <3> QED BY <3>1, <3>2, <3>3
  <2>7. FreshIds'
    <3> SUFFICES ASSUME NEW t \in Tid, t >= next_id
                 PROVE  /\ state'[t] = "NULL" /\ t # k /\ pc'[t] = "New" /\ irq'[t] = "none"
                        /\ \A u \in Tid : rsp'[u] # t
                        /\ \A u \in Stk : loc'[u].rsi # t
      BY <1>1, <2>2 DEF FreshIds
    <3>1. /\ state[t] = "NULL" /\ t # s /\ pc[t] = "New" /\ irq[t] = "none"
          /\ \A u \in Tid : rsp[u] # t
          /\ \A u \in Stk : loc[u].rsi # t
      BY <1>2 DEF FreshIds
    <3>2. t # Stale /\ t \in Stk
      BY <1>1
    <3> QED BY <3>1, <3>2, <1>3, <2>1, <2>2, <2>3
  <2>8. \A u \in Stk : irq'[u] \notin {"wake", "quant", "core"}
    BY <1>2, <1>3 DEF HandlerOK
  <2>9. HandlerOK' /\ LockOK'
    <3>1. cpu' \in Stk /\ irq'[cpu'] \notin {"wake", "quant", "core"} /\ Free \notin Stk /\ Free # IrqHolds
      <4>1. \A u \in Stk : u # Free /\ u # IrqHolds
        BY DEF Free, IrqHolds, Stk, Tid, BOOT
      <4>2. Free # IrqHolds
        BY DEF Free, IrqHolds
      <4> QED BY <4>1, <4>2, <2>1, <2>2, <2>8
    <3> QED BY <2>8, <3>1 DEF HandlerOK, LockOK
  <2>10. FrameOf(current', k) /\ pc'[k] = pc[k] /\ loc'[k].nxt = loc[k].nxt
    BY <1>3, <2>1, <2>3
  <2>11. CurrentOK' /\ CurrentRuns'
    BY <1>1, <2>1, <2>2, <2>10 DEF CurrentOK, CurrentRuns, FrameOf, InWindow
  <2>12. FramesOK'
    <3>1. \A t \in Tid, j \in Stk \ {k} : FrameOf(t, j) => FrameAfter(t, j)
      BY <1>3, <2>1, <2>2, <2>3 DEF FrameOf, FrameAfter, InWindow
    <3>2. ASSUME NEW t \in Tid, rsp'[t] # Stale PROVE FrameAfter(t, rsp'[t])
      <4>1. CASE t = slot
        <5>1. rsp'[t] = s /\ pc'[s] = l /\ loc'[s].nxt = loc[s].nxt
          BY <4>1, <1>3, <2>2, <2>3
        <5> QED BY <4>1, <5>1, <1>1, <2>1, <2>2 DEF FrameAfter
      <4>2. CASE t # slot
        <5>1. rsp'[t] = rsp[t] /\ rsp[t] \in Stk \ {k}
          BY <4>2, <3>2, <2>2, <1>2
        <5> QED BY <5>1, <3>1, <3>2, <1>2 DEF FramesOK
      <4> QED BY <4>1, <4>2
    <3>3. ASSUME NEW u \in Stk, pc'[u] = "Sw2", loc'[u].rsi # Stale
          PROVE  FrameAfter(loc'[u].nxt, loc'[u].rsi)
      <4>1. pc[u] = "Sw2"
        BY <3>3, <1>3
      <4>2. loc[u].nxt \in Tid /\ loc[u].rsi \in Stk \ {k} /\ loc'[u].nxt = loc[u].nxt /\ loc'[u].rsi = loc[u].rsi
        BY <4>1, <3>3, <1>2, <2>3 DEF LocalsOK, InWindow, Locals
      <4> QED BY <4>1, <4>2, <3>1, <1>2, <1>1 DEF FramesOK
    <3> QED BY <3>2, <3>3, FramesAfter
  <2> QED BY <2>5, <2>6, <2>7, <2>9, <2>11, <2>12 DEF IInv, ControlInv
<1>5. CASE ~Resumable(k)
  <2>1. fault' = "stale_resume" /\ UNCHANGED <<cpu, rsp, loc>>
    BY <1>5 DEF SwitchContext
  <2>2. TypeOK'
    BY <1>1, <1>3, <2>1 DEF IInv, TypeOK
  <2>3. LocalsOK'
    <3> SUFFICES ASSUME NEW u \in Stk
                 PROVE  /\ pc'[u] = "KillReq" => loc[u].tgt \in Tid
                        /\ pc'[u] \in {"Sw1", "Sw2"} => loc[u].nxt \in Tid /\ loc[u].old \in {u, NoThread}
                        /\ loc[u].tid \in {u, NoThread}
                        /\ pc'[u] = "ExitReq" /\ loc[u].tid \in Tid => state'[loc[u].tid] # "BLOCKED"
      BY <2>1 DEF LocalsOK, InWindow
    <3>1. pc'[u] = pc[u] \/ pc'[u] = "SchedRet"
      BY <1>3
    <3> QED BY <3>1, <1>2 DEF LocalsOK, InWindow
  <2>4. FreshIds'
    <3> SUFFICES ASSUME NEW t \in Tid, t >= next_id
                 PROVE  /\ state'[t] = "NULL" /\ t # s /\ pc'[t] = "New" /\ irq'[t] = "none"
                        /\ \A u \in Tid : rsp[u] # t
                        /\ \A u \in Stk : loc[u].rsi # t
      BY <1>1, <2>1 DEF FreshIds
    <3>1. /\ state[t] = "NULL" /\ t # s /\ pc[t] = "New" /\ irq[t] = "none"
          /\ \A u \in Tid : rsp[u] # t
          /\ \A u \in Stk : loc[u].rsi # t
      BY <1>2 DEF FreshIds
    <3> QED BY <3>1, <1>1, <1>3
  <2>5. \A u \in Stk : irq'[u] \notin {"wake", "quant", "core"}
    BY <1>2, <1>3 DEF HandlerOK
  <2>6. HandlerOK' /\ LockOK'
    <3>1. cpu' \in Stk /\ irq'[cpu'] \notin {"wake", "quant", "core"} /\ Free \notin Stk /\ Free # IrqHolds
      BY <2>1, <2>5 DEF Free, IrqHolds, Stk, Tid, BOOT
    <3> QED BY <2>5, <3>1 DEF HandlerOK, LockOK
  <2>7. CurrentOK' /\ CurrentRuns' /\ FramesOK'
    BY <2>1 DEF CurrentOK, CurrentRuns, FramesOK
  <2> QED BY <2>2, <2>3, <2>4, <2>6, <2>7 DEF IInv, ControlInv
<1> QED BY <1>4, <1>5

(* next->rsp goes into a register: it is the frame of the next thread, or   *)
(* stale.                                                                   *)
LEMMA LoadRspIInv ==
  ASSUME IInv, NEW s \in Stk, LoadRsp(s)
  PROVE  IInv'
<1> DEFINE n == loc[s].nxt
           r == [loc[s] EXCEPT !.rsi = rsp[n]]
<1>1. /\ fault = "none" /\ cpu = s /\ irq[s] = "none" /\ pc[s] = "Sw1"
      /\ UNCHANGED <<lists, lock, cpu, irq, rsp, hw, fault>>
  BY DEF LoadRsp, Executing
<1>2. /\ pc \in [Stk -> PcLabels] /\ loc \in [Stk -> Locals] /\ loc[s] \in Locals
      /\ rsp \in [Tid -> Stk \cup {Stale}]
      /\ LocalsOK /\ FreshIds /\ FramesOK /\ HandlerOK /\ LockOK /\ CurrentOK /\ CurrentRuns
  BY DEF IInv, TypeOK, ControlInv
<1>3. n \in Tid /\ loc[s].old \in {s, NoThread} /\ current = n
  BY <1>1, <1>2 DEF LocalsOK, CurrentOK, InWindow
<1>4. /\ r \in Locals /\ r.nxt = n /\ r.old = loc[s].old /\ r.tid = loc[s].tid /\ r.rsi = rsp[n]
  BY <1>2, <1>3 DEF Locals
<1>5. /\ pc' = [pc EXCEPT ![s] = "Sw2"] /\ loc' = [loc EXCEPT ![s] = r]
  BY <1>2 DEF LoadRsp, Goto
<1> HIDE DEF r
<1>6. /\ pc' \in [Stk -> PcLabels] /\ loc' \in [Stk -> Locals] /\ pc'[s] = "Sw2" /\ loc'[s] = r
      /\ \A u \in Stk \ {s} : pc'[u] = pc[u] /\ loc'[u] = loc[u]
  BY <1>2, <1>4, <1>5 DEF PcLabels
<1>7. TypeOK'
  BY <1>1, <1>6 DEF IInv, TypeOK, lists, hw
<1>8. ReadyQueueExact' /\ WakeListExact' /\ OneRunning'
  BY <1>1 DEF IInv, ReadyQueueExact, WakeListExact, OneRunning, lists
<1>9. LocalsOK'
  <2> SUFFICES ASSUME NEW u \in Stk
               PROVE  /\ pc'[u] = "KillReq" => loc'[u].tgt \in Tid
                      /\ pc'[u] \in {"Sw1", "Sw2"} => loc'[u].nxt \in Tid /\ loc'[u].old \in {u, NoThread}
                      /\ loc'[u].tid \in {u, NoThread}
                      /\ pc'[u] = "ExitReq" /\ loc'[u].tid \in Tid => state[loc'[u].tid] # "BLOCKED"
    BY <1>1 DEF LocalsOK, InWindow, lists
  <2>1. CASE u = s
    BY <2>1, <1>2, <1>3, <1>4, <1>6 DEF LocalsOK
  <2>2. CASE u # s
    BY <2>2, <1>2, <1>6 DEF LocalsOK, InWindow
  <2> QED BY <2>1, <2>2
<1>10. FreshIds'
  <2> SUFFICES ASSUME NEW t \in Tid, t >= next_id
               PROVE  /\ state[t] = "NULL" /\ t # cpu /\ pc'[t] = "New" /\ irq[t] = "none"
                      /\ \A u \in Tid : rsp[u] # t
                      /\ \A u \in Stk : loc'[u].rsi # t
    BY <1>1 DEF FreshIds, lists
  <2>1. /\ state[t] = "NULL" /\ t # cpu /\ pc[t] = "New" /\ irq[t] = "none"
        /\ \A u \in Tid : rsp[u] # t
        /\ \A u \in Stk : loc[u].rsi # t
    BY <1>2 DEF FreshIds
  <2> QED BY <2>1, <1>1, <1>3, <1>4, <1>6 DEF Stk
<1>11. HandlerOK' /\ LockOK'
  BY <1>1, <1>2, <1>6 DEF HandlerOK, LockOK, CsLabels, hw
<1>12. CurrentOK' /\ CurrentRuns'
  BY <1>1, <1>2, <1>3, <1>4, <1>6 DEF CurrentOK, CurrentRuns, InWindow, lists
<1>13. FramesOK'
  <2>1. \A t \in Tid, k \in Stk : FrameOf(t, k) => FrameAfter(t, k)
    BY <1>1, <1>6 DEF FrameOf, FrameAfter, InWindow, lists
  <2>2. ASSUME NEW t \in Tid, rsp'[t] # Stale PROVE FrameAfter(t, rsp'[t])
    BY <1>1, <1>2, <2>1, <2>2 DEF FramesOK
  <2>3. ASSUME NEW u \in Stk, pc'[u] = "Sw2", loc'[u].rsi # Stale
        PROVE  FrameAfter(loc'[u].nxt, loc'[u].rsi)
    <3>1. CASE u = s
      <4>1. loc'[u].nxt = n /\ loc'[u].rsi = rsp[n] /\ rsp'[n] = rsp[n]
        BY <3>1, <1>1, <1>4, <1>6
      <4> QED BY <4>1, <2>2, <2>3, <1>3
    <3>2. CASE u # s
      <4>1. pc[u] = "Sw2" /\ loc'[u] = loc[u] /\ loc[u].nxt \in Tid /\ loc[u].rsi \in Stk
        BY <3>2, <2>3, <1>2, <1>6 DEF LocalsOK, InWindow, Locals
      <4> QED BY <4>1, <2>1, <2>3, <1>1, <1>2 DEF FramesOK
    <3> QED BY <3>1, <3>2
  <2> QED BY <2>2, <2>3, FramesAfter
<1> QED BY <1>7, <1>8, <1>9, <1>10, <1>11, <1>12, <1>13 DEF IInv, ControlInv

(* The switch of scheduler(), interrupts enabled. *)
LEMMA SwitchStepIInv ==
  ASSUME IInv, NEW s \in Stk, Switch(s)
  PROVE  IInv'
<1>1. /\ fault = "none" /\ cpu = s /\ irq[s] = "none" /\ pc[s] = "Sw2" /\ Tid \subseteq Stk /\ NoThread \in Stk
      /\ SwitchContext(loc[s].old, loc[s].rsi) /\ pc' = [pc EXCEPT ![s] = "SchedRet"]
      /\ UNCHANGED <<lists, lock, irq, hw>>
  BY DEF Switch, Executing, Goto, Stk, NoThread, BOOT
<1>2. irq' = [irq EXCEPT ![s] = "none"]
  BY <1>1 DEF IInv, TypeOK
<1>3. loc[s].old \in {s, NoThread} /\ loc[s].nxt \in Tid /\ current = loc[s].nxt /\ loc[s].rsi \in Stk \cup {Stale}
  BY <1>1 DEF IInv, TypeOK, Locals, ControlInv, LocalsOK, CurrentOK, InWindow
<1>4. loc[s].rsi # Stale => FrameOf(current, loc[s].rsi)
  BY <1>1, <1>3 DEF IInv, ControlInv, FramesOK
<1>5. lock' = Free
  BY <1>1 DEF IInv, TypeOK, ControlInv, LockOK, CsLabels
<1>6. UNCHANGED <<state, rq, wl, quantum, wake_tick, current, next_id>>
  BY <1>1 DEF lists
<1>7. state[current] \in {"RUNNING", "TERMINATED"}
  BY <1>1, <1>3 DEF IInv, ControlInv, CurrentRuns
<1>8. /\ state' \in [Tid -> States] /\ rq' \in Seq(Tid) /\ wl' \in Seq(Tid)
      /\ quantum' \in [Tid -> Int] /\ wake_tick' \in [Tid -> Nat]
      /\ ReadyQueueExact' /\ WakeListExact' /\ OneRunning'
  BY <1>6 DEF IInv, TypeOK, ReadyQueueExact, WakeListExact, OneRunning
<1>9. /\ current' \in Tid /\ state'[current'] \in {"RUNNING", "TERMINATED"}
      /\ loc[s].rsi # Stale => FrameOf(current', loc[s].rsi)
  BY <1>3, <1>4, <1>6, <1>7
<1>10. loc[s].old \in Stk
  BY <1>1, <1>3
<1> QED BY <1>1, <1>2, <1>3, <1>5, <1>6, <1>8, <1>9, <1>10, SwitchIInv

(* The switch of scheduler_from_irq. *)
LEMMA IrqSwitchIInv ==
  ASSUME IInv, NEW s \in Stk, IrqSwitch(s)
  PROVE  IInv'
<1> DEFINE k == rsp[Head(RqWithOld)]
<1>1. /\ fault = "none" /\ cpu = s /\ irq[s] = "core" /\ Tid \subseteq Stk /\ NoThread \in Stk /\ CoreOther
      /\ SwitchContext(OldSlot, k) /\ irq' = [irq EXCEPT ![s] = "off"] /\ lock' = Free
      /\ UNCHANGED <<pc, hw>>
  BY DEF IrqSwitch, InIrq, Stk, NoThread, BOOT
<1>2. pc' = [pc EXCEPT ![s] = pc[s]]
  BY <1>1 DEF IInv, TypeOK
<1>3. OldSlot = current /\ current \in Tid
  BY <1>1 DEF IInv, ControlInv, HandlerOK, OldRuns, OldSlot, IsThread
<1>4. IF pc[s] \in {"Sw1", "Sw2"} THEN loc[s].nxt = OldSlot ELSE OldSlot \in {s, NoThread}
  BY <1>1, <1>3 DEF IInv, ControlInv, CurrentOK, InWindow
<1>5. current' \in Tid /\ current' = Head(RqWithOld) /\ k \in Stk \cup {Stale}
  BY <1>1, OldFacts, DequeueFacts DEF CoreOther, IInv, TypeOK
<1>6. k # Stale => FrameOf(current', k)
  BY <1>1, <1>5 DEF IInv, ControlInv, FramesOK
<1>7. /\ state' \in [Tid -> States] /\ rq' \in Seq(Tid) /\ quantum' \in [Tid -> Int]
      /\ UNCHANGED <<wl, wake_tick, next_id>>
      /\ ReadyQueueExact' /\ WakeListExact' /\ OneRunning'
      /\ \A u \in Tid : state[u] = "NULL" <=> state'[u] = "NULL"
      /\ \A u \in Tid : state'[u] = "BLOCKED" => state[u] = "BLOCKED"
      /\ current' \in Tid => state'[current'] = "RUNNING"
  BY <1>1, CoreLists
<1>8. wl' \in Seq(Tid) /\ wake_tick' \in [Tid -> Nat] /\ OldSlot \in Stk
  BY <1>1, <1>3, <1>7 DEF IInv, TypeOK
<1> HIDE DEF k
<1> QED BY <1>1, <1>2, <1>4, <1>5, <1>6, <1>7, <1>8, SwitchIInv

(* A step of the timer interrupt on the executing stack that switches       *)
(* nothing: it may take or give back the lock, wake threads and renew a     *)
(* time slice, but current_thread_id and all frames stay.                   *)
LEMMA HandlerMoves ==
  ASSUME IInv, NEW s \in Stk, fault = "none", cpu = s,
         NEW l \in PcLabels, pc' = [pc EXCEPT ![s] = l],
         l = pc[s] \/ (pc[s] \in {"WaitHlt", "YieldHlt"} /\ l \in {"WaitRecheck", "SchedReq"}),
         NEW i \in {"none", "wake", "quant", "core"}, irq' = [irq EXCEPT ![s] = i],
         UNCHANGED <<current, next_id, cpu, rsp, loc, fault>>,
         cursor' \in Tid \cup {NoThread}, isr' \in BOOLEAN, now' \in 0 .. MaxTick,
         state' \in [Tid -> States], rq' \in Seq(Tid), wl' \in Seq(Tid),
         quantum' \in [Tid -> Int], wake_tick' \in [Tid -> Nat],
         ReadyQueueExact', WakeListExact', OneRunning',
         \A u \in Tid : state[u] = "NULL" <=> state'[u] = "NULL",
         \A u \in Tid : state'[u] = "BLOCKED" => state[u] = "BLOCKED",
         current \in Tid => \/ state'[current] \in {state[current], "RUNNING"}
                            \/ pc[s] = "SchedReq" /\ state'[current] # "NULL",
         \/ i \in {"wake", "core"} /\ lock' = IrqHolds
         \/ i \in {"none", "quant"} /\ lock' = Free
         \/ i \in {"none", "quant"} /\ lock' = lock /\ lock # IrqHolds,
         i = "wake" => cursor' \in Tid,
         i = "core" => OldRuns'
  PROVE  IInv'
<1>1. /\ pc \in [Stk -> PcLabels] /\ irq \in [Stk -> IrqLabels] /\ loc \in [Stk -> Locals]
      /\ rsp \in [Tid -> Stk \cup {Stale}] /\ state \in [Tid -> States] /\ lock \in Stk \cup {Free, IrqHolds}
      /\ LocalsOK /\ FreshIds /\ FramesOK /\ HandlerOK /\ LockOK /\ CurrentOK /\ CurrentRuns
  BY DEF IInv, TypeOK, ControlInv
<1>2. /\ pc' \in [Stk -> PcLabels] /\ irq' \in [Stk -> IrqLabels] /\ pc'[s] = l /\ irq'[s] = i
      /\ \A u \in Stk \ {s} : pc'[u] = pc[u] /\ irq'[u] = irq[u]
  BY <1>1 DEF IrqLabels
<1>3. TypeOK'
  BY <1>1, <1>2 DEF IInv, TypeOK
<1>4. LocalsOK'
  <2> SUFFICES ASSUME NEW u \in Stk
               PROVE  /\ pc'[u] = "KillReq" => loc[u].tgt \in Tid
                      /\ pc'[u] \in {"Sw1", "Sw2"} => loc[u].nxt \in Tid /\ loc[u].old \in {u, NoThread}
                      /\ loc[u].tid \in {u, NoThread}
                      /\ pc'[u] = "ExitReq" /\ loc[u].tid \in Tid => state'[loc[u].tid] # "BLOCKED"
    BY DEF LocalsOK, InWindow
  <2>1. pc'[u] = pc[u] \/ pc'[u] \in {"WaitRecheck", "SchedReq"}
    BY <1>2
  <2> QED BY <2>1, <1>1 DEF LocalsOK, InWindow
<1>5. FreshIds'
  <2> SUFFICES ASSUME NEW t \in Tid, t >= next_id
               PROVE  /\ state'[t] = "NULL" /\ t # cpu /\ pc'[t] = "New" /\ irq'[t] = "none"
                      /\ \A u \in Tid : rsp[u] # t
                      /\ \A u \in Stk : loc[u].rsi # t
    BY DEF FreshIds
  <2>1. /\ state[t] = "NULL" /\ t # cpu /\ pc[t] = "New" /\ irq[t] = "none"
        /\ \A u \in Tid : rsp[u] # t
        /\ \A u \in Stk : loc[u].rsi # t
    BY <1>1 DEF FreshIds
  <2> QED BY <2>1, <1>2 DEF Stk
<1>6. HandlerOK'
  BY <1>1, <1>2 DEF HandlerOK
<1>7. LockOK'
  <2>1. lock' \in Stk => lock' = s /\ pc'[s] \in CsLabels
    BY <1>1, <1>2 DEF LockOK, Free, IrqHolds, Stk, Tid, BOOT, CsLabels
  <2>2. (lock' = IrqHolds) <=> (i \in {"wake", "core"})
    BY DEF Free, IrqHolds
  <2> QED BY <2>1, <2>2, <1>2 DEF LockOK
<1>8. CurrentOK'
  BY <1>1, <1>2 DEF CurrentOK, InWindow
<1>9. CurrentRuns'
  BY <1>1, <1>2 DEF CurrentRuns
<1>10. FramesOK'
  <2>1. \A t \in Tid, k \in Stk : FrameOf(t, k) => FrameAfter(t, k)
    BY <1>1, <1>2 DEF FrameOf, FrameAfter, InWindow
  <2>2. ASSUME NEW t \in Tid, rsp'[t] # Stale PROVE FrameAfter(t, rsp'[t])
    BY <1>1, <2>1, <2>2 DEF FramesOK
  <2>3. ASSUME NEW u \in Stk, pc'[u] = "Sw2", loc'[u].rsi # Stale
        PROVE  FrameAfter(loc'[u].nxt, loc'[u].rsi)
    <3>1. pc[u] = "Sw2" /\ loc'[u] = loc[u]
      BY <2>3, <1>2
    <3>2. loc[u] \in Locals /\ loc[u].nxt \in Tid
      BY <3>1, <1>1 DEF LocalsOK, InWindow
    <3>3. loc[u].rsi \in Stk
      BY <3>1, <3>2, <2>3 DEF Locals
    <3> QED BY <3>1, <3>2, <3>3, <2>1, <2>3, <1>1 DEF FramesOK
  <2> QED BY <2>2, <2>3, FramesAfter
<1> QED BY <1>3, <1>4, <1>5, <1>6, <1>7, <1>8, <1>9, <1>10 DEF IInv, ControlInv

(* The timer interrupt arrives, at whatever point. *)
LEMMA TimerIrqIInv ==
  ASSUME IInv, NEW s \in Stk, TimerIrq(s)
  PROVE  IInv'
<1> DEFINE l == AfterHlt(pc[s])
<1>1. /\ fault = "none" /\ cpu = s /\ irq[s] = "none" /\ pc' = [pc EXCEPT ![s] = l]
      /\ isr' \in BOOLEAN /\ now' = NextTick
      /\ UNCHANGED <<state, rq, wl, quantum, wake_tick, current, next_id, cpu, rsp, loc, fault>>
  BY DEF TimerIrq, Executing, Goto, lists
<1>2. pc[s] \in PcLabels /\ lock # IrqHolds /\ wl \in Seq(Tid) /\ Distinct(wl)
  BY <1>1 DEF IInv, TypeOK, ControlInv, LockOK, WakeListExact
<1>3. l \in PcLabels /\ (l = pc[s] \/ (pc[s] \in {"WaitHlt", "YieldHlt"} /\ l \in {"WaitRecheck", "SchedReq"}))
  BY <1>2 DEF AfterHlt, PcLabels, CsLabels
<1>4. now' \in 0 .. MaxTick
  BY <1>1 DEF NextTick, IInv, TypeOK
<1>5. /\ state' \in [Tid -> States] /\ rq' \in Seq(Tid) /\ wl' \in Seq(Tid)
      /\ quantum' \in [Tid -> Int] /\ wake_tick' \in [Tid -> Nat]
      /\ ReadyQueueExact' /\ WakeListExact' /\ OneRunning'
  BY <1>1 DEF IInv, TypeOK, ReadyQueueExact, WakeListExact, OneRunning
<1> HIDE DEF l
<1>6. CASE wl # <<>> /\ TryLock
  <2>1. irq' = [irq EXCEPT ![s] = "wake"] /\ lock' = IrqHolds /\ cursor' = Head(wl) /\ Head(wl) \in Tid
    BY <1>2, <1>6, DequeueFacts DEF TimerIrq
  <2> QED BY <1>1, <1>3, <1>4, <1>5, <2>1, HandlerMoves
<1>7. CASE ~(wl # <<>> /\ TryLock)
  <2>1. irq' = [irq EXCEPT ![s] = "quant"] /\ lock' = lock /\ cursor' \in Tid \cup {NoThread}
    BY <1>7 DEF TimerIrq, IInv, TypeOK
  <2> QED BY <1>1, <1>2, <1>3, <1>4, <1>5, <2>1, HandlerMoves
<1> QED BY <1>6, <1>7

(* The wake loop of timer_handler. *)
LEMMA WakeOneIInv ==
  ASSUME IInv, NEW s \in Stk, WakeOne(s)
  PROVE  IInv'
<1> DEFINE t == cursor
           n == Successor(wl, t, NoThread)
<1>1. /\ fault = "none" /\ cpu = s /\ irq[s] = "wake" /\ cursor' = n
      /\ UNCHANGED <<quantum, current, next_id, cpu, pc, rsp, loc, isr, now, fault>>
  BY DEF WakeOne, InIrq
<1>2. /\ t \in Tid /\ lock = IrqHolds /\ NoThread \notin Tid
      /\ state \in [Tid -> States] /\ rq \in Seq(Tid) /\ wl \in Seq(Tid) /\ Distinct(rq) /\ Distinct(wl)
      /\ \A u \in Tid : Contains(rq, u) <=> state[u] = "READY"
      /\ \A u \in Tid : Contains(wl, u) <=> state[u] = "BLOCKED"
      /\ \A u \in Tid : state[u] = "RUNNING" => u = current
  BY <1>1 DEF IInv, TypeOK, ControlInv, HandlerOK, LockOK, ReadyQueueExact, WakeListExact, OneRunning, NoThread, Tid
<1>3. n = NoThread \/ n \in Tid
  BY <1>2, SuccessorFacts
<1>4. pc' = [pc EXCEPT ![s] = pc[s]] /\ pc[s] \in PcLabels /\ isr' \in BOOLEAN /\ now' \in 0 .. MaxTick /\ quantum' \in [Tid -> Int]
  BY <1>1 DEF IInv, TypeOK
<1>5. /\ state' \in [Tid -> States] /\ rq' \in Seq(Tid) /\ wl' \in Seq(Tid) /\ wake_tick' \in [Tid -> Nat]
      /\ ReadyQueueExact' /\ WakeListExact' /\ OneRunning'
      /\ \A u \in Tid : state[u] = "NULL" <=> state'[u] = "NULL"
      /\ \A u \in Tid : state'[u] = "BLOCKED" => state[u] = "BLOCKED"
      /\ current \in Tid => \/ state'[current] = state[current]
                            \/ pc[s] = "SchedReq" /\ state'[current] # "NULL"
  <2>1. CASE Expired(t)
    <3>1. /\ state' = [state EXCEPT ![t] = "READY"] /\ rq' = Enqueue(rq, t) /\ wl' = Unlink(wl, t)
          /\ wake_tick' = [wake_tick EXCEPT ![t] = 0]
      BY <2>1 DEF WakeOne
    <3>2. state[t] = "BLOCKED"
      BY <2>1 DEF Expired
    <3>3. /\ state' \in [Tid -> States] /\ wake_tick' \in [Tid -> Nat]
          /\ \A u \in Tid : state'[u] = IF u = t THEN "READY" ELSE state[u]
      BY <1>2, <3>1 DEF States, IInv, TypeOK
    <3>4. rq' \in Seq(Tid) /\ Distinct(rq') /\ \A u \in Tid : Contains(rq', u) <=> Contains(rq, u) \/ u = t
      BY <1>2, <3>1, EnqueueFacts
    <3>5. wl' \in Seq(Tid) /\ Distinct(wl') /\ \A u \in Tid : Contains(wl', u) <=> Contains(wl, u) /\ u # t
      BY <1>2, <3>1, UnlinkFacts
    <3>6. ReadyQueueExact' /\ WakeListExact' /\ OneRunning'
      BY <1>1, <1>2, <3>2, <3>3, <3>4, <3>5 DEF ReadyQueueExact, WakeListExact, OneRunning
    <3>7. current = t => pc[s] = "SchedReq"
      BY <1>1, <1>2, <3>2 DEF IInv, ControlInv, CurrentRuns
    <3> QED BY <1>2, <3>2, <3>3, <3>4, <3>5, <3>6, <3>7
  <2>2. CASE ~Expired(t)
    <3>1. UNCHANGED <<state, wake_tick, rq, wl>>
      BY <2>2 DEF WakeOne
    <3> QED BY <1>1, <3>1 DEF IInv, TypeOK, ReadyQueueExact, WakeListExact, OneRunning
  <2> QED BY <2>1, <2>2
<1>6. CASE n = NoThread
  <2>1. irq' = [irq EXCEPT ![s] = "quant"] /\ lock' = Free /\ cursor' \in Tid \cup {NoThread}
    BY <1>1, <1>6 DEF WakeOne
  <2> HIDE DEF n
  <2> QED BY <1>1, <1>4, <1>5, <2>1, HandlerMoves
<1>7. CASE n # NoThread
  <2>1. UNCHANGED <<irq, lock>>
    BY <1>7 DEF WakeOne
  <2>2. irq' = [irq EXCEPT ![s] = "wake"] /\ lock' = IrqHolds /\ cursor' \in Tid
    BY <1>1, <1>2, <1>3, <1>7, <2>1 DEF IInv, TypeOK
  <2> HIDE DEF n
  <2> QED BY <1>1, <1>4, <1>5, <2>2, HandlerMoves
<1> QED BY <1>6, <1>7

(* The other ends of timer_handler: charge the running thread, reschedule   *)
(* without a switch, come back from an earlier preemption.                  *)
LEMMA QuantumIInv ==
  ASSUME IInv, NEW s \in Stk, QuantumKeep(s) \/ QuantumEnd(s) \/ IrqStay(s) \/ IrqResume(s)
  PROVE  IInv'
<1>0. /\ irq \in [Stk -> IrqLabels] /\ pc \in [Stk -> PcLabels] /\ quantum \in [Tid -> Int] /\ isr \in BOOLEAN
      /\ cursor \in Tid \cup {NoThread} /\ now \in 0 .. MaxTick
      /\ state \in [Tid -> States] /\ rq \in Seq(Tid) /\ wl \in Seq(Tid) /\ wake_tick \in [Tid -> Nat]
  BY DEF IInv, TypeOK
<1>1. fault = "none" /\ cpu = s /\ UNCHANGED <<pc, next_id, cpu, rsp, loc, fault, now, cursor>>
  BY DEF QuantumKeep, QuantumEnd, IrqStay, IrqResume, InIrq, lists, hw, CoreIdle, CoreSame
<1>2. pc' = [pc EXCEPT ![s] = pc[s]] /\ pc[s] \in PcLabels
  BY <1>0, <1>1
<1>3. CASE QuantumKeep(s) \/ QuantumEnd(s) \/ IrqResume(s)
  <2>1. UNCHANGED <<state, rq, wl, wake_tick, current>>
    BY <1>3 DEF QuantumKeep, QuantumEnd, IrqResume, lists
  <2>2. /\ state' \in [Tid -> States] /\ rq' \in Seq(Tid) /\ wl' \in Seq(Tid) /\ wake_tick' \in [Tid -> Nat]
        /\ ReadyQueueExact' /\ WakeListExact' /\ OneRunning'
    BY <2>1 DEF IInv, TypeOK, ReadyQueueExact, WakeListExact, OneRunning
  <2>3. ChargeTick => quantum' \in [Tid -> Int]
    <3>1. CASE current \in Tid
      <4>1. SliceLeft \in Int /\ QuantumFloor \in Int
        BY <1>0, <3>1 DEF SliceLeft, QuantumFloor
      <4> QED BY <1>0, <4>1 DEF ChargeTick
    <3>2. CASE current \notin Tid
      BY <1>0, <3>2 DEF ChargeTick
    <3> QED BY <3>1, <3>2
  <2>4. CASE QuantumKeep(s)
    <3>1. irq' = [irq EXCEPT ![s] = "none"] /\ isr' \in BOOLEAN /\ quantum' \in [Tid -> Int] /\ lock' = lock /\ irq[s] = "quant"
      BY <2>3, <2>4, <1>0 DEF QuantumKeep, EndOfIrq, InIrq
    <3>2. lock # IrqHolds
      BY <3>1, <1>1 DEF IInv, ControlInv, LockOK
    <3> QED BY <1>0, <1>1, <1>2, <2>1, <2>2, <3>1, <3>2, HandlerMoves
  <2>5. CASE QuantumEnd(s)
    <3>1. irq' = [irq EXCEPT ![s] = "core"] /\ isr' \in BOOLEAN /\ quantum' \in [Tid -> Int] /\ lock' = IrqHolds
      BY <2>3, <2>5, <1>0 DEF QuantumEnd, hw
    <3>2. OldRuns'
      BY <2>5, <2>1 DEF QuantumEnd, OldRuns, IsThread
    <3> QED BY <1>0, <1>1, <1>2, <2>1, <2>2, <3>1, <3>2, HandlerMoves
  <2>6. CASE IrqResume(s)
    <3>1. irq' = [irq EXCEPT ![s] = "none"] /\ isr' \in BOOLEAN /\ quantum' \in [Tid -> Int] /\ lock' = Free
      BY <2>6, <1>0 DEF IrqResume, EndOfIrq, lists
    <3> QED BY <1>0, <1>1, <1>2, <2>1, <2>2, <3>1, HandlerMoves
  <2> QED BY <1>3, <2>4, <2>5, <2>6
<1>4. CASE IrqStay(s)
  <2>1. OldRuns /\ current \in Tid
    BY <1>1, <1>4 DEF IrqStay, InIrq, IInv, ControlInv, HandlerOK, OldRuns, IsThread
  <2>2. RqWithOld # <<>>
    BY <1>0, <2>1, EnqueueFacts DEF RqWithOld, IInv, ReadyQueueExact
  <2>3. CoreSame
    BY <1>4, <2>2 DEF IrqStay, CoreIdle
  <2>4. /\ state' \in [Tid -> States] /\ rq' \in Seq(Tid) /\ quantum' \in [Tid -> Int]
        /\ UNCHANGED <<wl, wake_tick, next_id>>
        /\ ReadyQueueExact' /\ WakeListExact' /\ OneRunning'
        /\ \A u \in Tid : state[u] = "NULL" <=> state'[u] = "NULL"
        /\ \A u \in Tid : state'[u] = "BLOCKED" => state[u] = "BLOCKED"
        /\ current' \in Tid => state'[current'] = "RUNNING"
    BY <2>3, CoreLists
  <2>5. current' = current /\ wl' \in Seq(Tid) /\ wake_tick' \in [Tid -> Nat]
    BY <1>0, <2>3, <2>4 DEF CoreSame
  <2>6. irq' = [irq EXCEPT ![s] = "none"] /\ isr' \in BOOLEAN /\ lock' = Free
    BY <1>4 DEF IrqStay, EndOfIrq
  <2> QED BY <1>0, <1>1, <1>2, <2>1, <2>4, <2>5, <2>6, HandlerMoves
<1> QED BY <1>3, <1>4

-----------------------------------------------------------------------------
(* Every step of every stack and of the timer interrupt keeps the           *)
(* invariant.                                                               *)
LEMMA NextIInv == IInv /\ [Next]_vars => IInv'
<1> SUFFICES ASSUME IInv, [Next]_vars PROVE IInv'
  OBVIOUS
<1>1. CASE UNCHANGED vars
  BY <1>1, StutterIInv
<1>2. ASSUME NEW s \in Stk, Call(s) PROVE IInv'
  BY <1>2, CallIInv
<1>3. ASSUME NEW s \in Stk, Section(s) PROVE IInv'
  BY <1>3, MoveIInv, WaitBodyIInv, WaitDoneIInv, NetBodyIInv, ExitBodyIInv, KillBodyIInv, CreateIInv DEF Section
<1>4. ASSUME NEW s \in Stk, Sched(s) PROVE IInv'
  <2>1. CASE SchedReap(s)
    BY <2>1, ReapIInv DEF SchedReap, Holding, Executing
  <2> QED BY <1>4, <2>1, MoveIInv, SchedDecides, LoadRspIInv, SwitchStepIInv DEF Sched
<1>5. ASSUME NEW s \in Stk, TimerIrq(s) PROVE IInv'
  BY <1>5, TimerIrqIInv
<1>6. ASSUME NEW s \in Stk, Handler(s) PROVE IInv'
  <2>1. CASE IrqReap(s)
    BY <2>1, ReapIInv DEF IrqReap, InIrq
  <2> QED BY <1>6, <2>1, WakeOneIInv, QuantumIInv, IrqSwitchIInv DEF Handler
<1> QED BY <1>1, <1>2, <1>3, <1>4, <1>5, <1>6 DEF Next

(* The inductive invariant holds in every reachable state, for every number *)
(* of threads, time slice, workload and arrival of timer interrupts.        *)
THEOREM SpecIInv == Spec => []IInv
BY InitIInv, NextIInv, PTL DEF Spec

(* Type correctness of the scheduler's state, saved frames included. *)
THEOREM SpecTypeOK == Spec => []TypeOK
<1>1. IInv => TypeOK
  BY DEF IInv
<1> QED BY <1>1, SpecIInv, PTL

(* The ready queue of scheduler.c is exactly the set of READY threads. *)
THEOREM SpecReadyQueueExact == Spec => []ReadyQueueExact
<1>1. IInv => ReadyQueueExact
  BY DEF IInv
<1> QED BY <1>1, SpecIInv, PTL

(* The wake list of scheduler.c is exactly the set of BLOCKED threads, so   *)
(* thread_reap_terminated never leaves a freed thread_t in it.              *)
THEOREM SpecWakeListExact == Spec => []WakeListExact
<1>1. IInv => WakeListExact
  BY DEF IInv
<1> QED BY <1>1, SpecIInv, PTL

(* Only the thread current_thread_id names is RUNNING. *)
THEOREM SpecOneRunning == Spec => []OneRunning
<1>1. IInv => OneRunning
  BY DEF IInv
<1> QED BY <1>1, SpecIInv, PTL

(* Code of a thread reads its own id, or -1, from current_thread_id,        *)
(* wherever ticks fall.                                                     *)
THEOREM SpecThreadSeesItself == Spec => []ThreadSeesItself
<1>1. IInv => ThreadSeesItself
  <2> SUFFICES ASSUME IInv, NEW s \in Tid, Executing(s), pc[s] \in {"User", "Sys"}
               PROVE  current \in {s, NoThread}
    BY DEF ThreadSeesItself
  <2>1. ~InWindow(cpu) /\ cpu = s /\ fault = "none"
    BY DEF InWindow, Executing
  <2> QED BY <2>1 DEF IInv, ControlInv, CurrentOK
<1> QED BY <1>1, SpecIInv, PTL

(* g_thread_lock changes hands only from its holder to nobody; in           *)
(* particular the second thread_unlock_global of timer_handler, after a     *)
(* preempted thread resumes, finds it free.                                 *)
THEOREM SpecLockReleasedByOwner == Spec => LockReleasedByOwner
<1>1. IInv /\ [Next]_vars => [LockHandover]_vars
  <2> SUFFICES ASSUME IInv, Next, lock' # lock PROVE LockHandover
    BY DEF LockHandover, vars
  <2>1. PICK s \in Stk : Call(s) \/ Section(s) \/ Sched(s) \/ TimerIrq(s) \/ Handler(s)
    BY DEF Next
  <2>2. /\ lock \in Stk => lock = cpu
        /\ irq[cpu] \in {"wake", "core"} /\ fault = "none" => lock = IrqHolds
        /\ irq[cpu] = "off" => lock = Free
        /\ Free \notin Stk /\ Free # IrqHolds /\ IrqHolds \notin Stk
    BY DEF IInv, ControlInv, LockOK, Free, IrqHolds, Stk, Tid, BOOT
  <2>3. CASE Call(s)
    BY <2>3 DEF Call, Start, SysEnter, SysLeave, YieldCall, NetCall, ExitCall, CreateCall, WaitCall, KillCall
  <2>4. CASE Section(s)
    BY <2>2, <2>4 DEF Section, Acquire, WaitBody, WaitAgain, WaitDone, NetBody, ExitBody, KillBody, CreateFail,
                      CreateNoStack, CreateOk, Holding, LockHandover
  <2>5. CASE Sched(s)
    BY <2>2, <2>5 DEF Sched, SchedReap, SchedStay, SchedPick, LoadRsp, Switch, SchedReturn, Holding, LockHandover
  <2>6. CASE TimerIrq(s)
    BY <2>2, <2>6 DEF TimerIrq, TryLock, LockHandover
  <2>7. CASE Handler(s)
    <3>1. CASE WakeOne(s) \/ IrqStay(s) \/ IrqSwitch(s)
      BY <2>2, <3>1 DEF WakeOne, IrqStay, IrqSwitch, InIrq, LockHandover
    <3>2. CASE QuantumEnd(s)
      BY <2>2, <3>2 DEF QuantumEnd, TryLock, LockHandover
    <3>3. CASE QuantumKeep(s) \/ IrqReap(s)
      BY <3>3 DEF QuantumKeep, IrqReap
    <3>4. CASE IrqResume(s)
      BY <2>2, <3>4 DEF IrqResume, InIrq
    <3> QED BY <2>7, <3>1, <3>2, <3>3, <3>4 DEF Handler
  <2> QED BY <2>1, <2>3, <2>4, <2>5, <2>6, <2>7
<1> QED BY <1>1, SpecIInv, PTL DEF Spec, LockReleasedByOwner

-----------------------------------------------------------------------------
(* INT80_WAIT_TICKS.  WakeInv (SchedulerInv) follows a thread from the end  *)
(* of its first critical section to the second one.                         *)

(* thread_init: nobody waits. *)
LEMMA InitWakeInv == Init => WakeInv
BY DEF Init, WakeInv, DeadlineKept, Waiting, InWindow, NoLocals, Stk, Tid, BOOT, NoThread

(* A step that wakes a waiting thread does so at its deadline, and puts no  *)
(* thread that waits already to sleep a second time.                        *)
LEMMA DeadlineStep ==
  ASSUME IInv, WakeInv, fault = "none", now' \in Nat, now' >= now,
         \A u \in Tid : Waiting(u)' =>
           /\ Waiting(u) /\ loc'[u].wake = loc[u].wake
           /\ state'[u] = "BLOCKED" => state[u] = "BLOCKED" /\ wake_tick'[u] = wake_tick[u]
           /\ state'[u] \in {"READY", "RUNNING"} =>
                \/ state[u] \in {"READY", "RUNNING"}
                \/ state[u] = "BLOCKED" /\ wake_tick[u] <= now'
  PROVE  DeadlineKept'
<1> SUFFICES ASSUME NEW u \in Tid, Waiting(u)'
             PROVE  /\ state'[u] = "BLOCKED" => wake_tick'[u] = loc'[u].wake
                    /\ state'[u] \in {"READY", "RUNNING"} => now' >= loc'[u].wake
  BY DEF DeadlineKept
<1>1. /\ state[u] = "BLOCKED" => wake_tick[u] = loc[u].wake
      /\ state[u] \in {"READY", "RUNNING"} => now >= loc[u].wake
  BY DEF WakeInv, DeadlineKept
<1>2. now \in Nat /\ wake_tick[u] \in Nat /\ loc[u].wake \in Nat
  BY DEF IInv, TypeOK, Locals, Stk
<1> QED BY <1>1, <1>2

(* The executing stack moves without touching a thread's state. *)
LEMMA QuietWake ==
  ASSUME IInv, WakeInv, NEW s \in Stk, fault = "none", cpu = s,
         NEW l, pc' = [pc EXCEPT ![s] = l], NEW r, loc' = [loc EXCEPT ![s] = r],
         UNCHANGED <<state, wake_tick, cpu>>, now' \in Nat, now' >= now,
         Waiting(s)' => Waiting(s) /\ r.wake = loc[s].wake,
         IF l \in {"Sw1", "Sw2"} THEN InWindow(s) /\ r.nxt = loc[s].nxt ELSE ~InWindow(s),
         l = "YieldHlt" => r.ret # "wait"
  PROVE  WakeInv'
<1>1. /\ pc'[s] = l /\ loc'[s] = r
      /\ \A u \in Stk \ {s} : pc'[u] = pc[u] /\ loc'[u] = loc[u]
  BY DEF IInv, TypeOK
<1>2. \A u \in Tid : Waiting(u)' => Waiting(u) /\ loc'[u].wake = loc[u].wake
  BY <1>1 DEF Waiting, Stk
<1>3. DeadlineKept'
  BY <1>2, DeadlineStep
<1>4. InWindow(s)' <=> l \in {"Sw1", "Sw2"}
  BY <1>1 DEF InWindow
<1>5. s \in Tid /\ Waiting(s)' /\ ~InWindow(s)' => Live(s)'
  BY <1>2, <1>4 DEF WakeInv, Live
<1>6. InWindow(s)' => state'[loc'[s].nxt] = "RUNNING"
  BY <1>1, <1>4 DEF WakeInv
<1>7. \A u \in Stk : pc'[u] = "YieldHlt" => loc'[u].ret # "wait"
  BY <1>1 DEF WakeInv
<1> QED BY <1>3, <1>5, <1>6, <1>7 DEF WakeInv

(* Entering and leaving an operation. *)
LEMMA CallWake ==
  ASSUME IInv, WakeInv, NEW s \in Stk, Call(s)
  PROVE  WakeInv'
<1>1. PICK l \in {"User", "Sys", "SchedReq", "WaitReq", "NetReq", "ExitReq", "KillReq", "CreateReq"}, r \in {loc'[s]} :
        /\ fault = "none" /\ cpu = s /\ pc[s] \in {"New", "User", "Sys"}
        /\ pc' = [pc EXCEPT ![s] = l] /\ loc' = [loc EXCEPT ![s] = r]
        /\ UNCHANGED <<state, wake_tick, cpu, now>>
        /\ l = "SchedReq" => r.ret = "yield"
  <2> USE DEF Executing, Goto, lists, hw
  <2>1. loc' = [loc EXCEPT ![s] = loc'[s]]
    BY DEF Call, Start, SysEnter, SysLeave, YieldCall, NetCall, ExitCall, CreateCall, WaitCall, KillCall, IInv, TypeOK
  <2>2. CASE Start(s) \/ SysEnter(s) \/ SysLeave(s) \/ NetCall(s) \/ ExitCall(s) \/ CreateCall(s)
    BY <2>1, <2>2 DEF Start, SysEnter, SysLeave, NetCall, ExitCall, CreateCall, AtUser
  <2>3. CASE YieldCall(s)
    <3>1. loc'[s].ret = "yield"
      BY <2>3 DEF YieldCall, NoLocals, IInv, TypeOK
    <3> QED BY <2>1, <2>3, <3>1 DEF YieldCall
  <2>4. ASSUME NEW w \in Waits, WaitCall(s, w)
        PROVE  /\ fault = "none" /\ cpu = s /\ pc[s] = "User" /\ pc' = [pc EXCEPT ![s] = "WaitReq"]
               /\ UNCHANGED <<state, wake_tick, cpu, now>>
    BY <2>4 DEF WaitCall, AtUser
  <2>5. ASSUME NEW k \in Tid, KillCall(s, k)
        PROVE  /\ fault = "none" /\ cpu = s /\ pc[s] = "User" /\ pc' = [pc EXCEPT ![s] = "KillReq"]
               /\ UNCHANGED <<state, wake_tick, cpu, now>>
    BY <2>5 DEF KillCall, AtUser
  <2> QED BY <2>1, <2>2, <2>3, <2>4, <2>5 DEF Call
<1>2. pc'[s] = l /\ loc'[s] = r /\ now' \in Nat /\ now' >= now
  BY <1>1 DEF IInv, TypeOK
<1>3. ~Waiting(s)' /\ ~InWindow(s)
  BY <1>1, <1>2 DEF Waiting, InWindow
<1> QED BY <1>1, <1>2, <1>3, QuietWake

(* Taking the lock, giving it back with nothing done, and the way through   *)
(* scheduler() of a stack that does not change thread states.               *)
LEMMA MoveWake ==
  ASSUME IInv, WakeInv, NEW s \in Stk,
         Acquire(s) \/ CreateFail(s) \/ CreateNoStack(s) \/ WaitAgain(s) \/ LoadRsp(s) \/ SchedReturn(s)
  PROVE  WakeInv'
<1>1. /\ fault = "none" /\ cpu = s /\ UNCHANGED <<state, wake_tick, cpu, now>> /\ now' \in Nat /\ now' >= now
      /\ pc \in [Stk -> PcLabels] /\ loc \in [Stk -> Locals] /\ loc[s] \in Locals
  BY DEF Acquire, CreateFail, CreateNoStack, WaitAgain, LoadRsp, SchedReturn, Holding, Executing, lists, ctx, hw, IInv, TypeOK
<1>2. CASE Acquire(s)
  <2>1. /\ pc' = [pc EXCEPT ![s] = pc[s]] /\ loc' = [loc EXCEPT ![s] = loc[s]] /\ pc' = pc /\ loc' = loc
        /\ pc[s] \in CsLabels
    BY <1>1, <1>2 DEF Acquire, ctx
  <2>2. Waiting(s)' <=> Waiting(s)
    BY <2>1 DEF Waiting
  <2> QED BY <1>1, <2>1, <2>2, QuietWake DEF CsLabels, InWindow
<1>3. CASE CreateFail(s) \/ CreateNoStack(s)
  <2>1. pc[s] = "CreateReq" /\ pc' = [pc EXCEPT ![s] = "User"] /\ loc' = [loc EXCEPT ![s] = loc[s]]
    BY <1>1, <1>3 DEF CreateFail, CreateNoStack, Holding, Goto
  <2>2. ~Waiting(s)' /\ ~InWindow(s)
    BY <1>1, <2>1 DEF Waiting, InWindow
  <2>3. "User" \notin {"Sw1", "Sw2", "YieldHlt"}
    OBVIOUS
  <2> QED BY <1>1, <2>1, <2>2, <2>3, QuietWake
<1>4. CASE WaitAgain(s)
  <2>1. pc[s] = "WaitRecheck" /\ pc' = [pc EXCEPT ![s] = "WaitHlt"] /\ loc' = [loc EXCEPT ![s] = loc[s]] /\ loc' = loc
    BY <1>1, <1>4 DEF WaitAgain, Holding, Goto
  <2>2. Waiting(s)' => Waiting(s)
    BY <2>1 DEF Waiting
  <2>3. "WaitHlt" \notin {"Sw1", "Sw2", "YieldHlt"} /\ ~InWindow(s)
    BY <2>1 DEF InWindow
  <2> QED BY <1>1, <2>1, <2>2, <2>3, QuietWake
<1>5. CASE LoadRsp(s)
  <2> DEFINE r == [loc[s] EXCEPT !.rsi = rsp[loc[s].nxt]]
  <2>1. r.wake = loc[s].wake /\ r.nxt = loc[s].nxt /\ r.ret = loc[s].ret /\ r.tid = loc[s].tid
    BY <1>1 DEF Locals
  <2>2. pc[s] = "Sw1" /\ pc' = [pc EXCEPT ![s] = "Sw2"] /\ loc' = [loc EXCEPT ![s] = r]
    BY <1>1, <1>5 DEF LoadRsp, Goto
  <2>3. pc'[s] = "Sw2" /\ loc'[s] = r
    BY <1>1, <2>2
  <2> HIDE DEF r
  <2>4. Waiting(s)' => Waiting(s)
    BY <2>1, <2>2, <2>3 DEF Waiting
  <2> QED BY <1>1, <2>1, <2>2, <2>4, QuietWake DEF InWindow
<1>6. CASE SchedReturn(s)
  <2> DEFINE r == [loc[s] EXCEPT !.old = NoThread, !.nxt = NoThread, !.rsi = Stale]
             l == AfterSched(loc[s].ret)
  <2>1. r.wake = loc[s].wake /\ r.ret = loc[s].ret /\ r.tid = loc[s].tid
    BY <1>1 DEF Locals
  <2>2. pc[s] = "SchedRet" /\ pc' = [pc EXCEPT ![s] = l] /\ loc' = [loc EXCEPT ![s] = r]
    BY <1>1, <1>6 DEF SchedReturn, Executing, Goto
  <2>3. l \in {"WaitRecheck", "User", "Halted", "YieldHlt"} /\ (loc[s].ret = "wait" <=> l = "WaitRecheck")
    BY DEF AfterSched
  <2>4. pc'[s] = l /\ loc'[s] = r
    BY <1>1, <2>2
  <2> HIDE DEF r, l
  <2>5. Waiting(s)' => Waiting(s)
    BY <2>1, <2>2, <2>3, <2>4 DEF Waiting
  <2>6. ~InWindow(s)
    BY <2>2 DEF InWindow
  <2> QED BY <1>1, <2>1, <2>2, <2>3, <2>5, <2>6, QuietWake
<1> QED BY <1>2, <1>3, <1>4, <1>5, <1>6

(* The interrupt arrives, charges a tick, takes the lock, or ends. *)
LEMMA TickWake ==
  ASSUME IInv, WakeInv, NEW s \in Stk, TimerIrq(s) \/ QuantumKeep(s) \/ QuantumEnd(s) \/ IrqResume(s)
  PROVE  WakeInv'
<1>1. /\ fault = "none" /\ cpu = s /\ UNCHANGED <<state, wake_tick, cpu, loc>>
      /\ pc \in [Stk -> PcLabels] /\ loc \in [Stk -> Locals] /\ loc' = [loc EXCEPT ![s] = loc[s]]
  BY DEF TimerIrq, QuantumKeep, QuantumEnd, IrqResume, InIrq, Executing, lists, hw, IInv, TypeOK
<1>2. now \in Nat /\ now' \in Nat /\ now' >= now
  BY DEF TimerIrq, QuantumKeep, QuantumEnd, IrqResume, hw, NextTick, IInv, TypeOK
<1>3. CASE TimerIrq(s)
  <2> DEFINE l == AfterHlt(pc[s])
  <2>1. pc' = [pc EXCEPT ![s] = l] /\ pc'[s] = l
    BY <1>1, <1>3 DEF TimerIrq, Goto
  <2>2. \/ pc[s] = "WaitHlt" /\ l = "WaitRecheck"
        \/ pc[s] = "YieldHlt" /\ l = "SchedReq"
        \/ pc[s] \notin {"WaitHlt", "YieldHlt"} /\ l = pc[s]
    BY DEF AfterHlt
  <2> HIDE DEF l
  <2>3. pc[s] = "YieldHlt" => loc[s].ret # "wait"
    BY <1>1 DEF WakeInv
  <2>4. Waiting(s)' => Waiting(s)
    BY <1>1, <2>1, <2>2, <2>3 DEF Waiting
  <2> QED BY <1>1, <1>2, <2>1, <2>2, <2>4, QuietWake DEF InWindow
<1>4. CASE QuantumKeep(s) \/ QuantumEnd(s) \/ IrqResume(s)
  <2>1. pc' = pc /\ pc' = [pc EXCEPT ![s] = pc[s]]
    BY <1>1, <1>4 DEF QuantumKeep, QuantumEnd, IrqResume
  <2>2. Waiting(s)' <=> Waiting(s)
    BY <1>1, <2>1 DEF Waiting
  <2>3. pc[s] = "YieldHlt" => loc[s].ret # "wait"
    BY <1>1 DEF WakeInv
  <2> QED BY <1>1, <1>2, <2>1, <2>2, <2>3, QuietWake DEF InWindow
<1> QED BY <1>3, <1>4

(* A step that changes thread states while the executing stack moves on:    *)
(* who waits already is woken at its deadline at the earliest.              *)
WokenInTime(u) ==
  /\ state'[u] = "BLOCKED" => state[u] = "BLOCKED" /\ wake_tick'[u] = wake_tick[u]
  /\ state'[u] \in {"READY", "RUNNING"} => \/ state[u] \in {"READY", "RUNNING"}
                                           \/ state[u] = "BLOCKED" /\ wake_tick[u] <= now

LEMMA ListWake ==
  ASSUME IInv, WakeInv, NEW s \in Stk, fault = "none", cpu = s, UNCHANGED <<cpu, now>>,
         NEW l, pc' = [pc EXCEPT ![s] = l], NEW r, loc' = [loc EXCEPT ![s] = r],
         \A u \in Tid \ {s} : Waiting(u) => WokenInTime(u),
         s \in Tid /\ Waiting(s)' =>
           /\ Waiting(s) /\ r.wake = loc[s].wake /\ WokenInTime(s)
           /\ InWindow(s) => l \in {"Sw1", "Sw2"}
           /\ Live(s) => Live(s)',
         l \in {"Sw1", "Sw2"} => state'[r.nxt] = "RUNNING",
         l = "YieldHlt" => r.ret # "wait"
  PROVE  WakeInv'
<1>1. /\ pc'[s] = l /\ loc'[s] = r /\ now \in Nat
      /\ \A u \in Stk \ {s} : pc'[u] = pc[u] /\ loc'[u] = loc[u]
  BY DEF IInv, TypeOK
<1>2. \A u \in Tid : Waiting(u)' => Waiting(u) /\ loc'[u].wake = loc[u].wake /\ WokenInTime(u)
  <2> SUFFICES ASSUME NEW u \in Tid, Waiting(u)' PROVE Waiting(u) /\ loc'[u].wake = loc[u].wake /\ WokenInTime(u)
    OBVIOUS
  <2>1. CASE u = s
    BY <2>1, <1>1
  <2>2. CASE u # s
    <3>1. Waiting(u) /\ loc'[u] = loc[u]
      BY <2>2, <1>1 DEF Waiting, Stk
    <3> QED BY <2>2, <3>1
  <2> QED BY <2>1, <2>2
<1>3. DeadlineKept'
  <2>1. now' \in Nat /\ now' >= now /\ now' = now
    BY <1>1
  <2> QED BY <1>2, <2>1, DeadlineStep DEF WokenInTime
<1>4. InWindow(s)' <=> l \in {"Sw1", "Sw2"}
  BY <1>1 DEF InWindow
<1>5. s \in Tid /\ Waiting(s)' /\ ~InWindow(s)' => Live(s)'
  BY <1>4 DEF WakeInv
<1>6. InWindow(s)' => state'[loc'[s].nxt] = "RUNNING"
  BY <1>1, <1>4 DEF WakeInv
<1>7. \A u \in Stk : pc'[u] = "YieldHlt" => loc'[u].ret # "wait"
  BY <1>1 DEF WakeInv
<1> QED BY <1>3, <1>5, <1>6, <1>7 DEF WakeInv

(* The critical sections of network_thread_block, thread_exit_current,      *)
(* thread_kill and thread_create, and the second one of INT80_WAIT_TICKS.   *)
LEMMA SectionWake ==
  ASSUME IInv, WakeInv, NEW s \in Stk, fault' = "none",
         WaitDone(s) \/ NetBody(s) \/ ExitBody(s) \/ KillBody(s) \/ CreateOk(s)
  PROVE  WakeInv'
<1>1. PICK l \in {"WaitRecheck", "NetReq", "ExitReq", "KillReq", "CreateReq"} : Holding(s, l)
  BY DEF WaitDone, NetBody, ExitBody, KillBody, CreateOk
<1>2. /\ fault = "none" /\ cpu = s /\ current \in {s, NoThread} /\ loc[s].tid \in {s, NoThread}
      /\ pc[s] = l /\ loc[s] \in Locals /\ NoThread \notin Tid
      /\ l = "KillReq" => loc[s].tgt \in Tid
      /\ l = "CreateReq" => next_id \in Nat
  BY <1>1, SectionFacts DEF CsLabels
<1>3. /\ state \in [Tid -> States] /\ wake_tick \in [Tid -> Nat] /\ loc \in [Stk -> Locals]
      /\ pc \in [Stk -> PcLabels]
  BY DEF IInv, TypeOK
<1>4. UNCHANGED <<cpu, now>>
  BY DEF WaitDone, NetBody, ExitBody, KillBody, CreateOk, hw
<1>a. {"User", "SchedReq"} \cap {"Sw1", "Sw2", "YieldHlt"} = {} /\ "User" \in {"User", "SchedReq"}
      /\ "SchedReq" \in {"User", "SchedReq"}
  OBVIOUS
<1>5. CASE WaitDone(s)
  <2>1. pc' = [pc EXCEPT ![s] = "User"] /\ loc' = [loc EXCEPT ![s] = NoLocals]
    BY <1>5 DEF WaitDone, Goto
  <2>2. ~Waiting(s)'
    BY <1>3, <2>1 DEF Waiting
  <2>3. \A u \in Tid \ {s} : state'[u] = state[u] /\ wake_tick'[u] = wake_tick[u]
    BY <1>2, <1>3, <1>5 DEF WaitDone, IsThread
  <2> HIDE DEF NoLocals
  <2>w. \A u \in Tid \ {s} : Waiting(u) => WokenInTime(u)
    BY <2>3 DEF WokenInTime
  <2> QED BY <1>2, <1>4, <1>a, <2>1, <2>2, <2>w, ListWake
<1>6. CASE NetBody(s)
  <2> DEFINE r == [loc[s] EXCEPT !.ret = "net", !.wake = NextTick]
  <2>1. pc' = [pc EXCEPT ![s] = "SchedReq"] /\ loc' = [loc EXCEPT ![s] = r] /\ r.ret = "net"
    BY <1>2, <1>3, <1>6 DEF NetBody, Goto, Locals
  <2>2. ~Waiting(s)'
    BY <1>3, <2>1 DEF Waiting
  <2>3. \A u \in Tid \ {s} : state'[u] = state[u] /\ wake_tick'[u] = wake_tick[u]
    BY <1>2, <1>3, <1>6 DEF NetBody, IsThread, Block
  <2> HIDE DEF r
  <2>w. \A u \in Tid \ {s} : Waiting(u) => WokenInTime(u)
    BY <2>3 DEF WokenInTime
  <2> QED BY <1>2, <1>4, <1>a, <2>1, <2>2, <2>w, ListWake
<1>7. CASE ExitBody(s)
  <2> DEFINE r == [loc[s] EXCEPT !.ret = "exit"]
  <2>1. pc' = [pc EXCEPT ![s] = "SchedReq"] /\ loc' = [loc EXCEPT ![s] = r] /\ r.ret = "exit"
    BY <1>2, <1>3, <1>7 DEF ExitBody, Goto, Locals
  <2>2. ~Waiting(s)'
    BY <1>3, <2>1 DEF Waiting
  <2>3. \A u \in Tid \ {s} : state'[u] = state[u] /\ wake_tick'[u] = wake_tick[u]
    BY <1>2, <1>3, <1>7 DEF ExitBody, IsThread
  <2> HIDE DEF r
  <2>w. \A u \in Tid \ {s} : Waiting(u) => WokenInTime(u)
    BY <2>3 DEF WokenInTime
  <2> QED BY <1>2, <1>4, <1>a, <2>1, <2>2, <2>w, ListWake
<1>8. CASE KillBody(s)
  <2>1. /\ pc' = [pc EXCEPT ![s] = "User"] /\ loc' = [loc EXCEPT ![s] = NoLocals]
        /\ state' = [state EXCEPT ![loc[s].tgt] = "TERMINATED"] /\ wake_tick' = wake_tick
    BY <1>8 DEF KillBody, Goto
  <2>2. ~Waiting(s)'
    BY <1>3, <2>1 DEF Waiting
  <2>3. \A u \in Tid : state'[u] \in {state[u], "TERMINATED"} /\ wake_tick'[u] = wake_tick[u]
    BY <1>3, <2>1
  <2> HIDE DEF NoLocals
  <2>w. \A u \in Tid \ {s} : Waiting(u) => WokenInTime(u)
    BY <2>3 DEF WokenInTime
  <2> QED BY <1>2, <1>4, <1>a, <2>1, <2>2, <2>w, ListWake
<1>9. CASE CreateOk(s)
  <2>1. /\ pc' = [pc EXCEPT ![s] = "User"] /\ loc' = [loc EXCEPT ![s] = loc[s]]
        /\ pc[s] = "CreateReq" /\ next_id < MaxThreads
        /\ state' = [state EXCEPT ![next_id] = "READY"] /\ wake_tick' = [wake_tick EXCEPT ![next_id] = 0]
    BY <1>3, <1>9 DEF CreateOk, Goto, Holding
  <2>2. ~Waiting(s)'
    BY <1>3, <2>1 DEF Waiting
  <2>3. next_id \in Tid /\ pc[next_id] = "New"
    BY <1>2, <2>1 DEF Tid, IInv, TypeOK, ControlInv, FreshIds
  <2>4. ~Waiting(next_id)
    BY <2>3 DEF Waiting
  <2>5. \A u \in Tid \ {next_id} : state'[u] = state[u] /\ wake_tick'[u] = wake_tick[u]
    BY <1>3, <2>1
  <2>w. \A u \in Tid \ {s} : Waiting(u) => WokenInTime(u)
    BY <2>4, <2>5 DEF WokenInTime
  <2> QED BY <1>2, <1>4, <1>a, <2>1, <2>2, <2>w, ListWake
<1> QED BY <1>5, <1>6, <1>7, <1>8, <1>9

(* INT80_WAIT_TICKS goes to sleep: from here on its caller waits for the    *)
(* deadline it has written into its thread_t.                               *)
LEMMA WaitBodyWake ==
  ASSUME IInv, WakeInv, NEW s \in Stk, WaitBody(s)
  PROVE  WakeInv'
<1> DEFINE r == [loc[s] EXCEPT !.ret = "wait", !.tid = current]
<1>1. /\ fault = "none" /\ cpu = s /\ current \in {s, NoThread} /\ pc[s] = "WaitReq"
      /\ loc[s] \in Locals /\ NoThread \notin Tid
      /\ current \in Tid => state[current] # "NULL"
  BY SectionFacts DEF WaitBody, CsLabels
<1>2. /\ state \in [Tid -> States] /\ wake_tick \in [Tid -> Nat] /\ loc \in [Stk -> Locals]
      /\ pc \in [Stk -> PcLabels] /\ now \in Nat
  BY DEF IInv, TypeOK
<1>3. /\ pc' = [pc EXCEPT ![s] = "SchedReq"] /\ loc' = [loc EXCEPT ![s] = r]
      /\ UNCHANGED <<cpu, now>>
  BY <1>1, <1>2 DEF WaitBody, Goto, hw
<1>4. r.wake = loc[s].wake /\ r.ret = "wait" /\ r.tid = current
  BY <1>1 DEF Locals
<1> HIDE DEF r
<1>5. /\ pc'[s] = "SchedReq" /\ loc'[s] = r
      /\ \A u \in Stk \ {s} : pc'[u] = pc[u] /\ loc'[u] = loc[u]
  BY <1>2, <1>3
<1>6. \A u \in Tid \ {s} : state'[u] = state[u] /\ wake_tick'[u] = wake_tick[u]
  BY <1>1, <1>2 DEF WaitBody, IsThread, Block
<1>7. s \in Tid /\ current = s => state'[s] = "BLOCKED" /\ wake_tick'[s] = loc[s].wake
  BY <1>1, <1>2 DEF WaitBody, IsThread, Block
<1>8. DeadlineKept'
  <2> SUFFICES ASSUME NEW u \in Tid, Waiting(u)'
               PROVE  /\ state'[u] = "BLOCKED" => wake_tick'[u] = loc'[u].wake
                      /\ state'[u] \in {"READY", "RUNNING"} => now' >= loc'[u].wake
    BY DEF DeadlineKept
  <2>1. CASE u = s
    BY <2>1, <1>4, <1>5, <1>7 DEF Waiting
  <2>2. CASE u # s
    <3>1. Waiting(u) /\ loc'[u] = loc[u]
      BY <2>2, <1>5 DEF Waiting, Stk
    <3> QED BY <2>2, <3>1, <1>1, <1>3, <1>6 DEF WakeInv, DeadlineKept
  <2> QED BY <2>1, <2>2
<1>9. s \in Tid /\ Waiting(s)' => Live(s)'
  BY <1>4, <1>5, <1>7 DEF Waiting, Live
<1>10. ~InWindow(s)'
  BY <1>5 DEF InWindow
<1>11. \A u \in Stk : pc'[u] = "YieldHlt" => loc'[u].ret # "wait"
  BY <1>1, <1>5 DEF WakeInv
<1> QED BY <1>1, <1>3, <1>8, <1>9, <1>10, <1>11 DEF WakeInv

(* schedule_core wakes nobody and kills nobody. *)
LEMMA CoreStates ==
  ASSUME IInv, CoreIdle \/ CoreSame \/ CoreOther
  PROVE  \A u \in Tid : WokenInTime(u) /\ (Live(u) <=> Live(u)')
<1>1. /\ StateWithOld \in [Tid -> States] /\ RqWithOld \in Seq(Tid) /\ Distinct(RqWithOld)
      /\ \A u \in Tid : Contains(RqWithOld, u) <=> StateWithOld[u] = "READY"
      /\ \A u \in Tid : StateWithOld[u] # "RUNNING"
  BY OldFacts
<1>2. \A u \in Tid : StateWithOld[u] = state[u] \/ (state[u] = "RUNNING" /\ StateWithOld[u] = "READY")
  BY DEF StateWithOld, OldRuns, IsThread, IInv, TypeOK
<1>3. wake_tick' = wake_tick
  BY DEF CoreIdle, CoreSame, CoreOther
<1>4. CASE CoreIdle
  <2>1. state' = StateWithOld
    BY <1>4 DEF CoreIdle
  <2> QED BY <2>1, <1>2, <1>3 DEF WokenInTime, Live
<1>5. CASE CoreSame \/ CoreOther
  <2> DEFINE n == Head(RqWithOld)
  <2>1. n \in Tid /\ StateWithOld[n] = "READY"
    BY <1>1, <1>5, DequeueFacts DEF CoreSame, CoreOther
  <2>2. state' = [StateWithOld EXCEPT ![n] = "RUNNING"]
    BY <1>5 DEF CoreSame, CoreOther
  <2> HIDE DEF n
  <2>3. \A u \in Tid : state'[u] = IF u = n THEN "RUNNING" ELSE StateWithOld[u]
    BY <1>1, <2>2
  <2> QED BY <2>1, <2>3, <1>2, <1>3 DEF WokenInTime, Live
<1> QED BY <1>4, <1>5

(* scheduler(), and a handler that reschedules without a switch. *)
LEMMA CoreWake ==
  ASSUME IInv, WakeInv, NEW s \in Stk, SchedStay(s) \/ SchedPick(s) \/ IrqStay(s)
  PROVE  WakeInv'
<1>1. /\ fault = "none" /\ cpu = s /\ UNCHANGED <<cpu, now>>
      /\ pc \in [Stk -> PcLabels] /\ loc \in [Stk -> Locals] /\ loc[s] \in Locals
  BY DEF SchedStay, SchedPick, IrqStay, Holding, Executing, InIrq, hw, IInv, TypeOK
<1>2. \A u \in Tid : WokenInTime(u) /\ (Live(u) => Live(u)')
  BY CoreStates DEF SchedStay, SchedPick, IrqStay
<1>a. /\ "SchedRet" \notin {"Sw1", "Sw2", "YieldHlt"}
      /\ "Sw1" \in {"Sw1", "Sw2"} /\ "Sw1" # "YieldHlt"
  OBVIOUS
<1>3. CASE SchedStay(s)
  <2>1. /\ pc[s] = "SchedReq" /\ pc' = [pc EXCEPT ![s] = "SchedRet"] /\ loc' = [loc EXCEPT ![s] = loc[s]]
        /\ loc' = loc
    BY <1>1, <1>3 DEF SchedStay, Holding, Goto
  <2>2. ~InWindow(s) /\ (Waiting(s)' => Waiting(s))
    BY <1>1, <2>1 DEF InWindow, Waiting
  <2> QED BY <1>1, <1>2, <1>a, <2>1, <2>2, ListWake
<1>4. CASE SchedPick(s)
  <2> DEFINE r == [loc[s] EXCEPT !.old = OldSlot, !.nxt = Head(RqWithOld)]
  <2>1. /\ pc[s] = "SchedReq" /\ pc' = [pc EXCEPT ![s] = "Sw1"] /\ loc' = [loc EXCEPT ![s] = r]
    BY <1>1, <1>4 DEF SchedPick, Holding, Executing, Goto
  <2>2. r.wake = loc[s].wake /\ r.ret = loc[s].ret /\ r.tid = loc[s].tid /\ r.nxt = Head(RqWithOld)
    BY <1>1 DEF Locals
  <2>3. current' = Head(RqWithOld) /\ Head(RqWithOld) \in Tid
    BY <1>4, OldFacts, DequeueFacts DEF SchedPick, CoreOther
  <2>4. state'[Head(RqWithOld)] = "RUNNING"
    BY <1>4, <2>3, CoreLists DEF SchedPick
  <2>5. pc'[s] = "Sw1" /\ loc'[s] = r
    BY <1>1, <2>1
  <2> HIDE DEF r
  <2>6. Waiting(s)' => Waiting(s)
    BY <2>1, <2>2, <2>5 DEF Waiting
  <2> QED BY <1>1, <1>2, <1>a, <2>1, <2>2, <2>4, <2>6, ListWake
<1>5. CASE IrqStay(s)
  <2>1. pc' = pc /\ loc' = loc /\ pc' = [pc EXCEPT ![s] = pc[s]] /\ loc' = [loc EXCEPT ![s] = loc[s]]
    BY <1>1, <1>5 DEF IrqStay
  <2>2. Waiting(s)' <=> Waiting(s)
    BY <2>1 DEF Waiting
  <2>3. pc[s] \in {"Sw1", "Sw2"} => state'[loc[s].nxt] = "RUNNING"
    <3>1. OldRuns /\ current \in Tid
      BY <1>1, <1>5 DEF IrqStay, InIrq, IInv, ControlInv, HandlerOK, OldRuns, IsThread
    <3>2. current' = current
      <4>1. RqWithOld # <<>>
        BY <3>1, EnqueueFacts DEF RqWithOld, IInv, TypeOK, ReadyQueueExact
      <4> QED BY <1>5, <4>1 DEF IrqStay, CoreIdle, CoreSame
    <3>3. state'[current] = "RUNNING"
      BY <1>5, <3>1, <3>2, CoreLists DEF IrqStay
    <3>4. pc[s] \in {"Sw1", "Sw2"} => loc[s].nxt = current
      BY <1>1 DEF IInv, ControlInv, CurrentOK, InWindow
    <3> QED BY <3>3, <3>4
  <2>4. pc[s] = "YieldHlt" => loc[s].ret # "wait"
    BY <1>1 DEF WakeInv
  <2>5. InWindow(s) => pc[s] \in {"Sw1", "Sw2"}
    BY DEF InWindow
  <2> QED BY <1>1, <1>2, <2>1, <2>2, <2>3, <2>4, <2>5, ListWake
<1> QED BY <1>3, <1>4, <1>5

(* The wake loop of timer_handler: the thread it wakes has its deadline     *)
(* behind it.                                                               *)
LEMMA WakeOneWake ==
  ASSUME IInv, WakeInv, NEW s \in Stk, WakeOne(s)
  PROVE  WakeInv'
<1>1. /\ fault = "none" /\ cpu = s /\ irq[s] = "wake" /\ UNCHANGED <<cpu, now, pc, loc>>
      /\ state \in [Tid -> States] /\ wake_tick \in [Tid -> Nat]
      /\ pc' = [pc EXCEPT ![s] = pc[s]] /\ loc' = [loc EXCEPT ![s] = loc[s]]
  BY DEF WakeOne, InIrq, IInv, TypeOK
<1>2. \A u \in Tid : WokenInTime(u) /\ (Live(u) => Live(u)') /\ (state[u] = "RUNNING" => state'[u] = "RUNNING")
  <2>1. CASE Expired(cursor)
    <3>1. /\ state' = [state EXCEPT ![cursor] = "READY"] /\ wake_tick' = [wake_tick EXCEPT ![cursor] = 0]
          /\ state[cursor] = "BLOCKED" /\ wake_tick[cursor] <= now
      BY <2>1 DEF WakeOne, Expired
    <3> QED BY <1>1, <3>1 DEF WokenInTime, Live
  <2>2. CASE ~Expired(cursor)
    <3>1. UNCHANGED <<state, wake_tick>>
      BY <2>2 DEF WakeOne
    <3> QED BY <3>1 DEF WokenInTime, Live
  <2> QED BY <2>1, <2>2
<1>3. Waiting(s)' <=> Waiting(s)
  BY <1>1 DEF Waiting
<1>4. pc[s] \in {"Sw1", "Sw2"} <=> InWindow(s)
  BY DEF InWindow
<1>5. pc[s] \in {"Sw1", "Sw2"} => state'[loc[s].nxt] = "RUNNING"
  <2>1. pc[s] \in {"Sw1", "Sw2"} => loc[s].nxt \in Tid /\ state[loc[s].nxt] = "RUNNING"
    BY <1>1, <1>4 DEF WakeInv, IInv, ControlInv, LocalsOK
  <2> QED BY <2>1, <1>2
<1>6. pc[s] = "YieldHlt" => loc[s].ret # "wait"
  BY <1>1 DEF WakeInv
<1> QED BY <1>1, <1>2, <1>3, <1>4, <1>5, <1>6, ListWake

(* thread_reap_terminated: a freed thread waits no more. *)
LEMMA ReapWake ==
  ASSUME IInv, WakeInv, ReapOne, fault = "none", UNCHANGED <<cpu, hw>>
  PROVE  WakeInv'
<1>1. PICK t \in Tid :
        /\ state[t] = "TERMINATED" /\ state' = [state EXCEPT ![t] = "NULL"]
        /\ wake_tick' = [wake_tick EXCEPT ![t] = 0]
        /\ IF t = cpu THEN UNCHANGED <<pc, irq, loc>>
           ELSE /\ pc' = [pc EXCEPT ![t] = "New"] /\ loc' = [loc EXCEPT ![t] = NoLocals]
  BY DEF ReapOne, Reapable
<1>2. /\ state \in [Tid -> States] /\ wake_tick \in [Tid -> Nat] /\ pc \in [Stk -> PcLabels]
      /\ loc \in [Stk -> Locals] /\ now \in Nat /\ now' = now /\ cpu' = cpu /\ cpu \in Stk /\ Tid \subseteq Stk
  BY DEF IInv, TypeOK, hw, Stk
<1>3. \A u \in Tid : state'[u] = IF u = t THEN "NULL" ELSE state[u]
  BY <1>1, <1>2
<1>4. /\ \A u \in Stk : u # t \/ u = cpu => pc'[u] = pc[u] /\ loc'[u] = loc[u]
      /\ t # cpu => pc'[t] = "New"
  BY <1>1, <1>2
<1>5. \A u \in Tid : Waiting(u)' => Waiting(u) /\ loc'[u].wake = loc[u].wake /\ WokenInTime(u)
  <2> SUFFICES ASSUME NEW u \in Tid, Waiting(u)' PROVE Waiting(u) /\ loc'[u].wake = loc[u].wake /\ WokenInTime(u)
    OBVIOUS
  <2>1. u # t \/ u = cpu
    BY <1>4 DEF Waiting
  <2>2. pc'[u] = pc[u] /\ loc'[u] = loc[u]
    BY <2>1, <1>2, <1>4
  <2>3. WokenInTime(u)
    BY <1>1, <1>2, <1>3 DEF WokenInTime
  <2> QED BY <2>2, <2>3 DEF Waiting
<1>6. DeadlineKept'
  BY <1>2, <1>5, DeadlineStep DEF WokenInTime
<1>7. pc'[cpu] = pc[cpu] /\ loc'[cpu] = loc[cpu]
  BY <1>2, <1>4
<1>8. cpu \in Tid /\ Waiting(cpu)' /\ ~InWindow(cpu)' => Live(cpu)'
  BY <1>1, <1>2, <1>3, <1>7 DEF WakeInv, Waiting, InWindow, Live
<1>9. InWindow(cpu)' => state'[loc'[cpu].nxt] = "RUNNING"
  BY <1>1, <1>3, <1>7 DEF WakeInv, InWindow, IInv, ControlInv, LocalsOK
<1>10. \A u \in Stk : pc'[u] = "YieldHlt" => loc'[u].ret # "wait"
  BY <1>4 DEF WakeInv
<1> QED BY <1>2, <1>6, <1>7, <1>8, <1>9, <1>10 DEF WakeInv, InWindow, Waiting, Live

(* switch_context goes on with the stack of thread n, which is RUNNING, or  *)
(* with a stack caught on its way to n.                                     *)
LEMMA SwitchWake ==
  ASSUME IInv, WakeInv, NEW s \in Stk, fault = "none", fault' = "none", cpu = s,
         NEW slot, NEW k, NEW n \in Tid, SwitchContext(slot, k), FrameOf(n, k), k \in Stk,
         NEW l, pc' = [pc EXCEPT ![s] = l],
         l = pc[s] \/ (pc[s] = "Sw2" /\ l = "SchedRet"),
         state'[n] = "RUNNING", UNCHANGED now, \A u \in Tid : WokenInTime(u)
  PROVE  WakeInv'
<1>1. Resumable(k) /\ cpu' = k /\ k # s /\ (k \in Tid => state[k] # "NULL")
  BY DEF SwitchContext, Resumable
<1>2. IF InWindow(k) THEN loc[k].nxt = n ELSE k = n
  BY <1>1 DEF FrameOf
<1>3. /\ pc \in [Stk -> PcLabels] /\ loc \in [Stk -> Locals] /\ now \in Nat /\ now' = now
  BY DEF IInv, TypeOK
<1>4. pc'[s] = l /\ \A u \in Stk \ {s} : pc'[u] = pc[u]
  BY <1>3
<1>5. \A u \in Stk : /\ loc'[u].tid = loc[u].tid /\ loc'[u].ret = loc[u].ret /\ loc'[u].wake = loc[u].wake
                     /\ loc'[u].nxt = loc[u].nxt
  <2> SUFFICES ASSUME NEW u \in Stk
               PROVE  /\ loc'[u].tid = loc[u].tid /\ loc'[u].ret = loc[u].ret /\ loc'[u].wake = loc[u].wake
                      /\ loc'[u].nxt = loc[u].nxt
    OBVIOUS
  <2>1. loc[u] \in Locals
    BY <1>3
  <2>2. loc'[u] = IF loc[u].rsi = k THEN [loc[u] EXCEPT !.rsi = Stale] ELSE loc[u]
    BY <1>1 DEF SwitchContext
  <2>3. \A r \in Locals : LET q == [r EXCEPT !.rsi = Stale]
                          IN q.tid = r.tid /\ q.ret = r.ret /\ q.wake = r.wake /\ q.nxt = r.nxt
    BY DEF Locals
  <2> QED BY <2>1, <2>2, <2>3
<1>6. \A u \in Tid : Waiting(u)' => Waiting(u)
  BY <1>4, <1>5 DEF Waiting, Stk
<1>7. DeadlineKept'
  BY <1>3, <1>5, <1>6, DeadlineStep DEF WokenInTime, Stk
<1>8. InWindow(k)' <=> InWindow(k)
  BY <1>1, <1>4 DEF InWindow
<1>9. k \in Tid /\ Waiting(k)' /\ ~InWindow(k)' => Live(k)'
  BY <1>2, <1>8 DEF Live
<1>10. InWindow(k)' => state'[loc'[k].nxt] = "RUNNING"
  BY <1>2, <1>5, <1>8
<1>11. \A u \in Stk : pc'[u] = "YieldHlt" => loc'[u].ret # "wait"
  BY <1>4, <1>5 DEF WakeInv
<1> QED BY <1>1, <1>7, <1>9, <1>10, <1>11 DEF WakeInv, InWindow, Waiting, Live

LEMMA SwitchStepsWake ==
  ASSUME IInv, WakeInv, NEW s \in Stk, fault' = "none", Switch(s) \/ IrqSwitch(s)
  PROVE  WakeInv'
<1>1. fault = "none" /\ cpu = s /\ now' = now /\ pc \in [Stk -> PcLabels]
  BY DEF Switch, IrqSwitch, Executing, InIrq, hw, IInv, TypeOK
<1>2. CASE Switch(s)
  <2> DEFINE n == loc[s].nxt
             k == loc[s].rsi
  <2>1. /\ pc[s] = "Sw2" /\ SwitchContext(loc[s].old, k) /\ pc' = [pc EXCEPT ![s] = "SchedRet"]
        /\ UNCHANGED <<state, wake_tick>>
    BY <1>2 DEF Switch, Goto, lists
  <2>2. n \in Tid /\ k \in Stk \cup {Stale}
    BY <2>1 DEF IInv, TypeOK, Locals, ControlInv, LocalsOK, InWindow
  <2>3. k # Stale
    BY <1>1, <2>1 DEF SwitchContext, Resumable
  <2>4. FrameOf(n, k) /\ state'[n] = "RUNNING"
    BY <1>1, <2>1, <2>3 DEF IInv, ControlInv, FramesOK, WakeInv, InWindow
  <2>5. \A u \in Tid : WokenInTime(u)
    BY <2>1 DEF WokenInTime
  <2> HIDE DEF n, k
  <2> QED BY <1>1, <2>1, <2>2, <2>3, <2>4, <2>5, SwitchWake
<1>3. CASE IrqSwitch(s)
  <2> DEFINE n == Head(RqWithOld)
             k == rsp[n]
  <2>1. SwitchContext(OldSlot, k) /\ pc' = [pc EXCEPT ![s] = pc[s]] /\ CoreOther
    BY <1>1, <1>3 DEF IrqSwitch
  <2>2. n \in Tid /\ current' = n /\ k \in Stk \cup {Stale}
    BY <2>1, OldFacts, DequeueFacts DEF CoreOther, IInv, TypeOK
  <2>3. k # Stale
    BY <1>1, <2>1 DEF SwitchContext, Resumable
  <2>4. FrameOf(n, k)
    BY <1>1, <2>2, <2>3 DEF IInv, ControlInv, FramesOK
  <2>5. state'[n] = "RUNNING"
    BY <2>1, <2>2, CoreLists
  <2>6. \A u \in Tid : WokenInTime(u)
    BY <2>1, CoreStates
  <2> HIDE DEF n, k
  <2> QED BY <1>1, <2>1, <2>2, <2>3, <2>4, <2>5, <2>6, SwitchWake
<1> QED BY <1>2, <1>3

LEMMA NextWakeInv == IInv /\ WakeInv /\ [Next]_vars => WakeInv'
<1> SUFFICES ASSUME IInv, WakeInv, Next, fault' = "none" PROVE WakeInv'
  <2>1. CASE UNCHANGED vars
    BY <2>1 DEF WakeInv, DeadlineKept, Waiting, InWindow, Live, vars, lists, ctx, hw
  <2>2. fault' # "none" => WakeInv'
    BY DEF WakeInv
  <2> QED BY <2>1, <2>2
<1>1. PICK s \in Stk : Call(s) \/ Section(s) \/ Sched(s) \/ TimerIrq(s) \/ Handler(s)
  BY DEF Next
<1>2. CASE Call(s)
  BY <1>2, CallWake
<1>3. CASE Section(s)
  BY <1>3, MoveWake, SectionWake, WaitBodyWake DEF Section
<1>4. CASE Sched(s)
  <2>1. CASE SchedReap(s)
    BY <2>1, ReapWake DEF SchedReap, Holding, Executing
  <2> QED BY <1>4, <2>1, MoveWake, CoreWake, SwitchStepsWake DEF Sched
<1>5. CASE TimerIrq(s)
  BY <1>5, TickWake
<1>6. CASE Handler(s)
  <2>1. CASE IrqReap(s)
    BY <2>1, ReapWake DEF IrqReap, InIrq
  <2> QED BY <1>6, <2>1, TickWake, WakeOneWake, CoreWake, SwitchStepsWake DEF Handler
<1> QED BY <1>1, <1>2, <1>3, <1>4, <1>5, <1>6

(* A thread inside INT80_WAIT_TICKS stays BLOCKED until its deadline.       *)
THEOREM SpecWakeInv == Spec => [](IInv /\ WakeInv)
<1>1. Init => IInv /\ WakeInv
  BY InitIInv, InitWakeInv
<1>2. IInv /\ WakeInv /\ [Next]_vars => (IInv /\ WakeInv)'
  BY NextIInv, NextWakeInv
<1> QED BY <1>1, <1>2, PTL DEF Spec

(* INT80_WAIT_TICKS called by the scheduled thread does not return before   *)
(* its deadline, whatever else sleeps, exits, is killed or preempts it, and *)
(* wherever ticks fall.                                                     *)
THEOREM SpecSleepIsLongEnough == Spec => SleepIsLongEnough
<1> DEFINE A == \A s \in Tid : /\ pc[s] = "WaitRecheck" /\ pc'[s] = "User"
                               /\ loc[s].tid # NoThread
                               => now >= loc[s].wake
<1>1. IInv /\ WakeInv /\ [Next]_vars => [A]_vars
  <2> SUFFICES ASSUME IInv, WakeInv, Next, NEW s \in Tid, pc[s] = "WaitRecheck", pc'[s] = "User",
                      loc[s].tid # NoThread
               PROVE  now >= loc[s].wake
    OBVIOUS
  <2>1. /\ s \in Stk /\ loc[s].tid = s /\ pc \in [Stk -> PcLabels] /\ state[s] \in States
        /\ now \in Nat /\ loc[s].wake \in Nat
    BY DEF IInv, TypeOK, ControlInv, LocalsOK, Locals, Stk
  <2>2. WaitDone(s)
    <3>1. PICK u \in Stk : Call(u) \/ Section(u) \/ Sched(u) \/ TimerIrq(u) \/ Handler(u)
      BY DEF Next
    <3>2. ASSUME NEW l, pc' = [pc EXCEPT ![u] = l], l # "User" \/ pc[u] # "WaitRecheck"
          PROVE  FALSE
      BY <2>1, <3>2
    <3>3. ~UNCHANGED pc
      OBVIOUS
    <3>4. CASE Call(u)
      BY <3>2, <3>4 DEF Call, Start, SysEnter, SysLeave, YieldCall, NetCall, ExitCall, CreateCall, WaitCall,
                        KillCall, AtUser, Goto
    <3>5. CASE Section(u)
      <4>1. CASE WaitDone(u)
        <5>1. pc' = [pc EXCEPT ![u] = "User"]
          BY <4>1 DEF WaitDone, Goto
        <5> QED BY <2>1, <4>1, <5>1
      <4>2. CASE Acquire(u) \/ WaitAgain(u)
        BY <3>2, <3>3, <4>2 DEF Acquire, ctx, WaitAgain, Goto
      <4>3. CASE WaitBody(u) \/ NetBody(u) \/ ExitBody(u)
        BY <3>2, <4>3 DEF WaitBody, NetBody, ExitBody, Goto
      <4>4. CASE KillBody(u) \/ CreateFail(u) \/ CreateNoStack(u) \/ CreateOk(u)
        BY <3>2, <3>3, <4>4 DEF KillBody, CreateFail, CreateNoStack, CreateOk, Holding, Goto
      <4> QED BY <3>5, <4>1, <4>2, <4>3, <4>4 DEF Section
    <3>6. ASSUME ReapOne PROVE FALSE
      <4>1. PICK t \in Tid : UNCHANGED pc \/ pc' = [pc EXCEPT ![t] = "New"]
        BY <3>6 DEF ReapOne, Reapable
      <4> QED BY <2>1, <4>1
    <3>7. CASE Sched(u)
      <4>1. ASSUME SchedReturn(u) PROVE FALSE
        BY <3>2, <4>1 DEF SchedReturn, Goto
      <4>2. CASE SchedStay(u) \/ SchedPick(u) \/ LoadRsp(u) \/ Switch(u)
        BY <3>2, <4>2 DEF SchedStay, SchedPick, LoadRsp, Switch, Goto
      <4> QED BY <3>6, <3>7, <4>1, <4>2 DEF Sched, SchedReap
    <3>8. CASE TimerIrq(u)
      BY <3>2, <3>8 DEF TimerIrq, Goto, AfterHlt
    <3>9. CASE Handler(u)
      BY <3>3, <3>6, <3>9 DEF Handler, WakeOne, QuantumKeep, QuantumEnd, IrqReap, IrqStay, IrqSwitch, IrqResume
    <3> QED BY <3>1, <3>4, <3>5, <3>7, <3>8, <3>9
  <2>3. fault = "none" /\ cpu = s /\ pc[s] = "WaitRecheck"
    BY <2>2 DEF WaitDone, Holding, Executing
  <2>4. Waiting(s) /\ ~InWindow(cpu)
    BY <2>1, <2>3 DEF Waiting, InWindow
  <2>5. Live(s) /\ DeadlineKept
    BY <2>3, <2>4 DEF WakeInv
  <2>6. state[s] = "BLOCKED" => ~(now < loc[s].wake)
    BY <2>1, <2>2 DEF WaitDone, IsThread
  <2> QED BY <2>1, <2>4, <2>5, <2>6 DEF Live, DeadlineKept
<1> QED BY <1>1, SpecWakeInv, PTL DEF Spec, SleepIsLongEnough

-----------------------------------------------------------------------------
(* Saved frames, when no tick falls into the switch window and nobody calls *)
(* network_thread_block: both leave a live thread running while             *)
(* current_thread_id names another one or none, and its frame is then saved *)
(* in the dummy slot.  FrameInv (SchedulerInv) excludes that.               *)

(* thread_init: nothing to resume. *)
LEMMA InitFrameInv == Init => FrameInv
BY DEF Init, FrameInv, NoNetCalls, WaitersKnown, WindowClosed, FramesWhole, SwitchReady, OffDuty, SleeperWaits,
       Waiting, Live, InWindow, NoLocals, Stk, Tid, BOOT, NoThread

(* Outside scheduler() and INT80_WAIT_TICKS the executing thread is the one *)
(* current_thread_id names, and it is not asleep.                           *)
LEMMA OnDuty ==
  ASSUME IInv, FrameInv, NEW s \in Tid, fault = "none", cpu = s,
         pc[s] \notin {"WaitRecheck", "WaitHlt", "SchedReq", "Sw1", "Sw2", "SchedRet", "YieldHlt"}
  PROVE  current = s /\ state[s] \in {"RUNNING", "TERMINATED"}
<1>1. ~Waiting(s) /\ ~InWindow(s)
  BY DEF Waiting, InWindow
<1>2. current = s
  BY <1>1 DEF FrameInv, OffDuty
<1> QED BY <1>2 DEF IInv, ControlInv, CurrentRuns

(* The executing stack moves on, outside the switch window. *)
LEMMA FrameMoves ==
  ASSUME IInv, FrameInv, NEW s \in Stk, fault = "none", fault' # "stale_resume", cpu = s, cpu' = s,
         ~InWindow(s), NEW l, l \notin {"Sw1", "Sw2", "NetReq"}, pc' = [pc EXCEPT ![s] = l],
         NEW r, r.ret # "net", loc' = [loc EXCEPT ![s] = r],
         \A t \in Tid \ {s} : Live(t)' => (Live(t) /\ rsp'[t] = rsp[t]) \/ rsp'[t] = t,
         s \in Tid /\ l \in {"WaitRecheck", "WaitHlt"} => r.tid = s,
         s \in Tid /\ r.ret = "wait" /\ l \in {"SchedReq", "SchedRet"} => r.tid = s,
         s \in Tid /\ current' # s => \/ Waiting(s)' /\ l # "SchedReq"
                                      \/ l \in {"SchedReq", "SchedRet", "YieldHlt"} /\ ~Live(s)',
         s \in Tid /\ l = "SchedReq" /\ state'[s] = "BLOCKED" => Waiting(s)'
  PROVE  FrameInv'
<1>1. /\ pc'[s] = l /\ loc'[s] = r
      /\ \A u \in Stk \ {s} : pc'[u] = pc[u] /\ loc'[u] = loc[u]
  BY DEF IInv, TypeOK
<1>2. NoNetCalls'
  BY <1>1 DEF FrameInv, NoNetCalls
<1>3. WaitersKnown'
  BY <1>1 DEF FrameInv, WaitersKnown, Stk
<1>4. \A u \in Stk : ~InWindow(u)'
  BY <1>1 DEF FrameInv, WindowClosed, InWindow
<1>5. WindowClosed' /\ SwitchReady'
  BY <1>4 DEF WindowClosed, SwitchReady
<1>6. FramesWhole'
  BY DEF FrameInv, FramesWhole
<1>7. OffDuty' /\ SleeperWaits'
  BY <1>1 DEF OffDuty, SleeperWaits
<1> QED BY <1>2, <1>3, <1>5, <1>6, <1>7 DEF FrameInv

(* Entering and leaving an operation. *)
LEMMA CallFrame ==
  ASSUME IInv, FrameInv, "net" \notin Ops, NEW s \in Stk, Call(s)
  PROVE  FrameInv'
<1>1. PICK l \in {"User", "Sys", "SchedReq", "WaitReq", "ExitReq", "KillReq", "CreateReq"}, r \in {loc'[s]} :
        /\ fault = "none" /\ cpu = s /\ pc[s] \in {"New", "User", "Sys"}
        /\ pc' = [pc EXCEPT ![s] = l] /\ loc' = [loc EXCEPT ![s] = r]
        /\ UNCHANGED <<state, current, cpu, rsp, fault>>
        /\ r = loc[s] \/ r.ret \in {"none", "yield"}
        /\ l = "SchedReq" => r.ret = "yield"
  <2> USE DEF Executing, Goto, lists
  <2>1. loc' = [loc EXCEPT ![s] = loc'[s]] /\ loc \in [Stk -> Locals]
    BY DEF Call, Start, SysEnter, SysLeave, YieldCall, NetCall, ExitCall, CreateCall, WaitCall, KillCall, IInv, TypeOK
  <2>2. CASE Start(s) \/ SysEnter(s) \/ SysLeave(s)
    <3>1. loc' = loc
      BY <2>2 DEF Start, SysEnter, SysLeave
    <3> QED BY <2>1, <2>2, <3>1 DEF Start, SysEnter, SysLeave, AtUser
  <2>3. CASE CreateCall(s) \/ ExitCall(s)
    <3>1. loc'[s].ret = "none"
      BY <2>1, <2>3 DEF CreateCall, ExitCall, NoLocals
    <3> QED BY <2>1, <2>3, <3>1 DEF CreateCall, ExitCall, AtUser
  <2>4. CASE YieldCall(s)
    <3>1. loc'[s].ret = "yield"
      BY <2>1, <2>4 DEF YieldCall, NoLocals
    <3> QED BY <2>1, <2>4, <3>1 DEF YieldCall
  <2>5. CASE \E w \in Waits : WaitCall(s, w)
    <3>1. loc'[s].ret = "none"
      BY <2>1, <2>5 DEF WaitCall, NoLocals
    <3> QED BY <2>1, <2>5, <3>1 DEF WaitCall, AtUser
  <2>6. CASE \E t \in Tid : KillCall(s, t)
    <3>1. loc'[s].ret = "none"
      BY <2>1, <2>6 DEF KillCall, NoLocals
    <3> QED BY <2>1, <2>6, <3>1 DEF KillCall, AtUser
  <2>7. ~NetCall(s)
    BY DEF NetCall, AtUser
  <2> QED BY <2>2, <2>3, <2>4, <2>5, <2>6, <2>7 DEF Call
<1>2. ~InWindow(s) /\ r.ret # "net"
  BY <1>1 DEF InWindow, FrameInv, NoNetCalls
<1>3. s \in Tid => current = s /\ state[s] # "BLOCKED"
  BY <1>1, OnDuty
<1>4. l \notin {"Sw1", "Sw2", "NetReq", "WaitRecheck", "WaitHlt", "SchedRet"}
  OBVIOUS
<1>5. \A t \in Tid \ {s} : Live(t)' => (Live(t) /\ rsp'[t] = rsp[t]) \/ rsp'[t] = t
  BY <1>1 DEF Live
<1> QED BY <1>1, <1>2, <1>3, <1>4, <1>5, FrameMoves

(* Taking the lock, and giving it back with nothing done. *)
LEMMA MoveFrame ==
  ASSUME IInv, WakeInv, FrameInv, NEW s \in Stk,
         Acquire(s) \/ CreateFail(s) \/ CreateNoStack(s) \/ WaitAgain(s) \/ SchedReturn(s)
  PROVE  FrameInv'
<1>1. /\ fault = "none" /\ cpu = s /\ UNCHANGED <<state, current, cpu, rsp, fault>>
      /\ pc \in [Stk -> PcLabels] /\ loc \in [Stk -> Locals] /\ loc[s] \in Locals
      /\ current \in Tid \cup {NoThread} /\ Tid \subseteq Stk
  BY DEF Acquire, CreateFail, CreateNoStack, WaitAgain, SchedReturn, Holding, Executing, lists, ctx, hw, IInv, TypeOK, Stk
<1>2. \A t \in Tid \ {s} : Live(t)' => (Live(t) /\ rsp'[t] = rsp[t]) \/ rsp'[t] = t
  BY <1>1 DEF Live
<1>3. loc[s].ret # "net" /\ pc[s] # "NetReq" /\ (s \in Tid => (Live(s)' <=> Live(s)))
  BY <1>1 DEF FrameInv, NoNetCalls, Live
<1>4. CASE Acquire(s)
  <2>1. pc' = [pc EXCEPT ![s] = pc[s]] /\ loc' = [loc EXCEPT ![s] = loc[s]] /\ pc' = pc /\ loc' = loc
        /\ pc[s] \in CsLabels
    BY <1>1, <1>4 DEF Acquire, ctx
  <2>2. pc[s] \notin {"Sw1", "Sw2", "NetReq"} /\ ~InWindow(s)
    BY <1>3, <2>1 DEF CsLabels, InWindow
  <2>3. s \in Tid => (Waiting(s)' <=> Waiting(s))
    BY <2>1 DEF Waiting
  <2>4. /\ s \in Tid /\ pc[s] \in {"WaitRecheck", "WaitHlt"} => loc[s].tid = s
        /\ s \in Tid /\ loc[s].ret = "wait" /\ pc[s] \in {"SchedReq", "SchedRet"} => loc[s].tid = s
    BY <1>1 DEF FrameInv, WaitersKnown
  <2>5. s \in Tid /\ current' # s => \/ Waiting(s)' /\ pc[s] # "SchedReq"
                                     \/ pc[s] \in {"SchedReq", "SchedRet", "YieldHlt"} /\ ~Live(s)'
    <3>1. s \in Tid /\ current # s => \/ Waiting(s) /\ pc[s] # "SchedReq"
                                      \/ pc[s] \in {"SchedReq", "SchedRet", "YieldHlt"} /\ ~Live(s)
      BY <1>1, <2>2 DEF FrameInv, OffDuty
    <3> QED BY <1>1, <1>3, <2>3, <3>1
  <2>6. s \in Tid /\ pc[s] = "SchedReq" /\ state'[s] = "BLOCKED" => Waiting(s)'
    BY <1>1, <2>3 DEF FrameInv, SleeperWaits
  <2> DEFINE l == pc[s]
             r == loc[s]
  <2>7. /\ pc' = [pc EXCEPT ![s] = l] /\ loc' = [loc EXCEPT ![s] = r] /\ l \notin {"Sw1", "Sw2", "NetReq"}
        /\ r.ret # "net" /\ ~InWindow(s) /\ fault' # "stale_resume" /\ cpu' = s
        /\ s \in Tid /\ l \in {"WaitRecheck", "WaitHlt"} => r.tid = s
        /\ s \in Tid /\ r.ret = "wait" /\ l \in {"SchedReq", "SchedRet"} => r.tid = s
        /\ s \in Tid /\ current' # s => \/ Waiting(s)' /\ l # "SchedReq"
                                        \/ l \in {"SchedReq", "SchedRet", "YieldHlt"} /\ ~Live(s)'
        /\ s \in Tid /\ l = "SchedReq" /\ state'[s] = "BLOCKED" => Waiting(s)'
    BY <1>1, <1>3, <2>1, <2>2, <2>4, <2>5, <2>6
  <2> HIDE DEF l, r
  <2> QED BY <1>1, <1>2, <2>7, FrameMoves
<1>5. CASE CreateFail(s) \/ CreateNoStack(s)
  <2>1. pc[s] = "CreateReq" /\ pc' = [pc EXCEPT ![s] = "User"] /\ loc' = [loc EXCEPT ![s] = loc[s]]
    BY <1>1, <1>5 DEF CreateFail, CreateNoStack, Holding, Goto
  <2>2. ~InWindow(s)
    BY <2>1 DEF InWindow
  <2>a. s \in Tid => current = s
    BY <1>1, <2>1, OnDuty
  <2>3. "User" \notin {"Sw1", "Sw2", "NetReq", "WaitRecheck", "WaitHlt", "SchedReq", "SchedRet"}
    OBVIOUS
  <2> QED BY <1>1, <1>2, <1>3, <2>1, <2>2, <2>a, <2>3, FrameMoves
<1>6. CASE WaitAgain(s)
  <2>1. pc[s] = "WaitRecheck" /\ pc' = [pc EXCEPT ![s] = "WaitHlt"] /\ loc' = [loc EXCEPT ![s] = loc[s]] /\ loc' = loc
    BY <1>1, <1>6 DEF WaitAgain, Holding, Goto
  <2>2. ~InWindow(s) /\ (s \in Tid => loc[s].tid = s) /\ pc'[s] = "WaitHlt"
    BY <1>1, <2>1 DEF InWindow, FrameInv, WaitersKnown
  <2>3. s \in Tid => Waiting(s)'
    BY <2>1, <2>2 DEF Waiting
  <2>4. "WaitHlt" \notin {"Sw1", "Sw2", "NetReq", "SchedReq", "SchedRet"}
    OBVIOUS
  <2> QED BY <1>1, <1>2, <1>3, <2>1, <2>2, <2>3, <2>4, FrameMoves
<1>7. CASE SchedReturn(s)
  <2> DEFINE r == [loc[s] EXCEPT !.old = NoThread, !.nxt = NoThread, !.rsi = Stale]
             l == AfterSched(loc[s].ret)
  <2>1. r.ret = loc[s].ret /\ r.tid = loc[s].tid
    BY <1>1 DEF Locals
  <2>2. pc[s] = "SchedRet" /\ pc' = [pc EXCEPT ![s] = l] /\ loc' = [loc EXCEPT ![s] = r]
    BY <1>1, <1>7 DEF SchedReturn, Goto
  <2>3. /\ l \in {"WaitRecheck", "User", "Halted", "YieldHlt"} /\ (loc[s].ret = "wait" <=> l = "WaitRecheck")
        /\ ~(current >= 0) => l \in {"WaitRecheck", "YieldHlt"}
    BY <1>3 DEF AfterSched
  <2>4. pc'[s] = l /\ loc'[s] = r /\ ~InWindow(s)
    BY <1>1, <2>2 DEF InWindow
  <2> HIDE DEF r, l
  <2>5. s \in Tid /\ loc[s].ret = "wait" => loc[s].tid = s
    BY <1>1, <2>2 DEF FrameInv, WaitersKnown
  <2>6. s \in Tid /\ l = "WaitRecheck" => Waiting(s)' /\ r.tid = s
    BY <2>1, <2>3, <2>4, <2>5 DEF Waiting
  <2>7. s \in Tid /\ current # s => l \in {"WaitRecheck", "YieldHlt"} /\ (Waiting(s) \/ ~Live(s))
    <3>1. current \in {cpu, NoThread}
      BY <1>1, <2>4 DEF IInv, ControlInv, CurrentOK
    <3>2. s \in Tid /\ current # s => ~(current >= 0)
      BY <1>1, <3>1 DEF NoThread
    <3> QED BY <1>1, <2>3, <2>4, <3>2 DEF FrameInv, OffDuty
  <2>8. Waiting(s) => l = "WaitRecheck"
    BY <2>2, <2>3 DEF Waiting
  <2>9. s \in Tid /\ current' # s => \/ Waiting(s)' /\ l # "SchedReq"
                                     \/ l \in {"SchedReq", "SchedRet", "YieldHlt"} /\ ~Live(s)'
    BY <1>1, <1>3, <2>6, <2>7, <2>8
  <2>10. l \notin {"Sw1", "Sw2", "NetReq", "WaitHlt", "SchedReq", "SchedRet"} /\ r.ret # "net"
    BY <1>3, <2>1, <2>3
  <2> QED BY <1>1, <1>2, <2>2, <2>4, <2>6, <2>9, <2>10, FrameMoves
<1> QED BY <1>4, <1>5, <1>6, <1>7

(* Critical sections that change states: a thread that executes and sleeps  *)
(* is behind INT80_WAIT_TICKS, a thread that returns to its own code is     *)
(* current_thread_id.                                                       *)
LEMMA SectionFrame ==
  ASSUME IInv, WakeInv, FrameInv, NEW s \in Stk, WaitBody(s) \/ WaitDone(s) \/ ExitBody(s) \/ KillBody(s)
  PROVE  FrameInv'
<1>1. PICK h \in {"WaitReq", "WaitRecheck", "ExitReq", "KillReq"} : Holding(s, h)
  BY DEF WaitBody, WaitDone, ExitBody, KillBody
<1>2. /\ fault = "none" /\ cpu = s /\ current \in {s, NoThread} /\ loc[s].tid \in {s, NoThread}
      /\ pc[s] = h /\ loc[s] \in Locals /\ NoThread \notin Tid
      /\ h = "KillReq" => loc[s].tgt \in Tid
  BY <1>1, SectionFacts DEF CsLabels
<1>3. /\ state \in [Tid -> States] /\ pc \in [Stk -> PcLabels] /\ loc \in [Stk -> Locals]
      /\ cpu' = s /\ rsp' = rsp /\ fault' # "stale_resume" /\ ~InWindow(s)
  BY <1>1, <1>2 DEF WaitBody, WaitDone, ExitBody, KillBody, IInv, TypeOK, InWindow
<1>4. s \in Tid /\ h # "WaitRecheck" => current = s /\ state[s] \in {"RUNNING", "TERMINATED"}
  BY <1>2, OnDuty
<1>a. /\ "User" \notin {"Sw1", "Sw2", "NetReq", "WaitRecheck", "WaitHlt", "SchedReq", "SchedRet", "YieldHlt"}
      /\ "SchedReq" \notin {"Sw1", "Sw2", "NetReq", "WaitRecheck", "WaitHlt"}
      /\ NoLocals.ret # "net"
  BY DEF NoLocals
<1>5. CASE WaitBody(s)
  <2> DEFINE r == [loc[s] EXCEPT !.ret = "wait", !.tid = current]
  <2>1. pc' = [pc EXCEPT ![s] = "SchedReq"] /\ loc' = [loc EXCEPT ![s] = r] /\ r.ret = "wait" /\ r.tid = current
    BY <1>2, <1>3, <1>5 DEF WaitBody, Goto, Locals
  <2>2. pc[s] = "WaitReq" /\ current' = current
    BY <1>5 DEF WaitBody, Holding
  <2>3. \A t \in Tid \ {s} : state'[t] = state[t]
    BY <1>2, <1>3, <1>5 DEF WaitBody, IsThread, Block
  <2>4. \A t \in Tid \ {s} : Live(t)' => (Live(t) /\ rsp'[t] = rsp[t]) \/ rsp'[t] = t
    BY <1>3, <2>3 DEF Live
  <2>5. pc'[s] = "SchedReq" /\ loc'[s] = r
    BY <1>3, <2>1
  <2>6. s \in Tid => current = s
    BY <1>2, <1>4, <2>2
  <2> HIDE DEF r
  <2>7. s \in Tid => Waiting(s)'
    BY <2>1, <2>5, <2>6 DEF Waiting
  <2> QED BY <1>2, <1>3, <1>a, <2>1, <2>2, <2>4, <2>6, <2>7, FrameMoves
<1>6. CASE WaitDone(s)
  <2>1. pc' = [pc EXCEPT ![s] = "User"] /\ loc' = [loc EXCEPT ![s] = NoLocals] /\ pc[s] = "WaitRecheck"
    BY <1>6 DEF WaitDone, Goto, Holding
  <2>2. s \in Tid => loc[s].tid = s
    BY <1>2, <2>1 DEF FrameInv, WaitersKnown
  <2>3. s \in Tid => IsThread(s)
    <3>1. s \in Tid => Waiting(s)
      BY <2>1, <2>2 DEF Waiting
    <3> QED BY <1>2, <1>3, <3>1 DEF WakeInv, Live, IsThread
  <2>4. s \in Tid => current' = s
    BY <1>6, <2>2, <2>3 DEF WaitDone
  <2>5. \A t \in Tid \ {s} : state'[t] = state[t]
    BY <1>2, <1>3, <1>6 DEF WaitDone, IsThread
  <2>6. \A t \in Tid \ {s} : Live(t)' => (Live(t) /\ rsp'[t] = rsp[t]) \/ rsp'[t] = t
    BY <1>3, <2>5 DEF Live
  <2> HIDE DEF NoLocals
  <2> QED BY <1>2, <1>3, <1>a, <2>1, <2>4, <2>6, FrameMoves
<1>7. CASE ExitBody(s)
  <2> DEFINE r == [loc[s] EXCEPT !.ret = "exit"]
  <2>1. pc' = [pc EXCEPT ![s] = "SchedReq"] /\ loc' = [loc EXCEPT ![s] = r] /\ r.ret = "exit"
    BY <1>2, <1>3, <1>7 DEF ExitBody, Goto, Locals
  <2>2. pc[s] = "ExitReq" /\ current' = current
    BY <1>7 DEF ExitBody, Holding
  <2>3. \A t \in Tid \ {s} : state'[t] = state[t]
    BY <1>2, <1>3, <1>7 DEF ExitBody, IsThread
  <2>4. \A t \in Tid \ {s} : Live(t)' => (Live(t) /\ rsp'[t] = rsp[t]) \/ rsp'[t] = t
    BY <1>3, <2>3 DEF Live
  <2>5. s \in Tid => current = s /\ state[s] # "BLOCKED"
    BY <1>2, <1>4, <2>2
  <2>6. s \in Tid => state'[s] # "BLOCKED"
    BY <1>2, <1>3, <1>7, <2>5 DEF ExitBody, IsThread
  <2> HIDE DEF r
  <2> QED BY <1>2, <1>3, <1>a, <2>1, <2>2, <2>4, <2>5, <2>6, FrameMoves
<1>8. CASE KillBody(s)
  <2>1. pc[s] = "KillReq" /\ current' = current
    BY <1>8 DEF KillBody, Holding
  <2>2. s \in Tid => current = s
    BY <1>2, <1>4, <2>1
  <2>3. CASE fault' = fault /\ state' = [state EXCEPT ![loc[s].tgt] = "TERMINATED"]
                  /\ pc' = [pc EXCEPT ![s] = "User"] /\ loc' = [loc EXCEPT ![s] = NoLocals]
    <3>1. \A t \in Tid \ {s} : Live(t)' => (Live(t) /\ rsp'[t] = rsp[t]) \/ rsp'[t] = t
      BY <1>3, <2>3 DEF Live
    <3> HIDE DEF NoLocals
    <3> QED BY <1>2, <1>3, <1>a, <2>1, <2>2, <2>3, <3>1, FrameMoves
  <2>4. CASE fault' = "null_thread"
    BY <2>4 DEF FrameInv
  <2> QED BY <1>8, <2>3, <2>4 DEF KillBody, Goto
<1> QED BY <1>5, <1>6, <1>7, <1>8

(* A new thread has a frame of its own. *)
LEMMA CreateFrame ==
  ASSUME IInv, FrameInv, NEW s \in Stk, CreateOk(s)
  PROVE  FrameInv'
<1>1. /\ fault = "none" /\ cpu = s /\ pc[s] = "CreateReq" /\ next_id \in Nat /\ loc[s] \in Locals
      /\ next_id < MaxThreads
  BY SectionFacts DEF CreateOk, CsLabels
<1>2. /\ state \in [Tid -> States] /\ pc \in [Stk -> PcLabels] /\ loc \in [Stk -> Locals]
      /\ rsp \in [Tid -> Stk \cup {Stale}] /\ next_id \in Tid
  BY <1>1 DEF IInv, TypeOK, Tid
<1>3. /\ pc' = [pc EXCEPT ![s] = "User"] /\ loc' = [loc EXCEPT ![s] = loc[s]]
      /\ state' = [state EXCEPT ![next_id] = "READY"] /\ rsp' = [rsp EXCEPT ![next_id] = next_id]
      /\ UNCHANGED <<cpu, fault, current>>
  BY <1>2 DEF CreateOk, Goto
<1>4. \A t \in Tid \ {s} : Live(t)' => (Live(t) /\ rsp'[t] = rsp[t]) \/ rsp'[t] = t
  BY <1>2, <1>3 DEF Live
<1>5. s \in Tid => current = s
  BY <1>1, OnDuty
<1>6. ~InWindow(s) /\ loc[s].ret # "net"
  BY <1>1 DEF InWindow, FrameInv, NoNetCalls
<1>a. "User" \notin {"Sw1", "Sw2", "NetReq", "WaitRecheck", "WaitHlt", "SchedReq", "SchedRet", "YieldHlt"}
  OBVIOUS
<1> DEFINE r == loc[s]
<1>7. loc' = [loc EXCEPT ![s] = r] /\ r.ret # "net"
  BY <1>3, <1>6
<1> HIDE DEF r
<1> QED BY <1>1, <1>3, <1>4, <1>5, <1>6, <1>7, <1>a, FrameMoves

(* The timer interrupt, as long as it does not reschedule. *)
LEMMA TickFrame ==
  ASSUME IInv, WakeInv, FrameInv, WindowTicks = FALSE, NEW s \in Stk,
         TimerIrq(s) \/ WakeOne(s) \/ QuantumKeep(s) \/ QuantumEnd(s) \/ IrqResume(s)
  PROVE  FrameInv'
<1>1. /\ fault = "none" /\ cpu = s /\ UNCHANGED <<current, cpu, rsp, loc, fault>>
      /\ pc \in [Stk -> PcLabels] /\ loc \in [Stk -> Locals] /\ loc' = [loc EXCEPT ![s] = loc[s]]
      /\ state \in [Tid -> States] /\ Tid \subseteq Stk
  BY DEF TimerIrq, WakeOne, QuantumKeep, QuantumEnd, IrqResume, InIrq, Executing, lists, hw, IInv, TypeOK, Stk
<1>2. \A t \in Tid : (Live(t)' <=> Live(t)) /\ (state'[t] = "BLOCKED" => state[t] = "BLOCKED")
  <2>1. CASE WakeOne(s) /\ Expired(cursor)
    <3>1. state' = [state EXCEPT ![cursor] = "READY"] /\ state[cursor] = "BLOCKED"
      BY <2>1 DEF WakeOne, Expired
    <3> QED BY <1>1, <3>1 DEF Live
  <2>2. CASE ~(WakeOne(s) /\ Expired(cursor))
    <3>1. state' = state
      BY <2>2 DEF WakeOne, TimerIrq, QuantumKeep, QuantumEnd, IrqResume, lists
    <3> QED BY <3>1 DEF Live
  <2> QED BY <2>1, <2>2
<1>3. ~InWindow(s)
  <2>1. CASE TimerIrq(s)
    BY <2>1 DEF TimerIrq, InWindow
  <2>2. CASE ~TimerIrq(s)
    BY <1>1, <2>2 DEF WakeOne, QuantumKeep, QuantumEnd, IrqResume, InIrq, FrameInv, WindowClosed
  <2> QED BY <2>1, <2>2
<1> DEFINE l == IF TimerIrq(s) THEN AfterHlt(pc[s]) ELSE pc[s]
           r == loc[s]
<1>4. pc' = [pc EXCEPT ![s] = l] /\ pc'[s] = l /\ loc'[s] = r
  BY <1>1 DEF TimerIrq, WakeOne, QuantumKeep, QuantumEnd, IrqResume, Goto
<1>5. \/ pc[s] = "WaitHlt" /\ l = "WaitRecheck"
      \/ pc[s] = "YieldHlt" /\ l = "SchedReq"
      \/ l = pc[s]
  BY DEF AfterHlt
<1>6. r.ret # "net" /\ pc[s] # "NetReq" /\ (pc[s] = "YieldHlt" => r.ret # "wait") /\ loc' = [loc EXCEPT ![s] = r]
  BY <1>1 DEF FrameInv, NoNetCalls, WakeInv
<1>7. /\ s \in Tid /\ pc[s] \in {"WaitRecheck", "WaitHlt"} => r.tid = s
      /\ s \in Tid /\ r.ret = "wait" /\ pc[s] \in {"SchedReq", "SchedRet"} => r.tid = s
  BY <1>1 DEF FrameInv, WaitersKnown
<1>8. s \in Tid /\ current # s => (Waiting(s) /\ pc[s] # "SchedReq") \/ (pc[s] \in {"SchedReq", "SchedRet", "YieldHlt"} /\ ~Live(s))
  BY <1>1, <1>3 DEF FrameInv, OffDuty
<1>9. s \in Tid /\ pc[s] = "YieldHlt" => ~Live(s) \/ state[s] # "BLOCKED"
  <2>1. s \in Tid /\ pc[s] = "YieldHlt" /\ current # s => ~Live(s)
    BY <1>8 DEF Waiting
  <2>2. s \in Tid /\ pc[s] = "YieldHlt" /\ current = s => state[s] # "BLOCKED"
    BY <1>1 DEF IInv, ControlInv, CurrentRuns
  <2> QED BY <2>1, <2>2
<1> HIDE DEF l, r
<1>10. l \notin {"Sw1", "Sw2", "NetReq"}
  BY <1>3, <1>5, <1>6 DEF InWindow
<1>11. /\ s \in Tid /\ l \in {"WaitRecheck", "WaitHlt"} => r.tid = s
       /\ s \in Tid /\ r.ret = "wait" /\ l \in {"SchedReq", "SchedRet"} => r.tid = s
  BY <1>5, <1>6, <1>7
<1>12. pc[s] # "YieldHlt" => (Waiting(s) => Waiting(s)') /\ (l = "SchedReq" <=> pc[s] = "SchedReq")
  BY <1>1, <1>4, <1>5 DEF Waiting
<1>13. s \in Tid /\ current' # s => (Waiting(s)' /\ l # "SchedReq") \/ (l \in {"SchedReq", "SchedRet", "YieldHlt"} /\ ~Live(s)')
  <2>1. CASE pc[s] = "YieldHlt"
    <3>1. ~Waiting(s)
      BY <2>1 DEF Waiting
    <3> QED BY <1>1, <1>2, <1>5, <1>8, <2>1, <3>1
  <2>2. CASE pc[s] # "YieldHlt"
    BY <1>1, <1>2, <1>5, <1>8, <1>12, <2>2
  <2> QED BY <2>1, <2>2
<1>14. s \in Tid /\ l = "SchedReq" /\ state'[s] = "BLOCKED" => Waiting(s)'
  <2>1. CASE pc[s] = "YieldHlt"
    BY <1>2, <1>9, <2>1 DEF Live
  <2>2. CASE pc[s] # "YieldHlt"
    BY <1>1, <1>2, <1>12, <2>2 DEF FrameInv, SleeperWaits
  <2> QED BY <2>1, <2>2
<1>15. \A t \in Tid \ {s} : Live(t)' => (Live(t) /\ rsp'[t] = rsp[t]) \/ rsp'[t] = t
  BY <1>1, <1>2
<1> QED BY <1>1, <1>3, <1>4, <1>6, <1>10, <1>11, <1>13, <1>14, <1>15, FrameMoves

(* scheduler() and the handler, when they stay on the executing stack: if   *)
(* nothing is left to run, the executing thread sleeps or is dead.          *)
LEMMA StayFrame ==
  ASSUME IInv, FrameInv, NEW s \in Stk, SchedStay(s) \/ IrqStay(s)
  PROVE  FrameInv'
<1>1. /\ fault = "none" /\ cpu = s /\ UNCHANGED <<cpu, rsp, loc, fault>>
      /\ pc \in [Stk -> PcLabels] /\ loc \in [Stk -> Locals] /\ loc' = [loc EXCEPT ![s] = loc[s]]
      /\ state \in [Tid -> States] /\ current \in Tid \cup {NoThread}
  BY DEF SchedStay, IrqStay, Holding, Executing, InIrq, IInv, TypeOK
<1>2. \A u \in Tid : (Live(u) <=> Live(u)') /\ (state'[u] = "BLOCKED" => state[u] = "BLOCKED")
  BY CoreStates, CoreLists DEF SchedStay, IrqStay
<1>3. ~InWindow(s) /\ loc[s].ret # "net" /\ pc[s] # "NetReq"
  BY <1>1 DEF SchedStay, IrqStay, Holding, InIrq, InWindow, FrameInv, NoNetCalls, WindowClosed
<1>4. \A t \in Tid \ {s} : Live(t)' => (Live(t) /\ rsp'[t] = rsp[t]) \/ rsp'[t] = t
  BY <1>1, <1>2
<1>5. /\ s \in Tid /\ pc[s] \in {"WaitRecheck", "WaitHlt"} => loc[s].tid = s
      /\ s \in Tid /\ loc[s].ret = "wait" /\ pc[s] \in {"SchedReq", "SchedRet"} => loc[s].tid = s
  BY <1>1 DEF FrameInv, WaitersKnown
<1>6. current \in {s, NoThread}
  BY <1>1, <1>3 DEF IInv, ControlInv, CurrentOK
<1> DEFINE r == loc[s]
<1>7. CASE SchedStay(s)
  <2>1. pc[s] = "SchedReq" /\ pc' = [pc EXCEPT ![s] = "SchedRet"] /\ loc'[s] = r /\ pc'[s] = "SchedRet"
    BY <1>1, <1>7 DEF SchedStay, Holding, Goto
  <2>2. s \in Tid /\ current' # s => Waiting(s)' \/ ~Live(s)'
    <3>1. CASE CoreIdle
      <4>1. state' = StateWithOld /\ \A u \in Tid : StateWithOld[u] # "READY" /\ StateWithOld[u] # "RUNNING"
        BY <3>1, OldFacts DEF CoreIdle, Contains
      <4>2. s \in Tid /\ Live(s)' => state[s] = "BLOCKED"
        BY <1>2, <4>1 DEF Live
      <4>3. s \in Tid /\ Live(s)' => Waiting(s)
        BY <1>1, <2>1, <4>2 DEF FrameInv, SleeperWaits
      <4> QED BY <1>1, <2>1, <4>3 DEF Waiting
    <3>2. CASE CoreSame
      <4>1. current' = current /\ current \in Tid
        BY <3>2, OldFacts, DequeueFacts DEF CoreSame
      <4> QED BY <1>6, <4>1 DEF NoThread, Tid
    <3> QED BY <1>7, <3>1, <3>2 DEF SchedStay
  <2>3. "SchedRet" \notin {"Sw1", "Sw2", "NetReq", "WaitRecheck", "WaitHlt", "SchedReq"}
    OBVIOUS
  <2> HIDE DEF r
  <2>4. r.ret # "net" /\ (s \in Tid /\ r.ret = "wait" => r.tid = s) /\ loc' = [loc EXCEPT ![s] = r]
    BY <1>1, <1>3, <1>5, <2>1 DEF r
  <2> QED BY <1>1, <1>3, <1>4, <2>1, <2>2, <2>3, <2>4, FrameMoves
<1>8. CASE IrqStay(s)
  <2>1. OldRuns /\ current \in Tid
    BY <1>1, <1>8 DEF IrqStay, InIrq, IInv, ControlInv, HandlerOK, OldRuns, IsThread
  <2>2. RqWithOld # <<>>
    BY <2>1, EnqueueFacts DEF RqWithOld, IInv, TypeOK, ReadyQueueExact
  <2>3. current' = s
    BY <1>6, <1>8, <2>1, <2>2 DEF IrqStay, CoreIdle, CoreSame, NoThread, Tid
  <2>4. pc' = [pc EXCEPT ![s] = pc[s]] /\ pc' = pc
    BY <1>1, <1>8 DEF IrqStay
  <2>5. s \in Tid /\ state'[s] = "BLOCKED" => FALSE
    BY <1>2, <1>6, <2>1 DEF OldRuns, NoThread, Tid
  <2> DEFINE l == pc[s]
  <2>6. /\ pc' = [pc EXCEPT ![s] = l] /\ loc' = [loc EXCEPT ![s] = r] /\ l \notin {"Sw1", "Sw2", "NetReq"}
        /\ r.ret # "net"
        /\ s \in Tid /\ l \in {"WaitRecheck", "WaitHlt"} => r.tid = s
        /\ s \in Tid /\ r.ret = "wait" /\ l \in {"SchedReq", "SchedRet"} => r.tid = s
    BY <1>1, <1>3, <1>5, <2>4 DEF InWindow
  <2>7. cpu' = s /\ fault' # "stale_resume"
    BY <1>1
  <2>8. /\ s \in Tid /\ current' # s => \/ Waiting(s)' /\ l # "SchedReq"
                                        \/ l \in {"SchedReq", "SchedRet", "YieldHlt"} /\ ~Live(s)'
        /\ s \in Tid /\ l = "SchedReq" /\ state'[s] = "BLOCKED" => Waiting(s)'
    BY <2>3, <2>5
  <2> HIDE DEF l, r
  <2> QED BY <1>1, <1>3, <1>4, <2>6, <2>7, <2>8, FrameMoves
<1> QED BY <1>7, <1>8

(* Into the switch window: the next thread's frame is on its own stack, and *)
(* a live thread that leaves has a slot for its frame.                      *)
LEMMA PickFrame ==
  ASSUME IInv, FrameInv, NEW s \in Stk, SchedPick(s)
  PROVE  FrameInv'
<1> DEFINE n == Head(RqWithOld)
           r == [loc[s] EXCEPT !.old = OldSlot, !.nxt = n]
<1>1. /\ fault = "none" /\ cpu = s /\ irq[s] = "none" /\ pc[s] = "SchedReq" /\ CoreOther
      /\ pc' = [pc EXCEPT ![s] = "Sw1"] /\ loc' = [loc EXCEPT ![s] = r]
      /\ UNCHANGED <<cpu, irq, rsp, fault>>
  BY DEF SchedPick, Holding, Executing, Goto, IInv, TypeOK
<1>2. /\ pc \in [Stk -> PcLabels] /\ loc \in [Stk -> Locals] /\ loc[s] \in Locals /\ Tid \subseteq Stk
      /\ state \in [Tid -> States] /\ ~InWindow(s) /\ current \in {s, NoThread} /\ NoThread \notin Tid
  BY <1>1 DEF IInv, TypeOK, Stk, InWindow, ControlInv, CurrentOK, NoThread, Tid
<1>3. r.ret = loc[s].ret /\ r.tid = loc[s].tid /\ r.nxt = n /\ r.old = OldSlot
  BY <1>2 DEF Locals
<1>4. n \in Tid /\ n # current /\ StateWithOld[n] = "READY" /\ current' = n
  BY <1>1, OldFacts, DequeueFacts DEF CoreOther
<1>5. \A u \in Tid : Live(u) <=> Live(u)'
  BY <1>1, CoreStates
<1>6. s \in Tid /\ Live(s) => current = s
  BY <1>1, <1>2 DEF FrameInv, OffDuty
<1>7. state[n] = "READY"
  BY <1>2, <1>4 DEF StateWithOld
<1>8. n # s
  BY <1>4, <1>6, <1>7 DEF Live
<1>9. rsp[n] = n
  BY <1>1, <1>4, <1>7, <1>8 DEF FrameInv, FramesWhole, Live
<1>10. s \in Tid /\ Live(s)' => OldSlot = s
  BY <1>5, <1>6 DEF OldSlot, IsThread, Live
<1> HIDE DEF n, r
<1>11. /\ pc'[s] = "Sw1" /\ loc'[s] = r
       /\ \A u \in Stk \ {s} : pc'[u] = pc[u] /\ loc'[u] = loc[u]
  BY <1>1, <1>2
<1>12. NoNetCalls'
  BY <1>1, <1>3, <1>11 DEF FrameInv, NoNetCalls
<1>13. WaitersKnown'
  <2> SUFFICES ASSUME NEW u \in Tid,
                      pc'[u] \in {"WaitRecheck", "WaitHlt"}
                        \/ (loc'[u].ret = "wait" /\ pc'[u] \in {"SchedReq", "Sw1", "Sw2", "SchedRet"})
               PROVE  loc'[u].tid = u
    BY DEF WaitersKnown
  <2>1. CASE u = s
    BY <1>1, <1>2, <1>3, <1>11, <2>1 DEF FrameInv, WaitersKnown
  <2>2. CASE u # s
    BY <1>1, <1>2, <1>11, <2>2 DEF FrameInv, WaitersKnown
  <2> QED BY <2>1, <2>2
<1>14. WindowClosed'
  BY <1>1, <1>11 DEF FrameInv, WindowClosed, InWindow
<1>15. FramesWhole'
  BY <1>1, <1>5 DEF FrameInv, FramesWhole
<1>16. InWindow(s)'
  BY <1>11 DEF InWindow
<1>17. SwitchReady'
  BY <1>1, <1>3, <1>8, <1>9, <1>10, <1>11 DEF SwitchReady
<1>18. OffDuty' /\ SleeperWaits'
  BY <1>1, <1>11, <1>16 DEF OffDuty, SleeperWaits
<1> QED BY <1>1, <1>12, <1>13, <1>14, <1>15, <1>17, <1>18 DEF FrameInv

(* next->rsp is loaded: still the top of the next thread's own stack. *)
LEMMA LoadFrame ==
  ASSUME IInv, FrameInv, NEW s \in Stk, LoadRsp(s)
  PROVE  FrameInv'
<1> DEFINE r == [loc[s] EXCEPT !.rsi = rsp[loc[s].nxt]]
<1>1. /\ fault = "none" /\ cpu = s /\ irq[s] = "none" /\ pc[s] = "Sw1"
      /\ pc' = [pc EXCEPT ![s] = "Sw2"] /\ loc' = [loc EXCEPT ![s] = r]
      /\ UNCHANGED <<state, current, cpu, irq, rsp, fault>>
      /\ pc \in [Stk -> PcLabels] /\ loc \in [Stk -> Locals] /\ loc[s] \in Locals /\ Tid \subseteq Stk
  BY DEF LoadRsp, Executing, Goto, lists, IInv, TypeOK, Stk
<1>2. r.ret = loc[s].ret /\ r.tid = loc[s].tid /\ r.nxt = loc[s].nxt /\ r.old = loc[s].old /\ r.rsi = rsp[loc[s].nxt]
  BY <1>1 DEF Locals
<1> HIDE DEF r
<1>3. /\ pc'[s] = "Sw2" /\ loc'[s] = r
      /\ \A u \in Stk \ {s} : pc'[u] = pc[u] /\ loc'[u] = loc[u]
  BY <1>1
<1>4. NoNetCalls'
  BY <1>1, <1>2, <1>3 DEF FrameInv, NoNetCalls
<1>5. WaitersKnown'
  <2> SUFFICES ASSUME NEW u \in Tid,
                      pc'[u] \in {"WaitRecheck", "WaitHlt"}
                        \/ (loc'[u].ret = "wait" /\ pc'[u] \in {"SchedReq", "Sw1", "Sw2", "SchedRet"})
               PROVE  loc'[u].tid = u
    BY DEF WaitersKnown
  <2>1. CASE u = s
    BY <1>1, <1>2, <1>3, <2>1 DEF FrameInv, WaitersKnown
  <2>2. CASE u # s
    BY <1>1, <1>3, <2>2 DEF FrameInv, WaitersKnown
  <2> QED BY <2>1, <2>2
<1>6. WindowClosed' /\ FramesWhole'
  BY <1>1, <1>3 DEF FrameInv, WindowClosed, InWindow, FramesWhole, Live
<1>7. InWindow(s) /\ InWindow(s)'
  BY <1>1, <1>3 DEF InWindow
<1>8. SwitchReady'
  BY <1>1, <1>2, <1>3, <1>7 DEF FrameInv, SwitchReady, Live
<1>9. OffDuty' /\ SleeperWaits'
  BY <1>1, <1>3, <1>7 DEF OffDuty, SleeperWaits
<1> QED BY <1>1, <1>4, <1>5, <1>6, <1>8, <1>9 DEF FrameInv

(* switch_context goes on with the stack of a RUNNING thread, and the live  *)
(* thread it leaves has its frame in its own thread_t.                      *)
LEMMA SwitchFrame ==
  ASSUME IInv, FrameInv, NEW s \in Stk, fault = "none", cpu = s, NEW n \in Tid, n # s,
         NEW slot, SwitchContext(slot, n), NEW l, l \notin {"Sw1", "Sw2", "NetReq"},
         pc' = [pc EXCEPT ![s] = l],
         l = pc[s] \/ (pc[s] \in {"Sw1", "Sw2"} /\ l = "SchedRet"),
         state[n] # "NULL", state'[n] = "RUNNING", current' = n,
         \A u \in Tid : Live(u) <=> Live(u)',
         slot \in {s, NoThread}, s \in Tid /\ Live(s) => slot = s
  PROVE  FrameInv'
<1>1. /\ pc \in [Stk -> PcLabels] /\ loc \in [Stk -> Locals] /\ rsp \in [Tid -> Stk \cup {Stale}]
      /\ Tid \subseteq Stk /\ n # Stale /\ NoThread \notin Tid
  BY DEF IInv, TypeOK, Stk, Stale, Tid, NoThread
<1>2. Resumable(n)
  BY <1>1 DEF Resumable
<1>3. /\ cpu' = n /\ fault' = fault
      /\ \A t \in Tid : rsp'[t] = IF t = slot THEN s ELSE IF rsp[t] = n THEN Stale ELSE rsp[t]
      /\ \A u \in Stk : loc'[u] = IF loc[u].rsi = n THEN [loc[u] EXCEPT !.rsi = Stale] ELSE loc[u]
  BY <1>2 DEF SwitchContext
<1>4. \A r \in Locals : LET q == [r EXCEPT !.rsi = Stale] IN q.tid = r.tid /\ q.ret = r.ret
  BY DEF Locals
<1>5. \A u \in Stk : loc'[u].tid = loc[u].tid /\ loc'[u].ret = loc[u].ret
  BY <1>1, <1>3, <1>4
<1>6. pc'[s] = l /\ \A u \in Stk \ {s} : pc'[u] = pc[u]
  BY <1>1
<1>7. NoNetCalls'
  BY <1>5, <1>6 DEF FrameInv, NoNetCalls
<1>8. WaitersKnown'
  <2> SUFFICES ASSUME NEW u \in Tid,
                      pc'[u] \in {"WaitRecheck", "WaitHlt"}
                        \/ (loc'[u].ret = "wait" /\ pc'[u] \in {"SchedReq", "Sw1", "Sw2", "SchedRet"})
               PROVE  loc'[u].tid = u
    BY DEF WaitersKnown
  <2>1. \/ pc[u] \in {"WaitRecheck", "WaitHlt"}
        \/ loc[u].ret = "wait" /\ pc[u] \in {"SchedReq", "Sw1", "Sw2", "SchedRet"}
    BY <1>1, <1>5, <1>6
  <2> QED BY <1>1, <1>5, <2>1 DEF FrameInv, WaitersKnown
<1>9. \A u \in Stk : ~InWindow(u)'
  BY <1>6 DEF FrameInv, WindowClosed, InWindow
<1>10. WindowClosed' /\ SwitchReady'
  <2>1. InWindow(cpu)' <=> InWindow(n)'
    BY <1>3 DEF InWindow
  <2>2. ~InWindow(n)'
    BY <1>1, <1>9
  <2> QED BY <1>9, <2>1, <2>2 DEF WindowClosed, SwitchReady
<1>11. FramesWhole'
  <2> SUFFICES ASSUME NEW t \in Tid, Live(t), t # n PROVE rsp'[t] = t
    BY <1>3 DEF FramesWhole
  <2>1. CASE t = s
    BY <1>3, <2>1
  <2>2. CASE t # s
    <3>1. rsp[t] = t
      BY <2>2 DEF FrameInv, FramesWhole
    <3> QED BY <1>1, <1>3, <2>2, <3>1
  <2> QED BY <2>1, <2>2
<1>12. OffDuty' /\ SleeperWaits'
  BY <1>3 DEF OffDuty, SleeperWaits
<1> QED BY <1>3, <1>7, <1>8, <1>10, <1>11, <1>12 DEF FrameInv

LEMMA SwitchStepsFrame ==
  ASSUME IInv, WakeInv, FrameInv, NEW s \in Stk, Switch(s) \/ IrqSwitch(s)
  PROVE  FrameInv'
<1>1. fault = "none" /\ cpu = s /\ pc \in [Stk -> PcLabels] /\ NoThread \notin Tid
  BY DEF Switch, IrqSwitch, Executing, InIrq, IInv, TypeOK, NoThread, Tid
<1>2. CASE Switch(s)
  <2> DEFINE n == loc[s].nxt
             slot == loc[s].old
  <2>1. /\ pc[s] = "Sw2" /\ SwitchContext(slot, loc[s].rsi) /\ pc' = [pc EXCEPT ![s] = "SchedRet"]
        /\ UNCHANGED <<state, current>>
    BY <1>2 DEF Switch, Goto, lists
  <2>2. InWindow(cpu) /\ "SchedRet" \notin {"Sw1", "Sw2", "NetReq"}
    BY <1>1, <2>1 DEF InWindow
  <2>3. n \in Tid /\ slot \in {s, NoThread} /\ current = n
    BY <1>1, <2>1, <2>2 DEF IInv, ControlInv, LocalsOK, CurrentOK
  <2>4. n # s /\ loc[s].rsi = n /\ (s \in Tid /\ Live(s) => slot = s)
    BY <1>1, <2>1, <2>2 DEF FrameInv, SwitchReady
  <2>5. state[n] = "RUNNING" /\ state'[n] = "RUNNING" /\ current' = n
    BY <1>1, <2>1, <2>2, <2>3 DEF WakeInv
  <2>6. \A u \in Tid : Live(u) <=> Live(u)'
    BY <2>1 DEF Live
  <2>7. SwitchContext(slot, n) /\ state[n] # "NULL"
    BY <2>1, <2>4, <2>5
  <2> HIDE DEF n, slot
  <2> QED BY <1>1, <2>1, <2>2, <2>3, <2>4, <2>5, <2>6, <2>7, SwitchFrame
<1>3. CASE IrqSwitch(s)
  <2> DEFINE n == Head(RqWithOld)
             slot == OldSlot
             l == pc[s]
  <2>1. /\ irq[s] = "core" /\ SwitchContext(slot, rsp[n]) /\ pc' = [pc EXCEPT ![s] = l] /\ l = pc[s] /\ CoreOther
    BY <1>1, <1>3 DEF IrqSwitch, InIrq
  <2>2. ~InWindow(s) /\ l \notin {"Sw1", "Sw2", "NetReq"}
    BY <1>1, <2>1 DEF FrameInv, WindowClosed, NoNetCalls, InWindow
  <2>3. OldRuns /\ current = s /\ s \in Tid /\ slot = s
    BY <1>1, <2>1, <2>2 DEF IInv, ControlInv, HandlerOK, CurrentOK, OldRuns, IsThread, OldSlot
  <2>4. n \in Tid /\ n # s /\ StateWithOld[n] = "READY" /\ current' = n
    BY <2>1, <2>3, OldFacts, DequeueFacts DEF CoreOther
  <2>5. state[n] = "READY"
    BY <2>3, <2>4 DEF StateWithOld, IInv, TypeOK
  <2>6. rsp[n] = n
    BY <1>1, <2>4, <2>5 DEF FrameInv, FramesWhole, Live
  <2>7. state'[n] = "RUNNING" /\ \A u \in Tid : Live(u) <=> Live(u)'
    BY <2>1, <2>4, CoreLists, CoreStates
  <2>8. SwitchContext(slot, n) /\ state[n] # "NULL"
    BY <2>1, <2>5, <2>6
  <2> HIDE DEF n, slot, l
  <2> QED BY <1>1, <2>1, <2>2, <2>3, <2>4, <2>7, <2>8, SwitchFrame
<1> QED BY <1>2, <1>3

(* thread_reap_terminated frees the stack of a dead thread: no live one's. *)
LEMMA ReapFrame ==
  ASSUME IInv, WakeInv, FrameInv, ReapOne, fault = "none", UNCHANGED <<cpu, fault>>
  PROVE  FrameInv'
<1>1. PICK t \in Tid :
        /\ state[t] = "TERMINATED" /\ state' = [state EXCEPT ![t] = "NULL"]
        /\ rsp' = [rsp EXCEPT ![t] = Stale]
        /\ IF t = cpu THEN UNCHANGED <<pc, irq, loc>>
           ELSE /\ pc' = [pc EXCEPT ![t] = "New"] /\ irq' = [irq EXCEPT ![t] = "none"]
                /\ loc' = [loc EXCEPT ![t] = NoLocals]
  BY DEF ReapOne, Reapable
<1>2. /\ state \in [Tid -> States] /\ rsp \in [Tid -> Stk \cup {Stale}] /\ pc \in [Stk -> PcLabels]
      /\ irq \in [Stk -> IrqLabels] /\ loc \in [Stk -> Locals] /\ cpu \in Stk /\ Tid \subseteq Stk
      /\ current' = current /\ cpu' = cpu
  BY DEF IInv, TypeOK, Stk, ReapOne
<1>3. /\ \A u \in Tid : state'[u] = IF u = t THEN "NULL" ELSE state[u]
      /\ \A u \in Tid : u # t => rsp'[u] = rsp[u]
  BY <1>1, <1>2
<1>4. /\ \A u \in Stk : u # t \/ u = cpu => pc'[u] = pc[u] /\ irq'[u] = irq[u] /\ loc'[u] = loc[u]
      /\ t # cpu => pc'[t] = "New" /\ loc'[t] = NoLocals
  BY <1>1, <1>2
<1>5. NoLocals.ret = "none"
  BY DEF NoLocals
<1>6. \A u \in Tid : Live(u)' <=> Live(u)
  BY <1>1, <1>3 DEF Live
<1>7. NoNetCalls'
  BY <1>4, <1>5 DEF FrameInv, NoNetCalls
<1>8. WaitersKnown'
  <2> SUFFICES ASSUME NEW u \in Tid,
                      pc'[u] \in {"WaitRecheck", "WaitHlt"}
                        \/ (loc'[u].ret = "wait" /\ pc'[u] \in {"SchedReq", "Sw1", "Sw2", "SchedRet"})
               PROVE  loc'[u].tid = u
    BY DEF WaitersKnown
  <2>1. u # t \/ u = cpu
    BY <1>4, <1>5
  <2> QED BY <1>2, <1>4, <2>1 DEF FrameInv, WaitersKnown
<1>9. WindowClosed'
  BY <1>2, <1>4 DEF FrameInv, WindowClosed, InWindow
<1>10. FramesWhole'
  BY <1>1, <1>2, <1>3, <1>6 DEF FrameInv, FramesWhole, Live
<1>11. pc'[cpu] = pc[cpu] /\ loc'[cpu] = loc[cpu]
  BY <1>2, <1>4
<1>12. SwitchReady'
  <2> SUFFICES ASSUME InWindow(cpu)
               PROVE  /\ loc[cpu].nxt # cpu
                      /\ pc[cpu] = "Sw1" => rsp'[loc[cpu].nxt] = loc[cpu].nxt
                      /\ pc[cpu] = "Sw2" => loc[cpu].rsi = loc[cpu].nxt
                      /\ cpu \in Tid /\ Live(cpu) => loc[cpu].old = cpu
    BY <1>2, <1>6, <1>11 DEF SwitchReady, InWindow
  <2>1. loc[cpu].nxt \in Tid /\ loc[cpu].nxt # t
    BY <1>1, <1>2 DEF IInv, ControlInv, LocalsOK, WakeInv
  <2> QED BY <1>3, <2>1 DEF FrameInv, SwitchReady
<1>13. cpu \in Tid => ((Waiting(cpu)' <=> Waiting(cpu)) /\ (Live(cpu)' <=> Live(cpu))) /\ (InWindow(cpu)' <=> InWindow(cpu))
  BY <1>2, <1>6, <1>11 DEF Waiting, InWindow
<1>14. OffDuty' /\ SleeperWaits'
  BY <1>1, <1>2, <1>3, <1>11, <1>13 DEF FrameInv, OffDuty, SleeperWaits
<1> QED BY <1>7, <1>8, <1>9, <1>10, <1>12, <1>14 DEF FrameInv

LEMMA NextFrameInv ==
  ASSUME WindowTicks = FALSE, "net" \notin Ops, IInv, WakeInv, FrameInv, [Next]_vars
  PROVE  FrameInv'
<1>1. CASE UNCHANGED vars
  BY <1>1 DEF FrameInv, NoNetCalls, WaitersKnown, WindowClosed, FramesWhole, SwitchReady, OffDuty, SleeperWaits,
              Waiting, InWindow, Live, vars, lists, ctx, hw
<1>2. CASE Next
  <2>1. PICK s \in Stk : Call(s) \/ Section(s) \/ Sched(s) \/ TimerIrq(s) \/ Handler(s)
    BY <1>2 DEF Next
  <2>2. CASE Call(s)
    BY <2>2, CallFrame
  <2>3. CASE Section(s)
    <3>1. ~NetBody(s)
      BY DEF NetBody, Holding, Executing, FrameInv, NoNetCalls
    <3> QED BY <2>3, <3>1, MoveFrame, SectionFrame, CreateFrame DEF Section
  <2>4. CASE Sched(s)
    <3>1. CASE SchedReap(s)
      BY <3>1, ReapFrame DEF SchedReap, Holding, Executing
    <3> QED BY <2>4, <3>1, MoveFrame, StayFrame, PickFrame, LoadFrame, SwitchStepsFrame DEF Sched
  <2>5. CASE TimerIrq(s)
    BY <2>5, TickFrame
  <2>6. CASE Handler(s)
    <3>1. CASE IrqReap(s)
      BY <3>1, ReapFrame DEF IrqReap, InIrq
    <3> QED BY <2>6, <3>1, TickFrame, StayFrame, SwitchStepsFrame DEF Handler
  <2> QED BY <2>1, <2>2, <2>3, <2>4, <2>5, <2>6
<1> QED BY <1>1, <1>2

(* switch_context never resumes a frame that was left already, as long as   *)
(* no tick falls between unlock and stack switch and no thread calls        *)
(* network_thread_block: for any number of threads, time slice and other    *)
(* workload, with exits, kills and reaping anywhere.                        *)
THEOREM SpecNoStaleResume ==
  ASSUME WindowTicks = FALSE, "net" \notin Ops
  PROVE  Spec => []NoStaleResume
<1>1. Init => IInv /\ WakeInv /\ FrameInv
  BY InitIInv, InitWakeInv, InitFrameInv
<1>2. IInv /\ WakeInv /\ FrameInv /\ [Next]_vars => (IInv /\ WakeInv /\ FrameInv)'
  BY NextIInv, NextWakeInv, NextFrameInv
<1>3. FrameInv => NoStaleResume
  BY DEF FrameInv, NoStaleResume
<1> QED BY <1>1, <1>2, <1>3, PTL DEF Spec
=============================================================================
