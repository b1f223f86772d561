---------------------------- MODULE ConsoleInput ----------------------------
(***************************************************************************)
(* Ownership of the console input: drivers/input/console_input.c and the   *)
(* system calls of syscall/int80.c that use it (GETCHAR, CONSOLE_RELEASE,  *)
(* CONSOLE_IS_FREE, CONSOLE_CLAIM, CONSOLE_FORCE_CLAIM, TASK_ADD, EXIT and *)
(* TASK_KILL).                                                             *)
(*                                                                         *)
(* The owner is one atomic word.  Every atomic access is a step of its     *)
(* own: a thread may be preempted between loading the owner, asking        *)
(* whether that thread is alive, and the compare-and-exchange that follows.*)
(* Thread ids are handed out once and never again (thread_init_common).    *)
(* Left out: the characters themselves and the results handed to user code.*)
(***************************************************************************)
EXTENDS Integers

CONSTANT MaxThreads            (* MAX_THREADS *)

ASSUME ThreadsAssumption == MaxThreads \in Nat \ {0}

Tid     == 0 .. MaxThreads - 1
NoOwner == -1
Owner   == Tid \cup {NoOwner}
Jobs    == {"getchar", "claim", "isfree"}
Labels  == {"User", "Load", "Alive", "Evict", "Take", "Read", "Launch", "Force", "Exit",
             "Image"}

VARIABLES
  owner,     (* g_console_input_owner_tid                                  *)
  status,    (* "none": no such id yet; "live"; "dying": has terminated    *)
             (* itself but still executes; "gone": never executes again    *)
  call       (* per thread: the control point, the system call in progress *)
             (* and its local variable (the owner loaded, the task created)*)

vars == <<owner, status, call>>

InUser == [at |-> "User", job |-> "none", arg |-> NoOwner]

Init ==
  /\ owner \in {NoOwner, 0}
  /\ status = [t \in Tid |-> IF t = 0 THEN "live" ELSE "none"]
  /\ call = [t \in Tid |-> InUser]

-----------------------------------------------------------------------------

(* Thread t has the CPU at control point l. *)
At(t, l) == status[t] \in {"live", "dying"} /\ call[t].at = l

Goto(t, l) == call' = [call EXCEPT ![t].at = l]
Return(t)  == call' = [call EXCEPT ![t] = InUser]

(* owner_is_alive: in thread_list and not THREAD_TERMINATED *)
OwnerIsAlive(o) == o \in Tid /\ status[o] = "live"

(* __atomic_compare_exchange_n(&g_console_input_owner_tid, &expected, new) *)
CompareExchange(expected, new) == owner' = IF owner = expected THEN new ELSE owner

(* A claim succeeded: GETCHAR goes on to read, CONSOLE_CLAIM returns. *)
Granted(t) == IF call[t].job = "getchar" THEN Goto(t, "Read") ELSE Return(t)

(* The query is over; a claim goes on to the second exchange. *)
QueryDone(t) == IF call[t].job = "isfree" THEN Return(t) ELSE Goto(t, "Take")

(* Entry of GETCHAR, CONSOLE_CLAIM or CONSOLE_IS_FREE. *)
Enter(t, j) ==
  /\ At(t, "User")
  /\ call' = [call EXCEPT ![t] = [at |-> "Load", job |-> j, arg |-> NoOwner]]
  /\ UNCHANGED <<owner, status>>

(* The first atomic load.  A claim by the owner itself is granted at once;  *)
(* nobody owning the console needs no eviction.                             *)
LoadOwner(t) ==
  /\ At(t, "Load")
  /\ \/ owner = t /\ call[t].job # "isfree" /\ Granted(t)
     \/ owner = NoOwner /\ QueryDone(t)
     \/ /\ owner # NoOwner /\ (owner # t \/ call[t].job = "isfree")
        /\ call' = [call EXCEPT ![t].at = "Alive", ![t].arg = owner]
  /\ UNCHANGED <<owner, status>>

(* owner_is_alive(owner), under g_thread_lock. *)
TestOwner(t) ==
  /\ At(t, "Alive")
  /\ IF OwnerIsAlive(call[t].arg) THEN QueryDone(t) ELSE Goto(t, "Evict")
  /\ UNCHANGED <<owner, status>>

(* Mutants: a plain store instead of the compare-and-exchange; no exchange. *)
MutEvictStores(t) ==
  /\ At(t, "Evict")
  /\ owner' = NoOwner
  /\ QueryDone(t)
  /\ UNCHANGED status

MutEvictNothing(t) ==
  /\ At(t, "Evict")
  /\ QueryDone(t)
  /\ UNCHANGED <<owner, status>>

(* The dead owner is replaced by -1, unless the word has changed since. *)
Evict(t) ==
  /\ At(t, "Evict")
  /\ CompareExchange(call[t].arg, NoOwner)
  /\ QueryDone(t)
  /\ UNCHANGED status

(* The console is taken if nobody owns it now. *)
Take(t) ==
  /\ At(t, "Take")
  /\ CompareExchange(NoOwner, t)
  /\ IF owner = NoOwner THEN Granted(t) ELSE Return(t)
  /\ UNCHANGED status

(* input_try_getchar, reached only after a successful claim. *)
ReadChar(t) ==
  /\ At(t, "Read")
  /\ Return(t)
  /\ UNCHANGED <<owner, status>>

(* INT80_CONSOLE_RELEASE *)
Release(t) ==
  /\ At(t, "User")
  /\ CompareExchange(t, NoOwner)
  /\ UNCHANGED <<status, call>>

(* INT80_CONSOLE_FORCE_CLAIM *)
ForceClaim(t) ==
  /\ At(t, "User")
  /\ owner' = t
  /\ UNCHANGED <<status, call>>

(* INT80_TASK_ADD and TASK_ADD_MODULE: the caller gives the console up ...  *)
TaskAdd(t) ==
  /\ At(t, "User")
  /\ CompareExchange(t, NoOwner)
  /\ Goto(t, "Launch")
  /\ UNCHANGED status

(* ... thread_create hands out the next id, which may run at once ...       *)
Launch(t) ==
  /\ At(t, "Launch")
  /\ \E n \in Tid :
       /\ status[n] = "none"
       /\ \A k \in Tid : k < n => status[k] # "none"
       /\ status' = [status EXCEPT ![n] = "live"]
       /\ call' = [call EXCEPT ![t].at = "Force", ![t].arg = n, ![n].at = "Image"]
  /\ UNCHANGED owner

(* (the new thread loads its image and enters user mode ...                 *)
EnterUser(t) ==
  /\ At(t, "Image")
  /\ Return(t)
  /\ UNCHANGED <<owner, status>>

(* ... or fails to load it and ends: nothing releases the console then)     *)
ImageFails(t) ==
  /\ At(t, "Image")
  /\ status' = [status EXCEPT ![t] = "gone"]
  /\ Return(t)
  /\ UNCHANGED owner

(* (a launch can fail before it creates a thread) *)
LaunchFails(t) ==
  /\ At(t, "Launch")
  /\ Return(t)
  /\ UNCHANGED <<owner, status>>

(* ... and the console is forced to the new task.                           *)
ForceOwner(t) ==
  /\ At(t, "Force")
  /\ owner' = call[t].arg
  /\ Return(t)
  /\ UNCHANGED status

(* syscall_user_thread_exit: release, then thread_exit_current. *)
ExitReleases(t) ==
  /\ At(t, "User")
  /\ CompareExchange(t, NoOwner)
  /\ Goto(t, "Exit")
  /\ UNCHANGED status

ExitEnds(t) ==
  /\ At(t, "Exit")
  /\ status' = [status EXCEPT ![t] = "gone"]
  /\ Return(t)
  /\ UNCHANGED owner

(* INT80_TASK_KILL: the console is not released.  On one CPU a victim other *)
(* than the caller is not executing and never will again.                   *)
TaskKill(t, u) ==
  /\ At(t, "User")
  /\ status[u] = "live"
  /\ status' = [status EXCEPT ![u] = IF u = t THEN "dying" ELSE "gone"]
  /\ Return(u)
  /\ UNCHANGED owner

(* A thread that killed itself loses the CPU at its next switch. *)
SwitchedOut(t) ==
  /\ status[t] = "dying"
  /\ status' = [status EXCEPT ![t] = "gone"]
  /\ Return(t)
  /\ UNCHANGED owner

(* The steps of a system call that is under way. *)
Proceed(t) ==
  \/ LoadOwner(t) \/ TestOwner(t) \/ Evict(t) \/ Take(t) \/ ReadChar(t)
  \/ Launch(t) \/ LaunchFails(t) \/ ForceOwner(t) \/ ExitEnds(t)
  \/ EnterUser(t) \/ ImageFails(t)

Step(t) ==
  \/ \E j \in Jobs : Enter(t, j)
  \/ Proceed(t)
  \/ Release(t) \/ ForceClaim(t) \/ TaskAdd(t) \/ ExitReleases(t)
  \/ \E u \in Tid : TaskKill(t, u)
  \/ SwitchedOut(t)

(* Every thread is gone: only user threads use the console. *)
AllGone == \A t \in Tid : status[t] \in {"none", "gone"}

Next == (\E t \in Tid : Step(t)) \/ (AllGone /\ UNCHANGED vars)

Spec == Init /\ [][Next]_vars

(* A call that is under way goes on (round robin), and a live thread polls  *)
(* GETCHAR again and again: there is no blocking read.                      *)
FairSpec ==
  /\ Spec
  /\ \A t \in Tid : WF_vars(Proceed(t)) /\ WF_vars(SwitchedOut(t))
                    /\ SF_vars(Enter(t, "getchar"))

-----------------------------------------------------------------------------
(* Properties                                                               *)

(* Every variable keeps its type. *)
TypeOK ==
  /\ owner \in Owner
  /\ status \in [Tid -> {"none", "live", "dying", "gone"}]
  /\ call \in [Tid -> [at : Labels, job : Jobs \cup {"none"}, arg : Owner]]

(* A thread about to evict an owner loaded earlier evicts one that can      *)
(* never run user code again: that it was dead when tested (owner_is_alive, *)
(* console_input.c:7-15) is still true when the exchange is made.           *)
EvictsDead ==
  \A t \in Tid :
    call[t].at = "Evict" => /\ call[t].arg \in Tid
                            /\ status[call[t].arg] \in {"dying", "gone"}

(* Ids that were handed out: the owner, and every id a call works with. *)
KnownIds ==
  /\ owner # NoOwner => status[owner] # "none"
  /\ \A t \in Tid :
       /\ call[t].at \in {"Alive", "Evict", "Force"} => call[t].arg # NoOwner
       /\ call[t].arg # NoOwner => status[call[t].arg] # "none"

(* The inductive invariant: EvictsDead needs to know that the ids a call    *)
(* holds on to were handed out, for a dead thread is then dead for ever.    *)
IInv == TypeOK /\ EvictsDead /\ KnownIds

(* What takes the console from a live owner: a forced claim, a launch, or   *)
(* the owner's own release, TASK_ADD or exit.                               *)
HandsOver ==
  \/ \E t \in Tid : ForceClaim(t) \/ ForceOwner(t)
  \/ \E t \in Tid : t = owner /\ (Release(t) \/ TaskAdd(t) \/ ExitReleases(t))

(* A live owner never loses the console to another thread's claim, query or *)
(* exit, whatever was preempted between the load and the exchange of        *)
(* console_input_claim_or_is_current and console_input_is_free.             *)
LiveOwnerKept == [][(OwnerIsAlive(owner) /\ owner' # owner) => HandsOver]_vars

DeadOwner == owner # NoOwner /\ ~OwnerIsAlive(owner)

(* A console owned by a thread that was killed without releasing it becomes *)
(* usable again as long as somebody is left to poll it (the eviction in     *)
(* console_input_claim_or_is_current).                                      *)
DeadOwnerEvicted == DeadOwner ~> (~DeadOwner \/ \A t \in Tid : status[t] # "live")
=============================================================================
