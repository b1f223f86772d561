----------------------------- MODULE TaskLaunch -----------------------------
(***************************************************************************)
(* Starting a task: the launch protocol of elf/module_loader.c and the two *)
(* system calls that use it (INT80_TASK_ADD, INT80_TASK_ADD_MODULE).       *)
(*                                                                         *)
(* There is one launch channel for boot modules ("mod") and one for ELF    *)
(* files ("elf").  A caller takes the channel's busy flag, leaves the      *)
(* image in a global, creates a thread and polls the channel's result word *)
(* until it is no longer PENDING or 300 ticks have passed.  The new thread *)
(* takes the image, stores the result and clears the busy flag.            *)
(*                                                                         *)
(* Left out: the contents of images and address spaces, names, the console *)
(* (module ConsoleInput) and the scheduling of threads (module Scheduler): *)
(* every access to a global is a step of its own.  A request and the task  *)
(* it may create carry the same number.                                    *)
(***************************************************************************)
EXTENDS Integers, FiniteSets

CONSTANTS
  Callers,      (* the threads that launch tasks                           *)
  MaxRequests,  (* bound: launch requests in a behaviour                   *)
  Kills         (* TRUE: INT80_TASK_KILL may hit a task that is starting   *)

ASSUME CallersAssumption == IsFiniteSet(Callers)
ASSUME RequestAssumption == MaxRequests \in Nat \ {0}
ASSUME KillsAssumption   == Kills \in BOOLEAN

Channels == {"mod", "elf"}
Req      == 1 .. MaxRequests
None     == 0
Errors   == {"MISSING_IMAGE", "OOM", "NO_USER_RANGE", "ELF_LOAD", "USER_MAP"}
Results  == Errors \cup {"PENDING", "OK"}
Texts    == Errors \cup {"none", "OK", "TIMEOUT", "already running", "failed"}

VARIABLES
  busy,      (* g_hello_launch_busy, g_elf_launch_busy                      *)
  result,    (* g_hello_launch_result, g_elf_launch_result                  *)
  last_tid,  (* g_hello_launch_tid, g_elf_launch_tid                        *)
  image,     (* g_hello_module_addr and its mode, g_elf_launch_image        *)
  heap,      (* the ELF images in kernel memory                             *)
  req,       (* per caller: its call [at, chan, id, text, tid]              *)
  task,      (* per request: the task thread [at, chan, img, st]            *)
  count      (* requests made so far                                        *)

vars == <<busy, result, last_tid, image, heap, req, task, count>>

NoCall == [at |-> "User", chan |-> "mod", id |-> None, text |-> "none", tid |-> None]
NoTask == [at |-> "none", chan |-> "mod", img |-> None, st |-> "PENDING"]

Init ==
  /\ busy = [c \in Channels |-> FALSE]
  /\ result = [c \in Channels |-> "PENDING"]
  /\ last_tid = [c \in Channels |-> None]
  /\ image = [c \in Channels |-> None]
  /\ heap = {}
  /\ req = [p \in Callers |-> NoCall]
  /\ task = [r \in Req |-> NoTask]
  /\ count = 0

-----------------------------------------------------------------------------
(* The caller: module_loader_start_elf_ring3, module_loader_start_module_ring3 *)

At(p, l) == req[p].at = l
Chan(p)  == req[p].chan
Id(p)    == req[p].id

(* The call returns to user code with this status text. *)
Finish(p, text) == req' = [req EXCEPT ![p].at = "Done", ![p].text = text]

(* The system call begins. *)
Call(p, c) ==
  /\ At(p, "User") /\ count < MaxRequests
  /\ count' = count + 1
  /\ req' = [req EXCEPT ![p] = [NoCall EXCEPT !.at = "Enter", !.chan = c, !.id = count + 1]]
  /\ UNCHANGED <<busy, result, last_tid, image, heap, task>>

(* __atomic_test_and_set finds the flag set: "... launch already running" *)
Refused(p) ==
  /\ At(p, "Enter") /\ busy[Chan(p)]
  /\ Finish(p, "already running")
  /\ UNCHANGED <<busy, result, last_tid, image, heap, task, count>>

(* The ELF path resets the result word first, the module path later. *)
First(c) == IF c = "elf" THEN "Reset" ELSE "Prepare"

(* Mutant: the flag is tested and not set. *)
MutTakeBusyNoSet(p) ==
  /\ At(p, "Enter") /\ ~busy[Chan(p)]
  /\ req' = [req EXCEPT ![p].at = First(Chan(p))]
  /\ UNCHANGED <<busy, result, last_tid, image, heap, task, count>>

TakeBusy(p) ==
  /\ At(p, "Enter") /\ ~busy[Chan(p)]
  /\ busy' = [busy EXCEPT ![Chan(p)] = TRUE]
  /\ req' = [req EXCEPT ![p].at = First(Chan(p))]
  /\ UNCHANGED <<result, last_tid, image, heap, task, count>>

ResetResult(p) ==
  /\ At(p, "Reset")
  /\ result' = [result EXCEPT !["elf"] = "PENDING"]
  /\ req' = [req EXCEPT ![p].at = "Prepare"]
  /\ UNCHANGED <<busy, last_tid, image, heap, task, count>>

(* The file cannot be read, there is no memory for it, or the module does   *)
(* not exist.  The ELF path stores an error code in two of these cases.     *)
PrepareFails(p) ==
  /\ At(p, "Prepare")
  /\ \E st \in {result[Chan(p)]} \cup IF Chan(p) = "elf" THEN {"OOM", "MISSING_IMAGE"} ELSE {} :
       result' = [result EXCEPT ![Chan(p)] = st]
  /\ req' = [req EXCEPT ![p].at = "Drop"]
  /\ UNCHANGED <<busy, last_tid, image, heap, task, count>>

(* A failed request clears the busy flag last. *)
Drop(p) ==
  /\ At(p, "Drop")
  /\ busy' = [busy EXCEPT ![Chan(p)] = FALSE]
  /\ Finish(p, "failed")
  /\ UNCHANGED <<result, last_tid, image, heap, task, count>>

(* A 0-byte marker file: the request goes on as one for a module. *)
PrepareMarker(p) ==
  /\ At(p, "Prepare") /\ Chan(p) = "elf"
  /\ busy' = [busy EXCEPT !["elf"] = FALSE]
  /\ req' = [req EXCEPT ![p].at = "Enter", ![p].chan = "mod"]
  /\ UNCHANGED <<result, last_tid, image, heap, task, count>>

(* Mutant: the module path starts with the last request's result. *)
MutPrepareNoReset(p) ==
  /\ At(p, "Prepare")
  /\ image' = [image EXCEPT ![Chan(p)] = Id(p)]
  /\ heap' = IF Chan(p) = "elf" THEN heap \cup {Id(p)} ELSE heap
  /\ req' = [req EXCEPT ![p].at = "Create"]
  /\ UNCHANGED <<busy, result, last_tid, task, count>>

(* The image is found (a module) or read into kernel memory (an ELF file)   *)
(* and left in the channel's global; the module path now resets its result. *)
Prepare(p) ==
  /\ At(p, "Prepare")
  /\ image' = [image EXCEPT ![Chan(p)] = Id(p)]
  /\ result' = [result EXCEPT ![Chan(p)] = "PENDING"]
  /\ heap' = IF Chan(p) = "elf" THEN heap \cup {Id(p)} ELSE heap
  /\ req' = [req EXCEPT ![p].at = "Create"]
  /\ UNCHANGED <<busy, last_tid, task, count>>

(* thread_create, which may run the task at once *)
Create(p) ==
  /\ At(p, "Create")
  /\ task' = [task EXCEPT ![Id(p)] = [NoTask EXCEPT !.at = "Start", !.chan = Chan(p)]]
  /\ req' = [req EXCEPT ![p].at = "Store"]
  /\ UNCHANGED <<busy, result, last_tid, image, heap, count>>

(* Mutant: the image is not freed. *)
MutCreateFailsLeak(p) ==
  /\ At(p, "Create")
  /\ image' = IF Chan(p) = "elf" THEN [image EXCEPT !["elf"] = None] ELSE image
  /\ result' = IF Chan(p) = "elf" THEN [result EXCEPT !["elf"] = "MISSING_IMAGE"] ELSE result
  /\ req' = [req EXCEPT ![p].at = "Drop"]
  /\ UNCHANGED <<busy, last_tid, heap, task, count>>

(* thread_create fails *)
CreateFails(p) ==
  /\ At(p, "Create")
  /\ image' = IF Chan(p) = "elf" THEN [image EXCEPT !["elf"] = None] ELSE image
  /\ heap' = heap \ {Id(p)}
  /\ result' = IF Chan(p) = "elf" THEN [result EXCEPT !["elf"] = "MISSING_IMAGE"] ELSE result
  /\ req' = [req EXCEPT ![p].at = "Drop"]
  /\ UNCHANGED <<busy, last_tid, task, count>>

StoreTid(p) ==
  /\ At(p, "Store")
  /\ last_tid' = [last_tid EXCEPT ![Chan(p)] = Id(p)]
  /\ req' = [req EXCEPT ![p].at = "Wait"]
  /\ UNCHANGED <<busy, result, image, heap, task, count>>

(* wait_launch_result finds a result ... *)
Poll(p) ==
  /\ At(p, "Wait") /\ result[Chan(p)] # "PENDING"
  /\ IF result[Chan(p)] = "OK"
     THEN req' = [req EXCEPT ![p].at = "ReadTid"]
     ELSE Finish(p, result[Chan(p)])
  /\ UNCHANGED <<busy, result, last_tid, image, heap, task, count>>

(* Mutant: a caller that gives up clears the busy flag. *)
MutTimeoutClears(p) ==
  /\ At(p, "Wait") /\ result[Chan(p)] = "PENDING"
  /\ busy' = [busy EXCEPT ![Chan(p)] = FALSE]
  /\ Finish(p, "TIMEOUT")
  /\ UNCHANGED <<result, last_tid, image, heap, task, count>>

(* ... or gives up after 300 ticks.  The busy flag stays with the task.     *)
Timeout(p) ==
  /\ At(p, "Wait") /\ result[Chan(p)] = "PENDING"
  /\ Finish(p, "TIMEOUT")
  /\ UNCHANGED <<busy, result, last_tid, image, heap, task, count>>

(* The system call fetches the tid it returns. *)
ReadTid(p) ==
  /\ At(p, "ReadTid")
  /\ req' = [req EXCEPT ![p].at = "Done", ![p].text = "OK", ![p].tid = last_tid[Chan(p)]]
  /\ UNCHANGED <<busy, result, last_tid, image, heap, task, count>>

Back(p) ==
  /\ At(p, "Done")
  /\ req' = [req EXCEPT ![p] = NoCall]
  /\ UNCHANGED <<busy, result, last_tid, image, heap, task, count>>

-----------------------------------------------------------------------------
(* The task: hello_launch_thread, elf_launch_thread                         *)

Running(r, l) == task[r].at = l

(* It takes the image; the ELF global is emptied. *)
TaskStart(r) ==
  /\ Running(r, "Start")
  /\ task' = [task EXCEPT ![r].at = "Load", ![r].img = image[task[r].chan]]
  /\ image' = IF task[r].chan = "elf" THEN [image EXCEPT !["elf"] = None] ELSE image
  /\ UNCHANGED <<busy, result, last_tid, heap, req, count>>

(* A stage of loading fails: the error is stored, then the image freed. *)
TaskFails(r) ==
  /\ Running(r, "Load")
  /\ \E e \in IF task[r].img = None THEN {"MISSING_IMAGE"} ELSE Errors \ {"MISSING_IMAGE"} :
       /\ result' = [result EXCEPT ![task[r].chan] = e]
       /\ task' = [task EXCEPT ![r].at = "Free", ![r].st = e]
  /\ UNCHANGED <<busy, last_tid, image, heap, req, count>>

TaskFrees(r) ==
  /\ Running(r, "Free")
  /\ heap' = heap \ {task[r].img}
  /\ task' = [task EXCEPT ![r].at = "Clear"]
  /\ UNCHANGED <<busy, result, last_tid, image, req, count>>

(* The address space is complete: the image is freed, then OK is stored. *)
TaskLoaded(r) ==
  /\ Running(r, "Load") /\ task[r].img # None
  /\ heap' = heap \ {task[r].img}
  /\ task' = [task EXCEPT ![r].at = "Report"]
  /\ UNCHANGED <<busy, result, last_tid, image, req, count>>

TaskReports(r) ==
  /\ Running(r, "Report")
  /\ result' = [result EXCEPT ![task[r].chan] = "OK"]
  /\ task' = [task EXCEPT ![r].at = "Clear", ![r].st = "OK"]
  /\ UNCHANGED <<busy, last_tid, image, heap, req, count>>

(* Mutant: the flag is left set on the error paths. *)
MutTaskClearsOkOnly(r) ==
  /\ Running(r, "Clear")
  /\ busy' = IF task[r].st = "OK" THEN [busy EXCEPT ![task[r].chan] = FALSE] ELSE busy
  /\ task' = [task EXCEPT ![r].at = "End"]
  /\ UNCHANGED <<result, last_tid, image, heap, req, count>>

(* The busy flag is cleared; the task enters user mode or ends. *)
TaskClears(r) ==
  /\ Running(r, "Clear")
  /\ busy' = [busy EXCEPT ![task[r].chan] = FALSE]
  /\ task' = [task EXCEPT ![r].at = "End"]
  /\ UNCHANGED <<result, last_tid, image, heap, req, count>>

(* INT80_TASK_KILL of a task that is still starting *)
TaskKilled(r) ==
  /\ Kills /\ task[r].at \in {"Start", "Load", "Free", "Report", "Clear"}
  /\ task' = [task EXCEPT ![r].at = "Killed"]
  /\ UNCHANGED <<busy, result, last_tid, image, heap, req, count>>

TaskStep(r) ==
  \/ TaskStart(r) \/ TaskFails(r) \/ TaskFrees(r) \/ TaskLoaded(r)
  \/ TaskReports(r) \/ TaskClears(r)

CallerStep(p) ==
  \/ Refused(p) \/ TakeBusy(p) \/ ResetResult(p) \/ PrepareFails(p) \/ Drop(p)
  \/ PrepareMarker(p) \/ Prepare(p)
  \/ Create(p) \/ CreateFails(p) \/ StoreTid(p) \/ Poll(p) \/ Timeout(p) \/ ReadTid(p)

Finished ==
  /\ count = MaxRequests /\ \A p \in Callers : At(p, "User")
  /\ \A r \in Req : task[r].at \in {"none", "End", "Killed"}

Next ==
  \/ \E p \in Callers : CallerStep(p) \/ Back(p) \/ \E c \in Channels : Call(p, c)
  \/ \E r \in Req : TaskStep(r) \/ TaskKilled(r)
  \/ Finished /\ UNCHANGED vars

Spec == Init /\ [][Next]_vars

(* Threads are scheduled round robin: a call that is under way and a task   *)
(* that is starting go on.                                                  *)
FairSpec ==
  /\ Spec
  /\ \A p \in Callers : WF_vars(CallerStep(p))
  /\ \A r \in Req : WF_vars(TaskStep(r))

-----------------------------------------------------------------------------
(* Properties                                                               *)

CallRec ==
  [at : {"User", "Enter", "Reset", "Prepare", "Drop", "Create", "Store", "Wait", "ReadTid", "Done"},
   chan : Channels, id : Req \cup {None}, text : Texts, tid : Req \cup {None}]

TaskRec ==
  [at : {"none", "Start", "Load", "Free", "Report", "Clear", "End", "Killed"},
   chan : Channels, img : Req \cup {None}, st : Results]

(* Every variable keeps its type. *)
TypeOK ==
  /\ busy \in [Channels -> BOOLEAN]
  /\ result \in [Channels -> Results]
  /\ last_tid \in [Channels -> Req \cup {None}]
  /\ image \in [Channels -> Req \cup {None}]
  /\ heap \subseteq Req
  /\ req \in [Callers -> CallRec]
  /\ task \in [Req -> TaskRec]
  /\ count \in 0 .. MaxRequests

Preparing(p, c) == req[p].at \in {"Reset", "Prepare", "Create", "Drop"} /\ Chan(p) = c
Starting(r, c)  == task[r].at \in {"Start", "Load", "Free", "Report", "Clear"} /\ task[r].chan = c

(* The requests that hold channel c. *)
Holders(c) == { Id(p) : p \in { q \in Callers : Preparing(q, c) } } \cup { r \in Req : Starting(r, c) }
Died(c)    == { r \in Req : task[r].at = "Killed" /\ task[r].chan = c }

(* A channel is busy exactly while one request prepares or starts a task on *)
(* it, or for ever after that task was killed: callers that time out do not *)
(* open it early (g_elf_launch_busy, g_hello_launch_busy).                  *)
ChannelExclusive ==
  \A c \in Channels :
    /\ Cardinality(Holders(c)) <= 1
    /\ Holders(c) # {} => busy[c]
    /\ busy[c] => Holders(c) # {} \/ Died(c) # {}

(* A task loads the image its own caller left for it, although callers may  *)
(* give up and others may call before it first runs.                        *)
OwnImage == \A r \in Req : task[r].img # None => task[r].img = r

(* Every ELF image in kernel memory still has somebody to free it, unless   *)
(* its task was killed.                                                     *)
ImagesAccounted ==
  \A r \in heap : r \in Holders("elf") \cup Died("elf")

(* A channel in use becomes free again, on the error paths too, unless a    *)
(* task on it was killed while it started (thread_kill clears no flag).      *)
ChannelComesBack == \A c \in Channels : busy[c] ~> (~busy[c] \/ Died(c) # {})

(* A success on the channel of p that p may take for its own: that of its   *)
(* own task, or any other once its own task has given the channel up.       *)
Answered(p) ==
  \E r \in Req : /\ task[r].st = "OK" /\ task[r].chan = Chan(p)
                 /\ r = Id(p) \/ task[Id(p)].at = "End"

(* "task started" (NTUX_LAUNCH_OK) is never the answer to an earlier         *)
(* request: until the caller's own task is over only that task's success    *)
(* counts; when it has failed and given the channel up, the success of a    *)
(* request that came after it may be taken for its own.                     *)
NoStaleSuccess ==
  \A p \in Callers : At(p, "Done") /\ req[p].text = "OK" => Answered(p)

-----------------------------------------------------------------------------
(* The inductive invariant                                                  *)

(* A channel has one holder, whose flag is set. *)
OneHolder ==
  \A c \in Channels :
    /\ \A p, q \in Callers : Preparing(p, c) /\ Preparing(q, c) => p = q
    /\ \A r, s \in Req : Starting(r, c) /\ Starting(s, c) => r = s
    /\ \A p \in Callers, r \in Req : ~(Preparing(p, c) /\ Starting(r, c))

BusyHeld ==
  \A c \in Channels :
    /\ \A p \in Callers : Preparing(p, c) => busy[c]
    /\ \A r \in Req : Starting(r, c) => busy[c]
    /\ busy[c] => \/ \E p \in Callers : Preparing(p, c)
                  \/ \E r \in Req : Starting(r, c)
                  \/ \E r \in Req : task[r].at = "Killed" /\ task[r].chan = c

(* Requests are numbered one by one, and before thread_create there is no task. *)
OwnNumber ==
  /\ \A p \in Callers : ~At(p, "User") => Id(p) \in 1 .. count
  /\ \A p, q \in Callers : ~At(p, "User") /\ ~At(q, "User") /\ Id(p) = Id(q) => p = q
  /\ \A r \in Req : task[r].at # "none" => r <= count
  /\ \A p \in Callers : req[p].at \in {"Enter", "Reset", "Prepare", "Drop", "Create"}
                           => task[Id(p)].at = "none"

(* The image global holds what the request in progress left there. *)
ImageLeft ==
  /\ \A p \in Callers : At(p, "Create") => image[Chan(p)] = Id(p)
  /\ \A r \in Req : task[r].at = "Start" => image[task[r].chan] = r
  /\ \A r \in Req : task[r].at \in {"Load", "Free"} => task[r].img = r

(* Who will free an ELF image. *)
ImageOwned ==
  \A r \in heap :
    \/ \E p \in Callers : At(p, "Create") /\ Chan(p) = "elf" /\ Id(p) = r
    \/ task[r].at \in {"Start", "Load", "Free", "Killed"} /\ task[r].chan = "elf"

IInv == TypeOK /\ OneHolder /\ BusyHeld /\ OwnNumber /\ ImageLeft /\ ImageOwned /\ OwnImage

(* What else NoStaleSuccess rests on.                                       *)

(* The channel of a task killed while it started stays taken, by nobody.    *)
KilledHolds ==
  \A r \in Req : task[r].at = "Killed" =>
    /\ busy[task[r].chan]
    /\ \A p \in Callers : ~Preparing(p, task[r].chan)
    /\ \A s \in Req : ~Starting(s, task[r].chan)

(* Before thread_create the result word is reset, by the ELF path early;    *)
(* after it the caller has its task, and a success belongs to a task that   *)
(* is past its report.                                                      *)
ResultFresh ==
  /\ \A p \in Callers : At(p, "Reset") => Chan(p) = "elf"
  /\ \A p \in Callers : At(p, "Create") => result[Chan(p)] = "PENDING"
  /\ \A p \in Callers : req[p].at \in {"Store", "Wait", "ReadTid"}
       => task[Id(p)].at # "none" /\ task[Id(p)].chan = Chan(p)
  /\ \A r \in Req : task[r].st = "OK" => task[r].at \in {"Clear", "End", "Killed"}

(* A success that a caller may find, or has found, is one it may take.      *)
SuccessOwned ==
  \A p \in Callers :
    (req[p].at \in {"Store", "Wait"} /\ result[Chan(p)] = "OK") \/ At(p, "ReadTid")
      => Answered(p)

AnswerInv == KilledHolds /\ ResultFresh /\ SuccessOwned /\ NoStaleSuccess
=============================================================================
