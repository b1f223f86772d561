-------------------------- MODULE TaskLaunchProofs --------------------------
(***************************************************************************)
(* Proofs about TaskLaunch, for any number of callers and requests.        *)
(***************************************************************************)
EXTENDS TaskLaunch, FiniteSetTheorems, TLAPS

CallerAt == {"User", "Enter", "Reset", "Prepare", "Drop", "Create", "Store", "Wait", "ReadTid", "Done"}
TaskAt   == {"none", "Start", "Load", "Free", "Report", "Clear", "End", "Killed"}

(* Caller p goes to point l with a call on channel c of number i. *)
Becomes(p, l, c, i) ==
  /\ req' \in [Callers -> CallRec]
  /\ \A q \in Callers : q # p => req'[q] = req[q]
  /\ req'[p].at = l /\ req'[p].chan = c /\ req'[p].id = i

(* Task r goes to point l on channel c with image i. *)
TaskBecomes(r, l, c, i) ==
  /\ task' \in [Req -> TaskRec]
  /\ \A s \in Req : s # r => task'[s] = task[s]
  /\ task'[r].at = l /\ task'[r].chan = c /\ task'[r].img = i

(* What an assignment to one field of a call leaves of the others. *)
LEMMA CallerMoves ==
  ASSUME TypeOK, NEW p \in Callers, NEW l \in CallerAt, req' = [req EXCEPT ![p].at = l]
  PROVE  Becomes(p, l, Chan(p), Id(p))
<1> DEFINE x == [req[p] EXCEPT !.at = l]
<1>1. req[p] \in CallRec
  BY DEF TypeOK
<1>2. x \in CallRec /\ x.at = l /\ x.chan = Chan(p) /\ x.id = Id(p)
  BY <1>1 DEF CallRec, CallerAt, Chan, Id
<1>3. req' = [req EXCEPT ![p] = x]
  OBVIOUS
<1> QED
  BY <1>2, <1>3 DEF Becomes, TypeOK

LEMMA CallerFinishes ==
  ASSUME TypeOK, NEW p \in Callers, NEW text \in Texts, Finish(p, text)
  PROVE  Becomes(p, "Done", Chan(p), Id(p))
<1> DEFINE x == [req[p] EXCEPT !.at = "Done", !.text = text]
<1>1. req[p] \in CallRec
  BY DEF TypeOK
<1>2. x \in CallRec /\ x.at = "Done" /\ x.chan = Chan(p) /\ x.id = Id(p)
  BY <1>1 DEF CallRec, CallerAt, Chan, Id
<1>3. req' = [req EXCEPT ![p] = x]
  BY DEF Finish
<1> QED
  BY <1>2, <1>3 DEF Becomes, TypeOK

LEMMA TaskMoves ==
  ASSUME TypeOK, NEW r \in Req, NEW l \in TaskAt, task' = [task EXCEPT ![r].at = l]
  PROVE  TaskBecomes(r, l, task[r].chan, task[r].img)
<1> DEFINE x == [task[r] EXCEPT !.at = l]
<1>1. task[r] \in TaskRec
  BY DEF TypeOK
<1>2. x \in TaskRec /\ x.at = l /\ x.chan = task[r].chan /\ x.img = task[r].img
  BY <1>1 DEF TaskRec, TaskAt
<1>3. task' = [task EXCEPT ![r] = x]
  OBVIOUS
<1> QED
  BY <1>2, <1>3 DEF TaskBecomes, TypeOK

LEMMA TaskMovesTo ==
  ASSUME TypeOK, NEW r \in Req, NEW l \in TaskAt, NEW e \in Results,
         task' = [task EXCEPT ![r].at = l, ![r].st = e]
  PROVE  TaskBecomes(r, l, task[r].chan, task[r].img)
<1> DEFINE x == [task[r] EXCEPT !.at = l, !.st = e]
<1>1. task[r] \in TaskRec
  BY DEF TypeOK
<1>2. x \in TaskRec /\ x.at = l /\ x.chan = task[r].chan /\ x.img = task[r].img
  BY <1>1 DEF TaskRec, TaskAt
<1>3. task' = [task EXCEPT ![r] = x]
  OBVIOUS
<1> QED
  BY <1>2, <1>3 DEF TaskBecomes, TypeOK

(* A task that starts, on the new record of Create. *)
LEMMA TaskBegins ==
  ASSUME TypeOK, NEW r \in Req, NEW c \in Channels,
         task' = [task EXCEPT ![r] = [NoTask EXCEPT !.at = "Start", !.chan = c]]
  PROVE  TaskBecomes(r, "Start", c, None)
<1> DEFINE x == [NoTask EXCEPT !.at = "Start", !.chan = c]
<1>1. x \in TaskRec /\ x.at = "Start" /\ x.chan = c /\ x.img = None
  BY DEF NoTask, TaskRec, Results
<1> QED
  BY <1>1 DEF TaskBecomes, TypeOK

Waiting == {"User", "Store", "Wait", "ReadTid", "Done"}
Holding == {"Reset", "Prepare", "Drop", "Create"}

(* A step of a caller that neither takes nor gives up a channel.           *)
LEMMA CallerKeeps ==
  ASSUME IInv, NEW p \in Callers, NEW l \in CallerAt, NEW c, NEW i,
         Becomes(p, l, c, i),
         l = "User" \/ (c = Chan(p) /\ i = Id(p) /\ ~At(p, "User")),
         \/ l \in Waiting /\ req[p].at \notin Holding
         \/ l \in {"Prepare", "Drop"} /\ req[p].at \in {"Reset", "Prepare"},
         result' \in [Channels -> Results], last_tid' \in [Channels -> Req \cup {None}],
         UNCHANGED <<busy, image, heap, task, count>>
  PROVE  IInv'
<1> USE DEF IInv, Becomes, At, Chan, Id, Waiting, Holding
<1>1. TypeOK'
  BY DEF TypeOK
<1>2. \A q \in Callers : \A d : Preparing(q, d)' <=> Preparing(q, d)
  BY DEF Preparing
<1>3. \A r \in Req : \A d : Starting(r, d)' <=> Starting(r, d)
  BY DEF Starting
<1>4. OneHolder' /\ BusyHeld'
  BY <1>2, <1>3 DEF OneHolder, BusyHeld
<1>5. OwnNumber'
  BY DEF OwnNumber
<1>6. ImageLeft' /\ OwnImage'
  BY DEF ImageLeft, OwnImage
<1>7. ImageOwned'
  BY DEF ImageOwned
<1> QED
  BY <1>1, <1>4, <1>5, <1>6, <1>7

(* The numbers of requests that are under way, and of the images.           *)
LEMMA IdsInRange ==
  ASSUME IInv
  PROVE  /\ \A p \in Callers : ~At(p, "User") => Id(p) \in Req
         /\ count \in Nat /\ count <= MaxRequests
BY RequestAssumption DEF IInv, TypeOK, OwnNumber, Req

LEMMA HeapInRange ==
  ASSUME IInv
  PROVE  heap \subseteq Req
BY DEF IInv, TypeOK

(* A step of a task on its way that leaves the busy flag alone and frees    *)
(* at most its own image.                                                   *)
LEMMA TaskKeeps ==
  ASSUME IInv, NEW r \in Req, NEW l \in {"Free", "Report", "Clear", "Killed"},
         TaskBecomes(r, l, task[r].chan, task[r].img),
         task[r].at \in {"Start", "Load", "Free", "Report", "Clear"},
         l = "Free" => task[r].at = "Load",
         heap' = heap \ {r} \/ (heap' = heap /\ (l \in {"Free", "Killed"} \/ task[r].at = "Report")),
         result' \in [Channels -> Results],
         UNCHANGED <<busy, last_tid, image, req, count>>
  PROVE  IInv'
<1> USE DEF IInv, TaskBecomes, At, Chan, Id
<1>1. TypeOK'
  BY DEF TypeOK
<1>2. \A q \in Callers : \A c : Preparing(q, c)' <=> Preparing(q, c)
  BY DEF Preparing
<1>3. \A s \in Req : \A c : Starting(s, c)' <=> Starting(s, c) /\ (s = r => l # "Killed")
  BY DEF Starting
<1>4. OneHolder'
  BY <1>2, <1>3 DEF OneHolder
<1>5. BusyHeld'
  <2> SUFFICES ASSUME NEW c \in Channels
               PROVE  /\ \A p \in Callers : Preparing(p, c)' => busy[c]
                      /\ \A s \in Req : Starting(s, c)' => busy[c]
                      /\ busy[c] => \/ \E p \in Callers : Preparing(p, c)'
                                    \/ \E s \in Req : Starting(s, c)'
                                    \/ \E s \in Req : task'[s].at = "Killed" /\ task'[s].chan = c
    BY DEF BusyHeld
  <2>1. CASE \E s \in Req : Starting(s, c) /\ ~Starting(s, c)'
    BY <2>1, <1>2, <1>3 DEF BusyHeld, Starting
  <2>2. CASE \A s \in Req : Starting(s, c) => Starting(s, c)'
    BY <2>2, <1>2, <1>3 DEF BusyHeld
  <2> QED
    BY <2>1, <2>2
<1>6. OwnNumber'
  BY IdsInRange DEF OwnNumber
<1>7. ImageLeft' /\ OwnImage'
  BY DEF ImageLeft, OwnImage
<1>8. ImageOwned'
  BY HeapInRange DEF ImageOwned
<1> QED
  BY <1>1, <1>4, <1>5, <1>6, <1>7, <1>8

-----------------------------------------------------------------------------
(* The steps that take or give up a channel, and those that move an image.  *)

LEMMA CallInv ==
  ASSUME IInv, NEW p \in Callers, NEW c \in Channels, Call(p, c)
  PROVE  IInv'
<1> USE DEF IInv, Becomes, At, Chan, Id
<1>1. Becomes(p, "Enter", c, count + 1)
  <2> DEFINE x == [NoCall EXCEPT !.at = "Enter", !.chan = c, !.id = count + 1]
  <2>1. count + 1 \in Req
    BY IdsInRange, RequestAssumption DEF Call, Req
  <2>2. x \in CallRec /\ x.at = "Enter" /\ x.chan = c /\ x.id = count + 1
    BY <2>1 DEF NoCall, CallRec, Texts
  <2> QED
    BY <2>2 DEF Call, TypeOK
<1>2. UNCHANGED <<busy, result, last_tid, image, heap, task>> /\ count' = count + 1
      /\ req[p].at = "User" /\ count < MaxRequests
  BY DEF Call
<1>3. TypeOK'
  BY <1>1, <1>2, IdsInRange, RequestAssumption DEF TypeOK
<1>4. \A q \in Callers : \A d : Preparing(q, d)' <=> Preparing(q, d)
  BY <1>1, <1>2 DEF Preparing
<1>5. \A r \in Req : \A d : Starting(r, d)' <=> Starting(r, d)
  BY <1>2 DEF Starting
<1>6. OneHolder' /\ BusyHeld'
  BY <1>2, <1>4, <1>5 DEF OneHolder, BusyHeld
<1>7. OwnNumber'
  <2>1. count + 1 \in Req
    BY <1>2, IdsInRange, RequestAssumption DEF Req
  <2>2. task[count + 1].at = "none"
    BY <2>1, IdsInRange DEF OwnNumber
  <2>3. \A q \in Callers : q # p /\ req[q].at # "User" => req[q].id \in 1 .. count /\ req[q].id # count + 1
    BY IdsInRange DEF OwnNumber
  <2>4. \A r \in Req : task[r].at # "none" => r <= count + 1
    BY IdsInRange DEF OwnNumber, Req
  <2> QED
    BY <1>1, <1>2, <2>2, <2>3, <2>4, IdsInRange DEF OwnNumber
<1>8. ImageLeft' /\ OwnImage'
  BY <1>1, <1>2 DEF ImageLeft, OwnImage
<1>9. ImageOwned'
  BY <1>1, <1>2 DEF ImageOwned
<1> QED
  BY <1>3, <1>6, <1>7, <1>8, <1>9

LEMMA TakeBusyInv ==
  ASSUME IInv, NEW p \in Callers, TakeBusy(p)
  PROVE  IInv'
<1> USE DEF IInv, At, Chan, Id
<1> DEFINE l == First(Chan(p))
<1>1. Becomes(p, l, Chan(p), Id(p)) /\ l \in {"Reset", "Prepare"}
  BY CallerMoves DEF TakeBusy, First, CallerAt
<1>2. /\ req[p].at = "Enter" /\ ~busy[Chan(p)]
      /\ busy' = [busy EXCEPT ![Chan(p)] = TRUE]
      /\ UNCHANGED <<result, last_tid, image, heap, task, count>>
      /\ Chan(p) \in Channels
  BY DEF TakeBusy, TypeOK, CallRec
<1> HIDE DEF l
<1> USE DEF Becomes
<1>3. TypeOK'
  BY <1>1, <1>2 DEF TypeOK
<1>4. \A q \in Callers : \A d : Preparing(q, d)' <=> Preparing(q, d) \/ (q = p /\ d = Chan(p))
  BY <1>1, <1>2 DEF Preparing
<1>5. \A r \in Req : \A d : Starting(r, d)' <=> Starting(r, d)
  BY <1>2 DEF Starting
<1>6. OneHolder'
  BY <1>2, <1>4, <1>5 DEF OneHolder, BusyHeld
<1>7. BusyHeld'
  <2>1. busy'[Chan(p)] /\ \A d \in Channels : d # Chan(p) => busy'[d] = busy[d]
    BY <1>2 DEF TypeOK
  <2> QED
    BY <1>2, <1>4, <1>5, <2>1 DEF BusyHeld
<1>8. OwnNumber'
  BY <1>1, <1>2 DEF OwnNumber
<1>9. ImageLeft' /\ OwnImage'
  BY <1>1, <1>2 DEF ImageLeft, OwnImage
<1>10. ImageOwned'
  BY <1>1, <1>2 DEF ImageOwned
<1> QED
  BY <1>3, <1>6, <1>7, <1>8, <1>9, <1>10

(* Drop and PrepareMarker: a caller gives up the channel that it holds.     *)
LEMMA CallerGivesUp ==
  ASSUME IInv, NEW p \in Callers, NEW l \in {"Done", "Enter"}, NEW c \in Channels,
         req[p].at \in {"Drop", "Prepare"},
         Becomes(p, l, c, Id(p)),
         busy' = [busy EXCEPT ![Chan(p)] = FALSE],
         UNCHANGED <<result, last_tid, image, heap, task, count>>
  PROVE  IInv'
<1> USE DEF IInv, At, Chan, Id, Becomes
<1>1. TypeOK'
  BY DEF TypeOK
<1>2. Chan(p) \in Channels
  BY DEF TypeOK, CallRec
<1>3. \A q \in Callers : \A d : Preparing(q, d)' <=> Preparing(q, d) /\ q # p
  BY DEF Preparing
<1>4. \A r \in Req : \A d : Starting(r, d)' <=> Starting(r, d)
  BY DEF Starting
<1>5. Preparing(p, Chan(p)) /\ \A d : d # Chan(p) => ~Preparing(p, d)
  BY DEF Preparing
<1>6. OneHolder'
  BY <1>3, <1>4 DEF OneHolder
<1>7. BusyHeld'
  <2>1. ~busy'[Chan(p)] /\ \A d \in Channels : d # Chan(p) => busy'[d] = busy[d]
    BY <1>2 DEF TypeOK
  <2> QED
    BY <1>2, <1>3, <1>4, <1>5, <2>1 DEF BusyHeld, OneHolder
<1>8. OwnNumber'
  BY DEF OwnNumber
<1>9. ImageLeft' /\ OwnImage'
  BY DEF ImageLeft, OwnImage
<1>10. ImageOwned'
  BY DEF ImageOwned
<1> QED
  BY <1>1, <1>6, <1>7, <1>8, <1>9, <1>10

LEMMA PrepareInv ==
  ASSUME IInv, NEW p \in Callers, Prepare(p)
  PROVE  IInv'
<1> USE DEF IInv, At, Chan, Id
<1>1. Becomes(p, "Create", Chan(p), Id(p))
  BY CallerMoves DEF Prepare, CallerAt
<1>2. /\ req[p].at = "Prepare"
      /\ image' = [image EXCEPT ![Chan(p)] = Id(p)]
      /\ result' = [result EXCEPT ![Chan(p)] = "PENDING"]
      /\ heap' \subseteq heap \cup {Id(p)} /\ (Id(p) \in heap' => Id(p) \in heap \/ Chan(p) = "elf")
      /\ UNCHANGED <<busy, last_tid, task, count>>
      /\ Chan(p) \in Channels /\ Id(p) \in Req
  BY IdsInRange DEF Prepare, TypeOK, CallRec
<1> USE DEF Becomes
<1>3. TypeOK'
  BY <1>1, <1>2 DEF TypeOK, Results
<1>4. \A q \in Callers : \A d : Preparing(q, d)' <=> Preparing(q, d)
  BY <1>1, <1>2 DEF Preparing
<1>5. \A r \in Req : \A d : Starting(r, d)' <=> Starting(r, d)
  BY <1>2 DEF Starting
<1>6. OneHolder' /\ BusyHeld'
  BY <1>2, <1>4, <1>5 DEF OneHolder, BusyHeld
<1>7. OwnNumber'
  BY <1>1, <1>2 DEF OwnNumber
<1>8. ImageLeft'
  <2>1. image'[Chan(p)] = Id(p) /\ \A d \in Channels : d # Chan(p) => image'[d] = image[d]
    BY <1>2 DEF TypeOK
  <2>2. \A q \in Callers : q # p /\ req[q].at = "Create" => req[q].chan # Chan(p) /\ req[q].chan \in Channels
    BY <1>2 DEF OneHolder, Preparing, TypeOK, CallRec
  <2>3. \A r \in Req : task[r].at = "Start" => task[r].chan # Chan(p) /\ task[r].chan \in Channels
    BY <1>2 DEF OneHolder, Preparing, Starting, TypeOK, TaskRec
  <2> QED
    BY <1>1, <1>2, <2>1, <2>2, <2>3 DEF ImageLeft
<1>9. OwnImage'
  BY <1>2 DEF OwnImage
<1>10. ImageOwned'
  <2> SUFFICES ASSUME NEW r \in heap'
               PROVE  \/ \E q \in Callers : req'[q].at = "Create" /\ req'[q].chan = "elf" /\ req'[q].id = r
                      \/ task[r].at \in {"Start", "Load", "Free", "Killed"} /\ task[r].chan = "elf"
    BY <1>2 DEF ImageOwned
  <2>1. CASE r \in heap
    BY <2>1, <1>1, <1>2 DEF ImageOwned
  <2>2. CASE r \notin heap
    BY <2>2, <1>1, <1>2
  <2> QED
    BY <2>1, <2>2
<1> QED
  BY <1>3, <1>6, <1>7, <1>8, <1>9, <1>10

LEMMA CreateInv ==
  ASSUME IInv, NEW p \in Callers, Create(p)
  PROVE  IInv'
<1> USE DEF IInv, At, Chan, Id
<1> DEFINE i == Id(p)
<1>1. Becomes(p, "Store", Chan(p), i)
  BY CallerMoves DEF Create, CallerAt
<1>2. /\ req[p].at = "Create" /\ i \in Req /\ Chan(p) \in Channels
      /\ UNCHANGED <<busy, result, last_tid, image, heap, count>>
  BY IdsInRange DEF Create, TypeOK, CallRec
<1>3. TaskBecomes(i, "Start", Chan(p), None)
  BY <1>2, TaskBegins DEF Create
<1>4. task[i].at = "none" /\ i <= count
  BY <1>2, IdsInRange DEF OwnNumber
<1> USE DEF Becomes, TaskBecomes
<1>5. TypeOK'
  BY <1>1, <1>2, <1>3 DEF TypeOK
<1>6. \A q \in Callers : \A d : Preparing(q, d)' <=> Preparing(q, d) /\ q # p
  BY <1>1, <1>2 DEF Preparing
<1>7. \A r \in Req : \A d : Starting(r, d)' <=> Starting(r, d) \/ (r = i /\ d = Chan(p))
  BY <1>2, <1>3, <1>4 DEF Starting
<1>8. Preparing(p, Chan(p)) /\ \A d : d # Chan(p) => ~Preparing(p, d)
  BY <1>2 DEF Preparing
<1>9. OneHolder'
  BY <1>2, <1>6, <1>7, <1>8 DEF OneHolder
<1>10. BusyHeld'
  <2> SUFFICES ASSUME NEW d \in Channels
               PROVE  /\ \A q \in Callers : Preparing(q, d)' => busy[d]
                      /\ \A s \in Req : Starting(s, d)' => busy[d]
                      /\ busy[d] => \/ \E q \in Callers : Preparing(q, d)'
                                    \/ \E s \in Req : Starting(s, d)'
                                    \/ \E s \in Req : task'[s].at = "Killed" /\ task'[s].chan = d
    BY <1>2 DEF BusyHeld
  <2>1. CASE d = Chan(p)
    BY <2>1, <1>2, <1>6, <1>7, <1>8 DEF BusyHeld
  <2>2. CASE d # Chan(p)
    BY <2>2, <1>2, <1>3, <1>4, <1>6, <1>7, <1>8 DEF BusyHeld
  <2> QED
    BY <2>1, <2>2
<1>11. OwnNumber'
  BY <1>1, <1>2, <1>3, <1>4, IdsInRange DEF OwnNumber
<1>12. ImageLeft' /\ OwnImage'
  BY <1>1, <1>2, <1>3 DEF ImageLeft, OwnImage
<1>13. ImageOwned'
  <2> SUFFICES ASSUME NEW r \in heap
               PROVE  \/ \E q \in Callers : req'[q].at = "Create" /\ req'[q].chan = "elf" /\ req'[q].id = r
                      \/ task'[r].at \in {"Start", "Load", "Free", "Killed"} /\ task'[r].chan = "elf"
    BY <1>2 DEF ImageOwned
  <2>1. CASE \E q \in Callers : req[q].at = "Create" /\ req[q].chan = "elf" /\ req[q].id = r
    BY <2>1, <1>1, <1>2, <1>3
  <2>2. CASE task[r].at \in {"Start", "Load", "Free", "Killed"} /\ task[r].chan = "elf"
    BY <2>2, <1>3, <1>4, HeapInRange
  <2> QED
    BY <2>1, <2>2 DEF ImageOwned
<1> QED
  BY <1>5, <1>9, <1>10, <1>11, <1>12, <1>13

LEMMA CreateFailsInv ==
  ASSUME IInv, NEW p \in Callers, CreateFails(p)
  PROVE  IInv'
<1> USE DEF IInv, At, Chan, Id
<1>1. Becomes(p, "Drop", Chan(p), Id(p))
  BY CallerMoves DEF CreateFails, CallerAt
<1>2. /\ req[p].at = "Create" /\ heap' = heap \ {Id(p)}
      /\ image' = IF Chan(p) = "elf" THEN [image EXCEPT !["elf"] = None] ELSE image
      /\ result' = IF Chan(p) = "elf" THEN [result EXCEPT !["elf"] = "MISSING_IMAGE"] ELSE result
      /\ UNCHANGED <<busy, last_tid, task, count>>
      /\ Chan(p) \in Channels
  BY DEF CreateFails, TypeOK, CallRec
<1> USE DEF Becomes
<1>3. TypeOK'
  BY <1>1, <1>2 DEF TypeOK, Results, Errors
<1>4. \A q \in Callers : \A d : Preparing(q, d)' <=> Preparing(q, d)
  BY <1>1, <1>2 DEF Preparing
<1>5. \A r \in Req : \A d : Starting(r, d)' <=> Starting(r, d)
  BY <1>2 DEF Starting
<1>6. OneHolder' /\ BusyHeld'
  BY <1>2, <1>4, <1>5 DEF OneHolder, BusyHeld
<1>7. OwnNumber'
  BY <1>1, <1>2 DEF OwnNumber
<1>8. ImageLeft'
  <2>1. \A d \in Channels : d # Chan(p) => image'[d] = image[d]
    BY <1>2 DEF TypeOK
  <2>2. \A q \in Callers : q # p /\ req[q].at = "Create" => req[q].chan # Chan(p) /\ req[q].chan \in Channels
    BY <1>2 DEF OneHolder, Preparing, TypeOK, CallRec
  <2>3. \A r \in Req : task[r].at = "Start" => task[r].chan # Chan(p) /\ task[r].chan \in Channels
    BY <1>2 DEF OneHolder, Preparing, Starting, TypeOK, TaskRec
  <2> QED
    BY <1>1, <1>2, <2>1, <2>2, <2>3 DEF ImageLeft
<1>9. OwnImage' /\ ImageOwned'
  BY <1>1, <1>2 DEF OwnImage, ImageOwned
<1> QED
  BY <1>3, <1>6, <1>7, <1>8, <1>9

LEMMA TaskStartInv ==
  ASSUME IInv, NEW r \in Req, TaskStart(r)
  PROVE  IInv'
<1> USE DEF IInv, At, Chan, Id
<1> DEFINE c == task[r].chan
<1>1. /\ task[r].at = "Start" /\ image[c] = r /\ c \in Channels
      /\ image' = IF c = "elf" THEN [image EXCEPT !["elf"] = None] ELSE image
      /\ UNCHANGED <<busy, result, last_tid, heap, req, count>>
  BY DEF TaskStart, Running, ImageLeft, TypeOK, TaskRec
<1>2. TaskBecomes(r, "Load", c, r)
  <2> DEFINE x == [task[r] EXCEPT !.at = "Load", !.img = r]
  <2>1. task[r] \in TaskRec
    BY DEF TypeOK
  <2>2. x \in TaskRec /\ x.at = "Load" /\ x.chan = c /\ x.img = r
    BY <2>1 DEF TaskRec
  <2>3. task' = [task EXCEPT ![r] = x]
    BY <1>1 DEF TaskStart
  <2> QED
    BY <2>2, <2>3 DEF TaskBecomes, TypeOK
<1> USE DEF TaskBecomes
<1>3. TypeOK'
  BY <1>1, <1>2 DEF TypeOK
<1>4. \A q \in Callers : \A d : Preparing(q, d)' <=> Preparing(q, d)
  BY <1>1 DEF Preparing
<1>5. \A s \in Req : \A d : Starting(s, d)' <=> Starting(s, d)
  BY <1>1, <1>2 DEF Starting
<1>6. OneHolder'
  BY <1>4, <1>5 DEF OneHolder
<1>7. BusyHeld'
  BY <1>1, <1>2, <1>4, <1>5 DEF BusyHeld
<1>8. OwnNumber'
  BY <1>1, <1>2, IdsInRange DEF OwnNumber
<1>9. ImageLeft'
  <2>1. \A d \in Channels : d # c => image'[d] = image[d]
    BY <1>1 DEF TypeOK
  <2>2. \A q \in Callers : req[q].at = "Create" => req[q].chan # c /\ req[q].chan \in Channels
    BY <1>1 DEF OneHolder, Preparing, Starting, TypeOK, CallRec
  <2>3. \A s \in Req : s # r /\ task[s].at = "Start" => task[s].chan # c /\ task[s].chan \in Channels
    BY <1>1 DEF OneHolder, Starting, TypeOK, TaskRec
  <2> QED
    BY <1>1, <1>2, <2>1, <2>2, <2>3 DEF ImageLeft
<1>10. OwnImage'
  BY <1>2 DEF OwnImage
<1>11. ImageOwned'
  BY <1>1, <1>2, HeapInRange DEF ImageOwned
<1> QED
  BY <1>3, <1>6, <1>7, <1>8, <1>9, <1>10, <1>11

LEMMA TaskClearsInv ==
  ASSUME IInv, NEW r \in Req, TaskClears(r)
  PROVE  IInv'
<1> USE DEF IInv, At, Chan, Id
<1> DEFINE c == task[r].chan
<1>1. /\ task[r].at = "Clear" /\ c \in Channels
      /\ busy' = [busy EXCEPT ![c] = FALSE]
      /\ UNCHANGED <<result, last_tid, image, heap, req, count>>
  BY DEF TaskClears, Running, TypeOK, TaskRec
<1>2. TaskBecomes(r, "End", c, task[r].img)
  BY TaskMoves DEF TaskClears, TaskAt
<1> USE DEF TaskBecomes
<1>3. TypeOK'
  BY <1>1, <1>2 DEF TypeOK
<1>4. \A q \in Callers : \A d : Preparing(q, d)' <=> Preparing(q, d)
  BY <1>1 DEF Preparing
<1>5. \A s \in Req : \A d : Starting(s, d)' <=> Starting(s, d) /\ s # r
  BY <1>1, <1>2 DEF Starting
<1>6. Starting(r, c) /\ \A d : d # c => ~Starting(r, d)
  BY <1>1 DEF Starting
<1>7. OneHolder'
  BY <1>4, <1>5 DEF OneHolder
<1>8. BusyHeld'
  <2>1. ~busy'[c] /\ \A d \in Channels : d # c => busy'[d] = busy[d]
    BY <1>1 DEF TypeOK
  <2> SUFFICES ASSUME NEW d \in Channels
               PROVE  /\ \A q \in Callers : Preparing(q, d)' => busy'[d]
                      /\ \A s \in Req : Starting(s, d)' => busy'[d]
                      /\ busy'[d] => \/ \E q \in Callers : Preparing(q, d)'
                                     \/ \E s \in Req : Starting(s, d)'
                                     \/ \E s \in Req : task'[s].at = "Killed" /\ task'[s].chan = d
    BY DEF BusyHeld
  <2>2. CASE d = c
    BY <2>1, <2>2, <1>4, <1>5, <1>6 DEF OneHolder
  <2>3. CASE d # c
    BY <2>1, <2>3, <1>1, <1>2, <1>4, <1>5, <1>6 DEF BusyHeld
  <2> QED
    BY <2>2, <2>3
<1>9. OwnNumber'
  BY <1>1, <1>2, IdsInRange DEF OwnNumber
<1>10. ImageLeft' /\ OwnImage'
  BY <1>1, <1>2 DEF ImageLeft, OwnImage
<1>11. ImageOwned'
  BY <1>1, <1>2, HeapInRange DEF ImageOwned
<1> QED
  BY <1>3, <1>7, <1>8, <1>9, <1>10, <1>11

-----------------------------------------------------------------------------

LEMMA InitIInv == Init => IInv
<1> SUFFICES ASSUME Init PROVE IInv
  OBVIOUS
<1>0. NoCall.at = "User" /\ NoTask.at = "none" /\ NoTask.img = None
  BY DEF NoCall, NoTask
<1> USE DEF Init, At, Chan, Id
<1>1. TypeOK
  <2>1. NoCall \in CallRec /\ NoTask \in TaskRec
    BY DEF NoCall, NoTask, CallRec, TaskRec, Texts, Results, Channels
  <2>2. req \in [Callers -> CallRec] /\ task \in [Req -> TaskRec]
    BY <2>1
  <2> QED
    BY <2>2, RequestAssumption DEF TypeOK, Results
<1>2. OneHolder /\ BusyHeld
  BY <1>0 DEF OneHolder, BusyHeld, Preparing, Starting
<1>3. OwnNumber /\ ImageLeft /\ ImageOwned /\ OwnImage
  BY <1>0 DEF OwnNumber, ImageLeft, ImageOwned, OwnImage
<1> QED
  BY <1>1, <1>2, <1>3 DEF IInv

LEMMA CallerStepInv ==
  ASSUME IInv, NEW p \in Callers, CallerStep(p)
  PROVE  IInv'
<1>0. TypeOK /\ Chan(p) \in Channels
  BY DEF IInv, TypeOK, CallRec, Chan
<1>1. CASE Refused(p)
  <2>1. Becomes(p, "Done", Chan(p), Id(p))
    BY <1>0, <1>1, CallerFinishes DEF Refused, Texts
  <2> QED
    BY <1>0, <1>1, <2>1, CallerKeeps DEF Refused, CallerAt, Waiting, Holding, At, TypeOK
<1>2. CASE TakeBusy(p)
  BY <1>2, TakeBusyInv
<1>3. CASE ResetResult(p)
  <2>1. Becomes(p, "Prepare", Chan(p), Id(p))
    BY <1>0, <1>3, CallerMoves DEF ResetResult, CallerAt
  <2>2. result' \in [Channels -> Results] /\ last_tid' \in [Channels -> Req \cup {None}]
    BY <1>0, <1>3 DEF ResetResult, TypeOK, Results
  <2> QED
    BY <1>3, <2>1, <2>2, CallerKeeps DEF ResetResult, CallerAt, At
<1>4. CASE PrepareFails(p)
  <2>1. Becomes(p, "Drop", Chan(p), Id(p))
    BY <1>0, <1>4, CallerMoves DEF PrepareFails, CallerAt
  <2>2. result' \in [Channels -> Results] /\ last_tid' \in [Channels -> Req \cup {None}]
    BY <1>0, <1>4 DEF PrepareFails, TypeOK, Results, Errors
  <2> QED
    BY <1>4, <2>1, <2>2, CallerKeeps DEF PrepareFails, CallerAt, At
<1>5. CASE Drop(p)
  <2>1. Becomes(p, "Done", Chan(p), Id(p))
    BY <1>0, <1>5, CallerFinishes DEF Drop, Texts
  <2> QED
    BY <1>0, <1>5, <2>1, CallerGivesUp DEF Drop, At
<1>6. CASE PrepareMarker(p)
  <2> DEFINE x == [req[p] EXCEPT !.at = "Enter", !.chan = "mod"]
  <2>1. x \in CallRec /\ x.at = "Enter" /\ x.chan = "mod" /\ x.id = Id(p)
    <3>1. req[p] \in CallRec
      BY <1>0 DEF TypeOK
    <3> QED
      BY <3>1 DEF CallRec, Id, Channels
  <2>2. req' = [req EXCEPT ![p] = x]
    BY <1>6 DEF PrepareMarker
  <2>3. Becomes(p, "Enter", "mod", Id(p))
    BY <1>0, <2>1, <2>2 DEF Becomes, TypeOK
  <2> QED
    BY <1>0, <1>6, <2>3, CallerGivesUp DEF PrepareMarker, At, Channels
<1>7. CASE Prepare(p)
  BY <1>7, PrepareInv
<1>8. CASE Create(p)
  BY <1>8, CreateInv
<1>9. CASE CreateFails(p)
  BY <1>9, CreateFailsInv
<1>10. CASE StoreTid(p)
  <2>1. Becomes(p, "Wait", Chan(p), Id(p))
    BY <1>0, <1>10, CallerMoves DEF StoreTid, CallerAt
  <2>2. result' \in [Channels -> Results] /\ last_tid' \in [Channels -> Req \cup {None}]
    BY <1>0, <1>10, IdsInRange DEF StoreTid, TypeOK, At
  <2> QED
    BY <1>10, <2>1, <2>2, CallerKeeps DEF StoreTid, CallerAt, Waiting, Holding, At
<1>11. CASE Poll(p)
  <2>1. \E l \in {"ReadTid", "Done"} : Becomes(p, l, Chan(p), Id(p))
    <3>1. CASE result[Chan(p)] = "OK"
      BY <1>0, <1>11, <3>1, CallerMoves DEF Poll, CallerAt
    <3>2. CASE result[Chan(p)] # "OK"
      <4>1. result[Chan(p)] \in Texts
        BY <1>0, <1>11, <3>2 DEF Poll, TypeOK, Results, Texts
      <4> QED
        BY <1>0, <1>11, <3>2, <4>1, CallerFinishes DEF Poll
    <3> QED
      BY <3>1, <3>2
  <2> QED
    BY <1>0, <1>11, <2>1, CallerKeeps DEF Poll, CallerAt, Waiting, Holding, At, TypeOK
<1>12. CASE Timeout(p)
  <2>1. Becomes(p, "Done", Chan(p), Id(p))
    BY <1>0, <1>12, CallerFinishes DEF Timeout, Texts
  <2> QED
    BY <1>0, <1>12, <2>1, CallerKeeps DEF Timeout, CallerAt, Waiting, Holding, At, TypeOK
<1>13. CASE ReadTid(p)
  <2> DEFINE x == [req[p] EXCEPT !.at = "Done", !.text = "OK", !.tid = last_tid[Chan(p)]]
  <2>1. x \in CallRec /\ x.at = "Done" /\ x.chan = Chan(p) /\ x.id = Id(p)
    <3>1. req[p] \in CallRec /\ last_tid[Chan(p)] \in Req \cup {None}
      BY <1>0 DEF TypeOK
    <3> QED
      BY <3>1 DEF CallRec, Id, Chan, Texts
  <2>2. req' = [req EXCEPT ![p] = x]
    BY <1>13 DEF ReadTid
  <2>3. Becomes(p, "Done", Chan(p), Id(p))
    BY <1>0, <2>1, <2>2 DEF Becomes, TypeOK
  <2> QED
    BY <1>0, <1>13, <2>3, CallerKeeps DEF ReadTid, CallerAt, Waiting, Holding, At, TypeOK
<1> QED
  BY <1>1, <1>2, <1>3, <1>4, <1>5, <1>6, <1>7, <1>8, <1>9, <1>10, <1>11, <1>12, <1>13
     DEF CallerStep

LEMMA BackInv ==
  ASSUME IInv, NEW p \in Callers, Back(p)
  PROVE  IInv'
<1>1. NoCall \in CallRec /\ NoCall.at = "User" /\ NoCall.chan = "mod" /\ NoCall.id = None
  BY DEF NoCall, CallRec, Channels, Texts
<1>2. Becomes(p, "User", "mod", None)
  BY <1>1 DEF Back, Becomes, IInv, TypeOK
<1> QED
  BY <1>2, CallerKeeps DEF Back, CallerAt, Waiting, Holding, At, IInv, TypeOK

LEMMA TaskStepInv ==
  ASSUME IInv, NEW r \in Req, TaskStep(r) \/ TaskKilled(r)
  PROVE  IInv'
<1>0. TypeOK /\ (task[r].at \in {"Load", "Free"} => task[r].img = r)
  BY DEF IInv, ImageLeft
<1>1. CASE TaskStart(r)
  BY <1>1, TaskStartInv
<1>2. CASE TaskFails(r)
  <2>1. PICK e \in Errors : /\ result' = [result EXCEPT ![task[r].chan] = e]
                            /\ task' = [task EXCEPT ![r].at = "Free", ![r].st = e]
    BY <1>2 DEF TaskFails, Errors
  <2>2. TaskBecomes(r, "Free", task[r].chan, task[r].img) /\ result' \in [Channels -> Results]
    BY <1>0, <2>1, TaskMovesTo DEF TaskAt, Results, TypeOK
  <2> QED
    BY <1>2, <2>2, TaskKeeps DEF TaskFails, Running
<1>3. CASE TaskFrees(r)
  <2>1. TaskBecomes(r, "Clear", task[r].chan, task[r].img)
    BY <1>0, <1>3, TaskMoves DEF TaskFrees, TaskAt
  <2> QED
    BY <1>0, <1>3, <2>1, TaskKeeps DEF TaskFrees, Running, TypeOK
<1>4. CASE TaskLoaded(r)
  <2>1. TaskBecomes(r, "Report", task[r].chan, task[r].img)
    BY <1>0, <1>4, TaskMoves DEF TaskLoaded, TaskAt
  <2> QED
    BY <1>0, <1>4, <2>1, TaskKeeps DEF TaskLoaded, Running, TypeOK
<1>5. CASE TaskReports(r)
  <2>1. TaskBecomes(r, "Clear", task[r].chan, task[r].img) /\ result' \in [Channels -> Results]
    BY <1>0, <1>5, TaskMovesTo DEF TaskReports, TaskAt, Results, TypeOK
  <2> QED
    BY <1>5, <2>1, TaskKeeps DEF TaskReports, Running
<1>6. CASE TaskClears(r)
  BY <1>6, TaskClearsInv
<1>7. CASE TaskKilled(r)
  <2>1. TaskBecomes(r, "Killed", task[r].chan, task[r].img)
    BY <1>0, <1>7, TaskMoves DEF TaskKilled, TaskAt
  <2> QED
    BY <1>0, <1>7, <2>1, TaskKeeps DEF TaskKilled, TypeOK
<1> QED
  BY <1>1, <1>2, <1>3, <1>4, <1>5, <1>6, <1>7 DEF TaskStep

(* Every step of the launch protocol keeps the invariant.                   *)
LEMMA NextIInv == IInv /\ [Next]_vars => IInv'
<1> SUFFICES ASSUME IInv, [Next]_vars PROVE IInv'
  OBVIOUS
<1>1. CASE UNCHANGED vars
  BY <1>1 DEF vars, IInv, TypeOK, OneHolder, BusyHeld, OwnNumber, ImageLeft, ImageOwned, OwnImage,
     Preparing, Starting, At, Chan, Id
<1>2. CASE \E p \in Callers : CallerStep(p) \/ Back(p) \/ \E c \in Channels : Call(p, c)
  BY <1>2, CallerStepInv, BackInv, CallInv
<1>3. CASE \E r \in Req : TaskStep(r) \/ TaskKilled(r)
  BY <1>3, TaskStepInv
<1> QED
  BY <1>1, <1>2, <1>3 DEF Next

(* The invariant of the launch protocol: the global flags, result words and *)
(* image words of module_loader.c fit the calls and tasks under way.        *)
THEOREM SpecIInv == Spec => []IInv
<1>1. Init => IInv
  BY InitIInv
<1>2. IInv /\ [Next]_vars => IInv'
  BY NextIInv
<1> QED
  BY <1>1, <1>2, PTL DEF Spec

(* No two requests ever hold one launch channel, however many callers call, *)
(* time out and call again: g_elf_launch_busy is held from the caller to    *)
(* its task, and a set flag has a holder unless its task was killed.        *)
THEOREM SpecChannelExclusive == Spec => []ChannelExclusive
<1>1. IInv => ChannelExclusive
  <2> SUFFICES ASSUME IInv, NEW c \in Channels
               PROVE  /\ Cardinality(Holders(c)) <= 1
                      /\ Holders(c) # {} => busy[c]
                      /\ busy[c] => Holders(c) # {} \/ Died(c) # {}
    BY DEF ChannelExclusive
  <2>1. \A h, k \in Holders(c) : h = k
    BY DEF Holders, IInv, OneHolder
  <2>2. Cardinality(Holders(c)) <= 1
    <3>1. CASE Holders(c) = {}
      BY <3>1, FS_EmptySet
    <3>2. CASE Holders(c) # {}
      <4>1. PICK h : h \in Holders(c)
        BY <3>2
      <4>2. Holders(c) = {h}
        BY <2>1, <4>1
      <4>3. Cardinality({h}) = 1
        BY FS_Singleton
      <4> QED
        BY <4>2, <4>3
    <3> QED
      BY <3>1, <3>2
  <2>3. Holders(c) # {} => busy[c]
    BY DEF Holders, IInv, BusyHeld
  <2>4. busy[c] => Holders(c) # {} \/ Died(c) # {}
    BY DEF Holders, Died, IInv, BusyHeld
  <2> QED
    BY <2>2, <2>3, <2>4
<1> QED
  BY <1>1, SpecIInv, PTL

(* The task never loads the image of another request from                   *)
(* g_elf_launch_image or g_hello_module_addr, although it reads the global  *)
(* after its caller may have given up.                                      *)
THEOREM SpecOwnImage == Spec => []OwnImage
<1>1. IInv => OwnImage
  BY DEF IInv
<1> QED
  BY <1>1, SpecIInv, PTL

(* Without kills, every ELF image that is read into kernel memory has       *)
(* somebody who will kfree it: the caller before thread_create, the task    *)
(* after it.                                                                *)
THEOREM SpecImagesAccounted == Spec => []ImagesAccounted
<1>1. IInv => ImagesAccounted
  <2> SUFFICES ASSUME IInv, NEW r \in heap
               PROVE  r \in Holders("elf") \cup Died("elf")
    BY DEF ImagesAccounted
  <2>1. r \in Req
    BY HeapInRange
  <2>2. CASE \E p \in Callers : At(p, "Create") /\ Chan(p) = "elf" /\ Id(p) = r
    BY <2>2 DEF Holders, Preparing, At
  <2>3. CASE task[r].at \in {"Start", "Load", "Free", "Killed"} /\ task[r].chan = "elf"
    BY <2>1, <2>3 DEF Holders, Died, Starting
  <2> QED
    BY <2>2, <2>3 DEF IInv, ImageOwned
<1> QED
  BY <1>1, SpecIInv, PTL

-----------------------------------------------------------------------------
(* The answer a caller gets                                                 *)

(* A step of caller p alone.  The hypotheses say, in this order: it enters  *)
(* only a channel that is free and opens or writes only one it holds; it    *)
(* stores no success; it creates after a reset and waits for its own task;  *)
(* and the success it takes is one it may take.                             *)
LEMMA CallerAnswer ==
  ASSUME IInv, AnswerInv, NEW p \in Callers, NEW l \in CallerAt, NEW c, NEW i,
         Becomes(p, l, c, i), UNCHANGED task,
         l \in Holding => (req[p].at \in Holding /\ c = Chan(p)) \/ ~busy[c],
         \A d \in Channels : busy[d] => busy'[d] \/ Preparing(p, d),
         \A d \in Channels : result'[d] = result[d] \/ (Preparing(p, d) /\ result'[d] # "OK"),
         l = "Create" => result'[c] = "PENDING",
         l = "Reset" => c = "elf",
         l \in {"Store", "Wait", "ReadTid"} =>
           c = Chan(p) /\ i = Id(p) /\ req[p].at \in {"Store", "Wait"},
         l = "ReadTid" => result[c] = "OK",
         l = "Done" /\ req'[p].text = "OK" => c = Chan(p) /\ i = Id(p) /\ At(p, "ReadTid")
  PROVE  AnswerInv'
<1> USE DEF AnswerInv, Becomes, At, Chan, Id
<1>0. /\ \A q \in Callers : Chan(q) \in Channels
      /\ \A r \in Req : task[r].chan \in Channels
  BY DEF IInv, TypeOK, CallRec, TaskRec
<1>1. \A q \in Callers : q # p => \A d : Preparing(q, d)' <=> Preparing(q, d)
  BY DEF Preparing
<1>2. \A d : Preparing(p, d)' => Preparing(p, d) \/ ~busy[d]
  BY DEF Preparing, Holding
<1>3. \A r \in Req : \A d : Starting(r, d)' <=> Starting(r, d)
  BY DEF Starting
<1>4. KilledHolds'
  <2> SUFFICES ASSUME NEW r \in Req, task[r].at = "Killed"
               PROVE  /\ busy'[task[r].chan]
                      /\ \A q \in Callers : ~Preparing(q, task[r].chan)'
                      /\ \A s \in Req : ~Starting(s, task[r].chan)'
    BY DEF KilledHolds
  <2>1. /\ busy[task[r].chan]
        /\ \A q \in Callers : ~Preparing(q, task[r].chan)
        /\ \A s \in Req : ~Starting(s, task[r].chan)
    BY DEF KilledHolds
  <2> QED
    BY <2>1, <1>0, <1>1, <1>2, <1>3
<1>5. ResultFresh'
  <2>1. ASSUME NEW q \in Callers, req'[q].at = "Create" PROVE result'[req'[q].chan] = "PENDING"
    <3>1. CASE q = p
      BY <2>1, <3>1
    <3>2. CASE q # p
      <4>1. Preparing(q, Chan(q)) /\ result[Chan(q)] = "PENDING" /\ Chan(q) \in Channels
        BY <2>1, <3>2, <1>0 DEF Preparing, ResultFresh
      <4>2. ~Preparing(p, Chan(q))
        BY <4>1, <3>2 DEF IInv, OneHolder
      <4> QED
        BY <4>1, <4>2, <3>2
    <3> QED
      BY <3>1, <3>2
  <2>2. ASSUME NEW q \in Callers, req'[q].at \in {"Store", "Wait", "ReadTid"}
        PROVE  task[req'[q].id].at # "none" /\ task[req'[q].id].chan = req'[q].chan
    BY <2>2 DEF ResultFresh
  <2>3. \A q \in Callers : req'[q].at = "Reset" => req'[q].chan = "elf"
    BY DEF ResultFresh
  <2> QED
    BY <2>1, <2>2, <2>3 DEF ResultFresh
<1>6. \A q \in Callers : req'[q].chan = req[q].chan /\ req'[q].id = req[q].id /\ Answered(q) => Answered(q)'
  BY DEF Answered
<1>7. SuccessOwned'
  <2> SUFFICES ASSUME NEW q \in Callers,
                      \/ req'[q].at \in {"Store", "Wait"} /\ result'[req'[q].chan] = "OK"
                      \/ req'[q].at = "ReadTid"
               PROVE  Answered(q)'
    BY DEF SuccessOwned
  <2>1. req'[q].chan = Chan(q) /\ req'[q].id = Id(q)
    BY DEF Becomes
  <2>2. Answered(q)
    <3>1. result'[Chan(q)] = "OK" => result[Chan(q)] = "OK"
      BY <1>0
    <3> QED
      BY <2>1, <3>1 DEF SuccessOwned
  <2> QED
    BY <2>1, <2>2, <1>6
<1>8. NoStaleSuccess'
  BY <1>6 DEF NoStaleSuccess, SuccessOwned
<1> QED
  BY <1>4, <1>5, <1>7, <1>8

(* A step of task r alone, on its way.                                      *)
LEMMA TaskAnswer ==
  ASSUME IInv, AnswerInv, NEW r \in Req, NEW l \in TaskAt \ {"none"}, NEW i,
         TaskBecomes(r, l, task[r].chan, i), UNCHANGED req,
         task[r].at \in {"Start", "Load", "Free", "Report", "Clear"},
         busy' = busy \/ (l = "End" /\ busy' = [busy EXCEPT ![task[r].chan] = FALSE]),
         \A d \in Channels : d # task[r].chan => result'[d] = result[d],
         result'[task[r].chan] = "OK" => result[task[r].chan] = "OK" \/ task'[r].st = "OK",
         task[r].st = "OK" => task'[r].st = "OK",
         task'[r].st = "OK" => l \in {"Clear", "End", "Killed"}
  PROVE  AnswerInv'
<1> USE DEF AnswerInv, TaskBecomes, At, Chan, Id
<1> DEFINE c == task[r].chan
<1>0. /\ \A q \in Callers : Chan(q) \in Channels
      /\ \A s \in Req : task[s].chan \in Channels
      /\ busy \in [Channels -> BOOLEAN]
  BY DEF IInv, TypeOK, CallRec, TaskRec
<1>1. Starting(r, c) /\ busy[c]
  BY <1>0 DEF Starting, IInv, BusyHeld
<1>2. \A s \in Req : \A d : Starting(s, d)' => Starting(s, d) /\ (s = r => l # "Killed")
  BY DEF Starting
<1>3. \A q \in Callers : \A d : Preparing(q, d)' <=> Preparing(q, d)
  BY DEF Preparing
<1>4. /\ \A q \in Callers : ~Preparing(q, c)
      /\ \A s \in Req : Starting(s, c) => s = r
      /\ \A s \in Req : task[s].at = "Killed" => task[s].chan # c
  BY <1>0, <1>1 DEF IInv, OneHolder, KilledHolds
<1>5. KilledHolds'
  <2> SUFFICES ASSUME NEW s \in Req, task'[s].at = "Killed"
               PROVE  /\ busy'[task'[s].chan]
                      /\ \A q \in Callers : ~Preparing(q, task[s].chan)'
                      /\ \A u \in Req : ~Starting(u, task[s].chan)'
    BY DEF KilledHolds
  <2>1. CASE s = r
    BY <2>1, <1>1, <1>2, <1>3, <1>4
  <2>2. CASE s # r
    <3>1. task'[s] = task[s] /\ task[s].chan # c
      BY <2>2, <1>4
    <3>2. /\ busy[task[s].chan]
          /\ \A q \in Callers : ~Preparing(q, task[s].chan)
          /\ \A u \in Req : ~Starting(u, task[s].chan)
      BY <2>2, <3>1 DEF KilledHolds
    <3> QED
      BY <3>1, <3>2, <1>0, <1>2, <1>3
  <2> QED
    BY <2>1, <2>2
<1>6. ResultFresh'
  <2>1. ASSUME NEW q \in Callers, At(q, "Create") PROVE result'[Chan(q)] = "PENDING"
    <3>1. Preparing(q, Chan(q)) /\ result[Chan(q)] = "PENDING"
      BY <2>1 DEF Preparing, ResultFresh
    <3> QED
      BY <3>1, <1>0, <1>4
  <2>2. ASSUME NEW q \in Callers, req[q].at \in {"Store", "Wait", "ReadTid"}
        PROVE  task'[Id(q)].at # "none" /\ task'[Id(q)].chan = Chan(q)
    <3>1. task[Id(q)].at # "none" /\ task[Id(q)].chan = Chan(q) /\ Id(q) \in Req
      BY <2>2, IdsInRange DEF ResultFresh
    <3> QED
      BY <3>1
  <2> QED
    BY <2>1, <2>2 DEF ResultFresh
<1>7. ASSUME NEW q \in Callers, ~At(q, "User"), Answered(q) PROVE Answered(q)'
  <2>1. PICK s \in Req : /\ task[s].st = "OK" /\ task[s].chan = Chan(q)
                         /\ s = Id(q) \/ task[Id(q)].at = "End"
    BY <1>7 DEF Answered
  <2>2. task'[s].st = "OK" /\ task'[s].chan = Chan(q)
    BY <2>1
  <2>3. Id(q) \in Req
    BY <1>7, IdsInRange
  <2>4. task[Id(q)].at = "End" => task'[Id(q)].at = "End"
    BY <2>3
  <2> QED
    BY <2>1, <2>2, <2>4 DEF Answered
<1>8. SuccessOwned'
  <2> SUFFICES ASSUME NEW q \in Callers,
                      \/ req[q].at \in {"Store", "Wait"} /\ result'[Chan(q)] = "OK"
                      \/ At(q, "ReadTid")
               PROVE  Answered(q)'
    BY DEF SuccessOwned
  <2>1. CASE At(q, "ReadTid") \/ result[Chan(q)] = "OK"
    BY <2>1, <1>7 DEF SuccessOwned
  <2>2. CASE ~At(q, "ReadTid") /\ result[Chan(q)] # "OK"
    <3>1. Chan(q) = c /\ task'[r].st = "OK"
      BY <2>2, <1>0
    <3>2. task[Id(q)].at # "none" /\ task[Id(q)].chan = c /\ Id(q) \in Req
      BY <3>1, <2>2, IdsInRange DEF ResultFresh
    <3>3. Id(q) = r \/ task[Id(q)].at = "End"
      <4>1. task[Id(q)].at \in TaskAt
        BY <3>2 DEF IInv, TypeOK, TaskRec, TaskAt
      <4> QED
        BY <4>1, <3>2, <1>4 DEF TaskAt, Starting
    <3>4. Id(q) # r => task'[Id(q)].at = "End"
      BY <3>2, <3>3
    <3> QED
      BY <3>1, <3>4 DEF Answered
  <2> QED
    BY <2>1, <2>2
<1>9. NoStaleSuccess'
  BY <1>7 DEF NoStaleSuccess
<1> QED
  BY <1>5, <1>6, <1>8, <1>9

(* thread_create: the task of p appears, with no result yet. *)
LEMMA CreateAnswer ==
  ASSUME IInv, AnswerInv, NEW p \in Callers, Create(p)
  PROVE  AnswerInv'
<1> DEFINE r == Id(p)
           c == Chan(p)
<1>a. r \in Req /\ TypeOK
  BY IdsInRange DEF Create, At, IInv
<1>b. c \in Channels
  BY <1>a DEF TypeOK, CallRec, Chan
<1>c. Becomes(p, "Store", c, r)
  BY <1>a, CallerMoves DEF CallerAt, Create
<1>d. TaskBecomes(r, "Start", c, None)
  BY <1>a, <1>b, TaskBegins DEF Create
<1> USE DEF AnswerInv, Becomes, TaskBecomes, At, Chan, Id, Create
<1>0. /\ \A q \in Callers : Chan(q) \in Channels
      /\ \A s \in Req : task[s].chan \in Channels
      /\ TypeOK /\ r \in Req
  BY IdsInRange DEF IInv, TypeOK, CallRec, TaskRec
<1>1. Becomes(p, "Store", c, r) /\ TaskBecomes(r, "Start", c, None)
  BY <1>c, <1>d
<1>2. task[r].at = "none" /\ task[r].st # "OK" /\ task'[r].st = "PENDING"
  BY <1>0 DEF IInv, OwnNumber, ResultFresh, NoTask, TypeOK
<1>3. Preparing(p, c) /\ busy[c] /\ result[c] = "PENDING"
  BY <1>0 DEF Preparing, IInv, BusyHeld, ResultFresh
<1>4. \A s \in Req : task[s].at = "Killed" => task[s].chan # c
  BY <1>3 DEF KilledHolds
<1>5. \A q \in Callers : \A d : Preparing(q, d)' <=> Preparing(q, d) /\ q # p
  BY <1>1 DEF Preparing
<1>6. \A s \in Req : \A d : Starting(s, d)' <=> Starting(s, d) \/ (s = r /\ d = c)
  BY <1>1, <1>2 DEF Starting
<1>7. KilledHolds'
  <2> SUFFICES ASSUME NEW s \in Req, task'[s].at = "Killed"
               PROVE  /\ s # r /\ busy[task[s].chan]
                      /\ \A q \in Callers : ~Preparing(q, task[s].chan)'
                      /\ \A u \in Req : ~Starting(u, task[s].chan)'
    BY <1>1 DEF KilledHolds
  <2>1. s # r /\ task[s].at = "Killed"
    BY <1>1
  <2> QED
    BY <2>1, <1>4, <1>5, <1>6 DEF KilledHolds
<1>8. \A q \in Callers : q # p /\ ~At(q, "User") => Id(q) # r /\ Id(q) \in Req
  BY <1>0, IdsInRange DEF IInv, OwnNumber
<1>9. ResultFresh'
  <2>1. /\ \A q \in Callers : req'[q].at = "Create" => result'[req'[q].chan] = "PENDING"
        /\ \A q \in Callers : req'[q].at = "Reset" => req'[q].chan = "elf"
    BY <1>1 DEF ResultFresh
  <2>2. ASSUME NEW q \in Callers, req'[q].at \in {"Store", "Wait", "ReadTid"}
        PROVE  task'[req'[q].id].at # "none" /\ task'[req'[q].id].chan = req'[q].chan
    <3>1. CASE q = p
      BY <3>1, <1>1
    <3>2. CASE q # p
      BY <2>2, <3>2, <1>1, <1>8 DEF ResultFresh
    <3> QED
      BY <3>1, <3>2
  <2>3. \A s \in Req : task'[s].st = "OK" => task'[s].at \in {"Clear", "End", "Killed"}
    BY <1>1, <1>2 DEF ResultFresh
  <2> QED
    BY <2>1, <2>2, <2>3 DEF ResultFresh
<1>10. ASSUME NEW q \in Callers, q # p, ~At(q, "User"), Answered(q) PROVE Answered(q)'
  <2>1. PICK s \in Req : /\ task[s].st = "OK" /\ task[s].chan = Chan(q)
                         /\ s = Id(q) \/ task[Id(q)].at = "End"
    BY <1>10 DEF Answered
  <2>2. s # r /\ task'[s] = task[s] /\ task'[Id(q)] = task[Id(q)] /\ req'[q] = req[q]
    BY <2>1, <1>1, <1>2, <1>8, <1>10
  <2> QED
    BY <2>1, <2>2 DEF Answered
<1>11. SuccessOwned'
  <2> SUFFICES ASSUME NEW q \in Callers,
                      \/ req'[q].at \in {"Store", "Wait"} /\ result[req'[q].chan] = "OK"
                      \/ req'[q].at = "ReadTid"
               PROVE  Answered(q)'
    BY DEF SuccessOwned
  <2>1. q # p /\ req'[q] = req[q]
    BY <1>1, <1>3
  <2> QED
    BY <2>1, <1>10 DEF SuccessOwned
<1>12. NoStaleSuccess'
  BY <1>1, <1>10 DEF NoStaleSuccess
<1> QED
  BY <1>7, <1>9, <1>11, <1>12

(* Every step of a call keeps the answers right. *)
LEMMA CallerStepAnswer ==
  ASSUME IInv, AnswerInv, NEW p \in Callers, CallerStep(p)
  PROVE  AnswerInv'
<1>0. /\ TypeOK /\ Chan(p) \in Channels /\ busy \in [Channels -> BOOLEAN]
      /\ result \in [Channels -> Results] /\ req[p] \in CallRec
  BY DEF IInv, TypeOK, CallRec, Chan
<1>e. At(p, "Reset") => Chan(p) = "elf"
  BY DEF AnswerInv, ResultFresh
<1>1. \A l \in {"Reset", "Prepare", "Create", "Drop"} : At(p, l) => Preparing(p, Chan(p))
  BY DEF At, Preparing
<1>2. \A text : Finish(p, text) => req'[p].text = text
  BY <1>0 DEF Finish, TypeOK, CallRec
<1>3. CASE Refused(p)
  <2>1. Becomes(p, "Done", Chan(p), Id(p)) /\ req'[p].text = "already running"
    BY <1>0, <1>2, <1>3, CallerFinishes DEF Refused, Texts
  <2> QED
    BY <1>3, <2>1, CallerAnswer DEF Refused, CallerAt, Holding
<1>4. CASE TakeBusy(p)
  <2>1. \E l \in {"Reset", "Prepare"} : Becomes(p, l, Chan(p), Id(p)) /\ (l = "Reset" => Chan(p) = "elf")
    BY <1>0, <1>4, CallerMoves DEF TakeBusy, First, CallerAt
  <2>2. \A d \in Channels : busy[d] => busy'[d]
    BY <1>0, <1>4 DEF TakeBusy
  <2> QED
    BY <1>4, <2>1, <2>2, CallerAnswer DEF TakeBusy, First, CallerAt
<1>5. CASE ResetResult(p)
  <2>1. Becomes(p, "Prepare", Chan(p), Id(p))
    BY <1>0, <1>5, CallerMoves DEF ResetResult, CallerAt
  <2>2. Chan(p) = "elf"
    BY <1>e, <1>5 DEF ResetResult
  <2>3. \A d \in Channels : result'[d] = result[d] \/ (Preparing(p, d) /\ result'[d] # "OK")
    BY <1>0, <1>1, <1>5, <2>2 DEF ResetResult
  <2> QED
    BY <1>5, <2>1, <2>3, CallerAnswer DEF ResetResult, CallerAt, Holding, At
<1>6. CASE PrepareFails(p)
  <2>1. Becomes(p, "Drop", Chan(p), Id(p))
    BY <1>0, <1>6, CallerMoves DEF PrepareFails, CallerAt
  <2>2. \A d \in Channels : result'[d] = result[d] \/ (Preparing(p, d) /\ result'[d] # "OK")
    BY <1>0, <1>1, <1>6 DEF PrepareFails
  <2> QED
    BY <1>6, <2>1, <2>2, CallerAnswer DEF PrepareFails, CallerAt, Holding, At
<1>7. CASE Drop(p)
  <2>1. Becomes(p, "Done", Chan(p), Id(p)) /\ req'[p].text = "failed"
    BY <1>0, <1>2, <1>7, CallerFinishes DEF Drop, Texts
  <2>2. \A d \in Channels : busy[d] => busy'[d] \/ Preparing(p, d)
    BY <1>0, <1>1, <1>7 DEF Drop
  <2> QED
    BY <1>7, <2>1, <2>2, CallerAnswer DEF Drop, CallerAt, Holding
<1>8. CASE PrepareMarker(p)
  <2> DEFINE x == [req[p] EXCEPT !.at = "Enter", !.chan = "mod"]
  <2>1. x \in CallRec /\ x.at = "Enter" /\ x.chan = "mod" /\ x.id = Id(p)
    BY <1>0 DEF CallRec, Id, Channels
  <2>2. Becomes(p, "Enter", "mod", Id(p))
    BY <1>0, <1>8, <2>1 DEF PrepareMarker, Becomes, TypeOK
  <2>3. \A d \in Channels : busy[d] => busy'[d] \/ Preparing(p, d)
    BY <1>0, <1>1, <1>8 DEF PrepareMarker
  <2> QED
    BY <1>8, <2>2, <2>3, CallerAnswer DEF PrepareMarker, CallerAt, Holding
<1>9. CASE Prepare(p)
  <2>1. Becomes(p, "Create", Chan(p), Id(p))
    BY <1>0, <1>9, CallerMoves DEF Prepare, CallerAt
  <2>2. /\ \A d \in Channels : result'[d] = result[d] \/ (Preparing(p, d) /\ result'[d] # "OK")
        /\ result'[Chan(p)] = "PENDING"
    BY <1>0, <1>1, <1>9 DEF Prepare
  <2> QED
    BY <1>9, <2>1, <2>2, CallerAnswer DEF Prepare, CallerAt, Holding, At
<1>10. CASE Create(p)
  BY <1>10, CreateAnswer
<1>11. CASE CreateFails(p)
  <2>1. Becomes(p, "Drop", Chan(p), Id(p))
    BY <1>0, <1>11, CallerMoves DEF CreateFails, CallerAt
  <2>2. \A d \in Channels : result'[d] = result[d] \/ (Preparing(p, d) /\ result'[d] # "OK")
    BY <1>0, <1>1, <1>11 DEF CreateFails
  <2> QED
    BY <1>11, <2>1, <2>2, CallerAnswer DEF CreateFails, CallerAt, Holding, At
<1>12. CASE StoreTid(p)
  <2>1. Becomes(p, "Wait", Chan(p), Id(p))
    BY <1>0, <1>12, CallerMoves DEF StoreTid, CallerAt
  <2> QED
    BY <1>12, <2>1, CallerAnswer DEF StoreTid, CallerAt, Holding, At
<1>13. CASE Poll(p)
  <2>1. CASE result[Chan(p)] = "OK"
    <3>1. Becomes(p, "ReadTid", Chan(p), Id(p))
      BY <1>0, <1>13, <2>1, CallerMoves DEF Poll, CallerAt
    <3> QED
      BY <1>13, <2>1, <3>1, CallerAnswer DEF Poll, CallerAt, Holding, At
  <2>2. CASE result[Chan(p)] # "OK"
    <3>1. result[Chan(p)] \in Texts
      BY <1>0, <1>13, <2>2 DEF Poll, Results, Texts
    <3>2. Becomes(p, "Done", Chan(p), Id(p)) /\ req'[p].text # "OK"
      BY <1>0, <1>2, <1>13, <2>2, <3>1, CallerFinishes DEF Poll
    <3> QED
      BY <1>13, <3>2, CallerAnswer DEF Poll, CallerAt, Holding
  <2> QED
    BY <2>1, <2>2
<1>14. CASE Timeout(p)
  <2>1. Becomes(p, "Done", Chan(p), Id(p)) /\ req'[p].text = "TIMEOUT"
    BY <1>0, <1>2, <1>14, CallerFinishes DEF Timeout, Texts
  <2> QED
    BY <1>14, <2>1, CallerAnswer DEF Timeout, CallerAt, Holding
<1>15. CASE ReadTid(p)
  <2> DEFINE x == [req[p] EXCEPT !.at = "Done", !.text = "OK", !.tid = last_tid[Chan(p)]]
  <2>1. x \in CallRec /\ x.at = "Done" /\ x.chan = Chan(p) /\ x.id = Id(p)
    <3>1. last_tid[Chan(p)] \in Req \cup {None}
      BY <1>0 DEF TypeOK
    <3> QED
      BY <1>0, <3>1 DEF CallRec, Id, Chan, Texts
  <2>2. Becomes(p, "Done", Chan(p), Id(p))
    BY <1>0, <1>15, <2>1 DEF ReadTid, Becomes, TypeOK
  <2> QED
    BY <1>15, <2>2, CallerAnswer DEF ReadTid, CallerAt, Holding
<1> QED
  BY <1>3, <1>4, <1>5, <1>6, <1>7, <1>8, <1>9, <1>10, <1>11, <1>12, <1>13, <1>14, <1>15
     DEF CallerStep

(* A call begins, or is over. *)
LEMMA EdgeAnswer ==
  ASSUME IInv, AnswerInv, NEW p \in Callers, Back(p) \/ \E c \in Channels : Call(p, c)
  PROVE  AnswerInv'
<1>0. TypeOK /\ count \in Nat /\ count <= MaxRequests
  BY IdsInRange DEF IInv
<1>1. CASE Back(p)
  <2>1. NoCall \in CallRec /\ NoCall.at = "User" /\ NoCall.chan = "mod" /\ NoCall.id = None
    BY DEF NoCall, CallRec, Channels, Texts
  <2>2. Becomes(p, "User", "mod", None)
    BY <1>0, <1>1, <2>1 DEF Back, Becomes, TypeOK
  <2> QED
    BY <1>1, <2>2, CallerAnswer DEF Back, CallerAt, Holding
<1>2. ASSUME NEW c \in Channels, Call(p, c) PROVE AnswerInv'
  <2> DEFINE x == [NoCall EXCEPT !.at = "Enter", !.chan = c, !.id = count + 1]
  <2>1. count + 1 \in Req
    <3>1. count < MaxRequests
      BY <1>2 DEF Call
    <3>2. MaxRequests \in Nat
      BY RequestAssumption
    <3> QED
      BY <1>0, <3>1, <3>2 DEF Req
  <2>2. x \in CallRec /\ x.at = "Enter" /\ x.chan = c /\ x.id = count + 1
    BY <2>1 DEF NoCall, CallRec, Channels, Texts
  <2>3. Becomes(p, "Enter", c, count + 1)
    BY <1>0, <1>2, <2>2 DEF Call, Becomes, TypeOK
  <2> QED
    BY <1>2, <2>3, CallerAnswer DEF Call, CallerAt, Holding
<1> QED
  BY <1>1, <1>2

(* Every step of a task keeps the answers right. *)
LEMMA TaskStepAnswer ==
  ASSUME IInv, AnswerInv, NEW r \in Req, TaskStep(r) \/ TaskKilled(r)
  PROVE  AnswerInv'
<1>0. /\ TypeOK /\ task[r].chan \in Channels /\ busy \in [Channels -> BOOLEAN]
      /\ result \in [Channels -> Results] /\ task[r] \in TaskRec
      /\ task[r].st = "OK" => task[r].at \in {"Clear", "End", "Killed"}
  BY DEF IInv, TypeOK, TaskRec, AnswerInv, ResultFresh
<1>1. \A l \in TaskAt : task' = [task EXCEPT ![r].at = l] => task'[r].st = task[r].st
  BY <1>0 DEF TypeOK, TaskRec
<1>2. \A l \in TaskAt : \A e \in Results :
        task' = [task EXCEPT ![r].at = l, ![r].st = e] => task'[r].st = e
  BY <1>0 DEF TypeOK, TaskRec
<1>3. CASE TaskStart(r)
  <2> DEFINE x == [task[r] EXCEPT !.at = "Load", !.img = image[task[r].chan]]
  <2>1. x \in TaskRec /\ x.at = "Load" /\ x.chan = task[r].chan /\ x.img = image[task[r].chan] /\ x.st = task[r].st
    <3>1. image[task[r].chan] \in Req \cup {None}
      BY <1>0 DEF TypeOK
    <3> QED
      BY <1>0, <3>1 DEF TaskRec
  <2>2. TaskBecomes(r, "Load", task[r].chan, image[task[r].chan]) /\ task'[r].st = task[r].st
    BY <1>0, <1>3, <2>1 DEF TaskStart, TaskBecomes, TypeOK
  <2> QED
    BY <1>0, <1>3, <2>2, TaskAnswer DEF TaskStart, TaskAt, Running
<1>4. CASE TaskFails(r)
  <2>1. PICK e \in Errors : /\ result' = [result EXCEPT ![task[r].chan] = e]
                            /\ task' = [task EXCEPT ![r].at = "Free", ![r].st = e]
    BY <1>4 DEF TaskFails, Errors
  <2>2. TaskBecomes(r, "Free", task[r].chan, task[r].img) /\ task'[r].st = e /\ e # "OK"
    BY <1>0, <1>2, <2>1, TaskMovesTo DEF TaskAt, Results, Errors
  <2>3. /\ \A d \in Channels : d # task[r].chan => result'[d] = result[d]
        /\ result'[task[r].chan] = e
    BY <1>0, <2>1
  <2> QED
    BY <1>0, <1>4, <2>2, <2>3, TaskAnswer DEF TaskFails, TaskAt, Running
<1>5. CASE TaskFrees(r)
  <2>1. TaskBecomes(r, "Clear", task[r].chan, task[r].img) /\ task'[r].st = task[r].st
    BY <1>0, <1>1, <1>5, TaskMoves DEF TaskFrees, TaskAt
  <2> QED
    BY <1>0, <1>5, <2>1, TaskAnswer DEF TaskFrees, TaskAt, Running
<1>6. CASE TaskLoaded(r)
  <2>1. TaskBecomes(r, "Report", task[r].chan, task[r].img) /\ task'[r].st = task[r].st
    BY <1>0, <1>1, <1>6, TaskMoves DEF TaskLoaded, TaskAt
  <2> QED
    BY <1>0, <1>6, <2>1, TaskAnswer DEF TaskLoaded, TaskAt, Running
<1>7. CASE TaskReports(r)
  <2>1. TaskBecomes(r, "Clear", task[r].chan, task[r].img) /\ task'[r].st = "OK"
    BY <1>0, <1>2, <1>7, TaskMovesTo DEF TaskReports, TaskAt, Results
  <2>2. \A d \in Channels : d # task[r].chan => result'[d] = result[d]
    BY <1>0, <1>7 DEF TaskReports
  <2> QED
    BY <1>7, <2>1, <2>2, TaskAnswer DEF TaskReports, TaskAt, Running
<1>8. CASE TaskClears(r)
  <2>1. TaskBecomes(r, "End", task[r].chan, task[r].img) /\ task'[r].st = task[r].st
    BY <1>0, <1>1, <1>8, TaskMoves DEF TaskClears, TaskAt
  <2> QED
    BY <1>8, <2>1, TaskAnswer DEF TaskClears, TaskAt, Running
<1>9. CASE TaskKilled(r)
  <2>1. TaskBecomes(r, "Killed", task[r].chan, task[r].img) /\ task'[r].st = task[r].st
    BY <1>0, <1>1, <1>9, TaskMoves DEF TaskKilled, TaskAt
  <2> QED
    BY <1>9, <2>1, TaskAnswer DEF TaskKilled, TaskAt
<1> QED
  BY <1>3, <1>4, <1>5, <1>6, <1>7, <1>8, <1>9 DEF TaskStep

(* A caller is told OK for its own task, or for a later one once its own    *)
(* has failed and cleared the busy flag: the result word left by an earlier *)
(* request is never taken for an answer, whatever times out or is killed.   *)
THEOREM SpecNoStaleSuccess == Spec => []NoStaleSuccess
<1>1. Init => AnswerInv
  BY DEF Init, AnswerInv, KilledHolds, ResultFresh, SuccessOwned, NoStaleSuccess, NoCall, NoTask, At
<1>2. IInv /\ AnswerInv /\ [Next]_vars => AnswerInv'
  <2> SUFFICES ASSUME IInv, AnswerInv, [Next]_vars PROVE AnswerInv'
    OBVIOUS
  <2>1. CASE UNCHANGED vars
    BY <2>1 DEF vars, AnswerInv, KilledHolds, ResultFresh, SuccessOwned, NoStaleSuccess, Answered,
       Preparing, Starting, At, Chan, Id
  <2>2. CASE \E p \in Callers : CallerStep(p) \/ Back(p) \/ \E c \in Channels : Call(p, c)
    BY <2>2, CallerStepAnswer, EdgeAnswer
  <2>3. CASE \E r \in Req : TaskStep(r) \/ TaskKilled(r)
    BY <2>3, TaskStepAnswer
  <2> QED
    BY <2>1, <2>2, <2>3 DEF Next
<1>3. AnswerInv => NoStaleSuccess
  BY DEF AnswerInv
<1> QED
  BY <1>1, <1>2, <1>3, SpecIInv, PTL DEF Spec
=============================================================================
