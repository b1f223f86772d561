------------------------- MODULE ConsoleInputProofs -------------------------
(***************************************************************************)
(* Proofs about ConsoleInput, for any number of threads.                   *)
(***************************************************************************)
EXTENDS ConsoleInput, TLAPS

(* Every initial state satisfies the inductive invariant. *)
LEMMA InitIInv == Init => IInv
<1> SUFFICES ASSUME Init PROVE IInv
  OBVIOUS
<1> USE DEF Init, Tid, NoOwner, InUser
<1>0. 0 \in Tid
  BY ThreadsAssumption
<1>1. InUser \in [at : Labels, job : Jobs \cup {"none"}, arg : Owner]
  BY DEF Labels, Owner
<1>2. TypeOK
  BY <1>0, <1>1 DEF TypeOK, Owner
<1>3. EvictsDead /\ KnownIds
  BY <1>0 DEF EvictsDead, KnownIds
<1> QED
  BY <1>2, <1>3 DEF IInv

(* What a step that only moves thread t to another control point must do to *)
(* keep the invariant.                                                      *)
LEMMA CallMoves ==
  ASSUME IInv, NEW t \in Tid,
         NEW r \in [at : Labels, job : Jobs \cup {"none"}, arg : Owner],
         call' = [call EXCEPT ![t] = r], UNCHANGED status,
         owner' \in Owner,
         owner' # NoOwner => status[owner'] # "none",
         r.at \in {"Alive", "Evict", "Force"} => r.arg # NoOwner,
         r.arg # NoOwner => status[r.arg] # "none",
         r.at = "Evict" => status[r.arg] \in {"dying", "gone"}
  PROVE  IInv'
<1>1. TypeOK'
  BY DEF IInv, TypeOK
<1>2. EvictsDead'
  BY DEF IInv, TypeOK, EvictsDead, Owner
<1>3. KnownIds'
  BY DEF IInv, TypeOK, KnownIds
<1> QED
  BY <1>1, <1>2, <1>3 DEF IInv

(* Every step preserves the inductive invariant: one step per action. *)
LEMMA NextIInv == IInv /\ [Next]_vars => IInv'
<1> SUFFICES ASSUME IInv, [Next]_vars PROVE IInv'
  OBVIOUS
<1> USE DEF IInv, TypeOK, EvictsDead, KnownIds, Owner, NoOwner, Labels, Jobs, InUser, Tid
<1>1. ASSUME NEW t \in Tid, NEW j \in Jobs, Enter(t, j) PROVE IInv'
  BY <1>1 DEF Enter, At
<1>2. ASSUME NEW t \in Tid, LoadOwner(t) PROVE IInv'
  <2> DEFINE c == call[t]
  <2>1. CASE Return(t)
    BY <1>2, <2>1, CallMoves DEF Return, LoadOwner
  <2>2. CASE Goto(t, "Read") \/ Goto(t, "Take")
    <3>1. PICK l \in {"Read", "Take"} : call' = [call EXCEPT ![t] = [c EXCEPT !.at = l]]
      BY <2>2 DEF Goto
    <3> QED
      BY <1>2, <3>1, CallMoves DEF LoadOwner
  <2>3. CASE owner # NoOwner /\ call' = [call EXCEPT ![t].at = "Alive", ![t].arg = owner]
    <3>1. call' = [call EXCEPT ![t] = [c EXCEPT !.at = "Alive", !.arg = owner]]
      BY <2>3
    <3> QED
      BY <1>2, <2>3, <3>1, CallMoves DEF LoadOwner
  <2> QED
    BY <1>2, <2>1, <2>2, <2>3 DEF LoadOwner, Granted, QueryDone
<1>3. ASSUME NEW t \in Tid, TestOwner(t) PROVE IInv'
  <2>1. CASE Return(t)
    BY <1>3, <2>1, CallMoves DEF Return, TestOwner
  <2>2. CASE Goto(t, "Take")
    BY <1>3, <2>2, CallMoves DEF Goto, TestOwner
  <2>3. CASE ~OwnerIsAlive(call[t].arg) /\ Goto(t, "Evict")
    <3>1. status[call[t].arg] \in {"dying", "gone"}
      BY <1>3, <2>3 DEF TestOwner, At, OwnerIsAlive
    <3> QED
      BY <1>3, <2>3, <3>1, CallMoves DEF Goto, TestOwner, At
  <2> QED
    BY <1>3, <2>1, <2>2, <2>3 DEF TestOwner, QueryDone
<1>4. ASSUME NEW t \in Tid, Evict(t) PROVE IInv'
  <2>1. owner' \in {owner, NoOwner}
    BY <1>4 DEF Evict, CompareExchange
  <2>2. CASE Return(t)
    BY <1>4, <2>1, <2>2, CallMoves DEF Return, Evict
  <2>3. CASE Goto(t, "Take")
    BY <1>4, <2>1, <2>3, CallMoves DEF Goto, Evict
  <2> QED
    BY <1>4, <2>2, <2>3 DEF Evict, QueryDone
<1>5. ASSUME NEW t \in Tid, Take(t) PROVE IInv'
  <2>1. owner' \in {owner, t} /\ status[t] # "none"
    BY <1>5 DEF Take, CompareExchange, At
  <2>2. CASE Return(t)
    BY <1>5, <2>1, <2>2, CallMoves DEF Return, Take
  <2>3. CASE Goto(t, "Read")
    BY <1>5, <2>1, <2>3, CallMoves DEF Goto, Take
  <2> QED
    BY <1>5, <2>2, <2>3 DEF Take, Granted
<1>6. ASSUME NEW t \in Tid, ReadChar(t) PROVE IInv'
  BY <1>6 DEF ReadChar, At, Return
<1>7. ASSUME NEW t \in Tid, Launch(t) PROVE IInv'
  BY <1>7 DEF Launch, At
<1>8. ASSUME NEW t \in Tid, LaunchFails(t) PROVE IInv'
  BY <1>8 DEF LaunchFails, At, Return
<1>9. ASSUME NEW t \in Tid, ForceOwner(t) PROVE IInv'
  BY <1>9 DEF ForceOwner, At, Return
<1>10. ASSUME NEW t \in Tid, ExitEnds(t) PROVE IInv'
  BY <1>10 DEF ExitEnds, At, Return
<1>11. ASSUME NEW t \in Tid, Release(t) PROVE IInv'
  BY <1>11 DEF Release, At, CompareExchange
<1>12. ASSUME NEW t \in Tid, ForceClaim(t) PROVE IInv'
  BY <1>12 DEF ForceClaim, At
<1>13. ASSUME NEW t \in Tid, TaskAdd(t) PROVE IInv'
  BY <1>13 DEF TaskAdd, At, CompareExchange, Goto
<1>14. ASSUME NEW t \in Tid, ExitReleases(t) PROVE IInv'
  BY <1>14 DEF ExitReleases, At, CompareExchange, Goto
<1>15. ASSUME NEW t \in Tid, NEW u \in Tid, TaskKill(t, u) PROVE IInv'
  BY <1>15 DEF TaskKill, At, Return
<1>16. ASSUME NEW t \in Tid, SwitchedOut(t) PROVE IInv'
  BY <1>16 DEF SwitchedOut, Return
<1>17. ASSUME UNCHANGED vars PROVE IInv'
  BY <1>17 DEF vars
<1>18. ASSUME NEW t \in Tid, EnterUser(t) PROVE IInv'
  BY <1>18 DEF EnterUser, At, Return
<1>19. ASSUME NEW t \in Tid, ImageFails(t) PROVE IInv'
  BY <1>19 DEF ImageFails, At, Return
<1>20. ASSUME NEW t \in Tid, Proceed(t) PROVE IInv'
  BY <1>20, <1>18, <1>19, <1>2, <1>3, <1>4, <1>5, <1>6, <1>7, <1>8, <1>9, <1>10, Zenon DEF Proceed
<1>21. ASSUME NEW t \in Tid, Step(t) PROVE IInv'
  BY <1>21, <1>1, <1>11, <1>12, <1>13, <1>14, <1>15, <1>16, <1>20, Zenon DEF Step
<1> QED
  BY <1>17, <1>21, Zenon DEF Next

(* The inductive invariant holds in every reachable state. *)
THEOREM SpecIInv == Spec => []IInv
  BY InitIInv, NextIInv, PTL DEF Spec

(* Type correctness of the console input model. *)
THEOREM SpecTypeOK == Spec => []TypeOK
<1>1. IInv => TypeOK
  BY DEF IInv
<1> QED
  BY <1>1, SpecIInv, PTL

(* The owner a thread is about to evict is dead when it is evicted, however *)
(* long ago owner_is_alive said so.                                         *)
THEOREM SpecEvictsDead == Spec => []EvictsDead
<1>1. IInv => EvictsDead
  BY DEF IInv
<1> QED
  BY <1>1, SpecIInv, PTL

(* A step that takes the console from a live owner is a forced claim or the *)
(* owner's own doing.                                                       *)
LEMMA StepKeepsOwner ==
  IInv /\ [Next]_vars => [(OwnerIsAlive(owner) /\ owner' # owner) => HandsOver]_vars
<1> SUFFICES ASSUME IInv, [Next]_vars, OwnerIsAlive(owner), owner' # owner
             PROVE  HandsOver
  BY Zenon
<1>1. ASSUME NEW t \in Tid, Evict(t) PROVE FALSE
  BY <1>1 DEF Evict, CompareExchange, At, IInv, EvictsDead, OwnerIsAlive
<1>2. ASSUME NEW t \in Tid, Take(t) PROVE FALSE
  BY <1>2 DEF Take, CompareExchange, OwnerIsAlive, Tid, NoOwner
<1>3. ASSUME NEW t \in Tid, ForceOwner(t) PROVE HandsOver
  BY <1>3, Zenon DEF HandsOver
<1>4. ASSUME NEW t \in Tid, ForceClaim(t) PROVE HandsOver
  BY <1>4, Zenon DEF HandsOver
<1>5. ASSUME NEW t \in Tid, Release(t) \/ TaskAdd(t) \/ ExitReleases(t) PROVE HandsOver
  <2>1. t = owner
    BY <1>5 DEF Release, TaskAdd, ExitReleases, CompareExchange
  <2> QED
    BY <1>5, <2>1, Zenon DEF HandsOver
<1>6. ASSUME NEW t \in Tid, Proceed(t) PROVE HandsOver
  BY <1>1, <1>2, <1>3, <1>6
     DEF Proceed, LoadOwner, TestOwner, ReadChar, Launch, LaunchFails, ExitEnds,
         EnterUser, ImageFails
<1>7. ASSUME NEW t \in Tid, Step(t) PROVE HandsOver
  BY <1>4, <1>5, <1>6, <1>7 DEF Step, Enter, TaskKill, SwitchedOut
<1> QED
  BY <1>7 DEF Next, vars

(* A live owner never loses the console to another thread's claim, query or *)
(* exit (console_input_claim_or_is_current, console_input_is_free).         *)
THEOREM SpecLiveOwnerKept == Spec => LiveOwnerKept
  BY SpecIInv, StepKeepsOwner, PTL DEF Spec, LiveOwnerKept
=============================================================================
