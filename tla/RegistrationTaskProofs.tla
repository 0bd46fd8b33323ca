------------------------- MODULE RegistrationTaskProofs -------------------------
(***************************************************************************)
(* Proofs about RegistrationTask, for every number of workers and request  *)
(* threads, every target and every hazard.  The three safety properties    *)
(* depend on each other, so they are proved together, with the place of    *)
(* sleeping workers and the phases of the start lock, as one inductive     *)
(* invariant.                                                              *)
(***************************************************************************)
EXTENDS RegistrationTask, FiniteSetTheorems, TLAPS

\* A worker that sleeps on the pause event sits at one of the three gates.
SleepersAtGates == \A w \in asleep : pc[w] \in DOMAIN PastGate

\* The start lock is held as long as a request is parsed or an engine is at
\* work, never by both, and workers live only while the engine runs.
LockPhases ==
  /\ parsing => locked /\ engine \in {"absent", "over"}
  /\ engine \in {"created", "running", "ending"} => locked
  /\ engine # "running" => \A w \in Workers : pc[w] \in Left

IInv ==
  /\ TypeOK
  /\ SleepersAtGates
  /\ LockPhases
  /\ SlotsAreHeld
  /\ CapacityRespected

----------------------------------------------------------------------------

\* Cardinalities of slots: adding one worker adds at most one, and taking one
\* away takes exactly one.
LEMMA SlotCounts ==
  ASSUME NEW S \in SUBSET Workers, NEW w \in Workers
  PROVE  /\ IsFiniteSet(S) /\ Cardinality(S) \in Nat
         /\ Cardinality(S \cup {w}) \in Nat /\ Cardinality(S \ {w}) \in Nat
         /\ Cardinality(S \cup {w}) = IF w \in S THEN Cardinality(S) ELSE Cardinality(S) + 1
         /\ Cardinality(S \ {w}) = IF w \in S THEN Cardinality(S) - 1 ELSE Cardinality(S)
<1>1. IsFiniteSet(S)
  BY FS_Subset, ConstantsAssumption
<1>2. IsFiniteSet(S \cup {w}) /\ IsFiniteSet(S \ {w})
  BY <1>1, FS_AddElement, FS_RemoveElement
<1> QED
  BY <1>1, <1>2, FS_CardinalityType, FS_AddElement, FS_RemoveElement

\* Waking the sleepers keeps every worker at a place, and none of them gains,
\* loses or leaves a slot or its thread by it.
LEMMA WokenPlaces ==
  ASSUME TypeOK, SleepersAtGates
  PROVE  /\ Woken \in [Workers -> Places]
         /\ \A w \in Workers : \/ Woken[w] = pc[w]
                               \/ pc[w] \in {"gate", "waitGate"} /\ Woken[w] \in {"recheck", "waitRecheck"}
                               \/ pc[w] = "roundGate" /\ Woken[w] = "signup"
<1>1. \A w \in Workers : w \in asleep => \/ pc[w] = "gate" /\ Woken[w] = "recheck"
                                         \/ pc[w] = "roundGate" /\ Woken[w] = "signup"
                                         \/ pc[w] = "waitGate" /\ Woken[w] = "waitRecheck"
  BY DEF SleepersAtGates, Woken, PastGate
<1>2. \A w \in Workers : w \notin asleep => Woken[w] = pc[w]
  BY DEF Woken
<1>3. \A w \in Workers : Woken[w] \in Places
  BY <1>1, <1>2 DEF TypeOK, Places, Working
<1>4. Woken = [w \in Workers |-> Woken[w]]
  BY DEF Woken
<1> QED
  BY <1>1, <1>2, <1>3, <1>4

----------------------------------------------------------------------------

\* A process that has just started, before any task, satisfies the invariant.
THEOREM InitIInv == Init => IInv
<1> SUFFICES ASSUME Init PROVE IInv
  OBVIOUS
<1>1. TypeOK
  BY DEF Init, TypeOK, EnginePhases, Statuses, Requests, Places, Left
<1>2. SleepersAtGates /\ LockPhases /\ SlotsAreHeld
  BY DEF Init, SleepersAtGates, LockPhases, SlotsAreHeld, Left, Acquiring, Working
<1>3. CapacityRespected
  BY DEF Init, CapacityRespected
<1> QED
  BY <1>1, <1>2, <1>3 DEF IInv

----------------------------------------------------------------------------
(* Requests and the engine *)

Closing == {"halt", "unblock", "clear"}

\* What a step has to keep for the slots to stay where they are held.
SamePlaces ==
  \A w \in Workers :
    /\ pc'[w] \in Acquiring <=> pc[w] \in Acquiring
    /\ pc'[w] \in Working => pc[w] \in Working
    /\ pc[w] \in Working \cup Closing => pc'[w] \in Working \cup Closing

\* A step that moves no worker into or out of the places of a slot, and no slot
\* either, keeps both invariants about slots.
LEMMA SlotsStay ==
  ASSUME SlotsAreHeld, CapacityRespected, SamePlaces, UNCHANGED <<slots, target>>
  PROVE SlotsAreHeld' /\ CapacityRespected'
  BY DEF SlotsAreHeld, CapacityRespected, SamePlaces, Closing, slots

\* A step of the start request or the engine keeps the invariant: a new state
\* object starts with empty slots, and only when every worker has left.
LEMMA EngineKeeps ==
  ASSUME IInv,
         \/ StartRequest \/ RejectRequest \/ RequestRaises \/ EngineStep
         \/ \E n \in Targets : NewTask(n)
  PROVE IInv'
<1> USE DEF IInv
<1>1. CASE StartRequest \/ RejectRequest \/ RequestRaises
  <2>1. TypeOK' /\ SleepersAtGates'
    BY <1>1 DEF StartRequest, RejectRequest, RequestRaises, TypeOK, SleepersAtGates, control, slots
  <2>2. LockPhases'
    BY <1>1 DEF StartRequest, RejectRequest, RequestRaises, LockPhases, TypeOK, EnginePhases
  <2>3. SamePlaces /\ UNCHANGED <<slots, target>>
    BY <1>1 DEF StartRequest, RejectRequest, RequestRaises, SamePlaces
  <2> QED
    BY <2>1, <2>2, <2>3, SlotsStay
<1>2. ASSUME NEW n \in Targets, NewTask(n) PROVE IInv'
  <2>1. \A w \in Workers : pc[w] \in Left
    BY <1>2 DEF NewTask, LockPhases
  <2>2. TypeOK' /\ SleepersAtGates'
    BY <1>2, ConstantsAssumption
    DEF NewTask, TypeOK, SleepersAtGates, EnginePhases, Statuses, Requests
  <2>3. LockPhases'
    BY <1>2, <2>1 DEF NewTask, LockPhases
  <2>4. SlotsAreHeld'
    BY <1>2, <2>1 DEF NewTask, SlotsAreHeld, Left, Acquiring, Working
  <2>5. CapacityRespected'
    <3>1. n \in Nat
      BY ConstantsAssumption
    <3> QED
      BY <1>2, <3>1, FS_EmptySet DEF NewTask, CapacityRespected
  <2> QED
    BY <2>2, <2>3, <2>4, <2>5
<1>3. CASE RunBegins
  <2>1. \A w \in Workers : pc[w] \in Left /\ pc'[w] = "boot"
    BY <1>3 DEF RunBegins, LockPhases
  <2>2. TypeOK'
    BY <1>3 DEF RunBegins, TypeOK, EnginePhases, Statuses, Places, slots
  <2>3. SleepersAtGates'
    BY <1>3, <2>1 DEF RunBegins, SleepersAtGates, TypeOK, Left, PastGate
  <2>4. LockPhases'
    BY <1>3 DEF RunBegins, LockPhases
  <2>5. SamePlaces /\ UNCHANGED <<slots, target>>
    BY <1>3, <2>1 DEF RunBegins, SamePlaces, Left, Acquiring, Working, Closing
  <2> QED
    BY <2>2, <2>3, <2>4, <2>5, SlotsStay
<1>4. CASE RunRaises \/ RunEnds \/ ReleaseLock
  <2>1. TypeOK' /\ SleepersAtGates'
    BY <1>4 DEF RunRaises, RunEnds, ReleaseLock, TypeOK, SleepersAtGates, EnginePhases,
                Statuses, control, slots
  <2>2. LockPhases'
    BY <1>4 DEF RunRaises, RunEnds, ReleaseLock, LockPhases
  <2>3. SamePlaces /\ UNCHANGED <<slots, target>>
    BY <1>4 DEF RunRaises, RunEnds, ReleaseLock, SamePlaces
  <2> QED
    BY <2>1, <2>2, <2>3, SlotsStay
<1> QED
  BY <1>1, <1>2, <1>3, <1>4 DEF EngineStep

\* Pausing, resuming and stopping only move sleeping workers past their gates.
LEMMA CallsKeep ==
  ASSUME IInv, NEW c \in Callers,
         PauseBegin(c) \/ ResumeBegin(c) \/ StopBegin(c) \/ CallEnds(c)
  PROVE IInv'
<1> USE DEF IInv
<1>1. CASE PauseBegin(c) \/ StopBegin(c) \/ PauseEnd(c) \/ ResumeEnd(c)
  <2>1. TypeOK' /\ SleepersAtGates'
    BY <1>1 DEF PauseBegin, StopBegin, PauseEnd, ResumeEnd, TypeOK, SleepersAtGates,
                Statuses, Requests, lockVars, slots
  <2>2. LockPhases' /\ SamePlaces /\ UNCHANGED <<slots, target>>
    BY <1>1 DEF PauseBegin, StopBegin, PauseEnd, ResumeEnd, LockPhases, SamePlaces, lockVars
  <2> QED
    BY <2>1, <2>2, SlotsStay
<1>2. CASE ResumeBegin(c) \/ StopEnd(c)
  <2>1. pc' = Woken /\ asleep' = {} /\ UNCHANGED <<lockVars, slots, target>>
    BY <1>2 DEF ResumeBegin, StopEnd
  <2>2. TypeOK'
    BY <1>2, <2>1, WokenPlaces DEF ResumeBegin, StopEnd, TypeOK, Requests, lockVars, slots
  <2>3. SleepersAtGates'
    BY <2>1 DEF SleepersAtGates
  <2>4. LockPhases'
    BY <2>1, WokenPlaces DEF LockPhases, lockVars, Left
  <2>5. SamePlaces
    BY <2>1, WokenPlaces DEF SamePlaces, Acquiring, Working, Closing
  <2> QED
    BY <2>1, <2>2, <2>3, <2>4, <2>5, SlotsStay
<1> QED
  BY <1>1, <1>2 DEF CallEnds

----------------------------------------------------------------------------
(* Workers *)

Moving(w) ==
  \/ Booted(w) \/ Head(w) \/ Recheck(w) \/ PassGate(w) \/ ClaimAlias(w) \/ ReachGate(w)
  \/ Uncounted(w) \/ Halt(w) \/ Rest(w) \/ WaitHead(w) \/ Tick(w) \/ WaitEnd(w)

\* A worker thread is alive only while its engine runs, so that what one of
\* them does never disturbs the phases of the lock.
LEMMA LivingWorker ==
  ASSUME TypeOK, LockPhases, NEW w \in Workers, pc[w] \notin Left, UNCHANGED lockVars
  PROVE  engine = "running" /\ LockPhases'
  BY DEF LockPhases, lockVars

\* A step that moves a worker within the places that hold its slot, or within
\* those that hold none, keeps the invariant.
LEMMA MovingKeeps ==
  ASSUME IInv, NEW w \in Workers, Moving(w)
  PROVE  IInv'
<1> USE DEF IInv
<1>1. /\ UNCHANGED <<locked, parsing, engine, slots, target, call>>
      /\ pc[w] \in Places \ Left
      /\ resumed' = resumed /\ stopFlag' \in BOOLEAN /\ status' \in Statuses
      /\ w \notin asleep
  <2>1. CASE Booted(w) \/ Head(w) \/ Recheck(w) \/ ClaimAlias(w) \/ ReachGate(w) \/ Uncounted(w)
             \/ Rest(w) \/ WaitHead(w)
    BY <2>1 DEF Booted, Head, Recheck, ClaimAlias, ReachGate, Uncounted, Rest, WaitHead,
                TypeOK, SleepersAtGates, PastGate, Left, lockVars, control, slots
  <2>2. CASE PassGate(w)
    BY <2>2 DEF PassGate, TypeOK, PastGate, Left, lockVars
  <2>3. CASE Halt(w) \/ Tick(w) \/ WaitEnd(w)
    BY <2>3 DEF Halt, Tick, WaitEnd, TypeOK, SleepersAtGates, PastGate, Statuses, Left, lockVars
  <2> QED
    BY <2>1, <2>2, <2>3 DEF Moving
<1>2. /\ pc' = [pc EXCEPT ![w] = pc'[w]]
      /\ \/ asleep' = asleep
         \/ asleep' = asleep \cup {w} /\ pc'[w] \in DOMAIN PastGate
  <2>1. CASE PassGate(w)
    <3>1. CASE resumed
      <4>1. pc' = [pc EXCEPT ![w] = PastGate[pc[w]]] /\ asleep' = asleep
        BY <2>1, <3>1 DEF PassGate, Goto
      <4> QED
        BY <4>1 DEF TypeOK
    <3>2. CASE ~resumed
      BY <2>1, <3>2 DEF PassGate, TypeOK
    <3> QED
      BY <3>1, <3>2
  <2>2. CASE ~PassGate(w)
    <3>1. asleep' = asleep
      BY <2>2 DEF Moving, Booted, Head, Recheck, ClaimAlias, ReachGate, Uncounted, Halt, Rest,
                  WaitHead, Tick, WaitEnd, control
    <3>2. \E place : pc' = [pc EXCEPT ![w] = place]
      BY <2>2 DEF Moving, Booted, Head, Recheck, ClaimAlias, ReachGate, Uncounted, Halt, Rest,
                  WaitHead, Tick, WaitEnd, Goto
    <3> QED
      BY <3>1, <3>2 DEF TypeOK
  <2> QED
    BY <2>1, <2>2
<1>3. /\ pc'[w] \in Places
      /\ pc'[w] \in Acquiring <=> pc[w] \in Acquiring
      /\ pc'[w] \in Working => pc[w] \in Working
      /\ pc[w] \in Working \cup Closing => pc'[w] \in Working \cup Closing
  <2> USE DEF Goto, TypeOK, Places, Left, Acquiring, Working, Closing
  <2>1. CASE Booted(w) \/ Head(w) \/ Recheck(w)
    BY <2>1 DEF Booted, Head, Recheck
  <2>2. CASE PassGate(w)
    BY <2>2 DEF PassGate, PastGate
  <2>3. CASE ClaimAlias(w) \/ ReachGate(w) \/ Uncounted(w)
    BY <2>3 DEF ClaimAlias, ReachGate, Uncounted
  <2>4. CASE Halt(w) \/ Rest(w)
    BY <2>4 DEF Halt, Rest
  <2>5. CASE WaitHead(w)
    BY <2>5 DEF WaitHead
  <2>6. CASE Tick(w) \/ WaitEnd(w)
    BY <2>6 DEF Tick, WaitEnd
  <2> QED
    BY <2>1, <2>2, <2>3, <2>4, <2>5, <2>6 DEF Moving
<1>4. TypeOK'
  <2>1. pc' \in [Workers -> Places]
    BY <1>2, <1>3 DEF TypeOK
  <2> QED
    BY <1>1, <1>2, <2>1 DEF TypeOK, slots
<1>5. \A v \in Workers : v # w => pc'[v] = pc[v]
  BY <1>2 DEF TypeOK
<1>6. SleepersAtGates'
  BY <1>1, <1>2, <1>5 DEF SleepersAtGates, TypeOK
<1>7. LockPhases'
  BY <1>1, LivingWorker DEF lockVars
<1>8. SamePlaces
  BY <1>3, <1>5 DEF SamePlaces
<1> QED
  BY <1>1, <1>4, <1>6, <1>7, <1>8, SlotsStay

\* A worker that stops the task wakes the others; it moves itself past places
\* that hold no slot or from the round's end to its cleanup.
LEMMA UnblockKeeps ==
  ASSUME IInv, NEW w \in Workers, Unblock(w)
  PROVE  IInv'
<1> USE DEF IInv
<1>1. PICK place \in {"clear", "refused"} :
        /\ pc' = [Woken EXCEPT ![w] = place]
        /\ pc[w] = IF place = "clear" THEN "unblock" ELSE "release"
  BY DEF Unblock
<1>2. asleep' = {} /\ UNCHANGED <<locked, parsing, engine, slots, target, call, status, stopFlag>> /\ resumed'
  BY DEF Unblock, lockVars
<1>3. \A v \in Workers : pc'[v] = IF v = w THEN place ELSE Woken[v]
  BY <1>1, WokenPlaces
<1>4. TypeOK'
  <2>1. place \in Places
    BY DEF Places, Left
  <2>2. pc' \in [Workers -> Places]
    BY <1>1, <2>1, WokenPlaces
  <2> QED
    BY <1>2, <2>2 DEF TypeOK, slots
<1>5. SleepersAtGates'
  BY <1>2 DEF SleepersAtGates
<1>6. LockPhases'
  BY <1>1, <1>2, LivingWorker DEF lockVars, Left
<1>7. SamePlaces
  BY <1>1, <1>3, WokenPlaces DEF SamePlaces, Acquiring, Working, Closing
<1> QED
  BY <1>2, <1>4, <1>5, <1>6, <1>7, SlotsStay

\* What Full says when a slot is still free.
LEMMA FreeSlot ==
  ASSUME TypeOK, ~Full, target > 0
  PROVE  completed + Cardinality(active) + Cardinality(provisional) + 1 <= target
<1>1. IsFiniteSet(active) /\ IsFiniteSet(provisional)
  BY FS_Subset, ConstantsAssumption DEF TypeOK
<1>2. Cardinality(active) \in Nat /\ Cardinality(provisional) \in Nat
  BY <1>1, FS_CardinalityType
<1> QED
  BY <1>2 DEF Full, TypeOK

Slotting(w) == Reserve(w) \/ ClaimNothing(w) \/ Publish(w) \/ Counted(w) \/ ClearWorker(w)

\* A step that takes, hands on or gives back a slot keeps the invariant: it
\* moves the worker to a place that fits what it holds afterwards, and takes a
\* slot only while one is free.
LEMMA SlottingKeeps ==
  ASSUME IInv, NEW w \in Workers, Slotting(w)
  PROVE  IInv'
<1> USE DEF IInv
<1>1. /\ UNCHANGED <<locked, parsing, engine, status, resumed, stopFlag, asleep, target, call>>
      /\ pc[w] \in {"reserve", "claim", "publish", "signup", "clear", "retire"}
  BY DEF Slotting, Reserve, ClaimNothing, Publish, Counted, ClearWorker, lockVars, control
<1>2. /\ pc' = [pc EXCEPT ![w] = pc'[w]]
      /\ pc'[w] \in Places
  <2>1. CASE Reserve(w) \/ ClaimNothing(w) \/ ClearWorker(w)
    BY <2>1 DEF Reserve, ClaimNothing, ClearWorker, Goto, TypeOK, Places, Left, Acquiring
  <2>2. CASE Publish(w) \/ Counted(w)
    BY <2>2 DEF Publish, Counted, Goto, TypeOK, Places, Left, Working
  <2> QED
    BY <2>1, <2>2 DEF Slotting
<1>3. /\ \A v \in Workers : v # w => pc'[v] = pc[v]
      /\ w \notin asleep
  BY <1>1, <1>2 DEF TypeOK, SleepersAtGates, PastGate
<1>4. TypeOK'
  <2>1. completed' \in Nat /\ active' \in SUBSET Workers /\ provisional' \in SUBSET Workers
    BY DEF Slotting, Reserve, ClaimNothing, Publish, Counted, ClearWorker, TypeOK
  <2>2. pc' \in [Workers -> Places]
    BY <1>2 DEF TypeOK
  <2> QED
    BY <1>1, <2>1, <2>2 DEF TypeOK
<1>5. SleepersAtGates'
  BY <1>1, <1>3 DEF SleepersAtGates, TypeOK
<1>6. LockPhases'
  BY <1>1, LivingWorker DEF lockVars, Left
<1>7. SlotsAreHeld'
  <2>1. /\ \A v \in Workers : v # w => /\ v \in provisional' <=> v \in provisional
                                       /\ v \in active' <=> v \in active
        /\ w \in provisional' <=> pc'[w] \in Acquiring
        /\ pc'[w] \in Working => w \in active'
        /\ w \in active' => pc'[w] \in Working \cup Closing
    <3> USE DEF SlotsAreHeld, Goto, TypeOK, Acquiring, Working, Closing
    <3>1. CASE Reserve(w)
      BY <3>1 DEF Reserve
    <3>2. CASE ClaimNothing(w) \/ Counted(w) \/ ClearWorker(w)
      BY <3>2 DEF ClaimNothing, Counted, ClearWorker
    <3>3. CASE Publish(w)
      BY <3>3 DEF Publish
    <3> QED
      BY <3>1, <3>2, <3>3 DEF Slotting
  <2> QED
    BY <1>3, <1>4, <2>1 DEF SlotsAreHeld, TypeOK, Closing
<1>8. CapacityRespected'
  <2> SUFFICES ASSUME target > 0
               PROVE  completed' + Cardinality(active') + Cardinality(provisional') <= target
    BY <1>1 DEF CapacityRespected
  <2>1. completed + Cardinality(active) + Cardinality(provisional) <= target
    BY DEF CapacityRespected
  <2>2. /\ completed \in Nat /\ target \in Nat
        /\ active \in SUBSET Workers /\ provisional \in SUBSET Workers
    BY DEF TypeOK
  <2> DEFINE A == Cardinality(active)
             P == Cardinality(provisional)
  <2>3. A \in Nat /\ P \in Nat
    BY <2>2, SlotCounts
  <2>4. Cardinality(active \cup {w}) = IF w \in active THEN A ELSE A + 1
    BY <2>2, SlotCounts
  <2>5. Cardinality(active \ {w}) = IF w \in active THEN A - 1 ELSE A
    BY <2>2, SlotCounts
  <2>6. Cardinality(provisional \ {w}) = IF w \in provisional THEN P - 1 ELSE P
    BY <2>2, SlotCounts
  <2>7. CASE Reserve(w)
    <3>1. w \notin provisional /\ w \notin active
      BY <2>7 DEF Reserve, SlotsAreHeld, Acquiring, Working, Closing
    <3>2. completed' = completed /\ active' = active
      BY <2>7 DEF Reserve
    <3>3. CASE Full
      BY <2>1, <2>7, <3>1, <3>2, <3>3 DEF Reserve
    <3>4. CASE ~Full
      <4>1. provisional' = provisional \cup {w}
        BY <2>7, <3>1, <3>4 DEF Reserve
      <4>2. Cardinality(provisional') = P + 1
        BY <2>2, <3>1, <4>1, SlotCounts
      <4>3. completed + A + P + 1 <= target
        BY <3>4, FreeSlot
      <4>4. Cardinality(active') = A
        BY <3>2
      <4> QED
        BY <2>2, <2>3, <3>2, <4>2, <4>3, <4>4
    <3> QED
      BY <3>3, <3>4
  <2>8. CASE ClaimNothing(w)
    <3>1. completed' = completed /\ active' = active /\ provisional' = provisional \ {w}
      BY <2>8 DEF ClaimNothing
    <3> QED
      BY <2>1, <2>2, <2>3, <2>6, <3>1
  <2>9. CASE Publish(w)
    <3>1. w \in provisional /\ w \notin active
      BY <2>9 DEF Publish, SlotsAreHeld, Acquiring, Working, Closing
    <3>2. completed' = completed /\ active' = active \cup {w} /\ provisional' = provisional \ {w}
      BY <2>9, <3>1 DEF Publish
    <3>3. Cardinality(active') = A + 1 /\ Cardinality(provisional') = P - 1
      BY <2>4, <2>6, <3>1, <3>2
    <3> QED
      BY <2>1, <2>2, <2>3, <3>2, <3>3
  <2>10. CASE Counted(w)
    <3>1. w \in active /\ w \notin provisional
      BY <2>10 DEF Counted, SlotsAreHeld, Acquiring, Working
    <3>2. completed' = completed + 1 /\ active' = active \ {w} /\ provisional' = provisional \ {w}
      BY <2>10 DEF Counted
    <3>3. Cardinality(active') = A - 1 /\ Cardinality(provisional') = P
      BY <2>5, <2>6, <3>1, <3>2
    <3> QED
      BY <2>1, <2>2, <2>3, <3>2, <3>3
  <2>11. CASE ClearWorker(w)
    <3>1. completed' = completed /\ active' = active \ {w} /\ provisional' = provisional \ {w}
      BY <2>11 DEF ClearWorker
    <3>2. Cardinality(active') <= A /\ Cardinality(provisional') <= P
      BY <2>3, <2>5, <2>6, <3>1
    <3>3. Cardinality(active') \in Nat /\ Cardinality(provisional') \in Nat
      BY <2>2, <3>1, SlotCounts
    <3> QED
      BY <2>1, <2>2, <2>3, <3>1, <3>2, <3>3
  <2> QED
    BY <2>7, <2>8, <2>9, <2>10, <2>11 DEF Slotting
<1> QED
  BY <1>4, <1>5, <1>6, <1>7, <1>8

----------------------------------------------------------------------------
(* The theorems *)

\* Every step of the specification keeps the invariant.
LEMMA StepKeeps ==
  ASSUME IInv, [Next]_vars
  PROVE  IInv'
<1>1. CASE UNCHANGED vars
  BY <1>1 DEF vars, IInv, TypeOK, SleepersAtGates, LockPhases, SlotsAreHeld, CapacityRespected
<1>2. ASSUME NEW w \in Workers, WorkerStep(w) PROVE IInv'
  BY <1>2, MovingKeeps, UnblockKeeps, SlottingKeeps DEF WorkerStep, Moving, Slotting
<1>3. ASSUME NEW c \in Callers, PauseBegin(c) \/ ResumeBegin(c) \/ StopBegin(c) \/ CallEnds(c)
      PROVE IInv'
  BY <1>3, CallsKeep
<1>4. CASE \/ StartRequest \/ RejectRequest \/ RequestRaises \/ EngineStep
           \/ \E n \in Targets : NewTask(n)
  BY <1>4, EngineKeeps
<1> QED
  BY <1>1, <1>2, <1>3, <1>4 DEF Next

\* The conjunction of all parts is an invariant of every task.
THEOREM Invariance == Spec => []IInv
  BY InitIInv, StepKeeps, PTL DEF Spec

\* Lock, task state and thread places are well typed in every reachable state.
THEOREM TaskTypeCorrect == Spec => []TypeOK
<1>1. IInv => TypeOK
  BY DEF IInv
<1> QED
  BY <1>1, Invariance, PTL

\* reserve_worker_round keeps its promise: however many workers compete and
\* however their rounds end, counted and running rounds never exceed max_rounds.
THEOREM Capacity == Spec => []CapacityRespected
<1>1. IInv => CapacityRespected
  BY DEF IInv
<1> QED
  BY <1>1, Invariance, PTL

\* No exit of a claim or a round leaks its slot, and none runs without one.
THEOREM SlotsHeld == Spec => []SlotsAreHeld
<1>1. IInv => SlotsAreHeld
  BY DEF IInv
<1> QED
  BY <1>1, Invariance, PTL

\* The start lock is free only when no engine and no worker of any task is left,
\* although run() and its caller end in two steps.
THEOREM OneTask == Spec => []OneTaskAtATime
<1>1. IInv => OneTaskAtATime
  BY DEF IInv, LockPhases, OneTaskAtATime, TypeOK, EnginePhases
<1> QED
  BY <1>1, Invariance, PTL

----------------------------------------------------------------------------
(* Nobody leaves early *)

\* While a task runs and a worker has left as "full", either every slot of the
\* target is still used up or held, or some worker is not done that way: the
\* one that gave a slot back goes on, or left for another reason.
NoneLeftEarly ==
  engine = "running" /\ (\E w \in Workers : pc[w] = "full")
    => Full \/ \E v \in Workers : pc[v] \notin {"full", "unready", "boot"}

\* Only a worker that finds every slot taken leaves as "full", and only one that
\* does not leave so, or not at all, gives a slot back.
LEMMA WorkerLeavesLast ==
  ASSUME IInv, NoneLeftEarly, NEW w \in Workers, WorkerStep(w)
  PROVE  NoneLeftEarly'
<1> USE DEF IInv
<1>1. CASE Booted(w)
  <2>1. /\ engine' = engine /\ (Full' <=> Full)
        /\ pc[w] = "boot" /\ pc'[w] \in {"head", "unready"}
        /\ \A v \in Workers : v # w => pc'[v] = pc[v]
    BY <1>1 DEF Booted, Goto, Full, TypeOK, lockVars, slots
  <2> QED
    BY <2>1 DEF NoneLeftEarly
<1>2. CASE Reserve(w) /\ pc'[w] = "full"
  <2>1. Full /\ UNCHANGED <<target, completed, active, provisional>>
    BY <1>2 DEF Reserve, Goto, TypeOK
  <2>2. Full'
    BY <2>1 DEF Full
  <2> QED
    BY <2>2 DEF NoneLeftEarly
<1>3. CASE ~Booted(w) /\ ~(Reserve(w) /\ pc'[w] = "full")
  <2> USE DEF Goto, TypeOK
  <2>1. CASE Head(w) \/ Recheck(w) \/ ClaimAlias(w) \/ ReachGate(w) \/ Uncounted(w)
    BY <2>1 DEF Head, Recheck, ClaimAlias, ReachGate, Uncounted, NoneLeftEarly
  <2>2. CASE PassGate(w)
    BY <2>2 DEF PassGate, PastGate, NoneLeftEarly
  <2>3. CASE Halt(w) \/ Rest(w) \/ WaitHead(w) \/ Tick(w) \/ WaitEnd(w)
    BY <2>3 DEF Halt, Rest, WaitHead, Tick, WaitEnd, NoneLeftEarly
  <2>4. CASE Unblock(w)
    <3>1. pc'[w] \in {"clear", "refused"}
      BY <2>4, WokenPlaces DEF Unblock
    <3> QED
      BY <3>1 DEF NoneLeftEarly
  <2>5. CASE Reserve(w)
    BY <1>3, <2>5 DEF Reserve, NoneLeftEarly
  <2>6. CASE ClaimNothing(w) \/ Counted(w) \/ ClearWorker(w)
    BY <2>6 DEF ClaimNothing, Counted, ClearWorker, NoneLeftEarly
  <2>7. CASE Publish(w)
    <3>1. w \in provisional
      BY <2>7 DEF Publish, SlotsAreHeld, Acquiring
    <3> QED
      BY <2>7, <3>1 DEF Publish, NoneLeftEarly
  <2> QED
    BY <1>3, <2>1, <2>2, <2>3, <2>4, <2>5, <2>6, <2>7 DEF WorkerStep
<1> QED
  BY <1>1, <1>2, <1>3

\* No other step makes a worker leave or touches the slots of a running task.
LEMMA StepLeavesLast ==
  ASSUME IInv, NoneLeftEarly, [Next]_vars
  PROVE  NoneLeftEarly'
<1>1. CASE UNCHANGED vars
  BY <1>1 DEF vars, NoneLeftEarly, Full
<1>2. ASSUME NEW w \in Workers, WorkerStep(w) PROVE NoneLeftEarly'
  BY <1>2, WorkerLeavesLast
<1>3. ASSUME NEW c \in Callers, PauseBegin(c) \/ ResumeBegin(c) \/ StopBegin(c) \/ CallEnds(c)
      PROVE NoneLeftEarly'
  <2>1. engine' = engine /\ (Full' <=> Full)
    BY <1>3 DEF PauseBegin, ResumeBegin, StopBegin, CallEnds, PauseEnd, ResumeEnd, StopEnd,
                Full, lockVars, slots
  <2>2. pc' = pc \/ pc' = Woken
    BY <1>3 DEF PauseBegin, ResumeBegin, StopBegin, CallEnds, PauseEnd, ResumeEnd, StopEnd
  <2> QED
    BY <2>1, <2>2, WokenPlaces DEF NoneLeftEarly, IInv
<1>4. CASE StartRequest \/ RejectRequest \/ RequestRaises
  BY <1>4 DEF StartRequest, RejectRequest, RequestRaises, NoneLeftEarly, Full, slots
<1>5. CASE EngineStep \/ \E n \in Targets : NewTask(n)
  <2>1. CASE RunBegins
    BY <2>1 DEF RunBegins, NoneLeftEarly
  <2>2. engine' = "running" => RunBegins
    BY <1>5 DEF EngineStep, RunRaises, RunEnds, ReleaseLock, NewTask
  <2> QED
    BY <2>1, <2>2 DEF NoneLeftEarly
<1> QED
  BY <1>1, <1>2, <1>3, <1>4, <1>5 DEF Next

\* When the last worker has left, the target is reached: once no slot is held,
\* all of them have been counted.
LEMMA LastOneFinds ==
  ASSUME IInv, NoneLeftEarly
  PROVE  TargetIsReached
<1> USE DEF IInv
<1> SUFFICES ASSUME engine = "running", \A w \in Workers : pc[w] \in {"full", "unready"},
                    NEW w \in Workers, pc[w] # "unready"
             PROVE  completed = target
  BY DEF TargetIsReached
<1>1. Full
  BY DEF NoneLeftEarly
<1>2. active = {} /\ provisional = {}
  BY DEF SlotsAreHeld, Acquiring, Working, TypeOK
<1>3. Cardinality(active) = 0 /\ Cardinality(provisional) = 0
  BY <1>2, FS_EmptySet
<1> QED
  BY <1>1, <1>3 DEF Full, CapacityRespected, TypeOK

\* A task with a target does not fall short of it because its workers gave up
\* while others still held slots that were never counted.
THEOREM NobodyGivesUpEarly == Spec => []TargetIsReached
<1>1. Init => NoneLeftEarly
  BY DEF Init, NoneLeftEarly
<1> QED
  BY <1>1, Invariance, StepLeavesLast, LastOneFinds, PTL DEF Spec
=============================================================================
