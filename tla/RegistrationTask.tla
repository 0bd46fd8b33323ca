---------------------------- MODULE RegistrationTask ----------------------------
(***************************************************************************)
(* One registration task as its operator sees it: the start lock of        *)
(* api/register.py, the shared RegistrationState of                        *)
(* core/registration/state.py with its pause event, stop flag, counters    *)
(* and worker slots, and the loop of the worker threads.                   *)
(*                                                                         *)
(* The state's methods hold its lock for one critical section each, so each*)
(* section is one step; pause, resume and stop consist of two.  What a     *)
(* round does to the tables is AliasLease's subject: here a round ends in  *)
(* one of the ways that matter to the counters.                            *)
(***************************************************************************)
EXTENDS Naturals, FiniteSets

CONSTANTS
  Workers,      \* worker threads of a task
  Callers,      \* request threads that serve pause, resume and stop
  Targets,      \* values of max_rounds a task may be started with; 0: no limit
  MaxCompleted, \* bound: claims find no alias once so many rounds were counted
  Interval,     \* registration_interval_seconds > 0
  Hazards       \* what may happen besides; see HazardKinds

HazardKinds ==
  {"pause",      \* pause and resume requests, also after a stop
   "badrequest", \* a start request that raises neither ValueError nor TypeError
   "dberror",    \* SQLite raises in the engine's first read
   "boot"}       \* browsers or transports that do not start

ASSUME ConstantsAssumption ==
  /\ IsFiniteSet(Workers)
  /\ Targets \subseteq Nat
  /\ MaxCompleted \in Nat
  /\ Interval \in BOOLEAN
  /\ Hazards \subseteq HazardKinds

VARIABLES
  locked,      \* _register_lock
  parsing,     \* a start request holds the lock and is reading its parameters
  engine,      \* the engine thread
  status,      \* RegistrationState._status
  resumed,     \* RegistrationState._pause_event is set
  stopFlag,    \* RegistrationState._stop_flag
  target,      \* max_rounds of the task
  completed,   \* RegistrationState._completed
  provisional, \* RegistrationState._provisional_workers
  active,      \* the keys of RegistrationState._active_workers
  asleep,      \* workers blocked in _pause_event.wait()
  call,        \* the request each caller has done the first half of
  pc           \* where each worker thread is

lockVars == <<locked, parsing, engine>>
control == <<status, resumed, stopFlag, asleep>>
slots == <<completed, provisional, active>>
vars == <<locked, parsing, engine, status, resumed, stopFlag, target,
          completed, provisional, active, asleep, call, pc>>

----------------------------------------------------------------------------

\* absent: no task was ever started; created: the thread exists; ending: the
\* engine returned; over: its lock is released, the state object is still there.
EnginePhases == {"absent", "created", "running", "ending", "over"}
Statuses == {"running", "waiting", "paused", "stopped"}
Requests == {"none", "pause", "resume", "stop"}

\* How a worker thread left its loop: it was stopped, the target is taken, no
\* alias was left, it could not start, its provider failed, it crashed.
Left == {"stopped", "full", "dry", "unready", "refused", "crashed"}

\* Places that hold a provisional slot, and places that hold an active one.
Acquiring == {"claim", "publish"}
Working == {"round", "roundGate", "signup", "retire"}

\* Other places: boot; the head of the loop, its pause gate and the second look
\* at the stop flag; the reservation; stop() called by a worker (halt, unblock
\* after a round; refuse, release after a refused claim); the end of a round and
\* the pause before the next one.
Places == Left \cup Acquiring \cup Working \cup
  {"boot", "head", "gate", "recheck", "reserve", "halt", "unblock", "refuse",
   "release", "clear", "rest", "wait", "peek", "waitGate", "waitRecheck", "tick", "waitEnd"}

TypeOK ==
  /\ locked \in BOOLEAN
  /\ parsing \in BOOLEAN
  /\ engine \in EnginePhases
  /\ status \in Statuses
  /\ resumed \in BOOLEAN
  /\ stopFlag \in BOOLEAN
  /\ target \in Nat
  /\ completed \in Nat
  /\ provisional \in SUBSET Workers
  /\ active \in SUBSET Workers
  /\ asleep \in SUBSET Workers
  /\ call \in [Callers -> Requests]
  /\ pc \in [Workers -> Places]

Init ==
  /\ locked = FALSE
  /\ parsing = FALSE
  /\ engine = "absent"
  /\ status = "stopped"
  /\ resumed = TRUE
  /\ stopFlag = FALSE
  /\ target = 0
  /\ completed = 0
  /\ provisional = {}
  /\ active = {}
  /\ asleep = {}
  /\ call = [c \in Callers |-> "none"]
  /\ pc = [w \in Workers |-> "stopped"]

\* Where a worker goes on once check_pause lets it.
PastGate == [gate |-> "recheck", roundGate |-> "signup", waitGate |-> "waitRecheck"]

\* Setting the event wakes every thread that waits for it, even if somebody
\* clears it again before the thread runs.
Woken == [w \in Workers |-> IF w \in asleep THEN PastGate[pc[w]] ELSE pc[w]]

\* Mutant: workers that are still claiming are not counted.
FullWithoutProvisional == target > 0 /\ completed + Cardinality(active) >= target

\* Mutant: off by one, a slot is always left over.
FullOffByOne ==
  target > 0 /\ completed + Cardinality(active) + Cardinality(provisional) + 1 >= target

\* Every slot of the target is used up or held.
Full ==
  target > 0 /\ completed + Cardinality(active) + Cardinality(provisional) >= target

----------------------------------------------------------------------------
(* The start request and the engine thread *)

StartRequest ==
  /\ ~locked
  /\ locked' = TRUE
  /\ parsing' = TRUE
  /\ UNCHANGED <<engine, control, target, slots, call, pc>>

\* ValueError or TypeError: the handler gives the lock back.
RejectRequest ==
  /\ parsing
  /\ parsing' = FALSE
  /\ locked' = FALSE
  /\ UNCHANGED <<engine, control, target, slots, call, pc>>

\* Any other exception: a body that is not JSON or not an object, or SQLite.
RequestRaises ==
  /\ "badrequest" \in Hazards
  /\ parsing
  /\ parsing' = FALSE
  /\ UNCHANGED <<locked, engine, control, target, slots, call, pc>>

\* A new RegistrationState replaces the old one, which a half-done request
\* of an earlier task goes on to change without effect.
NewTask(n) ==
  /\ parsing
  /\ parsing' = FALSE
  /\ engine' = "created"
  /\ status' = "stopped"
  /\ resumed' = TRUE
  /\ stopFlag' = FALSE
  /\ target' = n
  /\ completed' = 0
  /\ provisional' = {}
  /\ active' = {}
  /\ call' = [c \in Callers |-> "none"]
  /\ UNCHANGED <<locked, asleep, pc>>

RunBegins ==
  /\ engine = "created"
  /\ engine' = "running"
  /\ status' = "running"
  /\ pc' = [w \in Workers |-> "boot"]
  /\ UNCHANGED <<locked, parsing, resumed, stopFlag, asleep, target, slots, call>>

\* Reading the settings raises before run()'s try block.
RunRaises ==
  /\ "dberror" \in Hazards
  /\ engine = "created"
  /\ engine' = "ending"
  /\ status' = "running"
  /\ UNCHANGED <<locked, parsing, resumed, stopFlag, asleep, target, slots, call, pc>>

\* Mutant: the engine joins only the threads that got as far as a round.
RunEndsEarly ==
  /\ engine = "running"
  /\ \A w \in Workers : pc[w] \in Left \cup {"boot"}
  /\ engine' = "ending"
  /\ status' = "stopped"
  /\ UNCHANGED <<locked, parsing, resumed, stopFlag, asleep, target, slots, call, pc>>

\* run() has joined every worker.
RunEnds ==
  /\ engine = "running"
  /\ \A w \in Workers : pc[w] \in Left
  /\ engine' = "ending"
  /\ status' = "stopped"
  /\ UNCHANGED <<locked, parsing, resumed, stopFlag, asleep, target, slots, call, pc>>

ReleaseLock ==
  /\ engine = "ending"
  /\ engine' = "over"
  /\ locked' = FALSE
  /\ UNCHANGED <<parsing, control, target, slots, call, pc>>

----------------------------------------------------------------------------
(* pause, resume and stop: two critical sections each *)

PauseBegin(c) ==
  /\ "pause" \in Hazards
  /\ engine # "absent"
  /\ call[c] = "none"
  /\ call' = [call EXCEPT ![c] = "pause"]
  /\ resumed' = FALSE
  /\ UNCHANGED <<lockVars, status, stopFlag, asleep, target, slots, pc>>

PauseEnd(c) ==
  /\ call[c] = "pause"
  /\ call' = [call EXCEPT ![c] = "none"]
  /\ status' = "paused"
  /\ UNCHANGED <<lockVars, resumed, stopFlag, asleep, target, slots, pc>>

ResumeBegin(c) ==
  /\ "pause" \in Hazards
  /\ engine # "absent"
  /\ call[c] = "none"
  /\ call' = [call EXCEPT ![c] = "resume"]
  /\ resumed' = TRUE
  /\ asleep' = {}
  /\ pc' = Woken
  /\ UNCHANGED <<lockVars, status, stopFlag, target, slots>>

ResumeEnd(c) ==
  /\ call[c] = "resume"
  /\ call' = [call EXCEPT ![c] = "none"]
  /\ status' = "running"
  /\ UNCHANGED <<lockVars, resumed, stopFlag, asleep, target, slots, pc>>

StopBegin(c) ==
  /\ engine # "absent"
  /\ call[c] = "none"
  /\ call' = [call EXCEPT ![c] = "stop"]
  /\ stopFlag' = TRUE
  /\ status' = "stopped"
  /\ UNCHANGED <<lockVars, resumed, asleep, target, slots, pc>>

\* Mutant: a stop request does not wake the workers that wait at a gate.
StopEndStillPaused(c) ==
  /\ call[c] = "stop"
  /\ call' = [call EXCEPT ![c] = "none"]
  /\ UNCHANGED <<lockVars, control, target, slots, pc>>

StopEnd(c) ==
  /\ call[c] = "stop"
  /\ call' = [call EXCEPT ![c] = "none"]
  /\ resumed' = TRUE
  /\ asleep' = {}
  /\ pc' = Woken
  /\ UNCHANGED <<lockVars, status, stopFlag, target, slots>>

CallEnds(c) == PauseEnd(c) \/ ResumeEnd(c) \/ StopEnd(c)

----------------------------------------------------------------------------
(* The worker loop up to a round *)

Goto(w, place) == pc' = [pc EXCEPT ![w] = place]

Booted(w) ==
  /\ pc[w] = "boot"
  /\ Goto(w, "head") \/ ("boot" \in Hazards /\ Goto(w, "unready"))
  /\ UNCHANGED <<lockVars, control, target, slots, call>>

\* Looks at the stop flag at the head of the loop and behind its gate.
Head(w) ==
  /\ pc[w] = "head"
  /\ Goto(w, IF stopFlag THEN "stopped" ELSE "gate")
  /\ UNCHANGED <<lockVars, control, target, slots, call>>

Recheck(w) ==
  /\ pc[w] = "recheck"
  /\ Goto(w, IF stopFlag THEN "stopped" ELSE "reserve")
  /\ UNCHANGED <<lockVars, control, target, slots, call>>

\* check_pause goes on if the event is set and blocks otherwise, whatever the
\* stop flag says.
PassGate(w) ==
  /\ pc[w] \in DOMAIN PastGate
  /\ w \notin asleep
  /\ IF resumed THEN Goto(w, PastGate[pc[w]]) /\ asleep' = asleep
     ELSE asleep' = asleep \cup {w} /\ pc' = pc
  /\ UNCHANGED <<lockVars, status, resumed, stopFlag, target, slots, call>>

\* reserve_worker_capacity: a slot the worker still holds is kept.
Reserve(w) ==
  /\ pc[w] = "reserve"
  /\ IF w \notin active \cup provisional /\ Full
     THEN Goto(w, "full") /\ provisional' = provisional
     ELSE /\ Goto(w, "claim")
          /\ provisional' = IF w \in active THEN provisional ELSE provisional \cup {w}
  /\ UNCHANGED <<lockVars, control, target, completed, active, call>>

ClaimAlias(w) ==
  /\ pc[w] = "claim"
  /\ completed < MaxCompleted
  /\ Goto(w, "publish")
  /\ UNCHANGED <<lockVars, control, target, slots, call>>

\* No alias, or the provider raised: release_worker_capacity, and in the second
\* case stop() before the thread leaves.
ClaimNothing(w) ==
  /\ pc[w] = "claim"
  /\ Goto(w, "dry") \/ Goto(w, "refuse")
  /\ provisional' = provisional \ {w}
  /\ UNCHANGED <<lockVars, control, target, completed, active, call>>

\* reserve_worker_round turns the provisional slot into an active one.
Publish(w) ==
  /\ pc[w] = "publish"
  /\ IF w \notin provisional /\ Full
     THEN Goto(w, "full") /\ UNCHANGED <<provisional, active>>
     ELSE /\ Goto(w, "round")
          /\ provisional' = provisional \ {w}
          /\ active' = active \cup {w}
  /\ UNCHANGED <<lockVars, control, target, completed, call>>

----------------------------------------------------------------------------
(* A round, by the way it ends for the counters *)

\* The first of the round's pause gates; the later ones add nothing.
ReachGate(w) ==
  /\ pc[w] = "round"
  /\ Goto(w, "roundGate")
  /\ UNCHANGED <<lockVars, control, target, slots, call>>

\* A success, a terminal failure or a skipped account; xAI's 403 also stops
\* the task. The counter and the slot change in one critical section.
Counted(w) ==
  /\ pc[w] = "signup"
  /\ Goto(w, "clear") \/ Goto(w, "halt")
  /\ completed' = completed + 1
  /\ provisional' = provisional \ {w}
  /\ active' = active \ {w}
  /\ UNCHANGED <<lockVars, control, target, call>>

\* A retry, a lost lease or an exception the loop absorbs, before or after the
\* gate; an environment block also stops the task; a second exception in the
\* loop ends the thread.
Uncounted(w) ==
  /\ pc[w] \in {"round", "signup"}
  /\ Goto(w, "clear") \/ Goto(w, "retire") \/ (pc[w] = "signup" /\ Goto(w, "halt"))
  /\ UNCHANGED <<lockVars, control, target, slots, call>>

\* stop(), called by a worker: the flag first, then the event.
Halt(w) ==
  /\ \/ pc[w] = "halt" /\ Goto(w, "unblock")
     \/ pc[w] = "refuse" /\ Goto(w, "release")
  /\ stopFlag' = TRUE
  /\ status' = "stopped"
  /\ UNCHANGED <<lockVars, resumed, asleep, target, slots, call>>

Unblock(w) ==
  /\ \/ pc[w] = "unblock" /\ pc' = [Woken EXCEPT ![w] = "clear"]
     \/ pc[w] = "release" /\ pc' = [Woken EXCEPT ![w] = "refused"]
  /\ resumed' = TRUE
  /\ asleep' = {}
  /\ UNCHANGED <<lockVars, status, stopFlag, target, slots, call>>

\* Mutant: a round that was not counted keeps its slot.
ClearWorkerNot(w) ==
  /\ pc[w] \in {"clear", "retire"}
  /\ Goto(w, IF pc[w] = "clear" THEN "rest" ELSE "crashed")
  /\ UNCHANGED <<lockVars, control, target, slots, call>>

\* clear_worker, in the finally blocks.
ClearWorker(w) ==
  /\ pc[w] \in {"clear", "retire"}
  /\ Goto(w, IF pc[w] = "clear" THEN "rest" ELSE "crashed")
  /\ active' = active \ {w}
  /\ provisional' = provisional \ {w}
  /\ UNCHANGED <<lockVars, control, target, completed, call>>

----------------------------------------------------------------------------
(* The wait between two rounds *)

Rest(w) ==
  /\ pc[w] = "rest"
  /\ Goto(w, IF Interval /\ ~Full /\ ~stopFlag THEN "wait" ELSE "head")
  /\ UNCHANGED <<lockVars, control, target, slots, call>>

WaitHead(w) ==
  /\ \/ pc[w] = "wait" /\ Goto(w, IF stopFlag THEN "waitEnd" ELSE "peek")
     \/ pc[w] = "waitRecheck" /\ Goto(w, IF stopFlag THEN "waitEnd" ELSE "tick")
     \/ pc[w] = "peek" /\ Goto(w, IF resumed THEN "tick" ELSE "waitGate")
  /\ UNCHANGED <<lockVars, control, target, slots, call>>

\* One second passes; the remaining time is not modelled.
Tick(w) ==
  /\ pc[w] = "tick"
  /\ status' = "waiting"
  /\ Goto(w, "wait") \/ (resumed /\ Goto(w, "waitEnd"))
  /\ UNCHANGED <<lockVars, resumed, stopFlag, asleep, target, slots, call>>

WaitEnd(w) ==
  /\ pc[w] = "waitEnd"
  /\ status' = IF stopFlag THEN status ELSE "running"
  /\ Goto(w, "head")
  /\ UNCHANGED <<lockVars, resumed, stopFlag, asleep, target, slots, call>>

----------------------------------------------------------------------------

WorkerStep(w) ==
  \/ Booted(w) \/ Head(w) \/ Recheck(w) \/ PassGate(w) \/ Reserve(w)
  \/ ClaimAlias(w) \/ ClaimNothing(w) \/ Publish(w)
  \/ ReachGate(w) \/ Counted(w) \/ Uncounted(w) \/ Halt(w) \/ Unblock(w) \/ ClearWorker(w)
  \/ Rest(w) \/ WaitHead(w) \/ Tick(w) \/ WaitEnd(w)

EngineStep == RunBegins \/ RunRaises \/ RunEnds \/ ReleaseLock

Next ==
  \/ StartRequest \/ RejectRequest \/ RequestRaises
  \/ \E n \in Targets : NewTask(n)
  \/ EngineStep
  \/ \E c \in Callers : PauseBegin(c) \/ ResumeBegin(c) \/ StopBegin(c) \/ CallEnds(c)
  \/ \E w \in Workers : WorkerStep(w)

Spec == Init /\ [][Next]_vars

\* Threads and requests that can go on do; nobody has to start, pause or stop.
Fairness ==
  /\ WF_vars(EngineStep)
  /\ \A c \in Callers : WF_vars(CallEnds(c))
  /\ \A w \in Workers : WF_vars(WorkerStep(w))

FairSpec == Spec /\ Fairness

----------------------------------------------------------------------------
(* Properties *)

\* The task never counts more rounds than max_rounds, and never even starts
\* one that would be counted beyond it: reserve_worker_round promises that
\* concurrent workers cannot reserve beyond max_rounds.
CapacityRespected ==
  target > 0 => completed + Cardinality(active) + Cardinality(provisional) <= target

\* A slot is held exactly from its reservation to the end of the claim or the
\* round, whatever the exit: none leaks, and no claimed alias is turned away
\* because its slot is gone.
SlotsAreHeld ==
  /\ provisional = {w \in Workers : pc[w] \in Acquiring}
  /\ {w \in Workers : pc[w] \in Working} \subseteq active
  /\ active \subseteq {w \in Workers : pc[w] \in Working \cup {"halt", "unblock", "clear"}}

\* Workers do not give up early: a worker leaves as "full" while others still
\* hold slots they may give back uncounted, yet if nobody stopped the task, ran
\* dry or crashed, the target is reached when the last one has left.
TargetIsReached ==
  engine = "running" /\ (\A w \in Workers : pc[w] \in {"full", "unready"})
    => completed = target \/ (\A w \in Workers : pc[w] = "unready")

\* One task at a time: while the start lock is free no worker thread is alive,
\* and no engine either.
OneTaskAtATime ==
  ~locked => engine \in {"absent", "over"} /\ \A w \in Workers : pc[w] \in Left

\* stop() is half done: the flag is up, the event not set yet.
StopUnderWay ==
  \/ \E c \in Callers : call[c] = "stop"
  \/ \E w \in Workers : pc[w] \in {"unblock", "release"}

\* A pause request has cleared the event after the last stop() had set it.
PausedAfterStop ==
  stopFlag /\ ~resumed /\ ~StopUnderWay /\ \E c \in Callers : call[c] = "pause"

\* Every stop, a request or a worker's own, ends its task, wherever the workers
\* are in their loop, their round or their wait, and whatever pauses came
\* before it or overlap with it: unless somebody pauses the task again, which
\* POST /pause does without a look at the stop flag.
StopEndsTask == StopUnderWay ~> engine \in {"absent", "over"} \/ PausedAfterStop
=============================================================================
