--------------------------- MODULE SolverService ---------------------------
(***************************************************************************)
(* The Turnstile solver as the application runs it: the manager's threads  *)
(* and processes (SolverManager) composed with the server and its clients  *)
(* (SolverPool).  The clients use the port Home of the settings; whichever *)
(* process listens there is their server, and its pool, its coroutines and *)
(* its results end with it.                                                *)
(***************************************************************************)
EXTENDS SolverManager, SolverPool

CONSTANT Budgets  \* bounds of a behaviour: the threads that make calls, the tasks submitted

VARIABLE budget

vars == <<managerVars, poolVars, budget>>

TypeOK == ManagerTypeOK /\ PoolTypeOK /\ budget \in Budgets

Init ==
    /\ ManagerInit
    /\ budget \in Budgets
    /\ PoolInit(listen[Home] # None)

\* The server follows the process that listens on Home.
ServerFollows ==
    CASE listen[Home] = None /\ listen'[Home] # None -> ServerStarts
      [] listen[Home] # None /\ listen'[Home] = None -> ServerEnds
      [] OTHER -> UNCHANGED poolVars

\* The clients are threads of the application.
ManagerStep ==
    /\ ManagerNext
    /\ ServerFollows
    /\ \A t \in Callers \ budget.callers : calls'[t] = 0
    /\ UNCHANGED budget

ClientStep ==
    /\ phase \in {"running", "stopped"}
    /\ PoolStep
    /\ \A t \in Tasks \ budget.tasks : client'[t] = "new"
    /\ UNCHANGED <<managerVars, budget>>

Next == ManagerStep \/ ClientStep

\* The application's threads run (calls are bounded, so no thread is overtaken
\* at the lock for ever); the server's event loop runs.  Nothing is assumed of
\* the processes' start-up, of their ends or of what they write.
Fairness ==
    /\ \A t \in Callers : WF_vars(CallerStep(t) /\ ManagerStep)
    /\ \A t \in Tasks : WF_vars(ServerStep(t) /\ ClientStep)

Spec == Init /\ [][Next]_vars /\ Fairness

----------------------------------------------------------------------------
(* Properties *)

\* While a thread waits for the child it spawned, or reads its stderr, _proc
\* is that child, no thread has terminated it and no other one is inside the
\* lock: a stop or a restart cannot pull the process from under a start.
WaiterOwnsChild ==
    \A t \in Callers :
        call[t].pc \in {"wait", "drain", "reap", "sweep"} =>
            /\ lock = t
            /\ call[t].pc \in {"wait", "drain"} => /\ proc \in Children /\ owned
                                                   /\ life[proc] \in {"booting", "online", "dead"}

\* A running child of ours is the one stop() would end, or another start wrote
\* over it because the managed port did not answer at that moment: nothing
\* else loses a child.
LostOnlyToANewStart ==
    \A c \in Children : life[c] \in {"booting", "online"} => c = proc \/ c \in displaced

\* Each live browser of the server is in the pool once, or in the hands of one
\* coroutine, never both and never neither.
BrowserHeldOnce ==
    \A b \in connected :
        Cardinality({i \in 1 .. Len(pool) : pool[i] = b}) + Cardinality({t \in Tasks : holds[t] = b}) = 1

\* A stop that waits for the lock gets it, unless a start sits in the read of
\* the stderr of a child that lives and writes nothing.
SilentDrain == \E u \in Callers : call[u].pc = "drain" /\ Alive(proc) /\ proc \notin noisy
StopIsServed ==
    \A t \in Callers :
        (call[t].pc = "stop") ~> (call[t].pc # "stop" \/ SilentDrain)

\* A coroutine that waits for a browser gets one, unless the server ends or
\* every browser of its pool is gone (they are never replaced).
QueuedIsServed ==
    \A t \in Tasks :
        (stage[t] = "waiting") ~>
            (stage[t] # "waiting" \/ connected = {} \/ phase \in {"exited", "killed"})

\* Whoever waits, for the manager's lock or for a browser, is served.
WaitersAreServed == StopIsServed /\ QueuedIsServed
=============================================================================
