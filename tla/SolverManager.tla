--------------------------- MODULE SolverManager ---------------------------
(***************************************************************************)
(* services/solver_manager.py: the threads that start, stop and restart    *)
(* the local Turnstile solver, the child processes they spawn, and the TCP *)
(* ports those processes bind.  One module lock serialises the bodies of   *)
(* start() and stop(); the managed endpoint, the failure counter of        *)
(* restart() and every health check live outside it.                       *)
(***************************************************************************)
EXTENDS Naturals, FiniteSets

CONSTANTS
    Callers,      \* threads that call start / stop / restart
    Boot,         \* the thread start_async() leaves behind at boot
    Exit,         \* the main thread: it calls stop() once, when the server ends
    Children,     \* solver processes this application may spawn
    Ports,        \* loopback ports a settings form may name
    Home,         \* the port of the settings at boot
    Remote,       \* an endpoint that is not on a loopback address
    None,
    MaxFailures,  \* _MAX_CONSECUTIVE_FAILURES
    MaxCalls      \* bound: calls the settings page makes on each thread

ASSUME SolverManagerAssumption ==
    /\ {Boot, Exit} \subseteq Callers /\ Boot # Exit
    /\ Home \in Ports
    /\ Remote \notin Ports
    /\ None \notin Callers \cup Children \cup Ports
    /\ MaxFailures \in Nat \ {0}
    /\ MaxCalls \in Nat \ {0}

VARIABLES
    lock,      \* the holder of _lock, or None
    call,      \* per thread: where its call stands and with which arguments
    calls,     \* calls made so far (bounded by MaxCalls)
    managed,   \* _managed_port: what is_running() probes
    proc,      \* _proc
    owned,     \* _owned_by_us
    failures,  \* _consecutive_failures
    life,      \* the operating system's view of every process
    portOf,    \* the port a process that starts was told to bind
    listen,    \* who listens on a port
    noisy,     \* children that wrote 2000 bytes to their stderr pipe
    phase,     \* the application: running, stopped (main is done), exited, killed
    displaced  \* history: children left by an earlier run of the application, and
               \* live ones that another start replaced in _proc

appVars == <<lock, call, calls, managed, proc, owned, failures, phase>>
osVars  == <<life, portOf, listen, noisy>>
managerVars == <<appVars, osVars, displaced>>

Pcs == {"idle", "start", "wait", "drain", "stop", "reap", "sweep", "again"}
Calls == [pc : Pcs, port : Ports \cup {None}, force : BOOLEAN, kill : BOOLEAN, restart : BOOLEAN]
Idle == [pc |-> "idle", port |-> None, force |-> FALSE, kill |-> FALSE, restart |-> FALSE]
Lives == {"unborn", "booting", "online", "dying", "dead"}

ManagerTypeOK ==
    /\ lock \in Callers \cup {None}
    /\ call \in [Callers -> Calls]
    /\ calls \in [Callers -> 0 .. MaxCalls]
    /\ managed \in Ports
    /\ proc \in Children \cup {None}
    /\ owned \in BOOLEAN
    /\ failures \in 0 .. MaxFailures
    /\ life \in [Children -> Lives]
    /\ portOf \in [Children -> Ports \cup {None}]
    /\ listen \in [Ports -> Children \cup {None}]
    /\ noisy \subseteq Children
    /\ phase \in {"running", "stopped", "exited", "killed"}
    /\ displaced \subseteq Children

\* At boot nothing runs, or a solver an earlier run left behind.
ManagerInit ==
    /\ lock = None
    /\ managed = Home
    /\ portOf = [c \in Children |-> None]
    /\ call = [t \in Callers |-> Idle]
    /\ calls = [t \in Callers |-> 0]
    /\ proc = None
    /\ owned = FALSE
    /\ failures = 0
    /\ \E old \in SUBSET Children :
        /\ Cardinality(old) <= 1
        /\ life = [c \in Children |-> IF c \in old THEN "online" ELSE "unborn"]
        /\ listen = [p \in Ports |-> IF old # {} /\ p = Home THEN CHOOSE c \in old : TRUE ELSE None]
        /\ displaced = old
    /\ noisy = {}
    /\ phase = "running"

----------------------------------------------------------------------------
(* Helpers *)

Alive(c) == life[c] \in {"booting", "online", "dying"}

\* is_running(): the answer of a GET with a two-second timeout.  A server that
\* listens may be too busy to answer; nobody else answers for it.
Answers(p) == {FALSE} \cup {listen[p] # None}

\* A new process gets a fresh identity; which one makes no difference.
NextPid == IF \E c \in Children : life[c] = "unborn"
           THEN {CHOOSE c \in Children : life[c] = "unborn"} ELSE {}

\* Popen, or its failure, writes over _proc without a look at it.
Displaced == displaced \cup {c \in Children : c = proc /\ Alive(c)}

\* The code counts on without a limit, but only asks whether MaxFailures is
\* reached: the model's bound is there.
OneMore(n) == IF n < MaxFailures THEN n + 1 ELSE n

\* A call that returns: its thread is free, and the lock with it.
Return(t) ==
    /\ call' = [call EXCEPT ![t] = Idle]
    /\ lock' = None

\* configure_from_settings: only an endpoint on this host replaces the port.
Configure(e) == managed' = IF e \in Ports THEN e ELSE managed

\* should_auto_start: the boot thread starts the solver only when the settings
\* need a local one and it is ours to start.
AutoStart(mode, yescaptcha, e) ==
    /\ mode \notin {"browser", "none", "off", "disabled"}
    /\ ~yescaptcha
    /\ e \in Ports

\* A thread that takes up a call: boot and exit make one each.
NewCall(t) ==
    /\ phase = "running" /\ call[t].pc = "idle"
    /\ calls[t] < IF t \in {Boot, Exit} THEN 1 ELSE MaxCalls
    /\ calls' = [calls EXCEPT ![t] = @ + 1]

----------------------------------------------------------------------------
(* start() *)

\* The part of start() before the lock: a remote endpoint leaves the port in
\* force.  (start() refuses one without force, but start_async(), the only
\* unforced caller, is reached after should_auto_start() alone.)
BeginStart(t, e, force) ==
    /\ Configure(e)
    /\ call' = [call EXCEPT ![t] = [pc |-> "start", port |-> IF e \in Ports THEN e ELSE managed,
                                    force |-> force, kill |-> FALSE, restart |-> FALSE]]

\* start_async() at boot, without force.
BootStarts(t) ==
    /\ t = Boot /\ NewCall(t)
    /\ \E mode \in {"auto", "browser"}, key \in BOOLEAN : AutoStart(mode, key, Home)
    /\ BeginStart(t, Home, FALSE)
    /\ UNCHANGED <<lock, proc, owned, failures, phase, osVars, displaced>>

\* POST .../start, with the address of the form.
CallStart(t, e) ==
    /\ t \notin {Boot, Exit} /\ NewCall(t)
    /\ BeginStart(t, e, TRUE)
    /\ UNCHANGED <<lock, proc, owned, failures, phase, osVars, displaced>>

\* Under the lock: already online, or a missing browser or script.  Giving up
\* after MaxFailures changes nothing, and neither does one more failure then.
StartRefused(t) ==
    /\ call[t].pc = "start" /\ lock = None
    /\ \E online \in Answers(managed) : failures' = IF online THEN 0 ELSE OneMore(failures)
    /\ Return(t)
    /\ UNCHANGED <<calls, managed, proc, owned, phase, osVars, displaced>>

\* Popen raises: the process recorded so far is forgotten too.
SpawnFails(t) ==
    /\ call[t].pc = "start" /\ lock = None
    /\ call[t].force \/ failures < MaxFailures
    /\ FALSE \in Answers(managed)
    /\ displaced' = Displaced
    /\ failures' = OneMore(failures)
    /\ proc' = None
    /\ owned' = FALSE
    /\ Return(t)
    /\ UNCHANGED <<calls, managed, phase, osVars>>

\* Popen succeeds: the child replaces whatever _proc was, alive or not.
Spawn(t, c) ==
    /\ call[t].pc = "start" /\ lock = None
    /\ call[t].force \/ failures < MaxFailures
    /\ FALSE \in Answers(managed)
    /\ c \in NextPid
    /\ displaced' = Displaced
    /\ life' = [life EXCEPT ![c] = "booting"]
    /\ portOf' = [portOf EXCEPT ![c] = call[t].port]
    /\ proc' = c
    /\ owned' = TRUE
    /\ lock' = t
    /\ call' = [call EXCEPT ![t].pc = "wait"]
    /\ UNCHANGED <<calls, managed, failures, phase, listen, noisy>>

\* The wait for the child: it exited.  What it wrote is read to the end of its
\* pipe, which a dead child leaves at once.
WaitExited(t) ==
    /\ call[t].pc = "wait" /\ ~Alive(proc)
    /\ failures' = OneMore(failures)
    /\ proc' = None
    /\ owned' = FALSE
    /\ Return(t)
    /\ UNCHANGED <<calls, managed, phase, osVars, displaced>>

\* The managed port answers, whoever it is that listens there by now.
WaitOnline(t) ==
    /\ call[t].pc = "wait" /\ Alive(proc)
    /\ TRUE \in Answers(managed)
    /\ failures' = 0
    /\ Return(t)
    /\ UNCHANGED <<calls, managed, proc, owned, phase, osVars, displaced>>

\* Mutant: a timeout forgets the child, as the exit of one does.
WaitTimeoutForgets(t) ==
    /\ call[t].pc = "wait" /\ Alive(proc)
    /\ FALSE \in Answers(managed)
    /\ failures' = OneMore(failures)
    /\ proc' = None
    /\ owned' = FALSE
    /\ Return(t)
    /\ UNCHANGED <<calls, managed, phase, osVars, displaced>>

\* Forty-five seconds are over: the child stays, and its stderr is read.
WaitTimeout(t) ==
    /\ call[t].pc = "wait" /\ Alive(proc)
    /\ FALSE \in Answers(managed)
    /\ failures' = OneMore(failures)
    /\ call' = [call EXCEPT ![t].pc = "drain"]
    /\ UNCHANGED <<lock, calls, managed, proc, owned, phase, osVars, displaced>>

\* stderr.read(2000) returns at 2000 bytes or at the end of the file, and the
\* lock is held until then.
DrainReturns(t) ==
    /\ call[t].pc = "drain" /\ (proc \in noisy \/ ~Alive(proc))
    /\ Return(t)
    /\ UNCHANGED <<calls, managed, proc, owned, failures, phase, osVars, displaced>>

----------------------------------------------------------------------------
(* stop() and restart() *)

\* stop(kill_orphans=True) from the settings page; plain stop() when main ends.
CallStop(t) ==
    /\ t # Boot /\ NewCall(t)
    /\ call' = [call EXCEPT ![t] = [Idle EXCEPT !.pc = "stop", !.kill = (t # Exit)]]
    /\ UNCHANGED <<lock, managed, proc, owned, failures, phase, osVars, displaced>>

\* restart() clears the counter before it asks for the lock.
CallRestart(t, e) ==
    /\ t \notin {Boot, Exit} /\ NewCall(t)
    /\ failures' = 0
    /\ call' = [call EXCEPT ![t] = [Idle EXCEPT !.pc = "stop", !.kill = TRUE, !.restart = TRUE,
                                               !.port = IF e \in Ports THEN e ELSE None]]
    /\ UNCHANGED <<lock, managed, proc, owned, phase, osVars, displaced>>

\* Mutant: stop() without the lock.
StopUnlocked(t) ==
    /\ call[t].pc = "stop"
    /\ lock' = t
    /\ call' = [call EXCEPT ![t].pc = "reap"]
    /\ life' = IF proc # None /\ Alive(proc) THEN [life EXCEPT ![proc] = "dying"] ELSE life
    /\ UNCHANGED <<calls, managed, proc, owned, failures, phase, portOf, listen, noisy, displaced>>

\* terminate() for a child that lives; otherwise nothing to wait for.
StopAcquire(t) ==
    /\ call[t].pc = "stop" /\ lock = None
    /\ lock' = t
    /\ call' = [call EXCEPT ![t].pc = "reap"]
    /\ life' = IF proc # None /\ Alive(proc) THEN [life EXCEPT ![proc] = "dying"] ELSE life
    /\ UNCHANGED <<calls, managed, proc, owned, failures, phase, portOf, listen, noisy, displaced>>

\* wait(5), kill(), wait(3): dead or not, the child is no longer ours.
Reap(t) ==
    /\ call[t].pc = "reap"
    /\ proc' = None
    /\ owned' = FALSE
    /\ call' = [call EXCEPT ![t].pc = "sweep"]
    /\ UNCHANGED <<lock, calls, managed, failures, phase, osVars, displaced>>

\* _kill_by_port: whoever listens on the port gets a SIGTERM, unless the lookup
\* of its process fails.
KillByPort(p) == {life} \cup {[life EXCEPT ![c] = "dying"] : c \in {listen[p]} \ {None}}

\* The orphans are looked for only if the caller asked for it (and only if the
\* port answers); restart() goes on to start().
Sweep(t) ==
    /\ call[t].pc = "sweep"
    /\ lock' = None
    /\ life' \in IF call[t].kill THEN KillByPort(managed) ELSE {life}
    /\ call' = [call EXCEPT ![t] = IF call[t].restart THEN [@ EXCEPT !.pc = "again"] ELSE Idle]
    /\ phase' = IF t = Exit THEN "stopped" ELSE phase
    /\ UNCHANGED <<calls, managed, proc, owned, failures, portOf, listen, noisy, displaced>>

RestartStarts(t) ==
    /\ call[t].pc = "again"
    /\ BeginStart(t, call[t].port, TRUE)
    /\ UNCHANGED <<lock, calls, proc, owned, failures, phase, osVars, displaced>>

----------------------------------------------------------------------------
(* The processes and their environment *)

\* app.run() of the child: the port is free, the browsers are up.
Bind(c) ==
    /\ life[c] = "booting" /\ listen[portOf[c]] = None
    /\ life' = [life EXCEPT ![c] = "online"]
    /\ listen' = [listen EXCEPT ![portOf[c]] = c]
    /\ portOf' = [portOf EXCEPT ![c] = None]
    /\ UNCHANGED <<noisy, appVars, displaced>>

\* The port is taken, the browser does not start, or the process crashes or
\* obeys the signal it was sent.
Exits(c) ==
    /\ Alive(c)
    /\ life' = [life EXCEPT ![c] = "dead"]
    /\ listen' = [p \in Ports |-> IF listen[p] = c THEN None ELSE listen[p]]
    /\ noisy' = noisy \ {c}
    /\ portOf' = [d \in Children |-> IF d = c THEN None ELSE portOf[d]]
    /\ UNCHANGED <<appVars, displaced>>

Writes(c) ==
    /\ Alive(c) /\ c \notin noisy
    /\ noisy' = noisy \cup {c}
    /\ UNCHANGED <<life, portOf, listen, appVars, displaced>>

\* The application is killed, or ends once main has stopped the solver: its
\* daemon threads end with it, its children do not.
Ends ==
    /\ phase \in {"running", "stopped"}
    /\ phase' = IF phase = "running" THEN "killed" ELSE "exited"
    /\ lock' = None
    /\ call' = [t \in Callers |-> Idle]
    /\ UNCHANGED <<calls, managed, proc, owned, failures, osVars, displaced>>

StartStep(t) ==
    \/ StartRefused(t)
    \/ SpawnFails(t)
    \/ \E c \in Children : Spawn(t, c)
WaitStep(t) == WaitExited(t) \/ WaitOnline(t) \/ WaitTimeout(t)
StopStep(t) == StopAcquire(t) \/ Reap(t) \/ Sweep(t)

CallerStep(t) ==
    /\ phase \in {"running", "stopped"}
    /\ StartStep(t) \/ WaitStep(t) \/ DrainReturns(t) \/ StopStep(t) \/ RestartStarts(t)

Request(t) ==
    \/ BootStarts(t)
    \/ CallStop(t)
    \/ \E e \in Ports \cup {Remote} : CallStart(t, e) \/ CallRestart(t, e)

ProcessStep ==
    \E c \in Children : Bind(c) \/ Writes(c) \/ Exits(c)

ManagerNext ==
    \/ \E t \in Callers : Request(t) \/ CallerStep(t)
    \/ ProcessStep
    \/ Ends

ManagerSpec == ManagerInit /\ [][ManagerNext]_managerVars
=============================================================================
