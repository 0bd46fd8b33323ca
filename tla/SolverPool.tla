----------------------------- MODULE SolverPool -----------------------------
(***************************************************************************)
(* services/turnstile_solver: the solver server (its browser pool, one     *)
(* coroutine per accepted task, the table of results) and the client side  *)
(* of ExternalTurnstileProvider._solve_local, which submits a task and     *)
(* polls for its token.  The server lives in one process and loses all of  *)
(* it with the process.  Coroutines interleave at every await.             *)
(***************************************************************************)
EXTENDS Naturals, SequencesExt

CONSTANTS
    Tasks,     \* requests, each submitted by one client and polled by it
    Browsers,  \* the browsers _initialize_browser puts into the pool
    NoBrowser

ASSUME SolverPoolAssumption == NoBrowser \notin Browsers /\ IsFiniteSet(Browsers)

VARIABLES
    up,        \* the server answers
    pool,      \* browser_pool, an asyncio.Queue
    waiting,   \* coroutines suspended in browser_pool.get(), first come first
    stage,     \* where the coroutine of a task stands
    holds,     \* the browser it took
    connected, \* browser.is_connected()
    results,   \* results_db
    client     \* where the client of a task stands

serverVars == <<up, pool, waiting, stage, holds, connected, results>>
poolVars == <<serverVars, client>>

Stages == {"none", "waiting", "opening", "solving", "closing"}
Results == {"none", "pending", "solved", "failed"}

PoolTypeOK ==
    /\ up \in BOOLEAN
    /\ pool \in Seq(Browsers)
    /\ waiting \in Seq(Tasks)
    /\ stage \in [Tasks -> Stages]
    /\ holds \in [Tasks -> Browsers \cup {NoBrowser}]
    /\ connected \subseteq Browsers
    /\ results \in [Tasks -> Results]
    /\ client \in [Tasks -> {"new", "polling", "token", "error"}]

\* What a server process starts with, and what is left of it when it ends.
NoServer ==
    /\ up' = FALSE
    /\ pool' = <<>>
    /\ waiting' = <<>>
    /\ stage' = [t \in Tasks |-> "none"]
    /\ holds' = [t \in Tasks |-> NoBrowser]
    /\ connected' = {}
    /\ results' = [t \in Tasks |-> "none"]

PoolInit(serving) ==
    /\ up = serving
    /\ pool = IF serving THEN SetToSeq(Browsers) ELSE <<>>
    /\ connected = IF serving THEN Browsers ELSE {}
    /\ waiting = <<>>
    /\ stage = [t \in Tasks |-> "none"]
    /\ holds = [t \in Tasks |-> NoBrowser]
    /\ results = [t \in Tasks |-> "none"]
    /\ client = [t \in Tasks |-> "new"]

----------------------------------------------------------------------------
(* The server *)

\* _startup: every browser is launched and queued, then the port is served.
ServerStarts ==
    /\ ~up
    /\ up' = TRUE
    /\ pool' = SetToSeq(Browsers)
    /\ connected' = Browsers
    /\ UNCHANGED <<waiting, stage, holds, results, client>>

ServerEnds == NoServer /\ UNCHANGED client

\* Queue.get(): the first coroutine that waits takes the first browser.  One
\* that is no longer connected fails the task and is not put back.
Take(t) ==
    LET b == Head(pool) IN
    /\ waiting # <<>> /\ pool # <<>> /\ t = Head(waiting)
    /\ waiting' = Tail(waiting)
    /\ pool' = Tail(pool)
    /\ IF b \in connected
       THEN /\ stage' = [stage EXCEPT ![t] = "opening"]
            /\ holds' = [holds EXCEPT ![t] = b]
            /\ UNCHANGED results
       ELSE /\ stage' = [stage EXCEPT ![t] = "none"]
            /\ results' = [results EXCEPT ![t] = "failed"]
            /\ UNCHANGED holds
    /\ UNCHANGED <<up, connected, client>>

\* Mutant: an early return on a failed context skips the finally clause.
OpenContextLeaks(t) ==
    /\ stage[t] = "opening"
    /\ \/ /\ holds[t] \in connected
          /\ stage' = [stage EXCEPT ![t] = "solving"]
          /\ UNCHANGED <<results, holds>>
       \/ /\ stage' = [stage EXCEPT ![t] = "none"]
          /\ results' = [results EXCEPT ![t] = "failed"]
          /\ holds' = [holds EXCEPT ![t] = NoBrowser]
    /\ UNCHANGED <<up, pool, waiting, connected, client>>

\* A context with the task's proxy, or one of proxies.txt.  A proxy that does
\* not parse, a context or a page that fails ends the task.
OpenContext(t) ==
    /\ stage[t] = "opening"
    /\ \/ /\ holds[t] \in connected
          /\ stage' = [stage EXCEPT ![t] = "solving"]
          /\ UNCHANGED results
       \/ /\ stage' = [stage EXCEPT ![t] = "closing"]
          /\ results' = [results EXCEPT ![t] = "failed"]
    /\ UNCHANGED <<up, pool, waiting, holds, connected, client>>

\* What the clicks on the widget can bring about: a token only while the browser
\* lives, and CAPTCHA_FAIL whatever they do.
Outcomes(t) == {"failed"} \cup {v \in {"solved"} : holds[t] \in connected}

\* Thirty looks at the token field, and up to ten rounds of clicks.
Solve(t) ==
    /\ stage[t] = "solving"
    /\ stage' = [stage EXCEPT ![t] = "closing"]
    /\ \E value \in Outcomes(t) : results' = [results EXCEPT ![t] = value]
    /\ UNCHANGED <<up, pool, waiting, holds, connected, client>>

\* Mutant: the browser that was used is not put back.
ReturnNothing(t) ==
    /\ stage[t] = "closing"
    /\ holds' = [holds EXCEPT ![t] = NoBrowser]
    /\ stage' = [stage EXCEPT ![t] = "none"]
    /\ UNCHANGED <<up, pool, waiting, connected, results, client>>

\* The finally clause: the context is closed, a live browser goes back.
ReturnBrowser(t) ==
    /\ stage[t] = "closing"
    /\ pool' = IF holds[t] \in connected THEN Append(pool, holds[t]) ELSE pool
    /\ holds' = [holds EXCEPT ![t] = NoBrowser]
    /\ stage' = [stage EXCEPT ![t] = "none"]
    /\ UNCHANGED <<up, waiting, connected, results, client>>

\* A browser process dies; nothing replaces it while the server lives.
Disconnect(b) ==
    /\ up /\ b \in connected
    /\ connected' = connected \ {b}
    /\ UNCHANGED <<up, pool, waiting, stage, holds, results, client>>

\* cleanup_old_results: only a pending entry carries a createTime, so only one
\* of those can be found to be seven days old.
Cleanup(t) ==
    /\ up /\ results[t] = "pending"
    /\ results' = [results EXCEPT ![t] = "none"]
    /\ UNCHANGED <<up, pool, waiting, stage, holds, connected, client>>

----------------------------------------------------------------------------
(* The client: _solve_local *)

\* GET /turnstile: the task is accepted and its coroutine asks for a browser;
\* the answer may come too late for the client, or there is no server.
Submit(t) ==
    /\ client[t] = "new"
    /\ \/ /\ up
          /\ results' = [results EXCEPT ![t] = "pending"]
          /\ stage' = [stage EXCEPT ![t] = "waiting"]
          /\ waiting' = Append(waiting, t)
          /\ \E outcome \in {"polling", "error"} : client' = [client EXCEPT ![t] = outcome]
       \/ /\ client' = [client EXCEPT ![t] = "error"]
          /\ UNCHANGED <<results, stage, waiting>>
    /\ UNCHANGED <<up, pool, holds, connected>>

\* GET /result: a token ends the wait.  A failed or unknown task is answered
\* with an error the client does not look at: it polls on.
Poll(t) ==
    /\ client[t] = "polling" /\ up /\ results[t] = "solved"
    /\ client' = [client EXCEPT ![t] = "token"]
    /\ UNCHANGED serverVars

GiveUp(t) ==
    /\ client[t] = "polling"
    /\ client' = [client EXCEPT ![t] = "error"]
    /\ UNCHANGED serverVars

ServerStep(t) == Take(t) \/ OpenContext(t) \/ Solve(t) \/ ReturnBrowser(t)

PoolStep ==
    \/ \E t \in Tasks : ServerStep(t) \/ Cleanup(t) \/ Submit(t) \/ Poll(t) \/ GiveUp(t)
    \/ \E b \in Browsers : Disconnect(b)
=============================================================================
