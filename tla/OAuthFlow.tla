----------------------------- MODULE OAuthFlow -----------------------------
(***************************************************************************)
(* core/oauth.py: a Microsoft account is authorized in the operator's      *)
(* browser, which is sent back to a local callback server.  The manager    *)
(* keeps one server, one thread that serves it and one client id.  The     *)
(* server is shut down by the thread that handled a callback and by a      *)
(* timer that is never cancelled; a callback without a code shuts it down  *)
(* from the serving thread itself, which then waits for its own end.  Two  *)
(* calls that overlap make a thread and a timer each, but share _server    *)
(* and _server_thread: one may start the thread that the other made.       *)
(***************************************************************************)
EXTENDS Naturals, FiniteSets

CONSTANTS
    None,
    Callers,        \* threads that serve POST /api/oauth/start
    Clients,        \* client ids
    MaxServers,     \* bound: callback servers created, one by each call that binds
    MaxCallbacks    \* bound: codes received

ASSUME OAuthAssumption == None \notin Clients /\ {MaxServers, MaxCallbacks} \subseteq Nat

VARIABLES
    client,     \* _current_client_id
    server,     \* _server: its number, or 0
    serving,    \* _server_thread: its number, or 0
    created,    \* servers created
    asked,      \* servers with a shutdown request
    down,       \* servers of which a loop ended since the last one began
    thread,     \* the thread made by the call that created a server, and the server it serves
    call,       \* the calls of start_authorization
    page,       \* authorizations that were opened in the browser, by client id
    callback,   \* the threads that handle a code, and the thread that received it
    closer,     \* what runs _shutdown_server, and the server it waits for
    accounts    \* accounts stored: their client id, and the one their token is for

vars == <<client, server, serving, created, asked, down, thread, call, page, callback, closer, accounts>>

Servers == 1 .. MaxServers
Callbacks == 1 .. MaxCallbacks
Closers == {"timer", "thread", "callback"} \X (Servers \cup Callbacks)
NoCall == [pc |-> "idle", client |-> None, made |-> 0]
NoCallback == [pc |-> "none", page |-> None, used |-> None, thread |-> 0]
DoneCallback == [pc |-> "done", page |-> None, used |-> None, thread |-> 0]

TypeOK ==
    /\ client \in Clients \cup {None}
    /\ server \in 0 .. created /\ serving \in 0 .. created
    /\ created \in 0 .. MaxServers
    /\ asked \subseteq 1 .. created /\ down \subseteq 1 .. created
    /\ thread \in [Servers -> [pc : {"none", "starting", "serving", "stopped", "ended"}, server : 0 .. created]]
    /\ call \in [Callers -> [pc : {"idle", "bind", "launch", "start"}, client : Clients \cup {None}, made : 0 .. created]]
    /\ page \subseteq Clients
    /\ callback \in [Callbacks -> [pc : {"none", "received", "exchanged", "done"}, page : Clients \cup {None},
                                   used : Clients \cup {None}, thread : 0 .. MaxServers]]
    /\ closer \in [Closers -> [pc : {"idle", "armed", "wait", "woken", "clear"}, server : 0 .. created]]
    /\ accounts \subseteq [client : Clients, token : Clients]

Init ==
    /\ client = None
    /\ server = 0
    /\ serving = 0
    /\ created = 0
    /\ asked = {}
    /\ down = {}
    /\ thread = [n \in Servers |-> [pc |-> "none", server |-> 0]]
    /\ call = [t \in Callers |-> NoCall]
    /\ page = {}
    /\ callback = [k \in Callbacks |-> NoCallback]
    /\ closer = [c \in Closers |-> [pc |-> "idle", server |-> 0]]
    /\ accounts = {}

----------------------------------------------------------------------------
(* start_authorization *)

Alive(n) == thread[n].pc \in {"starting", "serving", "stopped"}

\* A server object that something refers to has its port: nothing closes the
\* socket but the end of the last reference.
Bound(n) ==
    \/ server = n
    \/ \E m \in Servers : thread[m].pc \in {"serving", "stopped"} /\ thread[m].server = n
    \/ \E c \in Closers : closer[c].pc \in {"wait", "woken"} /\ closer[c].server = n
PortTaken == \E n \in 1 .. created : Bound(n)

\* Mutant: whatever runs, the client id is replaced.
NeverInProgress == TRUE

\* No authorization is in progress.
NoneInProgress == serving \notin {n \in Servers : Alive(n)}

\* Under the lock: refused, or the client id is taken over.
Checks(t, c) ==
    /\ call[t].pc = "idle"
    /\ NoneInProgress
    /\ client' = c
    /\ call' = [call EXCEPT ![t] = [pc |-> "bind", client |-> c, made |-> 0]]
    /\ UNCHANGED <<server, serving, created, asked, down, thread, page, callback, closer, accounts>>

\* Without the lock.  The port is taken, by a server of ours or by a stranger.
Refused(t) ==
    /\ call[t].pc = "bind"
    /\ call' = [call EXCEPT ![t] = NoCall]
    /\ UNCHANGED <<client, server, serving, created, asked, down, thread, page, callback, closer, accounts>>

Binds(t) ==
    /\ call[t].pc = "bind" /\ ~PortTaken
    /\ created < MaxServers
    /\ created' = created + 1
    /\ server' = created + 1
    /\ call' = [call EXCEPT ![t] = [pc |-> "launch", client |-> @.client, made |-> created + 1]]
    /\ UNCHANGED <<client, serving, asked, down, thread, page, callback, closer, accounts>>

\* Mutant: the timer is made and not started.
StartsNoTimer(n) == UNCHANGED closer

StartsTimer(n) == closer' = [closer EXCEPT ![<<"timer", n>>].pc = "armed"]

\* The thread is made and kept, unless the server was cleared meanwhile and the
\* call raises.
Launches(t) ==
    LET n == call[t].made IN
    /\ call[t].pc = "launch"
    /\ \/ server # 0 /\ serving' = n /\ call' = [call EXCEPT ![t].pc = "start"]
       \/ server = 0 /\ call' = [call EXCEPT ![t] = NoCall] /\ UNCHANGED serving
    /\ UNCHANGED <<client, server, created, asked, down, thread, page, callback, closer, accounts>>

\* The thread that is kept by now starts, then the timer of this call, and the
\* page is opened; a thread that another call started raises.
Starts(t) ==
    /\ call[t].pc = "start"
    /\ \/ /\ thread[serving].pc = "none"
          /\ thread' = [thread EXCEPT ![serving].pc = "starting"]
          /\ StartsTimer(call[t].made)
          /\ page' = page \cup {call[t].client}
       \/ thread[serving].pc # "none" /\ UNCHANGED <<thread, closer, page>>
    /\ call' = [call EXCEPT ![t] = NoCall]
    /\ UNCHANGED <<client, server, serving, created, asked, down, callback, accounts>>

----------------------------------------------------------------------------
(* The serving threads *)

\* run_server looks _server up again, whichever it is by now.
Serves(n) ==
    /\ thread[n].pc = "starting"
    /\ \/ /\ server # 0
          /\ thread' = [thread EXCEPT ![n] = [pc |-> "serving", server |-> server]]
          /\ down' = down \ {server}
       \/ server = 0 /\ thread' = [thread EXCEPT ![n].pc = "ended"] /\ UNCHANGED down
    /\ UNCHANGED <<client, server, serving, created, asked, call, page, callback, closer, accounts>>

\* Its handler is in _shutdown_server.
Busy(n) == closer[<<"thread", n>>].pc \in {"wait", "woken", "clear"}

Handles(n) == thread[n].pc = "serving" /\ ~Busy(n) /\ thread[n].server \notin asked

\* do_GET with a code, of this page or of one opened before.
ReceivesCode(n, c, k) ==
    /\ Handles(n)
    /\ c \in page
    /\ callback[k].pc = "none" /\ \A j \in 1 .. k - 1 : callback[j].pc # "none"
    /\ callback' = [callback EXCEPT ![k] = [pc |-> "received", page |-> c, used |-> None, thread |-> n]]
    /\ UNCHANGED <<client, server, serving, created, asked, down, thread, call, page, closer, accounts>>

\* serve_forever takes the shutdown request, wakes whoever waits for it and
\* returns; the thread ends a moment later.
Stops(n) ==
    LET s == thread[n].server IN
    /\ \/ /\ thread[n].pc = "serving" /\ ~Busy(n) /\ s \in asked
          /\ thread' = [thread EXCEPT ![n].pc = "stopped"]
          /\ asked' = asked \ {s}
          /\ down' = down \cup {s}
          /\ closer' = [c \in Closers |-> IF closer[c].pc = "wait" /\ closer[c].server = s
                                         THEN [closer[c] EXCEPT !.pc = "woken"] ELSE closer[c]]
       \/ /\ thread[n].pc = "stopped"
          /\ thread' = [thread EXCEPT ![n] = [pc |-> "ended", server |-> 0]]
          /\ UNCHANGED <<asked, down, closer>>
    /\ UNCHANGED <<client, server, serving, created, call, page, callback, accounts>>

----------------------------------------------------------------------------
(* _shutdown_server, in a timer's, a callback's or a serving thread *)

\* Nothing to shut down, or the loop is asked to end and waited for unless one
\* ended before.
CloseBegins(c) ==
    IF server = 0
    THEN closer' = [closer EXCEPT ![c] = [pc |-> "idle", server |-> 0]] /\ UNCHANGED asked
    ELSE /\ closer' = [closer EXCEPT ![c] = [pc |-> IF server \in down THEN "woken" ELSE "wait", server |-> server]]
         /\ asked' = asked \cup {server}

\* The timer of an authorization, OAUTH_TIMEOUT after its start; its thread
\* may be late.
TimerFires(n) ==
    /\ closer[<<"timer", n>>].pc = "armed"
    /\ CloseBegins(<<"timer", n>>)
    /\ UNCHANGED <<client, server, serving, created, down, thread, call, page, callback, accounts>>

\* do_GET without a code, an error or any other request of the browser: the
\* handler shuts the server down, and waits within the loop it waits for.
ReceivesOther(n) ==
    /\ Handles(n)
    /\ CloseBegins(<<"thread", n>>)
    /\ UNCHANGED <<client, server, serving, created, down, thread, call, page, callback, accounts>>

CloseReturns(c) ==
    /\ closer[c].pc = "woken"
    /\ closer' = [closer EXCEPT ![c] = [pc |-> "clear", server |-> 0]]
    /\ UNCHANGED <<client, server, serving, created, asked, down, thread, call, page, callback, accounts>>

\* Mutant: the server is shut down and kept.
KeepsServer == server

\* What _server is set to after its shutdown, whichever server it is by now.
Cleared == 0

CloseClears(c) ==
    /\ closer[c].pc = "clear"
    /\ server' = Cleared
    /\ closer' = [closer EXCEPT ![c].pc = "idle"]
    /\ UNCHANGED <<client, serving, created, asked, down, thread, call, page, callback, accounts>>

----------------------------------------------------------------------------
(* _handle_callback *)

\* The code is exchanged for the client id of that moment.  The token service
\* takes a code only with the client it was issued to, and may fail anyway.
Exchanges(k) ==
    /\ callback[k].pc = "received"
    /\ \/ /\ callback[k].page = client
          /\ callback' = [callback EXCEPT ![k] = [pc |-> "exchanged", page |-> client, used |-> client, thread |-> @.thread]]
          /\ UNCHANGED <<asked, closer>>
       \/ /\ callback' = [callback EXCEPT ![k] = DoneCallback]
          /\ CloseBegins(<<"callback", k>>)
    /\ UNCHANGED <<client, server, serving, created, down, thread, call, page, accounts>>

\* upsert_account, with the client id of this moment; or the user's address
\* could not be read.
Stores(k) ==
    /\ callback[k].pc = "exchanged"
    /\ \/ accounts' = accounts \cup {[client |-> client, token |-> callback[k].used]}
       \/ UNCHANGED accounts
    /\ callback' = [callback EXCEPT ![k] = DoneCallback]
    /\ CloseBegins(<<"callback", k>>)
    /\ UNCHANGED <<client, server, serving, created, down, thread, call, page>>

----------------------------------------------------------------------------

CallStep(t) == Refused(t) \/ Binds(t) \/ Launches(t) \/ Starts(t)
Closes == \E c \in Closers : CloseReturns(c) \/ CloseClears(c)

Next ==
    \/ \E t \in Callers : CallStep(t) \/ \E c \in Clients : Checks(t, c)
    \/ \E n \in Servers :
        \/ Serves(n) \/ ReceivesOther(n) \/ Stops(n) \/ TimerFires(n)
        \/ \E c \in Clients, k \in Callbacks : ReceivesCode(n, c, k)
    \/ \E k \in Callbacks : Exchanges(k) \/ Stores(k)
    \/ Closes

\* Threads that can go on do, and timers fire.  Nothing makes the operator
\* start an authorization or the browser come back.
Fairness ==
    /\ \A t \in Callers : WF_vars(Launches(t) \/ Starts(t))
    /\ \A n \in Servers : WF_vars(Serves(n) \/ Stops(n)) /\ WF_vars(TimerFires(n))
    /\ WF_vars(Closes)

Spec == Init /\ [][Next]_vars /\ Fairness

----------------------------------------------------------------------------
(* Properties *)

\* An account is stored with the client id its token was issued to, as long as
\* the thread that received its code runs and is the manager's: the client id
\* only changes between two authorizations.
TokenMatchesClient ==
    [][\A k \in Callbacks, a \in accounts' \ accounts :
        callback[k].pc = "exchanged" /\ callback'[k].pc = "done" /\ a.client # a.token =>
            ~Alive(callback[k].thread) \/ serving # callback[k].thread]_vars

\* The port is taken only while its server is served, started or shut down: a
\* server that ended never makes the next authorization fail.
PortIsReleased ==
    PortTaken =>
        \/ \E n \in Servers : Alive(n)
        \/ \E t \in Callers : call[t].pc \in {"launch", "start"}
        \/ \E c \in Closers : closer[c].pc \in {"wait", "woken", "clear"}

\* Every callback server ends by its timeout, unless a request without a code
\* left its thread waiting for itself, or two shutdowns of the server before it
\* cleared the manager's reference to this one.
ServerEnds ==
    \A n \in Servers :
        (thread[n].pc = "serving") ~> (thread[n].pc # "serving" \/ Busy(n) \/ server # thread[n].server)
=============================================================================
