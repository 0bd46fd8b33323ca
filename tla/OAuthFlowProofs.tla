-------------------------- MODULE OAuthFlowProofs --------------------------
(***************************************************************************)
(* Proofs about OAuthFlow, for every set of callers and client ids and any *)
(* number of servers and callbacks: the port is given back, and a token is *)
(* stored with the client id it was issued to.                             *)
(***************************************************************************)
EXTENDS OAuthFlow, TLAPS

\* Something is about to set _server to None.
Watched == \E c \in Closers : closer[c].pc \in {"wait", "woken", "clear"}

\* What belongs to a server number that is not given out yet.
Unused == \A n \in Servers : n > created => thread[n].pc = "none" /\ closer[<<"timer", n>>].pc = "idle"

\* A call that goes on has a client id.
CallsKnown == \A t \in Callers : call[t].pc # "idle" => call[t].client \in Clients

\* A call that bound the port has a timer of its own to start, and a thread of
\* its own to make that no other call can start before.
OwnNumber ==
    /\ \A t \in Callers : call[t].pc \in {"launch", "start"} =>
        call[t].made \in Servers /\ closer[<<"timer", call[t].made>>].pc = "idle"
    /\ \A t \in Callers : call[t].pc = "launch" =>
        thread[call[t].made].pc = "none" /\ serving # call[t].made
    /\ \A t \in Callers : call[t].pc = "start" => serving \in Servers
    /\ \A t, u \in Callers :
        call[t].pc \in {"launch", "start"} /\ call[u].pc \in {"launch", "start"} /\ call[t].made = call[u].made
            => t = u

\* There is a client id from the first call on.
ClientKnown == client = None => page = {} /\ \A t \in Callers : call[t].pc = "idle"

\* A code came to a thread that was serving, from a page that was opened.
CallbacksKnown ==
    \A k \in Callbacks :
        /\ callback[k].pc \in {"received", "exchanged"} =>
            /\ callback[k].thread \in Servers
            /\ thread[callback[k].thread].pc \notin {"none", "starting"}
            /\ callback[k].page \in page
        /\ callback[k].pc = "exchanged" => callback[k].used \in Clients

\* A shutdown request to the manager's server is followed by its removal.
AskedIsWatched == server \in asked => Watched

\* A thread serves the manager's server, or will when it looks it up.
Served == \E m \in Servers :
    thread[m].pc = "starting" \/ (thread[m].pc = "serving" /\ thread[m].server = server)

\* The manager's server is served or about to be removed, or its call goes on
\* to make a thread, or to start the one that is kept by now.
ServerIsCurrent ==
    server # 0 =>
        \/ Watched
        \/ Served
        \/ \E t \in Callers : call[t].pc = "launch" /\ call[t].made = server
        \/ \E t \in Callers : call[t].pc = "start" /\ call[t].made = server /\ thread[serving].pc = "none"

\* As long as the manager's thread runs, the client id is the one the codes it
\* received are exchanged with.
ClientIsKept ==
    \A k \in Callbacks :
        callback[k].pc = "exchanged" /\ callback[k].thread = serving /\ Alive(serving) =>
            callback[k].used = client

IInv ==
    /\ TypeOK
    /\ Unused
    /\ CallsKnown
    /\ OwnNumber
    /\ ClientKnown
    /\ CallbacksKnown
    /\ AskedIsWatched
    /\ ServerIsCurrent
    /\ ClientIsKept

----------------------------------------------------------------------------

\* The beginning of a shutdown, whoever runs it: the caller waits for the
\* manager's server, if there is one.
LEMMA CloseBeginsType ==
  ASSUME TypeOK, NEW c \in Closers, CloseBegins(c)
  PROVE  /\ asked' \subseteq 1 .. created
         /\ closer' \in [Closers -> [pc : {"idle", "armed", "wait", "woken", "clear"}, server : 0 .. created]]
         /\ \A d \in Closers \ {c} : closer'[d] = closer[d]
         /\ closer'[c].pc \in {"idle", "wait", "woken"}
         /\ server = 0 => asked' = asked
         /\ server # 0 => closer'[c].pc \in {"wait", "woken"}
<1>1. CASE server = 0
  <2>1. closer' = [closer EXCEPT ![c] = [pc |-> "idle", server |-> 0]] /\ asked' = asked
    BY <1>1 DEF CloseBegins
  <2> QED
    BY <1>1, <2>1, OAuthAssumption DEF TypeOK
<1>2. CASE server # 0
  <2>1. PICK p \in {"wait", "woken"} : closer' = [closer EXCEPT ![c] = [pc |-> p, server |-> server]]
    BY <1>2 DEF CloseBegins
  <2>2. asked' = asked \cup {server}
    BY <1>2 DEF CloseBegins
  <2> QED
    BY <1>2, <2>1, <2>2, OAuthAssumption DEF TypeOK
<1> QED
  BY <1>1, <1>2

\* A shutdown that begins keeps what is said of closers, whatever becomes of
\* the callbacks.
LEMMA CloseBeginsKeeps ==
  ASSUME IInv, NEW c \in Closers, CloseBegins(c), c[1] = "timer" => closer[c].pc # "idle",
         UNCHANGED <<client, server, serving, created, down, thread, call, page>>
  PROVE  (Unused /\ CallsKnown /\ OwnNumber /\ ClientKnown /\ AskedIsWatched /\ ServerIsCurrent)'
<1>1. /\ \A d \in Closers \ {c} : closer'[d] = closer[d]
      /\ server = 0 => asked' = asked
      /\ server # 0 => closer'[c].pc \in {"wait", "woken"}
  BY CloseBeginsType DEF IInv
<1>2. server # 0 => Watched'
  BY <1>1 DEF Watched
<1>3. \A n \in Servers : <<"timer", n>> \in Closers /\ <<"timer", n>>[1] = "timer"
  BY DEF Closers
<1>4. \A n \in Servers : closer[<<"timer", n>>].pc = "idle" => closer'[<<"timer", n>>] = closer[<<"timer", n>>]
  BY <1>1, <1>3
<1>5. (Unused /\ CallsKnown /\ OwnNumber /\ ClientKnown)'
  BY <1>4 DEF IInv, Unused, CallsKnown, OwnNumber, ClientKnown
<1>6. AskedIsWatched'
  <2>1. CASE server = 0
    BY <2>1, <1>1 DEF IInv, TypeOK, AskedIsWatched
  <2>2. CASE server # 0
    BY <2>2, <1>2 DEF AskedIsWatched
  <2> QED
    BY <2>1, <2>2
<1>7. ServerIsCurrent'
  BY <1>2 DEF IInv, ServerIsCurrent
<1> QED
  BY <1>5, <1>6, <1>7

\* The initial states satisfy the invariant.
LEMMA InitIInv == Init => IInv
<1> SUFFICES ASSUME Init
             PROVE  IInv
  OBVIOUS
<1> USE OAuthAssumption DEF Init
<1>1. TypeOK
  BY DEF TypeOK, NoCall, NoCallback
<1>2. \A n \in Servers : <<"timer", n>> \in Closers
  BY DEF Closers
<1>3. Unused /\ CallsKnown /\ OwnNumber /\ ClientKnown /\ CallbacksKnown
  BY <1>2 DEF Unused, CallsKnown, OwnNumber, ClientKnown, CallbacksKnown, NoCall, NoCallback
<1>4. AskedIsWatched /\ ServerIsCurrent /\ ClientIsKept
  BY DEF AskedIsWatched, ServerIsCurrent, ClientIsKept, NoCallback
<1> QED
  BY <1>1, <1>3, <1>4 DEF IInv

----------------------------------------------------------------------------
(* start_authorization *)

\* A new client id is taken over only when the manager's thread has ended.
LEMMA ChecksKeeps ==
  ASSUME IInv, NEW t \in Callers, NEW c \in Clients, Checks(t, c)
  PROVE  IInv'
<1> USE OAuthAssumption
<1>1. /\ UNCHANGED <<server, serving, created, asked, down, thread, page, callback, closer, accounts>>
      /\ client' = c /\ call' = [call EXCEPT ![t] = [pc |-> "bind", client |-> c, made |-> 0]]
      /\ call[t].pc = "idle"
  BY DEF Checks
<1>2. TypeOK'
  BY <1>1 DEF IInv, TypeOK
<1>3. Watched' = Watched /\ Served' = Served
  BY <1>1 DEF Watched, Served
<1>4. \A u \in Callers : u # t => call'[u] = call[u]
  BY <1>1 DEF IInv, TypeOK
<1>5. call'[t].pc = "bind" /\ call'[t].client = c
  BY <1>1 DEF IInv, TypeOK
<1>6. (Unused /\ ClientKnown /\ CallbacksKnown)'
  BY <1>1 DEF IInv, Unused, ClientKnown, CallbacksKnown
<1>7. CallsKnown' /\ OwnNumber'
  <2>1. CallsKnown'
    BY <1>1, <1>4, <1>5 DEF IInv, CallsKnown
  <2>2. \A u \in Callers : call'[u].pc \in {"launch", "start"} => u # t /\ call'[u] = call[u]
    BY <1>4, <1>5
  <2>3. OwnNumber'
    BY <1>1, <2>2 DEF IInv, OwnNumber
  <2> QED
    BY <2>1, <2>3
<1>8. (AskedIsWatched /\ ServerIsCurrent)'
  <2>1. \A u \in Callers : call[u].pc \in {"launch", "start"} => call'[u] = call[u]
    BY <1>1, <1>4
  <2> QED
    BY <1>1, <1>3, <2>1 DEF IInv, AskedIsWatched, ServerIsCurrent
<1>9. ClientIsKept'
  <2>1. \A k \in Callbacks : callback[k].pc = "exchanged" => callback[k].thread \in Servers
    BY DEF IInv, CallbacksKnown
  <2>2. serving \in Servers => ~Alive(serving)
    BY DEF Checks, NoneInProgress
  <2> QED
    BY <1>1, <2>1, <2>2 DEF ClientIsKept, Alive
<1> QED
  BY <1>2, <1>6, <1>7, <1>8, <1>9 DEF IInv

\* A call whose port is taken.
LEMMA RefusedKeeps ==
  ASSUME IInv, NEW t \in Callers, Refused(t)
  PROVE  IInv'
<1> USE OAuthAssumption
<1>1. /\ UNCHANGED <<client, server, serving, created, asked, down, thread, page, callback, closer, accounts>>
      /\ call' = [call EXCEPT ![t] = [pc |-> "idle", client |-> None, made |-> 0]]
      /\ call[t].pc = "bind"
  BY DEF Refused, NoCall
<1>2. TypeOK'
  BY <1>1 DEF IInv, TypeOK
<1>3. Watched' = Watched /\ Served' = Served
  BY <1>1 DEF Watched, Served
<1>4. \A u \in Callers : u # t => call'[u] = call[u]
  BY <1>1 DEF IInv, TypeOK
<1>5. call'[t].pc = "idle"
  BY <1>1 DEF IInv, TypeOK
<1>6. (Unused /\ ClientKnown /\ CallbacksKnown /\ ClientIsKept)'
  BY <1>1, <1>4, <1>5 DEF IInv, Unused, ClientKnown, CallbacksKnown, ClientIsKept, Alive
<1>7. CallsKnown' /\ OwnNumber'
  <2>1. CallsKnown'
    BY <1>1, <1>4, <1>5 DEF IInv, CallsKnown
  <2>2. \A u \in Callers : call'[u].pc \in {"launch", "start"} => u # t /\ call'[u] = call[u]
    BY <1>4, <1>5
  <2>3. OwnNumber'
    BY <1>1, <2>2 DEF IInv, OwnNumber
  <2> QED
    BY <2>1, <2>3
<1>8. (AskedIsWatched /\ ServerIsCurrent)'
  <2>1. \A u \in Callers : call[u].pc \in {"launch", "start"} => call'[u] = call[u]
    BY <1>1, <1>4
  <2> QED
    BY <1>1, <1>3, <2>1 DEF IInv, AskedIsWatched, ServerIsCurrent
<1> QED
  BY <1>2, <1>6, <1>7, <1>8 DEF IInv

\* A call that binds takes the next number, of which there is nothing yet.
LEMMA BindsKeeps ==
  ASSUME IInv, NEW t \in Callers, Binds(t)
  PROVE  IInv'
<1> USE OAuthAssumption
<1> DEFINE n == created + 1
<1>1. /\ UNCHANGED <<client, serving, asked, down, thread, page, callback, closer, accounts>>
      /\ call[t].pc = "bind" /\ created < MaxServers /\ created' = n /\ server' = n
      /\ call' = [call EXCEPT ![t] = [pc |-> "launch", client |-> call[t].client, made |-> n]]
  BY DEF Binds
<1>2. created \in Nat /\ MaxServers \in Nat /\ n \in Servers /\ n > created
  BY <1>1 DEF IInv, TypeOK, Servers
<1>3. /\ \A u \in Callers : u # t => call'[u] = call[u]
      /\ call'[t].pc = "launch" /\ call'[t].made = n /\ call'[t].client = call[t].client
  BY <1>1 DEF IInv, TypeOK
<1>4. TypeOK'
  <2>1. call' \in [Callers -> [pc : {"idle", "bind", "launch", "start"}, client : Clients \cup {None}, made : 0 .. n]]
    BY <1>1, <1>2 DEF IInv, TypeOK
  <2>2. 0 .. created \subseteq 0 .. n /\ 1 .. created \subseteq 1 .. n /\ n \in 0 .. n /\ n \in 0 .. MaxServers
    BY <1>1, <1>2
  <2>3. thread' \in [Servers -> [pc : {"none", "starting", "serving", "stopped", "ended"}, server : 0 .. n]]
    BY <1>1, <2>2 DEF IInv, TypeOK
  <2>4. closer' \in [Closers -> [pc : {"idle", "armed", "wait", "woken", "clear"}, server : 0 .. n]]
    BY <1>1, <2>2 DEF IInv, TypeOK
  <2> QED
    BY <1>1, <2>1, <2>2, <2>3, <2>4 DEF IInv, TypeOK
<1>5. thread[n].pc = "none" /\ closer[<<"timer", n>>].pc = "idle"
  BY <1>2 DEF IInv, Unused
<1>6. Unused'
  BY <1>1, <1>2 DEF IInv, Unused, Servers
<1>7. (CallsKnown /\ ClientKnown /\ CallbacksKnown /\ ClientIsKept)'
  BY <1>1, <1>3 DEF IInv, CallsKnown, ClientKnown, CallbacksKnown, ClientIsKept, Alive
<1>8. OwnNumber'
  <2>1. \A u \in Callers : call[u].made # n
    BY <1>2 DEF IInv, TypeOK
  <2>2. serving # n
    BY <1>2 DEF IInv, TypeOK
  <2>3. \A u \in Callers : call'[u].pc \in {"launch", "start"} => u = t \/ call'[u] = call[u]
    BY <1>3
  <2>4. \A u, v \in Callers :
          call'[u].pc \in {"launch", "start"} /\ call'[v].pc \in {"launch", "start"} /\ call'[u].made = call'[v].made
              => u = v
    BY <1>3, <2>1, <2>3 DEF IInv, OwnNumber
  <2> QED
    BY <1>1, <1>2, <1>3, <1>5, <2>2, <2>3, <2>4 DEF IInv, OwnNumber
<1>9. (AskedIsWatched /\ ServerIsCurrent)'
  <2>1. n \notin asked
    BY <1>2 DEF IInv, TypeOK
  <2> QED
    BY <1>1, <1>3, <2>1 DEF AskedIsWatched, ServerIsCurrent
<1> QED
  BY <1>4, <1>6, <1>7, <1>8, <1>9 DEF IInv

\* A call that makes its thread, or finds the server cleared.
LEMMA LaunchesKeeps ==
  ASSUME IInv, NEW t \in Callers, Launches(t)
  PROVE  IInv'
<1> USE OAuthAssumption
<1> DEFINE n == call[t].made
<1>1. /\ UNCHANGED <<client, server, created, asked, down, thread, page, callback, closer, accounts>>
      /\ call[t].pc = "launch"
  BY DEF Launches
<1>2. n \in Servers /\ n <= created /\ n \in 0 .. created /\ thread[n].pc = "none" /\ serving # n
  <2>1. n \in Servers /\ thread[n].pc = "none" /\ serving # n
    BY <1>1 DEF IInv, OwnNumber
  <2> QED
    BY <2>1 DEF IInv, TypeOK, Servers
<1>3. Watched' = Watched /\ Served' = Served
  BY <1>1 DEF Watched, Served
<1>4. (Unused /\ AskedIsWatched)'
  BY <1>1, <1>3 DEF IInv, Unused, AskedIsWatched
<1>5. CASE server = 0
  <2>1. UNCHANGED serving /\ call' = [call EXCEPT ![t] = [pc |-> "idle", client |-> None, made |-> 0]]
    BY <1>5 DEF Launches, NoCall
  <2>2. TypeOK'
    BY <1>1, <2>1 DEF IInv, TypeOK
  <2>3. call'[t].pc = "idle" /\ \A u \in Callers : u # t => call'[u] = call[u]
    BY <2>1 DEF IInv, TypeOK
  <2>4. (CallsKnown /\ OwnNumber /\ ClientKnown /\ CallbacksKnown /\ ClientIsKept)'
    BY <1>1, <2>1, <2>3 DEF IInv, CallsKnown, OwnNumber, ClientKnown, CallbacksKnown, ClientIsKept, Alive
  <2>5. ServerIsCurrent'
    BY <1>1, <1>5 DEF ServerIsCurrent
  <2> QED
    BY <1>4, <2>2, <2>4, <2>5 DEF IInv
<1>6. CASE server # 0
  <2>1. serving' = n /\ call' = [call EXCEPT ![t].pc = "start"]
    BY <1>6 DEF Launches
  <2>2. TypeOK'
    BY <1>1, <1>2, <2>1 DEF IInv, TypeOK
  <2>3. /\ call'[t].pc = "start" /\ call'[t].made = n /\ call'[t].client = call[t].client
        /\ \A u \in Callers : u # t => call'[u] = call[u]
    BY <2>1 DEF IInv, TypeOK
  <2>4. (CallsKnown /\ ClientKnown /\ CallbacksKnown)'
    BY <1>1, <2>1, <2>3 DEF IInv, CallsKnown, ClientKnown, CallbacksKnown
  <2>5. OwnNumber'
    <3>1. \A u \in Callers : u # t /\ call[u].pc \in {"launch", "start"} => call[u].made # n
      BY <1>1 DEF IInv, OwnNumber
    <3> QED
      BY <1>1, <1>2, <2>1, <2>3, <3>1 DEF IInv, OwnNumber
  <2>6. ClientIsKept'
    BY <1>1, <1>2, <2>1 DEF ClientIsKept, Alive
  <2>7. ServerIsCurrent'
    <3>1. server' = server /\ thread'[serving'].pc = "none"
      BY <1>1, <1>2, <2>1
    <3> QED
      BY <1>3, <1>6, <2>3, <3>1 DEF IInv, ServerIsCurrent
  <2> QED
    BY <1>4, <2>2, <2>4, <2>5, <2>6, <2>7 DEF IInv
<1> QED
  BY <1>5, <1>6

\* A call that starts the thread that is kept and its own timer, or raises.
LEMMA StartsKeeps ==
  ASSUME IInv, NEW t \in Callers, Starts(t)
  PROVE  IInv'
<1> USE OAuthAssumption
<1> DEFINE m == call[t].made
           n == serving
<1>1. /\ UNCHANGED <<client, server, serving, created, asked, down, callback, accounts>>
      /\ call[t].pc = "start"
      /\ call' = [call EXCEPT ![t] = [pc |-> "idle", client |-> None, made |-> 0]]
  BY DEF Starts, NoCall
<1>2. m \in Servers /\ m <= created /\ closer[<<"timer", m>>].pc = "idle" /\ n \in Servers /\ n <= created
  BY <1>1 DEF IInv, OwnNumber, TypeOK
<1>3. /\ \A u \in Callers : u # t => call'[u] = call[u]
      /\ call'[t].pc = "idle"
  BY <1>1 DEF IInv, TypeOK
<1>4. <<"timer", m>> \in Closers
  BY <1>2 DEF Closers
<1>5. CASE thread[n].pc # "none"
  <2>1. UNCHANGED <<thread, closer, page>>
    BY <1>5 DEF Starts
  <2>2. TypeOK'
    BY <1>1, <2>1 DEF IInv, TypeOK
  <2>3. (Unused /\ CallsKnown /\ OwnNumber /\ ClientKnown /\ CallbacksKnown /\ ClientIsKept)'
    BY <1>1, <1>3, <2>1 DEF IInv, Unused, CallsKnown, OwnNumber, ClientKnown, CallbacksKnown, ClientIsKept, Alive
  <2>4. Watched' = Watched /\ Served' = Served
    BY <1>1, <2>1 DEF Watched, Served
  <2>5. (AskedIsWatched /\ ServerIsCurrent)'
    BY <1>1, <1>3, <1>5, <2>1, <2>4 DEF IInv, AskedIsWatched, ServerIsCurrent
  <2> QED
    BY <2>2, <2>3, <2>5 DEF IInv
<1>6. CASE thread[n].pc = "none"
  <2>1. /\ thread' = [thread EXCEPT ![n].pc = "starting"]
        /\ closer' = [closer EXCEPT ![<<"timer", m>>].pc = "armed"]
        /\ page' = page \cup {call[t].client}
    BY <1>6 DEF Starts, StartsTimer
  <2>2. call[t].client \in Clients
    BY <1>1 DEF IInv, CallsKnown
  <2>3. TypeOK'
    <3>1. thread' \in [Servers -> [pc : {"none", "starting", "serving", "stopped", "ended"}, server : 0 .. created]]
      BY <1>2, <2>1 DEF IInv, TypeOK
    <3>2. closer' \in [Closers -> [pc : {"idle", "armed", "wait", "woken", "clear"}, server : 0 .. created]]
      BY <2>1 DEF IInv, TypeOK
    <3>3. call' \in [Callers -> [pc : {"idle", "bind", "launch", "start"}, client : Clients \cup {None}, made : 0 .. created]]
      BY <1>1 DEF IInv, TypeOK
    <3> QED
      BY <1>1, <2>1, <2>2, <3>1, <3>2, <3>3 DEF IInv, TypeOK
  <2>4. /\ \A k \in Servers : k # n => thread'[k] = thread[k]
        /\ thread'[n].pc = "starting"
        /\ \A d \in Closers : d # <<"timer", m>> => closer'[d] = closer[d]
    BY <1>2, <1>4, <2>1 DEF IInv, TypeOK
  <2>5. Unused'
    <3> SUFFICES ASSUME NEW k \in Servers, k > created
                 PROVE  thread'[k].pc = "none" /\ closer'[<<"timer", k>>].pc = "idle"
      BY <1>1 DEF Unused
    <3>1. k # n /\ k # m /\ <<"timer", k>> \in Closers
      BY <1>2 DEF IInv, TypeOK, Servers, Closers
    <3> QED
      BY <2>4, <3>1 DEF IInv, Unused
  <2>6. OwnNumber'
    <3>1. \A u \in Callers : u # t /\ call[u].pc \in {"launch", "start"} => call[u].made # m
      BY <1>1 DEF IInv, OwnNumber
    <3>2. \A u \in Callers : call[u].pc = "launch" => call[u].made # n
      BY DEF IInv, OwnNumber
    <3>3. \A u \in Callers : call'[u].pc \in {"launch", "start"} => u # t /\ call'[u] = call[u]
      BY <1>3
    <3>4. \A u \in Callers : call[u].pc \in {"launch", "start"} /\ u # t =>
            closer'[<<"timer", call[u].made>>].pc = "idle"
      BY <2>4, <3>1 DEF IInv, OwnNumber, Closers
    <3>5. \A u \in Callers : call[u].pc = "launch" => thread'[call[u].made].pc = "none"
      BY <2>4, <3>2 DEF IInv, OwnNumber
    <3> QED
      BY <1>1, <3>3, <3>4, <3>5 DEF IInv, OwnNumber
  <2>7. (CallsKnown /\ ClientKnown)'
    BY <1>1, <1>3, <2>1 DEF IInv, CallsKnown, ClientKnown
  <2>8. CallbacksKnown'
    BY <1>1, <1>6, <2>1, <2>4 DEF IInv, CallbacksKnown
  <2>9. Watched => Watched'
    BY <1>2, <2>4 DEF Watched
  <2>10. AskedIsWatched'
    BY <1>1, <2>9 DEF IInv, AskedIsWatched
  <2>11. ServerIsCurrent'
    BY <1>2, <2>4 DEF ServerIsCurrent, Served
  <2>12. ClientIsKept'
    BY <1>1, <1>6 DEF IInv, CallbacksKnown, ClientIsKept
  <2> QED
    BY <2>3, <2>5, <2>6, <2>7, <2>8, <2>10, <2>11, <2>12 DEF IInv
<1> QED
  BY <1>5, <1>6

----------------------------------------------------------------------------
(* The serving threads *)

\* A thread that begins to serve the server of that moment, or finds none.
LEMMA ServesKeeps ==
  ASSUME IInv, NEW n \in Servers, Serves(n)
  PROVE  IInv'
<1> USE OAuthAssumption
<1>1. /\ UNCHANGED <<client, server, serving, created, asked, call, page, callback, closer, accounts>>
      /\ thread[n].pc = "starting"
  BY DEF Serves
<1>2. PICK r \in [pc : {"serving", "ended"}, server : 0 .. created] :
        /\ thread' = [thread EXCEPT ![n] = r]
        /\ server # 0 => r.pc = "serving" /\ r.server = server
  <2>1. CASE server = 0
    <3>1. thread' = [thread EXCEPT ![n] = [pc |-> "ended", server |-> thread[n].server]]
      BY <2>1 DEF Serves, IInv, TypeOK
    <3>2. thread[n].server \in 0 .. created
      BY DEF IInv, TypeOK
    <3> QED
      BY <2>1, <3>1, <3>2
  <2>2. CASE server # 0
    BY <2>2 DEF Serves, IInv, TypeOK
  <2> QED
    BY <2>1, <2>2
<1>3. /\ \A m \in Servers : m # n => thread'[m] = thread[m]
      /\ thread'[n] = r
  BY <1>2 DEF IInv, TypeOK
<1>4. TypeOK'
  <2>1. thread' \in [Servers -> [pc : {"none", "starting", "serving", "stopped", "ended"}, server : 0 .. created]]
    BY <1>2 DEF IInv, TypeOK
  <2>2. down' \subseteq 1 .. created
    BY DEF Serves, IInv, TypeOK
  <2> QED
    BY <1>1, <2>1, <2>2 DEF IInv, TypeOK
<1>5. Watched' = Watched
  BY <1>1 DEF Watched
<1>6. Unused'
  BY <1>1, <1>3 DEF IInv, Unused
<1>7. (CallsKnown /\ OwnNumber /\ ClientKnown)'
  BY <1>1, <1>3 DEF IInv, CallsKnown, OwnNumber, ClientKnown
<1>8. (CallbacksKnown /\ ClientIsKept)'
  <2>1. \A k \in Callbacks : callback[k].pc \in {"received", "exchanged"} =>
          callback[k].thread \in Servers /\ callback[k].thread # n
    BY <1>1 DEF IInv, CallbacksKnown
  <2> QED
    BY <1>1, <1>3, <2>1 DEF IInv, CallbacksKnown, ClientIsKept, Alive
<1>9. (AskedIsWatched /\ ServerIsCurrent)'
  <2>1. server # 0 => Served'
    BY <1>1, <1>2, <1>3 DEF Served
  <2> QED
    BY <1>1, <1>5, <2>1 DEF IInv, AskedIsWatched, ServerIsCurrent
<1> QED
  BY <1>4, <1>6, <1>7, <1>8, <1>9 DEF IInv

\* A code that arrives keeps its page and its thread.
LEMMA ReceivesCodeKeeps ==
  ASSUME IInv, NEW n \in Servers, NEW c \in Clients, NEW k \in Callbacks, ReceivesCode(n, c, k)
  PROVE  IInv'
<1> USE OAuthAssumption
<1>1. /\ UNCHANGED <<client, server, serving, created, asked, down, thread, call, page, closer, accounts>>
      /\ thread[n].pc = "serving" /\ c \in page
      /\ callback' = [callback EXCEPT ![k] = [pc |-> "received", page |-> c, used |-> None, thread |-> n]]
  BY DEF ReceivesCode, Handles
<1>2. n \in 0 .. MaxServers
  BY DEF Servers
<1>3. TypeOK'
  BY <1>1, <1>2 DEF IInv, TypeOK
<1>4. /\ \A j \in Callbacks : j # k => callback'[j] = callback[j]
      /\ callback'[k].pc = "received" /\ callback'[k].page = c /\ callback'[k].thread = n
  BY <1>1 DEF IInv, TypeOK
<1>5. (Unused /\ CallsKnown /\ OwnNumber /\ ClientKnown /\ AskedIsWatched /\ ServerIsCurrent)'
  BY <1>1 DEF IInv, Unused, CallsKnown, OwnNumber, ClientKnown, AskedIsWatched, ServerIsCurrent, Served, Watched
<1>6. (CallbacksKnown /\ ClientIsKept)'
  BY <1>1, <1>4 DEF IInv, CallbacksKnown, ClientIsKept, Alive
<1> QED
  BY <1>3, <1>5, <1>6 DEF IInv

\* A loop that ends was asked to, so the manager's server is about to be
\* removed if it was that one.
LEMMA StopsKeeps ==
  ASSUME IInv, NEW n \in Servers, Stops(n)
  PROVE  IInv'
<1> USE OAuthAssumption
<1> DEFINE s == thread[n].server
<1>1. UNCHANGED <<client, server, serving, created, call, page, callback, accounts>>
  BY DEF Stops
<1>2. s \in 0 .. created
  BY DEF IInv, TypeOK
<1>3. PICK r \in [pc : {"stopped", "ended"}, server : 0 .. created] :
        thread' = [thread EXCEPT ![n] = r]
  <2>1. CASE thread[n].pc = "stopped"
    BY <2>1, <1>2 DEF Stops, IInv, TypeOK
  <2>2. CASE thread[n].pc = "serving"
    <3>1. thread' = [thread EXCEPT ![n] = [pc |-> "stopped", server |-> s]]
      BY <2>2 DEF Stops, IInv, TypeOK
    <3> QED
      BY <3>1, <1>2
  <2> QED
    BY <2>1, <2>2 DEF Stops
<1>4. \A m \in Servers : m # n => thread'[m] = thread[m]
  BY <1>3 DEF IInv, TypeOK
<1>5. thread'[n] = r
  BY <1>3 DEF IInv, TypeOK
<1>6. thread[n].pc \in {"serving", "stopped"} /\ asked' \subseteq asked
  BY DEF Stops
<1>7. closer' \in [Closers -> [pc : {"idle", "armed", "wait", "woken", "clear"}, server : 0 .. created]]
  <2>1. CASE closer' = closer
    BY <2>1 DEF IInv, TypeOK
  <2>2. CASE closer' = [c \in Closers |-> IF closer[c].pc = "wait" /\ closer[c].server = s
                                         THEN [closer[c] EXCEPT !.pc = "woken"] ELSE closer[c]]
    <3>1. \A c \in Closers : closer[c] \in [pc : {"idle", "armed", "wait", "woken", "clear"}, server : 0 .. created]
      BY DEF IInv, TypeOK
    <3> QED
      BY <2>2, <3>1
  <2> QED
    BY <2>1, <2>2 DEF Stops
<1>16. ASSUME NEW c \in Closers
       PROVE  closer'[c] = closer[c] \/ (closer[c].pc = "wait" /\ closer'[c].pc = "woken")
  <2>1. closer[c] \in [pc : {"idle", "armed", "wait", "woken", "clear"}, server : 0 .. created]
    BY DEF IInv, TypeOK
  <2>2. CASE UNCHANGED closer
    BY <2>2
  <2>3. CASE closer' = [d \in Closers |-> IF closer[d].pc = "wait" /\ closer[d].server = s
                                         THEN [closer[d] EXCEPT !.pc = "woken"] ELSE closer[d]]
    BY <2>1, <2>3
  <2> QED
    BY <2>2, <2>3 DEF Stops
<1>8. TypeOK'
  <2>1. thread' \in [Servers -> [pc : {"none", "starting", "serving", "stopped", "ended"}, server : 0 .. created]]
    BY <1>3 DEF IInv, TypeOK
  <2>2. down' \subseteq 1 .. created
    BY DEF Stops, IInv, TypeOK
  <2> QED
    BY <1>1, <1>6, <1>7, <2>1, <2>2 DEF IInv, TypeOK
<1>9. Watched => Watched'
  BY <1>16 DEF Watched
<1>10. \A m \in Servers : closer[<<"timer", m>>].pc = "idle" => closer'[<<"timer", m>>].pc = "idle"
  BY <1>16 DEF Closers
<1>11. Unused' /\ OwnNumber'
  <2>1. \A m \in Servers : thread[m].pc = "none" => thread'[m].pc = "none"
    BY <1>4, <1>6
  <2> QED
    BY <1>1, <1>10, <2>1 DEF IInv, Unused, OwnNumber
<1>12. (CallsKnown /\ ClientKnown)'
  BY <1>1 DEF IInv, CallsKnown, ClientKnown
<1>13. (CallbacksKnown /\ ClientIsKept)'
  <2>1. \A m \in Servers : thread[m].pc \notin {"none", "starting"} => thread'[m].pc \notin {"none", "starting"}
    BY <1>4, <1>5
  <2>2. \A m \in Servers : Alive(m)' => Alive(m)
    BY <1>4, <1>6 DEF Alive
  <2> QED
    BY <1>1, <2>1, <2>2 DEF IInv, CallbacksKnown, ClientIsKept
<1>14. AskedIsWatched'
  BY <1>1, <1>6, <1>9 DEF IInv, AskedIsWatched
<1>15. ServerIsCurrent'
  <2>1. ASSUME Served
        PROVE  Watched' \/ Served'
    <3>1. PICK m \in Servers :
            thread[m].pc = "starting" \/ (thread[m].pc = "serving" /\ thread[m].server = server)
      BY <2>1 DEF Served
    <3>2. CASE m = n
      <4>1. server \in asked
        BY <3>1, <3>2, <1>6 DEF Stops
      <4> QED
        BY <4>1, <1>9 DEF IInv, AskedIsWatched
    <3>3. CASE m # n
      BY <1>1, <1>4, <3>1, <3>3 DEF Served
    <3> QED
      BY <3>2, <3>3
  <2>2. \A t \in Callers : call[t].pc = "start" /\ thread[serving].pc = "none" => thread'[serving].pc = "none"
    BY <1>4, <1>6 DEF IInv, OwnNumber
  <2> QED
    BY <1>1, <1>9, <2>1, <2>2 DEF IInv, ServerIsCurrent
<1> QED
  BY <1>8, <1>11, <1>12, <1>13, <1>14, <1>15 DEF IInv

----------------------------------------------------------------------------
(* _shutdown_server *)

\* A timer that fires and a request without a code begin a shutdown.
LEMMA ClosesKeep ==
  ASSUME IInv, NEW n \in Servers, TimerFires(n) \/ ReceivesOther(n)
  PROVE  IInv'
<1>1. PICK c \in {<<"timer", n>>, <<"thread", n>>} :
        CloseBegins(c) /\ (c = <<"timer", n>> => closer[c].pc = "armed")
  BY DEF TimerFires, ReceivesOther
<1>2. c \in Closers /\ (c[1] = "timer" => closer[c].pc # "idle")
  BY <1>1 DEF Closers
<1>3. UNCHANGED <<client, server, serving, created, down, thread, call, page, callback, accounts>>
  BY DEF TimerFires, ReceivesOther
<1>4. TypeOK'
  BY <1>1, <1>2, <1>3, CloseBeginsType DEF IInv, TypeOK
<1>5. (Unused /\ CallsKnown /\ OwnNumber /\ ClientKnown /\ AskedIsWatched /\ ServerIsCurrent)'
  BY <1>1, <1>2, <1>3, CloseBeginsKeeps
<1>6. (CallbacksKnown /\ ClientIsKept)'
  BY <1>3 DEF IInv, CallbacksKnown, ClientIsKept, Alive
<1> QED
  BY <1>4, <1>5, <1>6 DEF IInv

\* A shutdown that was waited for.
LEMMA CloseReturnsKeeps ==
  ASSUME IInv, NEW c \in Closers, CloseReturns(c)
  PROVE  IInv'
<1> USE OAuthAssumption
<1>1. /\ UNCHANGED <<client, server, serving, created, asked, down, thread, call, page, callback, accounts>>
      /\ closer' = [closer EXCEPT ![c] = [pc |-> "clear", server |-> 0]]
      /\ closer[c].pc = "woken"
  BY DEF CloseReturns
<1>2. closer'[c].pc = "clear" /\ \A d \in Closers \ {c} : closer'[d] = closer[d]
  BY <1>1 DEF IInv, TypeOK
<1>3. TypeOK'
  BY <1>1 DEF IInv, TypeOK
<1>4. Watched'
  BY <1>2 DEF Watched
<1>5. \A m \in Servers : closer[<<"timer", m>>].pc = "idle" => closer'[<<"timer", m>>].pc = "idle"
  BY <1>1, <1>2 DEF Closers
<1>6. (Unused /\ OwnNumber)'
  BY <1>1, <1>5 DEF IInv, Unused, OwnNumber
<1>7. (CallsKnown /\ ClientKnown /\ CallbacksKnown /\ ClientIsKept)'
  BY <1>1 DEF IInv, CallsKnown, ClientKnown, CallbacksKnown, ClientIsKept, Alive
<1> QED
  BY <1>3, <1>4, <1>6, <1>7 DEF IInv, AskedIsWatched, ServerIsCurrent

\* The manager's server is removed, whichever it is.
LEMMA CloseClearsKeeps ==
  ASSUME IInv, NEW c \in Closers, CloseClears(c)
  PROVE  IInv'
<1> USE OAuthAssumption
<1>1. /\ UNCHANGED <<client, serving, created, asked, down, thread, call, page, callback, accounts>>
      /\ closer' = [closer EXCEPT ![c].pc = "idle"] /\ server' = 0
      /\ closer[c].pc = "clear"
  BY DEF CloseClears, Cleared
<1>2. closer'[c].pc = "idle" /\ \A d \in Closers \ {c} : closer'[d] = closer[d]
  BY <1>1 DEF IInv, TypeOK
<1>3. TypeOK'
  BY <1>1 DEF IInv, TypeOK
<1>4. 0 \notin asked
  BY DEF IInv, TypeOK
<1>5. \A m \in Servers : closer[<<"timer", m>>].pc = "idle" => closer'[<<"timer", m>>].pc = "idle"
  BY <1>1, <1>2 DEF Closers
<1>6. (Unused /\ OwnNumber)'
  BY <1>1, <1>5 DEF IInv, Unused, OwnNumber
<1>7. (CallsKnown /\ ClientKnown /\ CallbacksKnown /\ ClientIsKept)'
  BY <1>1 DEF IInv, CallsKnown, ClientKnown, CallbacksKnown, ClientIsKept, Alive
<1> QED
  BY <1>1, <1>3, <1>4, <1>6, <1>7 DEF IInv, AskedIsWatched, ServerIsCurrent

----------------------------------------------------------------------------
(* _handle_callback *)

\* A code that is exchanged for the client id of that moment.
LEMMA ExchangesKeeps ==
  ASSUME IInv, NEW k \in Callbacks, Exchanges(k), callback[k].page = client,
         callback' = [callback EXCEPT ![k] = [pc |-> "exchanged", page |-> client, used |-> client,
                                              thread |-> callback[k].thread]],
         UNCHANGED <<asked, closer>>
  PROVE  IInv'
<1> USE OAuthAssumption
<1>1. /\ UNCHANGED <<client, server, serving, created, asked, down, thread, call, page, closer, accounts>>
      /\ callback[k].pc = "received"
  BY DEF Exchanges
<1>2. client \in Clients
  BY <1>1 DEF IInv, TypeOK, CallbacksKnown
<1>3. /\ \A j \in Callbacks : j # k => callback'[j] = callback[j]
      /\ callback'[k].pc = "exchanged" /\ callback'[k].used = client
      /\ callback'[k].page = client /\ callback'[k].thread = callback[k].thread
  BY DEF IInv, TypeOK
<1>4. TypeOK'
  BY <1>1, <1>2 DEF IInv, TypeOK
<1>5. (Unused /\ CallsKnown /\ OwnNumber /\ ClientKnown /\ AskedIsWatched /\ ServerIsCurrent)'
  BY <1>1 DEF IInv, Unused, CallsKnown, OwnNumber, ClientKnown, AskedIsWatched, ServerIsCurrent, Served, Watched
<1>6. CallbacksKnown'
  <2>1. client \in page /\ callback[k].thread \in Servers /\ thread[callback[k].thread].pc \notin {"none", "starting"}
    BY <1>1 DEF IInv, CallbacksKnown
  <2> QED
    BY <1>1, <1>2, <1>3, <2>1 DEF IInv, CallbacksKnown
<1>7. ClientIsKept'
  BY <1>1, <1>3 DEF IInv, ClientIsKept, Alive
<1> QED
  BY <1>4, <1>5, <1>6, <1>7 DEF IInv

\* A callback that ends shuts the server down.
LEMMA CallbackEndsKeeps ==
  ASSUME IInv, NEW k \in Callbacks, callback' = [callback EXCEPT ![k] = DoneCallback],
         CloseBegins(<<"callback", k>>), accounts' \subseteq [client : Clients, token : Clients],
         UNCHANGED <<client, server, serving, created, down, thread, call, page>>
  PROVE  IInv'
<1> USE OAuthAssumption
<1> DEFINE c == <<"callback", k>>
<1>1. c \in Closers /\ c[1] # "timer"
  BY DEF Closers
<1>2. TypeOK'
  BY <1>1, CloseBeginsType DEF IInv, TypeOK, DoneCallback
<1>3. (Unused /\ CallsKnown /\ OwnNumber /\ ClientKnown /\ AskedIsWatched /\ ServerIsCurrent)'
  BY <1>1, CloseBeginsKeeps
<1>4. \A j \in Callbacks : callback'[j] = callback[j] \/ callback'[j].pc = "done"
  BY DEF IInv, TypeOK, DoneCallback
<1>5. (CallbacksKnown /\ ClientIsKept)'
  BY <1>4 DEF IInv, CallbacksKnown, ClientIsKept, Alive
<1> QED
  BY <1>2, <1>3, <1>5 DEF IInv

\* What a callback stores is an account.
LEMMA CallbackStepKeeps ==
  ASSUME IInv, NEW k \in Callbacks, Exchanges(k) \/ Stores(k)
  PROVE  IInv'
<1>1. CASE Exchanges(k)
  BY <1>1, ExchangesKeeps, CallbackEndsKeeps DEF Exchanges, IInv, TypeOK
<1>2. CASE Stores(k)
  <2>1. callback[k].used \in Clients /\ client \in Clients
    BY <1>2 DEF Stores, IInv, TypeOK, CallbacksKnown, ClientKnown
  <2>2. accounts' \subseteq [client : Clients, token : Clients]
    BY <1>2, <2>1 DEF Stores, IInv, TypeOK
  <2> QED
    BY <1>2, <2>2, CallbackEndsKeeps DEF Stores
<1> QED
  BY <1>1, <1>2

----------------------------------------------------------------------------

\* The next-state relation keeps the invariant.
THEOREM NextIInv == IInv /\ [Next]_vars => IInv'
<1> SUFFICES ASSUME IInv, [Next]_vars
             PROVE  IInv'
  OBVIOUS
<1>1. CASE UNCHANGED vars
  BY <1>1 DEF vars, IInv, TypeOK, Unused, CallsKnown, OwnNumber, ClientKnown, CallbacksKnown,
              AskedIsWatched, ServerIsCurrent, ClientIsKept, Served, Watched, Alive
<1>2. CASE Next
  BY <1>2, ChecksKeeps, RefusedKeeps, BindsKeeps, LaunchesKeeps, StartsKeeps, ServesKeeps, ReceivesCodeKeeps, StopsKeeps,
     ClosesKeep, CloseReturnsKeeps, CloseClearsKeeps, CallbackStepKeeps DEF Next, CallStep, Closes
<1> QED
  BY <1>1, <1>2

\* The invariant of the callback servers and their callbacks.
THEOREM IInvInvariant == Spec => []IInv
<1>1. Init => IInv
  BY InitIInv
<1>2. IInv /\ [Next]_vars => IInv'
  BY NextIInv
<1> QED
  BY <1>1, <1>2, PTL DEF Spec

\* Type correctness of oauth.py's manager.
THEOREM TypeCorrect == Spec => []TypeOK
<1>1. IInv => TypeOK
  BY DEF IInv
<1> QED
  BY <1>1, IInvInvariant, PTL

\* The port of the callback server is taken only while something serves it,
\* is about to serve it or shuts it down.
THEOREM PortIsReleasedHolds == Spec => []PortIsReleased
<1>1. IInv => PortIsReleased
  <2> SUFFICES ASSUME IInv, NEW n \in 1 .. created, Bound(n)
               PROVE  \/ \E m \in Servers : Alive(m)
                      \/ \E t \in Callers : call[t].pc \in {"launch", "start"}
                      \/ \E c \in Closers : closer[c].pc \in {"wait", "woken", "clear"}
    BY DEF PortIsReleased, PortTaken
  <2>1. CASE server = n
    <3>1. server # 0 /\ server \in Servers
      BY <2>1, OAuthAssumption DEF IInv, TypeOK, Servers
    <3> QED
      BY <3>1 DEF IInv, ServerIsCurrent, Served, Watched, Alive
  <2>2. CASE \E m \in Servers : thread[m].pc \in {"serving", "stopped"} /\ thread[m].server = n
    BY <2>2 DEF Alive
  <2>3. CASE \E c \in Closers : closer[c].pc \in {"wait", "woken"} /\ closer[c].server = n
    BY <2>3
  <2> QED
    BY <2>1, <2>2, <2>3 DEF Bound
<1> QED
  BY <1>1, IInvInvariant, PTL

\* An account is stored with the client id its token was issued to, as long as
\* the thread that received the code runs and is the manager's.
THEOREM TokenMatchesClientHolds == Spec => TokenMatchesClient
<1> DEFINE Matches ==
      \A k \in Callbacks, a \in accounts' \ accounts :
        callback[k].pc = "exchanged" /\ callback'[k].pc = "done" /\ a.client # a.token =>
            ~Alive(callback[k].thread) \/ serving # callback[k].thread
<1>1. IInv /\ [Next]_vars => [Matches]_vars
  <2> SUFFICES ASSUME IInv, Next, NEW k \in Callbacks, NEW a \in accounts' \ accounts,
                      callback[k].pc = "exchanged", callback'[k].pc = "done", a.client # a.token
               PROVE  ~Alive(callback[k].thread) \/ serving # callback[k].thread
    OBVIOUS
  <2>1. PICK j \in Callbacks : Stores(j)
    BY DEF Next, CallStep, Closes, Refused, Binds, Launches, Starts, Checks, Serves, ReceivesOther, Stops, TimerFires,
           ReceivesCode, Exchanges, CloseReturns, CloseClears
  <2>2. j = k
    BY <2>1 DEF Stores, IInv, TypeOK
  <2>3. a = [client |-> client, token |-> callback[k].used]
    BY <2>1, <2>2 DEF Stores
  <2> QED
    BY <2>3 DEF IInv, ClientIsKept
<1> QED
  BY <1>1, IInvInvariant, PTL DEF Spec, TokenMatchesClient

=============================================================================
