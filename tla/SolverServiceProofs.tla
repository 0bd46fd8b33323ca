------------------------ MODULE SolverServiceProofs ------------------------
(***************************************************************************)
(* Proofs about SolverService, for every set of calling threads, processes *)
(* and ports, every limit of failures and calls, every load of the server  *)
(* and every finite set of browsers.  The server's part says where a       *)
(* browser is, between the pool and the coroutines.  What a thread inside  *)
(* the manager's lock may rely on and what becomes of a child depend on    *)
(* each other, so they are proved together; the server's part is carried   *)
(* over the start and the end of the process that serves.                  *)
(***************************************************************************)
EXTENDS SolverService, FiniteSetTheorems, SequenceTheorems, TLAPS

----------------------------------------------------------------------------
(* The server: SolverPool *)

Working == {"opening", "solving", "closing"}

\* Without a server there is no coroutine.
NothingWhileDown ==
    ~up => pool = <<>> /\ waiting = <<>> /\ \A t \in Tasks : stage[t] = "none"

\* A coroutine holds a browser from the moment it took it to the finally clause.
WorkersHold == \A t \in Tasks : stage[t] \in Working <=> holds[t] # NoBrowser

\* A coroutine is queued once, and only while it waits.
QueuedOnce ==
    /\ \A i \in 1 .. Len(waiting) : stage[waiting[i]] = "waiting"
    /\ \A i, j \in 1 .. Len(waiting) : waiting[i] = waiting[j] => i = j

\* There is no coroutine before its client submitted the task.
NoneBeforeSubmit == \A t \in Tasks : client[t] = "new" => stage[t] = "none"

\* No browser is in two places.
OnePlace ==
    /\ \A i, j \in 1 .. Len(pool) : pool[i] = pool[j] => i = j
    /\ \A i \in 1 .. Len(pool), t \in Tasks : pool[i] # holds[t]
    /\ \A t, u \in Tasks : holds[t] = holds[u] /\ holds[t] # NoBrowser => t = u

\* A browser that lives is somewhere.
SomePlace ==
    \A b \in connected : (\E i \in 1 .. Len(pool) : pool[i] = b) \/ (\E t \in Tasks : holds[t] = b)

PoolInv ==
    /\ PoolTypeOK
    /\ NothingWhileDown
    /\ WorkersHold
    /\ QueuedOnce
    /\ NoneBeforeSubmit
    /\ OnePlace
    /\ SomePlace

----------------------------------------------------------------------------

\* The pool is filled with every browser, each once.
LEMMA FullPool ==
  LET full == SetToSeq(Browsers) IN
    /\ full \in Seq(Browsers)
    /\ \A i, j \in 1 .. Len(full) : full[i] = full[j] => i = j
    /\ \A b \in Browsers : \E i \in 1 .. Len(full) : full[i] = b
<1> DEFINE n == Cardinality(Browsers)
           full == SetToSeq(Browsers)
<1>1. n \in Nat /\ ExistsBijection(1 .. n, Browsers)
  BY FS_CardinalityType, SolverPoolAssumption
<1>2. \E f \in [1 .. n -> Browsers] : IsInjective(f)
  BY <1>1 DEF ExistsBijection, Bijection, Injection
<1>3. full \in [1 .. n -> Browsers] /\ IsInjective(full)
  BY <1>2 DEF SetToSeq
<1>4. full \in Seq(Browsers) /\ Len(full) = n
  BY <1>1, <1>3, LenProperties
<1>5. full \in Surjection(1 .. n, Browsers)
  <2>1. IsFiniteSet(1 .. n) /\ Cardinality(1 .. n) = n
    BY <1>1, FS_Interval
  <2> QED
    BY <2>1, <1>3, FS_Injection, SolverPoolAssumption DEF Injection
<1> QED
  BY <1>3, <1>4, <1>5 DEF IsInjective, Surjection

----------------------------------------------------------------------------

\* The pool of a server that starts, or of none, meets the invariant.
LEMMA PoolInitInv ==
  ASSUME NEW serving \in BOOLEAN, PoolInit(serving)
  PROVE  PoolInv
<1> USE SolverPoolAssumption
<1>1. PoolTypeOK
  BY FullPool, EmptySeq DEF PoolInit, PoolTypeOK, Stages, Results
<1>2. NothingWhileDown /\ WorkersHold /\ QueuedOnce /\ NoneBeforeSubmit
  BY DEF PoolInit, NothingWhileDown, WorkersHold, QueuedOnce, NoneBeforeSubmit, Working
<1>3. OnePlace /\ SomePlace
  BY FullPool, EmptySeq DEF PoolInit, OnePlace, SomePlace
<1> QED
  BY <1>1, <1>2, <1>3 DEF PoolInv

\* A server that starts finds no coroutine and no browser of the one before.
LEMMA ServerStartsKeeps ==
  ASSUME PoolInv, ServerStarts
  PROVE  PoolInv'
<1> USE SolverPoolAssumption
<1>1. PoolTypeOK'
  BY FullPool DEF PoolInv, ServerStarts, PoolTypeOK
<1>2. (NothingWhileDown /\ WorkersHold /\ QueuedOnce /\ NoneBeforeSubmit)'
  BY DEF PoolInv, ServerStarts, NothingWhileDown, WorkersHold, QueuedOnce, NoneBeforeSubmit
<1>3. \A t \in Tasks : holds'[t] = NoBrowser
  BY DEF PoolInv, ServerStarts, NothingWhileDown, WorkersHold, Working, PoolTypeOK
<1>4. (OnePlace /\ SomePlace)'
  BY <1>3, FullPool, ElementOfSeq DEF ServerStarts, OnePlace, SomePlace
<1> QED
  BY <1>1, <1>2, <1>4 DEF PoolInv

\* A server that ends takes everything with it.
LEMMA ServerEndsKeeps ==
  ASSUME PoolInv, ServerEnds
  PROVE  PoolInv'
<1> USE SolverPoolAssumption
<1>1. PoolTypeOK'
  BY EmptySeq DEF PoolInv, ServerEnds, NoServer, PoolTypeOK, Stages, Results
<1>2. (NothingWhileDown /\ WorkersHold /\ QueuedOnce /\ NoneBeforeSubmit /\ OnePlace /\ SomePlace)'
  BY DEF ServerEnds, NoServer, NothingWhileDown, WorkersHold, QueuedOnce, NoneBeforeSubmit,
         OnePlace, SomePlace, Working
<1> QED
  BY <1>1, <1>2 DEF PoolInv

\* The first coroutine in the queue takes the first browser of the pool.
LEMMA TakeKeeps ==
  ASSUME PoolInv, NEW t \in Tasks, Take(t)
  PROVE  PoolInv'
<1> USE SolverPoolAssumption
<1>1. /\ waiting' \in Seq(Tasks) /\ Len(waiting') = Len(waiting) - 1 /\ Len(waiting) \in Nat \ {0}
      /\ \A i \in 1 .. Len(waiting') : waiting'[i] = waiting[i + 1]
      /\ t = waiting[1]
  BY HeadTailProperties, EmptySeq DEF PoolInv, PoolTypeOK, Take
<1>2. /\ pool' \in Seq(Browsers) /\ Len(pool') = Len(pool) - 1 /\ Len(pool) \in Nat \ {0}
      /\ \A i \in 1 .. Len(pool') : pool'[i] = pool[i + 1]
      /\ Head(pool) = pool[1] /\ pool[1] \in Browsers
  BY HeadTailProperties, EmptySeq DEF PoolInv, PoolTypeOK, Take
<1>3. stage[t] = "waiting" /\ holds[t] = NoBrowser
  BY <1>1 DEF PoolInv, QueuedOnce, WorkersHold, Working
<1>4. \A i \in 1 .. Len(waiting') : waiting'[i] # t /\ stage[waiting'[i]] = "waiting"
  BY <1>1 DEF PoolInv, QueuedOnce
<1>5. PoolTypeOK'
  BY <1>1, <1>2 DEF PoolInv, PoolTypeOK, Take, Stages, Results
<1>6. /\ stage' \in [Tasks -> Stages]
      /\ \A u \in Tasks : u # t => stage'[u] = stage[u] /\ holds'[u] = holds[u]
      /\ stage'[t] = IF pool[1] \in connected THEN "opening" ELSE "none"
      /\ holds'[t] = IF pool[1] \in connected THEN pool[1] ELSE NoBrowser
  BY <1>2, <1>3, <1>5 DEF PoolInv, PoolTypeOK, Take
<1>7. QueuedOnce'
  <2>1. \A i \in 1 .. Len(waiting') : waiting'[i] \in Tasks
    BY <1>1, ElementOfSeq
  <2>2. \A i \in 1 .. Len(waiting') : stage'[waiting'[i]] = "waiting"
    BY <2>1, <1>4, <1>6
  <2>3. \A i, j \in 1 .. Len(waiting') : waiting'[i] = waiting'[j] => i = j
    BY <1>1 DEF PoolInv, QueuedOnce
  <2> QED
    BY <2>2, <2>3 DEF QueuedOnce
<1>8. (NothingWhileDown /\ WorkersHold /\ NoneBeforeSubmit)'
  BY <1>2, <1>3, <1>6 DEF PoolInv, Take, NothingWhileDown, WorkersHold, NoneBeforeSubmit, Working
<1>9. OnePlace'
  <2>1. \A i, j \in 1 .. Len(pool') : pool'[i] = pool'[j] => i = j
    <3> SUFFICES ASSUME NEW i \in 1 .. Len(pool'), NEW j \in 1 .. Len(pool'), pool'[i] = pool'[j]
                 PROVE  i = j
      OBVIOUS
    <3>1. i + 1 \in 1 .. Len(pool) /\ j + 1 \in 1 .. Len(pool) /\ pool[i + 1] = pool[j + 1]
      BY <1>2
    <3> QED
      BY <3>1 DEF PoolInv, OnePlace
  <2>2. \A i \in 1 .. Len(pool') : pool'[i] # pool[1] /\ pool'[i] \in Browsers
    BY <1>2, ElementOfSeq DEF PoolInv, OnePlace
  <2>3. \A i \in 1 .. Len(pool'), u \in Tasks : pool'[i] # holds'[u]
    BY <1>2, <1>6, <2>2 DEF PoolInv, OnePlace
  <2>4. \A u \in Tasks : holds[u] # pool[1]
    BY <1>2 DEF PoolInv, OnePlace
  <2>5. \A u, v \in Tasks : holds'[u] = holds'[v] /\ holds'[u] # NoBrowser => u = v
    BY <1>6, <2>4 DEF PoolInv, OnePlace
  <2> QED
    BY <2>1, <2>3, <2>5 DEF OnePlace
<1>10. SomePlace'
  <2> SUFFICES ASSUME NEW b \in connected
               PROVE  (\E i \in 1 .. Len(pool') : pool'[i] = b) \/ (\E u \in Tasks : holds'[u] = b)
    BY DEF Take, SomePlace
  <2>1. b # NoBrowser
    BY DEF PoolInv, PoolTypeOK
  <2>2. CASE \E i \in 1 .. Len(pool) : pool[i] = b
    <3>1. PICK i \in 1 .. Len(pool) : pool[i] = b
      BY <2>2
    <3>2. CASE i = 1
      BY <3>1, <3>2, <1>6
    <3>3. CASE i # 1
      <4>1. i - 1 \in 1 .. Len(pool') /\ pool'[i - 1] = b
        BY <3>1, <3>3, <1>2
      <4> QED
        BY <4>1
    <3> QED
      BY <3>2, <3>3
  <2>3. CASE \E u \in Tasks : holds[u] = b
    BY <2>1, <2>3, <1>3, <1>6
  <2> QED
    BY <2>2, <2>3 DEF PoolInv, SomePlace
<1> QED
  BY <1>5, <1>7, <1>8, <1>9, <1>10 DEF PoolInv

\* Between the take and the finally clause the coroutine keeps its browser.
LEMMA WorkKeeps ==
  ASSUME PoolInv, NEW t \in Tasks, OpenContext(t) \/ Solve(t)
  PROVE  PoolInv'
<1>1. /\ stage[t] \in Working /\ stage'[t] \in Working
      /\ stage' \in [Tasks -> Stages] /\ results' \in [Tasks -> Results]
      /\ \A u \in Tasks : u # t => stage'[u] = stage[u]
      /\ UNCHANGED <<up, pool, waiting, holds, connected, client>>
  BY DEF PoolInv, PoolTypeOK, OpenContext, Solve, Outcomes, Working, Stages, Results
<1>2. (PoolTypeOK /\ OnePlace /\ SomePlace)'
  BY <1>1 DEF PoolInv, PoolTypeOK, OnePlace, SomePlace
<1>3. (NothingWhileDown /\ WorkersHold /\ NoneBeforeSubmit)'
  BY <1>1 DEF PoolInv, NothingWhileDown, WorkersHold, NoneBeforeSubmit, Working
<1>4. QueuedOnce'
  <2>1. \A i \in 1 .. Len(waiting) : waiting[i] \in Tasks
    BY ElementOfSeq DEF PoolInv, PoolTypeOK
  <2> QED
    BY <1>1, <2>1 DEF PoolInv, QueuedOnce, Working
<1> QED
  BY <1>2, <1>3, <1>4 DEF PoolInv

\* The finally clause gives back a browser that nobody else has.
LEMMA ReturnKeeps ==
  ASSUME PoolInv, NEW t \in Tasks, ReturnBrowser(t)
  PROVE  PoolInv'
<1> USE SolverPoolAssumption
<1> DEFINE b == holds[t]
<1>1. b \in Browsers /\ stage[t] = "closing"
  BY DEF PoolInv, PoolTypeOK, WorkersHold, Working, ReturnBrowser
<1>2. /\ pool' \in Seq(Browsers) /\ Len(pool) \in Nat
      /\ Len(pool') = IF b \in connected THEN Len(pool) + 1 ELSE Len(pool)
      /\ \A i \in 1 .. Len(pool) : pool'[i] = pool[i]
      /\ b \in connected => pool'[Len(pool) + 1] = b
  BY <1>1, AppendProperties, LenProperties DEF PoolInv, PoolTypeOK, ReturnBrowser
<1>3. /\ stage' \in [Tasks -> Stages] /\ holds' \in [Tasks -> Browsers \cup {NoBrowser}]
      /\ \A u \in Tasks : u # t => stage'[u] = stage[u] /\ holds'[u] = holds[u]
      /\ stage'[t] = "none" /\ holds'[t] = NoBrowser
      /\ UNCHANGED <<up, waiting, connected, results, client>>
  BY DEF PoolInv, PoolTypeOK, ReturnBrowser, Stages
<1>4. PoolTypeOK'
  BY <1>2, <1>3 DEF PoolInv, PoolTypeOK
<1>5. (NothingWhileDown /\ WorkersHold /\ NoneBeforeSubmit)'
  BY <1>1, <1>3 DEF PoolInv, NothingWhileDown, WorkersHold, NoneBeforeSubmit, Working
<1>6. QueuedOnce'
  <2>1. \A i \in 1 .. Len(waiting) : waiting[i] \in Tasks
    BY ElementOfSeq DEF PoolInv, PoolTypeOK
  <2> QED
    BY <1>1, <1>3, <2>1 DEF PoolInv, QueuedOnce
<1>7. \A i \in 1 .. Len(pool) : pool[i] # b /\ pool[i] \in Browsers
  BY ElementOfSeq DEF PoolInv, PoolTypeOK, OnePlace
<1>8. OnePlace'
  <2>1. \A i \in 1 .. Len(pool') : i \in 1 .. Len(pool) \/ (i = Len(pool) + 1 /\ b \in connected)
    BY <1>2
  <2>2. \A i, j \in 1 .. Len(pool') : pool'[i] = pool'[j] => i = j
    BY <2>1, <1>2, <1>7 DEF PoolInv, OnePlace
  <2>3. \A u \in Tasks : u # t => holds[u] # b
    BY <1>1 DEF PoolInv, OnePlace
  <2>4. \A i \in 1 .. Len(pool'), u \in Tasks : pool'[i] # holds'[u]
    BY <2>1, <2>3, <1>1, <1>2, <1>3, <1>7 DEF PoolInv, OnePlace
  <2>5. \A u, v \in Tasks : holds'[u] = holds'[v] /\ holds'[u] # NoBrowser => u = v
    BY <1>3 DEF PoolInv, OnePlace
  <2> QED
    BY <2>2, <2>4, <2>5 DEF OnePlace
<1>9. SomePlace'
  <2> SUFFICES ASSUME NEW c \in connected
               PROVE  (\E i \in 1 .. Len(pool') : pool'[i] = c) \/ (\E u \in Tasks : holds'[u] = c)
    BY <1>3 DEF SomePlace
  <2>1. CASE c = b
    <3>1. Len(pool) + 1 \in 1 .. Len(pool') /\ pool'[Len(pool) + 1] = c
      BY <2>1, <1>2
    <3> QED
      BY <3>1
  <2>2. CASE c # b
    <3>1. CASE \E i \in 1 .. Len(pool) : pool[i] = c
      BY <3>1, <1>2
    <3>2. CASE \E u \in Tasks : holds[u] = c
      BY <3>2, <2>2, <1>3
    <3> QED
      BY <3>1, <3>2 DEF PoolInv, SomePlace
  <2> QED
    BY <2>1, <2>2
<1> QED
  BY <1>4, <1>5, <1>6, <1>8, <1>9 DEF PoolInv

\* A task is accepted once, so its coroutine is queued once.
LEMMA SubmitKeeps ==
  ASSUME PoolInv, NEW t \in Tasks, Submit(t)
  PROVE  PoolInv'
<1> USE SolverPoolAssumption
<1>1. CASE /\ up
           /\ results' = [results EXCEPT ![t] = "pending"]
           /\ stage' = [stage EXCEPT ![t] = "waiting"]
           /\ waiting' = Append(waiting, t)
           /\ \E outcome \in {"polling", "error"} : client' = [client EXCEPT ![t] = outcome]
  <2>1. stage[t] = "none" /\ UNCHANGED <<up, pool, holds, connected>>
    BY DEF PoolInv, NoneBeforeSubmit, Submit
  <2>2. /\ waiting' \in Seq(Tasks) /\ Len(waiting) \in Nat /\ Len(waiting') = Len(waiting) + 1
        /\ \A i \in 1 .. Len(waiting) : waiting'[i] = waiting[i]
        /\ waiting'[Len(waiting) + 1] = t
    BY <1>1, AppendProperties, LenProperties DEF PoolInv, PoolTypeOK
  <2>3. /\ stage' \in [Tasks -> Stages]
        /\ \A u \in Tasks : u # t => stage'[u] = stage[u] /\ client'[u] = client[u]
        /\ stage'[t] = "waiting" /\ client'[t] # "new"
    BY <1>1 DEF PoolInv, PoolTypeOK, Stages
  <2>4. PoolTypeOK'
    BY <1>1, <2>1, <2>2, <2>3 DEF PoolInv, PoolTypeOK, Results
  <2>5. (NothingWhileDown /\ WorkersHold /\ NoneBeforeSubmit)'
    BY <1>1, <2>1, <2>3 DEF PoolInv, NothingWhileDown, WorkersHold, NoneBeforeSubmit, Working
  <2>6. QueuedOnce'
    <3>1. \A i \in 1 .. Len(waiting) : waiting[i] \in Tasks /\ waiting[i] # t
      BY <2>1, ElementOfSeq DEF PoolInv, PoolTypeOK, QueuedOnce
    <3>2. \A i \in 1 .. Len(waiting') : i \in 1 .. Len(waiting) \/ i = Len(waiting) + 1
      BY <2>2
    <3>3. \A i \in 1 .. Len(waiting') : stage'[waiting'[i]] = "waiting"
      BY <3>1, <3>2, <2>2, <2>3 DEF PoolInv, QueuedOnce
    <3>4. \A i, j \in 1 .. Len(waiting') : waiting'[i] = waiting'[j] => i = j
      BY <3>1, <3>2, <2>2 DEF PoolInv, QueuedOnce
    <3> QED
      BY <3>3, <3>4 DEF QueuedOnce
  <2>7. (OnePlace /\ SomePlace)'
    BY <2>1 DEF PoolInv, OnePlace, SomePlace
  <2> QED
    BY <2>4, <2>5, <2>6, <2>7 DEF PoolInv
<1>2. CASE client' = [client EXCEPT ![t] = "error"] /\ UNCHANGED <<results, stage, waiting>>
  <2>1. PoolTypeOK'
    BY <1>2 DEF PoolInv, PoolTypeOK, Submit
  <2>2. (NothingWhileDown /\ WorkersHold /\ QueuedOnce /\ NoneBeforeSubmit /\ OnePlace /\ SomePlace)'
    BY <1>2 DEF PoolInv, PoolTypeOK, Submit, NothingWhileDown, WorkersHold, QueuedOnce,
                NoneBeforeSubmit, OnePlace, SomePlace
  <2> QED
    BY <2>1, <2>2 DEF PoolInv
<1> QED
  BY <1>1, <1>2 DEF Submit

\* The polls of a client, the cleanup of results and the death of a browser
\* move no browser.
LEMMA OtherPoolStepsKeep ==
  ASSUME PoolInv,
         \/ \E t \in Tasks : Cleanup(t) \/ Poll(t) \/ GiveUp(t)
         \/ \E b \in Browsers : Disconnect(b)
  PROVE  PoolInv'
<1>1. ASSUME NEW t \in Tasks, Cleanup(t)
      PROVE  PoolInv'
  <2>1. PoolTypeOK'
    BY <1>1 DEF PoolInv, PoolTypeOK, Cleanup, Results
  <2>2. (NothingWhileDown /\ WorkersHold /\ QueuedOnce /\ NoneBeforeSubmit /\ OnePlace /\ SomePlace)'
    BY <1>1 DEF PoolInv, Cleanup, NothingWhileDown, WorkersHold, QueuedOnce, NoneBeforeSubmit,
                OnePlace, SomePlace
  <2> QED
    BY <2>1, <2>2 DEF PoolInv
<1>2. ASSUME NEW t \in Tasks, Poll(t) \/ GiveUp(t)
      PROVE  PoolInv'
  <2>1. PoolTypeOK'
    BY <1>2 DEF PoolInv, PoolTypeOK, Poll, GiveUp, serverVars
  <2>2. (NothingWhileDown /\ WorkersHold /\ QueuedOnce /\ OnePlace /\ SomePlace)'
    BY <1>2 DEF PoolInv, Poll, GiveUp, serverVars, NothingWhileDown, WorkersHold, QueuedOnce,
                OnePlace, SomePlace
  <2>3. NoneBeforeSubmit'
    BY <1>2 DEF PoolInv, PoolTypeOK, Poll, GiveUp, serverVars, NoneBeforeSubmit
  <2> QED
    BY <2>1, <2>2, <2>3 DEF PoolInv
<1>3. ASSUME NEW b \in Browsers, Disconnect(b)
      PROVE  PoolInv'
  <2>1. PoolTypeOK'
    BY <1>3 DEF PoolInv, PoolTypeOK, Disconnect
  <2>2. (NothingWhileDown /\ WorkersHold /\ QueuedOnce /\ NoneBeforeSubmit /\ OnePlace /\ SomePlace)'
    BY <1>3 DEF PoolInv, Disconnect, NothingWhileDown, WorkersHold, QueuedOnce, NoneBeforeSubmit,
                OnePlace, SomePlace
  <2> QED
    BY <2>1, <2>2 DEF PoolInv
<1> QED
  BY <1>1, <1>2, <1>3

\* Every step of the server or of a client keeps the pool's invariant.
THEOREM PoolStepKeeps == PoolInv /\ PoolStep => PoolInv'
BY TakeKeeps, WorkKeeps, ReturnKeeps, SubmitKeeps, OtherPoolStepsKeep DEF PoolStep, ServerStep

----------------------------------------------------------------------------
(* The manager: SolverManager *)

Inside == {"wait", "drain", "reap", "sweep"}

\* Whoever is past the lock holds it.
LockOwner == \A t \in Callers : call[t].pc \in Inside => lock = t

\* The child a thread waits for, or whose stderr it reads, is _proc, and no
\* signal was sent to it.
WaitingChild ==
    \A t \in Callers : call[t].pc \in {"wait", "drain"} =>
        proc \in Children /\ owned /\ life[proc] \in {"booting", "online", "dead"}

\* The child stop() is about to forget was signalled, or had ended.
ReapedChild ==
    \A t \in Callers : call[t].pc = "reap" => proc = None \/ life[proc] \notin {"booting", "online"}

ManagerInv ==
    /\ ManagerTypeOK
    /\ LockOwner
    /\ WaitingChild
    /\ ReapedChild
    /\ LostOnlyToANewStart

----------------------------------------------------------------------------

\* A call that moves to another place remains a call.
LEMMA MovedCall ==
  ASSUME ManagerTypeOK, NEW t \in Callers, NEW p \in Pcs
  PROVE  [call EXCEPT ![t].pc = p] \in [Callers -> Calls]
BY DEF ManagerTypeOK, Calls

\* A call that returns leaves its thread idle, and the lock free.
LEMMA ReturnedCall ==
  ASSUME ManagerTypeOK, NEW t \in Callers, Return(t)
  PROVE  call' \in [Callers -> Calls] /\ lock' \in Callers \cup {None}
<1>1. Idle \in Calls
  BY DEF Idle, Calls, Pcs
<1> QED
  BY <1>1 DEF ManagerTypeOK, Return

\* The counter of failures stays within its limit.
LEMMA CountedFailure ==
  ASSUME ManagerTypeOK
  PROVE  0 \in 0 .. MaxFailures /\ OneMore(failures) \in 0 .. MaxFailures
BY SolverManagerAssumption DEF ManagerTypeOK, OneMore

----------------------------------------------------------------------------

\* Whatever an earlier run left behind, the application starts within the
\* invariant.
LEMMA InitManagerInv == Init => ManagerInv
<1> SUFFICES ASSUME Init PROVE ManagerInv
  OBVIOUS
<1> USE SolverManagerAssumption
<1>1. ManagerTypeOK
  <2>1. PICK old \in SUBSET Children :
          /\ life = [c \in Children |-> IF c \in old THEN "online" ELSE "unborn"]
          /\ listen = [p \in Ports |-> IF old # {} /\ p = Home THEN CHOOSE c \in old : TRUE ELSE None]
          /\ displaced = old
    BY DEF Init, ManagerInit
  <2>2. old # {} => (CHOOSE c \in old : TRUE) \in Children
    BY <2>1
  <2>3. life \in [Children -> Lives] /\ listen \in [Ports -> Children \cup {None}]
    BY <2>1, <2>2 DEF Lives
  <2>4. Idle \in Calls
    BY DEF Idle, Calls, Pcs
  <2>5. call \in [Callers -> Calls]
    BY <2>4 DEF Init, ManagerInit
  <2>6. calls \in [Callers -> 0 .. MaxCalls] /\ failures \in 0 .. MaxFailures
    BY DEF Init, ManagerInit
  <2> QED
    BY <2>1, <2>3, <2>5, <2>6 DEF Init, ManagerInit, ManagerTypeOK
<1>2. LockOwner /\ WaitingChild /\ ReapedChild
  BY DEF Init, ManagerInit, LockOwner, WaitingChild, ReapedChild, Inside, Idle
<1>3. LostOnlyToANewStart
  BY DEF Init, ManagerInit, LostOnlyToANewStart
<1> QED
  BY <1>1, <1>2, <1>3 DEF ManagerInv

\* A call that begins, and the return of one that is let go of, do not enter
\* the lock and touch no process.
LEMMA RequestKeeps ==
  ASSUME ManagerInv, NEW t \in Callers, Request(t)
  PROVE  ManagerInv'
<1> USE SolverManagerAssumption
<1>1. CASE BootStarts(t)
  <2>1. ManagerTypeOK'
    BY <1>1 DEF ManagerInv, BootStarts, NewCall, BeginStart, Configure, ManagerTypeOK, Calls, Pcs, osVars
  <2>2. (LockOwner /\ WaitingChild /\ ReapedChild /\ LostOnlyToANewStart)'
    BY <1>1 DEF ManagerInv, BootStarts, NewCall, BeginStart, ManagerTypeOK, Calls, osVars,
                LockOwner, WaitingChild, ReapedChild, LostOnlyToANewStart, Inside
  <2> QED
    BY <2>1, <2>2 DEF ManagerInv
<1>2. CASE CallStop(t)
  <2>1. ManagerTypeOK'
    <3>1. [Idle EXCEPT !.pc = "stop", !.kill = (t # Exit)] \in Calls
      BY DEF Idle, Calls, Pcs
    <3>2. call' \in [Callers -> Calls]
      BY <1>2, <3>1 DEF ManagerInv, CallStop, ManagerTypeOK
    <3> QED
      BY <1>2, <3>2 DEF ManagerInv, CallStop, NewCall, ManagerTypeOK, osVars
  <2>2. (LockOwner /\ WaitingChild /\ ReapedChild /\ LostOnlyToANewStart)'
    BY <1>2 DEF ManagerInv, CallStop, NewCall, Idle, ManagerTypeOK, Calls, osVars,
                LockOwner, WaitingChild, ReapedChild, LostOnlyToANewStart, Inside
  <2> QED
    BY <2>1, <2>2 DEF ManagerInv
<1>3. ASSUME NEW e \in Ports \cup {Remote}, CallStart(t, e)
      PROVE  ManagerInv'
  <2>1. ManagerTypeOK'
    BY <1>3 DEF ManagerInv, CallStart, NewCall, BeginStart, Configure, ManagerTypeOK, Calls, Pcs, osVars
  <2>2. (LockOwner /\ WaitingChild /\ ReapedChild /\ LostOnlyToANewStart)'
    BY <1>3 DEF ManagerInv, CallStart, NewCall, BeginStart, ManagerTypeOK, Calls, osVars,
                LockOwner, WaitingChild, ReapedChild, LostOnlyToANewStart, Inside
  <2> QED
    BY <2>1, <2>2 DEF ManagerInv
<1>4. ASSUME NEW e \in Ports \cup {Remote}, CallRestart(t, e)
      PROVE  ManagerInv'
  <2>1. ManagerTypeOK'
    <3>1. [Idle EXCEPT !.pc = "stop", !.kill = TRUE, !.restart = TRUE,
                       !.port = IF e \in Ports THEN e ELSE None] \in Calls
      BY DEF Idle, Calls, Pcs
    <3>2. call' \in [Callers -> Calls]
      BY <1>4, <3>1 DEF ManagerInv, CallRestart, ManagerTypeOK
    <3> QED
      BY <1>4, <3>2, CountedFailure DEF ManagerInv, CallRestart, NewCall, ManagerTypeOK, osVars
  <2>2. (LockOwner /\ WaitingChild /\ ReapedChild /\ LostOnlyToANewStart)'
    BY <1>4 DEF ManagerInv, CallRestart, NewCall, Idle, ManagerTypeOK, Calls, osVars,
                LockOwner, WaitingChild, ReapedChild, LostOnlyToANewStart, Inside
  <2> QED
    BY <2>1, <2>2 DEF ManagerInv
<1> QED
  BY <1>1, <1>2, <1>3, <1>4 DEF Request

\* A start, up to the child it spawns: the lock was free, so nobody waits.
LEMMA StartKeeps ==
  ASSUME ManagerInv, NEW t \in Callers, StartStep(t)
  PROVE  ManagerInv'
<1> USE SolverManagerAssumption
<1>1. CASE StartRefused(t)
  <2>1. ManagerTypeOK'
    <3>1. failures' \in 0 .. MaxFailures
      BY <1>1, CountedFailure DEF ManagerInv, StartRefused
    <3> QED
      BY <1>1, <3>1, ReturnedCall DEF ManagerInv, StartRefused, ManagerTypeOK, osVars
  <2>2. (LockOwner /\ WaitingChild /\ ReapedChild /\ LostOnlyToANewStart)'
    BY <1>1 DEF ManagerInv, StartRefused, Return, Idle, ManagerTypeOK, Calls, osVars,
                LockOwner, WaitingChild, ReapedChild, LostOnlyToANewStart, Inside
  <2> QED
    BY <2>1, <2>2 DEF ManagerInv
<1>2. CASE SpawnFails(t)
  <2>1. ManagerTypeOK'
    <3>1. call' \in [Callers -> Calls] /\ lock' \in Callers \cup {None}
      BY <1>2, ReturnedCall DEF ManagerInv, SpawnFails
    <3>2. displaced' \subseteq Children
      BY <1>2 DEF ManagerInv, SpawnFails, Displaced, ManagerTypeOK
    <3> QED
      BY <1>2, <3>1, <3>2, CountedFailure DEF ManagerInv, SpawnFails, ManagerTypeOK, osVars
  <2>2. (LockOwner /\ WaitingChild /\ ReapedChild)'
    BY <1>2 DEF ManagerInv, SpawnFails, Return, Idle, ManagerTypeOK, Calls, osVars,
                LockOwner, WaitingChild, ReapedChild, Inside
  <2>3. LostOnlyToANewStart'
    BY <1>2 DEF ManagerInv, SpawnFails, Displaced, Alive, osVars, LostOnlyToANewStart
  <2> QED
    BY <2>1, <2>2, <2>3 DEF ManagerInv
<1>3. ASSUME NEW c \in Children, Spawn(t, c)
      PROVE  ManagerInv'
  <2>1. ManagerTypeOK'
    <3>1. call' \in [Callers -> Calls]
      BY <1>3, MovedCall DEF ManagerInv, Spawn, Pcs
    <3>2. portOf' \in [Children -> Ports \cup {None}]
      BY <1>3 DEF ManagerInv, Spawn, ManagerTypeOK, Calls
    <3>3. life' \in [Children -> Lives] /\ displaced' \subseteq Children
      BY <1>3 DEF ManagerInv, Spawn, Displaced, ManagerTypeOK, Lives
    <3> QED
      BY <1>3, <3>1, <3>2, <3>3 DEF ManagerInv, Spawn, ManagerTypeOK
  <2>2. \A u \in Callers : call[u].pc \notin Inside
    BY <1>3 DEF ManagerInv, Spawn, LockOwner
  <2>3. /\ call' = [call EXCEPT ![t].pc = "wait"]
        /\ lock' = t /\ proc' = c /\ owned' /\ life' = [life EXCEPT ![c] = "booting"]
    BY <1>3 DEF Spawn
  <2>4. \A u \in Callers : u # t => call'[u].pc \notin Inside
    BY <2>2, <2>3 DEF ManagerInv, ManagerTypeOK
  <2>5. call'[t].pc = "wait" /\ life'[proc'] = "booting" /\ proc' \in Children
    BY <2>3 DEF ManagerInv, ManagerTypeOK, Calls
  <2>6. (LockOwner /\ WaitingChild /\ ReapedChild)'
    BY <2>3, <2>4, <2>5 DEF LockOwner, WaitingChild, ReapedChild, Inside
  <2>7. LostOnlyToANewStart'
    BY <1>3 DEF ManagerInv, ManagerTypeOK, Spawn, Displaced, Alive, LostOnlyToANewStart
  <2> QED
    BY <2>1, <2>6, <2>7 DEF ManagerInv
<1> QED
  BY <1>1, <1>2, <1>3 DEF StartStep

\* The end of a wait for the child, and of the read of its stderr.
LEMMA WaitKeeps ==
  ASSUME ManagerInv, NEW t \in Callers, WaitStep(t) \/ DrainReturns(t)
  PROVE  ManagerInv'
<1> USE SolverManagerAssumption
<1>1. CASE WaitExited(t)
  <2>1. ManagerTypeOK'
    <3>1. call' \in [Callers -> Calls] /\ lock' \in Callers \cup {None}
      BY <1>1, ReturnedCall DEF ManagerInv, WaitExited
    <3> QED
      BY <1>1, <3>1, CountedFailure DEF ManagerInv, WaitExited, ManagerTypeOK, osVars
  <2>2. (LockOwner /\ WaitingChild /\ ReapedChild)'
    BY <1>1 DEF ManagerInv, WaitExited, Return, Idle, ManagerTypeOK, Calls, osVars,
                LockOwner, WaitingChild, ReapedChild, Inside
  <2>3. LostOnlyToANewStart'
    BY <1>1 DEF ManagerInv, WaitExited, Alive, osVars, LostOnlyToANewStart
  <2> QED
    BY <2>1, <2>2, <2>3 DEF ManagerInv
<1>2. CASE WaitOnline(t)
  <2>1. ManagerTypeOK'
    BY <1>2, ReturnedCall, CountedFailure DEF ManagerInv, WaitOnline, ManagerTypeOK, osVars
  <2>2. (LockOwner /\ WaitingChild /\ ReapedChild /\ LostOnlyToANewStart)'
    BY <1>2 DEF ManagerInv, WaitOnline, Return, Idle, ManagerTypeOK, Calls, osVars,
                LockOwner, WaitingChild, ReapedChild, LostOnlyToANewStart, Inside
  <2> QED
    BY <2>1, <2>2 DEF ManagerInv
<1>3. CASE WaitTimeout(t)
  <2>1. ManagerTypeOK'
    <3>1. call' \in [Callers -> Calls]
      BY <1>3, MovedCall DEF ManagerInv, WaitTimeout, Pcs
    <3> QED
      BY <1>3, <3>1, CountedFailure DEF ManagerInv, WaitTimeout, ManagerTypeOK, osVars
  <2>2. (LockOwner /\ WaitingChild /\ ReapedChild /\ LostOnlyToANewStart)'
    BY <1>3 DEF ManagerInv, WaitTimeout, ManagerTypeOK, Calls, osVars,
                LockOwner, WaitingChild, ReapedChild, LostOnlyToANewStart, Inside
  <2> QED
    BY <2>1, <2>2 DEF ManagerInv
<1>4. CASE DrainReturns(t)
  <2>1. ManagerTypeOK'
    BY <1>4, ReturnedCall DEF ManagerInv, DrainReturns, ManagerTypeOK, osVars
  <2>2. (LockOwner /\ WaitingChild /\ ReapedChild /\ LostOnlyToANewStart)'
    BY <1>4 DEF ManagerInv, DrainReturns, Return, Idle, ManagerTypeOK, Calls, osVars,
                LockOwner, WaitingChild, ReapedChild, LostOnlyToANewStart, Inside
  <2> QED
    BY <2>1, <2>2 DEF ManagerInv
<1> QED
  BY <1>1, <1>2, <1>3, <1>4 DEF WaitStep

\* A stop: it signals a child nobody waits for, and forgets it after that.
LEMMA StopKeeps ==
  ASSUME ManagerInv, NEW t \in Callers, StopStep(t) \/ RestartStarts(t)
  PROVE  ManagerInv'
<1> USE SolverManagerAssumption
<1>1. CASE StopAcquire(t)
  <2>1. ManagerTypeOK'
    BY <1>1 DEF ManagerInv, StopAcquire, ManagerTypeOK, Calls, Pcs, Lives
  <2>2. \A u \in Callers : u # t => call'[u].pc \notin Inside
    BY <1>1 DEF ManagerInv, StopAcquire, ManagerTypeOK, LockOwner
  <2>3. call'[t].pc = "reap" /\ lock' = t /\ proc' = proc
    BY <1>1 DEF ManagerInv, StopAcquire, ManagerTypeOK, Calls
  <2>4. proc' = None \/ life'[proc'] \notin {"booting", "online"}
    BY <1>1 DEF ManagerInv, StopAcquire, ManagerTypeOK, Alive
  <2>5. (LockOwner /\ WaitingChild /\ ReapedChild)'
    BY <2>2, <2>3, <2>4 DEF LockOwner, WaitingChild, ReapedChild, Inside
  <2>6. LostOnlyToANewStart'
    BY <1>1 DEF ManagerInv, ManagerTypeOK, StopAcquire, LostOnlyToANewStart
  <2> QED
    BY <2>1, <2>5, <2>6 DEF ManagerInv
<1>2. CASE Reap(t)
  <2>1. ManagerTypeOK'
    <3>1. call' \in [Callers -> Calls]
      BY <1>2, MovedCall DEF ManagerInv, Reap, Pcs
    <3> QED
      BY <1>2, <3>1 DEF ManagerInv, Reap, ManagerTypeOK, osVars
  <2>2. (LockOwner /\ WaitingChild /\ ReapedChild)'
    BY <1>2 DEF ManagerInv, Reap, ManagerTypeOK, Calls, osVars, LockOwner, WaitingChild, ReapedChild, Inside
  <2>3. LostOnlyToANewStart'
    BY <1>2 DEF ManagerInv, Reap, osVars, ReapedChild, LostOnlyToANewStart
  <2> QED
    BY <2>1, <2>2, <2>3 DEF ManagerInv
<1>3. CASE Sweep(t)
  <2>1. life' \in [Children -> Lives] /\ \A c \in Children : life'[c] \in {life[c], "dying"}
    BY <1>3 DEF ManagerInv, Sweep, KillByPort, ManagerTypeOK, Lives
  <2>2. ManagerTypeOK'
    BY <1>3, <2>1 DEF ManagerInv, Sweep, ManagerTypeOK, Calls, Pcs, Idle
  <2>3. \A u \in Callers : call'[u].pc \notin Inside
    BY <1>3 DEF ManagerInv, Sweep, ManagerTypeOK, Calls, LockOwner, Inside, Idle
  <2>4. (LockOwner /\ WaitingChild /\ ReapedChild)'
    BY <2>3 DEF LockOwner, WaitingChild, ReapedChild, Inside
  <2>5. LostOnlyToANewStart'
    BY <1>3, <2>1 DEF ManagerInv, Sweep, LostOnlyToANewStart
  <2> QED
    BY <2>2, <2>4, <2>5 DEF ManagerInv
<1>4. CASE RestartStarts(t)
  <2>1. ManagerTypeOK'
    BY <1>4 DEF ManagerInv, RestartStarts, BeginStart, Configure, ManagerTypeOK, Calls, Pcs, osVars
  <2>2. (LockOwner /\ WaitingChild /\ ReapedChild /\ LostOnlyToANewStart)'
    BY <1>4 DEF ManagerInv, RestartStarts, BeginStart, ManagerTypeOK, Calls, osVars,
                LockOwner, WaitingChild, ReapedChild, LostOnlyToANewStart, Inside
  <2> QED
    BY <2>1, <2>2 DEF ManagerInv
<1> QED
  BY <1>1, <1>2, <1>3, <1>4 DEF StopStep

\* Processes go online, write and end as they like; the application ends.
LEMMA EnvironmentKeeps ==
  ASSUME ManagerInv, ProcessStep \/ Ends
  PROVE  ManagerInv'
<1> USE SolverManagerAssumption
<1>1. ASSUME NEW c \in Children, Bind(c)
      PROVE  ManagerInv'
  <2>1. ManagerTypeOK'
    BY <1>1 DEF ManagerInv, Bind, appVars, ManagerTypeOK, Lives
  <2>2. (LockOwner /\ WaitingChild /\ ReapedChild /\ LostOnlyToANewStart)'
    BY <1>1 DEF ManagerInv, Bind, appVars, ManagerTypeOK, LockOwner, WaitingChild, ReapedChild,
                LostOnlyToANewStart
  <2> QED
    BY <2>1, <2>2 DEF ManagerInv
<1>2. ASSUME NEW c \in Children, Exits(c)
      PROVE  ManagerInv'
  <2>1. ManagerTypeOK'
    BY <1>2 DEF ManagerInv, Exits, appVars, ManagerTypeOK, Lives
  <2>2. (LockOwner /\ WaitingChild /\ ReapedChild /\ LostOnlyToANewStart)'
    BY <1>2 DEF ManagerInv, Exits, appVars, ManagerTypeOK, LockOwner, WaitingChild, ReapedChild,
                LostOnlyToANewStart
  <2> QED
    BY <2>1, <2>2 DEF ManagerInv
<1>3. ASSUME NEW c \in Children, Writes(c)
      PROVE  ManagerInv'
  BY <1>3 DEF ManagerInv, Writes, appVars, ManagerTypeOK, LockOwner, WaitingChild, ReapedChild,
              LostOnlyToANewStart
<1>4. CASE Ends
  <2>1. ManagerTypeOK'
    BY <1>4 DEF ManagerInv, Ends, osVars, ManagerTypeOK, Calls, Pcs, Idle
  <2>2. (LockOwner /\ WaitingChild /\ ReapedChild /\ LostOnlyToANewStart)'
    BY <1>4 DEF ManagerInv, Ends, osVars, Idle, LockOwner, WaitingChild, ReapedChild,
                LostOnlyToANewStart, Inside
  <2> QED
    BY <2>1, <2>2 DEF ManagerInv
<1> QED
  BY <1>1, <1>2, <1>3, <1>4 DEF ProcessStep

\* Clients and coroutines, and steps that change nothing.
LEMMA OthersKeep ==
  ASSUME ManagerInv, UNCHANGED managerVars
  PROVE  ManagerInv'
BY DEF ManagerInv, managerVars, appVars, osVars, ManagerTypeOK, LockOwner, WaitingChild, ReapedChild,
       LostOnlyToANewStart

\* Every step of the composition keeps the manager's part.
LEMMA NextManagerInv == ManagerInv /\ [Next]_vars => ManagerInv'
<1> SUFFICES ASSUME ManagerInv, [Next]_vars PROVE ManagerInv'
  OBVIOUS
<1>1. ASSUME NEW t \in Callers, CallerStep(t)
      PROVE  ManagerInv'
  BY <1>1, StartKeeps, WaitKeeps, StopKeeps DEF CallerStep
<1>2. CASE ManagerStep
  BY <1>1, <1>2, RequestKeeps, EnvironmentKeeps DEF ManagerStep, ManagerNext
<1>3. CASE ClientStep
  BY <1>3, OthersKeep DEF ClientStep
<1>4. CASE UNCHANGED vars
  BY <1>4, OthersKeep DEF vars
<1> QED
  BY <1>2, <1>3, <1>4 DEF Next

----------------------------------------------------------------------------

IInv == ManagerInv /\ PoolInv /\ budget \in Budgets

\* A process that serves at boot serves with a full pool.
THEOREM InitIInv == Init => IInv
<1> SUFFICES ASSUME Init PROVE IInv
  OBVIOUS
<1>1. PoolInv
  BY PoolInitInv DEF Init
<1> QED
  BY <1>1, InitManagerInv DEF IInv, Init

\* The server's part is kept by the server and its clients, by a process that
\* begins or ceases to listen, and by whatever else the manager does.
THEOREM NextIInv == IInv /\ [Next]_vars => IInv'
<1> SUFFICES ASSUME IInv, [Next]_vars PROVE IInv'
  OBVIOUS
<1>1. ManagerInv'
  BY NextManagerInv DEF IInv
<1>2. ASSUME UNCHANGED poolVars
      PROVE  PoolInv'
  BY <1>2 DEF IInv, PoolInv, poolVars, serverVars, PoolTypeOK, NothingWhileDown, WorkersHold,
              QueuedOnce, NoneBeforeSubmit, OnePlace, SomePlace
<1>3. CASE ManagerStep
  <2>1. PoolInv'
    BY <1>2, <1>3, ServerStartsKeeps, ServerEndsKeeps DEF IInv, ManagerStep, ServerFollows
  <2> QED
    BY <1>1, <1>3, <2>1 DEF IInv, ManagerStep
<1>4. CASE ClientStep
  BY <1>1, <1>4, PoolStepKeeps DEF IInv, ClientStep
<1>5. CASE UNCHANGED vars
  BY <1>1, <1>2, <1>5 DEF IInv, vars
<1> QED
  BY <1>3, <1>4, <1>5 DEF Next

\* The manager and the pool keep their invariants together.
THEOREM IInvInvariant == Spec => []IInv
<1> QED
  BY InitIInv, NextIInv, PTL DEF Spec

----------------------------------------------------------------------------

\* Type correctness of the manager, the processes and the server.
THEOREM TypeCorrect == Spec => []TypeOK
<1>1. IInv => TypeOK
  BY DEF IInv, ManagerInv, PoolInv, TypeOK
<1> QED
  BY <1>1, IInvInvariant, PTL

\* A thread that waits for the child it spawned owns the lock and the child:
\* no stop, no restart and no other start reaches into a start.
THEOREM WaiterOwnsChildHolds == Spec => []WaiterOwnsChild
<1>1. IInv => WaiterOwnsChild
  BY DEF IInv, ManagerInv, LockOwner, WaitingChild, WaiterOwnsChild, Inside
<1> QED
  BY <1>1, IInvInvariant, PTL

\* A running child is _proc, or was replaced by another start while it did not
\* answer: no stop and no timeout forgets a child that runs.
THEOREM LostOnlyToANewStartHolds == Spec => []LostOnlyToANewStart
<1>1. IInv => LostOnlyToANewStart
  BY DEF IInv, ManagerInv
<1> QED
  BY <1>1, IInvInvariant, PTL

\* One set of one element and an empty one.
LEMMA OneOfTwo ==
  ASSUME NEW x
  PROVE  Cardinality({x}) + Cardinality({}) = 1 /\ Cardinality({}) + Cardinality({x}) = 1
<1>1. Cardinality({x}) = 1
  BY FS_Singleton
<1>2. Cardinality({}) = 0
  BY FS_EmptySet
<1> QED
  BY <1>1, <1>2

\* Each live browser is in the pool once or with one coroutine, however many
\* tasks are accepted and whatever fails in them.
THEOREM BrowserHeldOnceHolds == Spec => []BrowserHeldOnce
<1>1. ASSUME IInv, NEW b \in connected
      PROVE  Cardinality({i \in 1 .. Len(pool) : pool[i] = b}) + Cardinality({t \in Tasks : holds[t] = b}) = 1
  <2> DEFINE I == {i \in 1 .. Len(pool) : pool[i] = b}
             T == {t \in Tasks : holds[t] = b}
  <2>1. b # NoBrowser
    BY <1>1, SolverPoolAssumption DEF IInv, PoolInv, PoolTypeOK
  <2>2. CASE \E i \in 1 .. Len(pool) : pool[i] = b
    <3>1. PICK i \in 1 .. Len(pool) : pool[i] = b
      BY <2>2
    <3>2. \A j \in 1 .. Len(pool) : pool[j] = b => j = i
      BY <1>1, <3>1 DEF IInv, PoolInv, OnePlace
    <3>3. \A t \in Tasks : holds[t] # b
      BY <1>1, <3>1 DEF IInv, PoolInv, OnePlace
    <3>4. I = {i} /\ T = {}
      BY <3>1, <3>2, <3>3
    <3> HIDE DEF I, T
    <3>5. Cardinality(I) + Cardinality(T) = 1
      BY <3>4, OneOfTwo
    <3> QED
      BY <3>5 DEF I, T
  <2>3. CASE \E t \in Tasks : holds[t] = b
    <3>1. PICK t \in Tasks : holds[t] = b
      BY <2>3
    <3>2. \A j \in 1 .. Len(pool) : pool[j] # b
      BY <1>1, <3>1 DEF IInv, PoolInv, OnePlace
    <3>3. \A u \in Tasks : holds[u] = b => u = t
      BY <1>1, <2>1, <3>1 DEF IInv, PoolInv, OnePlace
    <3>4. I = {} /\ T = {t}
      BY <3>1, <3>2, <3>3
    <3> HIDE DEF I, T
    <3>5. Cardinality(I) + Cardinality(T) = 1
      BY <3>4, OneOfTwo
    <3> QED
      BY <3>5 DEF I, T
  <2> QED
    BY <1>1, <2>2, <2>3 DEF IInv, PoolInv, SomePlace
<1>2. IInv => BrowserHeldOnce
  BY <1>1 DEF BrowserHeldOnce
<1> QED
  BY <1>2, IInvInvariant, PTL
=============================================================================
