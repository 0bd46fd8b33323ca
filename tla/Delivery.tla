-------------------------------- MODULE Delivery --------------------------------
(***************************************************************************)
(* The delivery of committed registrations to grok2api and Sub2API: the    *)
(* worker's own upload (protocol_worker.py and register.py), the durable   *)
(* retry thread (grok2api_retry.py) and the columns of the registrations   *)
(* table through which they meet (database.py).                            *)
(*                                                                         *)
(* A registration r is delivered by whichever worker committed it, so the  *)
(* workers are indexed by r.  Time passes in ticks; a row's timestamp is   *)
(* kept as the number of ticks since it was written, up to StaleUpload.    *)
(* Each write holds the database's lock and is one step; nothing holds it  *)
(* during an upload.                                                       *)
(***************************************************************************)
EXTENDS Naturals, FiniteSets

CONSTANTS
  Regs,        \* registrations, by their row id
  Setups,      \* the pairs of an engine and a set of enabled backends to run
  Limit,       \* rows one run of the retry thread claims: 20
  RetryDelay,  \* retry_delay_seconds, 30 s, in ticks
  Interval,    \* interval_seconds of the retry thread, 60 s, in ticks
  StaleUpload, \* stale_upload_seconds, 300 s, in ticks
  Hopeless,    \* registrations no backend ever accepts
  MaxFailures, \* bound: other failures of the retry thread's uploads and writes
  MaxCrashes,  \* bound: restarts of the process
  Hazards      \* what may happen besides: see HazardKinds

Durable == {"grok", "sub2"}   \* backends with a status column
Backends == Durable \cup {"cpa"}

HazardKinds == {"dberror",    \* SQLite raises in a write
                "delete"}     \* an operator deletes rows

ASSUME ConstantsAssumption ==
  /\ Regs \subseteq Nat /\ IsFiniteSet(Regs)
  /\ Setups \subseteq {"protocol", "browser"} \X SUBSET Backends
  /\ Limit \in Nat \ {0}
  /\ RetryDelay \in Nat \ {0} /\ Interval \in Nat
  /\ StaleUpload \in Nat /\ RetryDelay <= StaleUpload
  /\ Hopeless \subseteq Regs
  /\ MaxFailures \in Nat /\ MaxCrashes \in Nat
  /\ Hazards \subseteq HazardKinds

VARIABLES
  engine,    \* which engine's worker commits the registrations
  enabled,   \* the *_auto_upload and cpa_auto_export settings
  rows,      \* registrations with status 'success' in the table
  status,    \* grok2api_status and sub2api_status
  age,       \* ticks since grok2api_updated_at, sub2api_updated_at
  step,      \* where the worker that committed r is
  verdict,   \* what that worker is going to record; "failed" when it is done
  stage,     \* where the retry thread is
  target,    \* the backend it works for
  queue,     \* the records it claimed and has not finished
  answer,    \* how the upload of the first of them ended
  left,      \* ticks until its next run
  failures, crashes,           \* what the bounds count
  accepted,  \* history: uploads the backend has accepted
  denied,    \* history: registrations whose chat probe was refused
  late,      \* history: uploads that outlasted a time limit of the claim
  overlap,   \* history: uploads claimed while the worker was not done with them
  marred,    \* history: registrations whose worker met an error in a write
  counted    \* history: registrations record_success was called for

session == <<engine, enabled, counted>>
table == <<rows, status, age>>
thread == <<stage, target, queue, answer, left>>
bounds == <<failures, crashes>>
history == <<accepted, denied, late, overlap, marred>>
vars == <<engine, enabled, rows, status, age, step, verdict, stage, target, queue,
          answer, left, failures, crashes, accepted, denied, late, overlap, marred,
          counted>>

----------------------------------------------------------------------------

Statuses == {"", "pending", "uploading", "success", "failed", "probe_denied"}
Retryable == {"pending", "uploading", "failed"}
Settled == {"success", "probe_denied"}
Outcomes == {"ok", "failed", "denied"}

\* init: between the commit and the first write of the delivery; done: also the
\* place of a worker that died.
Steps == {"idle", "init", "beginSub2", "send", "finishGrok", "finishSub2", "done"}

Init ==
  /\ \E setup \in Setups : engine = setup[1] /\ enabled = setup[2]
  /\ rows = {}
  /\ status = [d \in Durable \X Regs |-> ""]
  /\ age = [d \in Durable \X Regs |-> 0]
  /\ step = [r \in Regs |-> "idle"]
  /\ verdict = [d \in Durable \X Regs |-> "failed"]
  /\ stage = "sleep" /\ target = "grok" /\ queue = {} /\ answer = "none" /\ left = 0
  /\ failures = 0 /\ crashes = 0
  /\ accepted = {} /\ denied = {} /\ late = {} /\ overlap = {} /\ marred = {}
  /\ counted = {}

----------------------------------------------------------------------------
(* The table *)

\* An UPDATE of one delivery by id: without the row it changes nothing.
Write(b, r, value) ==
  /\ status' = IF r \in rows THEN [status EXCEPT ![<<b, r>>] = value] ELSE status
  /\ age' = IF r \in rows THEN [age EXCEPT ![<<b, r>>] = 0] ELSE age
  /\ UNCHANGED rows

\* What a finished upload is recorded as.
Recorded(outcome) ==
  CASE outcome = "ok" -> "success"
    [] outcome = "denied" -> "probe_denied"
    [] OTHER -> "failed"

\* Mutant: an upload in progress is taken as if it had failed.
DueAtOnce(b) ==
  {r \in rows : status[<<b, r>>] \in Retryable /\ age[<<b, r>>] >= RetryDelay}

\* Mutant: what was denied is tried again.
DueWithDenied(b) ==
  {r \in rows : \/ status[<<b, r>>] \in {"pending", "failed", "probe_denied"}
                   /\ age[<<b, r>>] >= RetryDelay
                \/ status[<<b, r>>] = "uploading" /\ age[<<b, r>>] >= StaleUpload}

\* Mutant: an upload that was broken off is not looked for.
DueWithoutStale(b) ==
  {r \in rows : status[<<b, r>>] \in {"pending", "failed"} /\ age[<<b, r>>] >= RetryDelay}

Due(b) ==
  {r \in rows : \/ status[<<b, r>>] \in {"pending", "failed"} /\ age[<<b, r>>] >= RetryDelay
                \/ status[<<b, r>>] = "uploading" /\ age[<<b, r>>] >= StaleUpload}

\* ORDER BY id ASC LIMIT ?
FirstDue(b) == {r \in Due(b) : Cardinality({q \in Due(b) : q < r}) < Limit}

----------------------------------------------------------------------------
(* The worker's own delivery *)

\* Mutant: the deliveries are marked only when they begin.
CommitUnmarked(r) ==
  /\ step[r] = "idle"
  /\ step' = [step EXCEPT ![r] = IF enabled = {} THEN "done" ELSE "init"]
  /\ counted' = IF enabled = {} THEN counted \cup {r} ELSE counted
  /\ rows' = rows \cup {r}
  /\ UNCHANGED <<engine, enabled, status, age, verdict, thread, bounds, history>>

\* complete_registration_success: the row becomes visible with its deliveries
\* pending, in one transaction.
Commit(r) ==
  /\ step[r] = "idle"
  /\ step' = [step EXCEPT ![r] = IF enabled = {} THEN "done" ELSE "init"]
  /\ counted' = IF enabled = {} THEN counted \cup {r} ELSE counted
  /\ rows' = rows \cup {r}
  /\ status' = [d \in Durable \X Regs |->
       IF d[2] = r THEN IF d[1] \in enabled THEN "pending" ELSE "" ELSE status[d]]
  /\ age' = [d \in Durable \X Regs |-> IF d[2] = r THEN 0 ELSE age[d]]
  /\ UNCHANGED <<engine, enabled, verdict, thread, bounds, history>>

\* begin_grok2api_upload and begin_sub2api_upload look at neither the status
\* nor at who set it.
Begin(r, b, from, to) ==
  /\ step[r] = from
  /\ step' = [step EXCEPT ![r] = to]
  /\ IF b \in enabled THEN Write(b, r, "uploading") ELSE UNCHANGED table
  /\ UNCHANGED <<session, verdict, thread, bounds, history>>

BeginGrok(r) == Begin(r, "grok", "init", "beginSub2")
BeginSub2(r) == Begin(r, "sub2", "beginSub2", "send")

\* An answer of every enabled backend that it may give for r.
Answers(r) ==
  {sent \in [enabled -> Outcomes] :
     \A b \in enabled : /\ sent[b] = "denied" => b = "grok"
                        /\ sent[b] = "ok" => r \notin Hopeless}

\* upload_registered_sso without "only" raises when nothing succeeded.
Raises(sent) == \A b \in enabled : sent[b] # "ok"

\* The error of the first of the failed backends is the one it raises.
FirstError(sent) ==
  IF \E b \in enabled \ {"grok"} : sent[b] = "failed" THEN "failed" ELSE sent["grok"]

\* _apply_delivery_result, _apply_delivery_error
VerdictOf(sent, b) ==
  IF ~Raises(sent) THEN sent[b]
  ELSE IF b = "grok" THEN FirstError(sent)
  ELSE "failed"

\* A failed egress update of grok2api, which only the browser engine asks for,
\* is a failed upload like another.
Send(r, sent) ==
  /\ step[r] = "send"
  /\ step' = [step EXCEPT ![r] = "finishGrok"]
  /\ verdict' = [d \in Durable \X Regs |->
       IF d[2] = r /\ d[1] \in enabled THEN VerdictOf(sent, d[1]) ELSE verdict[d]]
  /\ accepted' = accepted \cup
       {d \in (Durable \cap enabled) \X {r} : sent[d[1]] = "ok"}
  /\ denied' = IF "grok" \in enabled /\ sent["grok"] = "denied"
                 THEN denied \cup {r} ELSE denied
  /\ UNCHANGED <<session, table, thread, bounds, late, overlap, marred>>

Finish(r, b, from, to) ==
  /\ engine = "protocol" /\ step[r] = from
  /\ step' = [step EXCEPT ![r] = to]
  /\ IF b \in enabled THEN Write(b, r, Recorded(verdict[<<b, r>>])) ELSE UNCHANGED table
  /\ verdict' = [verdict EXCEPT ![<<b, r>>] = "failed"]
  /\ UNCHANGED <<engine, enabled, thread, bounds, history>>

FinishGrok(r) == Finish(r, "grok", "finishGrok", "finishSub2") /\ UNCHANGED counted

\* After the last write the round is counted.
FinishSub2(r) == Finish(r, "sub2", "finishSub2", "done") /\ counted' = counted \cup {r}

\* RegistrationEngine has neither _apply_delivery_result nor
\* _apply_delivery_error: the call raises AttributeError, so does the handler's,
\* and the round ends as "completed successfully but cleanup failed".
HandlerMissing(r) ==
  /\ engine = "browser" /\ step[r] = "finishGrok"
  /\ step' = [step EXCEPT ![r] = "done"]
  /\ verdict' = [d \in Durable \X Regs |-> IF d[2] = r THEN "failed" ELSE verdict[d]]
  /\ UNCHANGED <<session, table, thread, bounds, history>>

\* A begin that raises is outside the try, and the round ends the same way.
BeginRaises(r) ==
  /\ "dberror" \in Hazards
  /\ \/ step[r] = "init" /\ "grok" \in enabled
     \/ step[r] = "beginSub2" /\ "sub2" \in enabled
  /\ step' = [step EXCEPT ![r] = "done"]
  /\ marred' = marred \cup {r}
  /\ UNCHANGED <<session, table, verdict, thread, bounds, accepted, denied, late, overlap>>

\* A finish that raises is inside the try: the handler records every delivery
\* as failed, from the first one on; raised again, it ends the round.
FinishRaises(r) ==
  /\ "dberror" \in Hazards /\ engine = "protocol"
  /\ \/ step[r] = "finishGrok" /\ "grok" \in enabled
     \/ step[r] = "finishSub2" /\ "sub2" \in enabled
  /\ step' = [step EXCEPT ![r] = IF r \in marred THEN "done" ELSE "finishGrok"]
  /\ verdict' = [d \in Durable \X Regs |-> IF d[2] = r THEN "failed" ELSE verdict[d]]
  /\ marred' = marred \cup {r}
  /\ UNCHANGED <<session, table, thread, bounds, accepted, denied, late, overlap>>

----------------------------------------------------------------------------
(* The retry thread *)

\* run_once starts with grok2api.
Wake ==
  /\ stage = "sleep" /\ left = 0
  /\ stage' = "claim" /\ target' = "grok"
  /\ UNCHANGED <<session, table, step, verdict, queue, answer, left, bounds, history>>

\* Sub2API follows grok2api; after it the thread sleeps.
NextBackend ==
  IF target = "grok"
  THEN stage' = "claim" /\ target' = "sub2" /\ UNCHANGED left
  ELSE stage' = "sleep" /\ left' = Interval /\ UNCHANGED target

\* Until then r is the worker's to deliver.
Waiting(b, r) ==
  /\ b \in enabled
  /\ step[r] \in (IF b = "grok" THEN {"init"} ELSE {"init", "beginSub2"})
Uploading(b, r) ==
  /\ b \in enabled
  /\ step[r] \in (IF b = "grok" THEN {"beginSub2", "send", "finishGrok"}
                                ELSE {"send", "finishGrok", "finishSub2"})

\* Mutant: the claim selects and does not mark.
ClaimUnmarked ==
  /\ stage = "claim" /\ target \in enabled /\ FirstDue(target) # {}
  /\ stage' = "send" /\ queue' = FirstDue(target)
  /\ overlap' = overlap \cup
       {d \in {target} \X FirstDue(target) : Waiting(d[1], d[2]) \/ Uploading(d[1], d[2])}
  /\ UNCHANGED <<session, table, step, verdict, target, answer, left, bounds,
                 accepted, denied, late, marred>>

\* claim_grok2api_retries, claim_sub2api_retries
Claim ==
  /\ stage = "claim" /\ target \in enabled /\ FirstDue(target) # {}
  /\ stage' = "send" /\ queue' = FirstDue(target)
  /\ status' = [d \in Durable \X Regs |->
       IF d[1] = target /\ d[2] \in FirstDue(target) THEN "uploading" ELSE status[d]]
  /\ age' = [d \in Durable \X Regs |->
       IF d[1] = target /\ d[2] \in FirstDue(target) THEN 0 ELSE age[d]]
  /\ overlap' = overlap \cup
       {d \in {target} \X FirstDue(target) : Waiting(d[1], d[2]) \/ Uploading(d[1], d[2])}
  /\ UNCHANGED <<session, rows, step, verdict, target, answer, left, bounds,
                 accepted, denied, late, marred>>

ClaimNothing ==
  /\ stage = "claim" /\ (target \in enabled => FirstDue(target) = {})
  /\ NextBackend
  /\ UNCHANGED <<session, table, step, verdict, queue, answer, bounds, history>>

\* The records are taken in the order of their ids.
IsFirst(r) == r \in queue /\ \A q \in queue : r <= q

\* upload_registered_sso(only=...): a failure is raised as it is.
RetrySend(r, outcome) ==
  /\ stage = "send" /\ answer = "none" /\ IsFirst(r)
  /\ outcome = "denied" => target = "grok"
  /\ outcome = "ok" => r \notin Hopeless
  /\ outcome = "failed" /\ r \notin Hopeless => failures < MaxFailures
  /\ failures' = IF outcome = "failed" /\ r \notin Hopeless THEN failures + 1 ELSE failures
  /\ answer' = outcome
  /\ accepted' = IF outcome = "ok" THEN accepted \cup {<<target, r>>} ELSE accepted
  /\ denied' = IF outcome = "denied" THEN denied \cup {r} ELSE denied
  /\ UNCHANGED <<session, table, step, verdict, stage, target, queue, left, crashes,
                 late, overlap, marred>>

RetryFinish(r) ==
  /\ stage = "send" /\ answer # "none" /\ IsFirst(r)
  /\ Write(target, r, Recorded(answer))
  /\ answer' = "none"
  /\ queue' = queue \ {r}
  /\ IF queue = {r} THEN NextBackend ELSE UNCHANGED <<stage, target, left>>
  /\ UNCHANGED <<session, step, verdict, bounds, history>>

\* An error in a write leaves run_once: the records it still held stay
\* 'uploading', and Sub2API is not tried.
RetryAborts ==
  /\ "dberror" \in Hazards
  /\ \/ stage = "claim" /\ target \in enabled
     \/ stage = "send" /\ answer # "none"
  /\ failures < MaxFailures
  /\ failures' = failures + 1
  /\ stage' = "sleep" /\ queue' = {} /\ answer' = "none" /\ left' = Interval
  /\ UNCHANGED <<session, table, step, verdict, target, crashes, history>>

----------------------------------------------------------------------------
(* Time, the operator and the process *)

Older(n) == IF n < StaleUpload THEN n + 1 ELSE n

Tick ==
  /\ left > 0 \/ \E d \in Durable \X rows : age[d] < StaleUpload
  /\ age' = [d \in Durable \X Regs |-> IF d[2] \in rows THEN Older(age[d]) ELSE age[d]]
  /\ left' = IF left > 0 THEN left - 1 ELSE 0
  /\ late' = late \cup
       {d \in Durable \X rows : \/ Waiting(d[1], d[2]) /\ age'[d] >= RetryDelay
                                \/ Uploading(d[1], d[2]) /\ age'[d] >= StaleUpload}
  /\ UNCHANGED <<session, rows, status, step, verdict, stage, target, queue, answer,
                 bounds, accepted, denied, overlap, marred>>

\* delete_registrations: no thread is told.
Delete(r) ==
  /\ "delete" \in Hazards
  /\ r \in rows
  /\ rows' = rows \ {r}
  /\ status' = [d \in Durable \X Regs |-> IF d[2] = r THEN "" ELSE status[d]]
  /\ age' = [d \in Durable \X Regs |-> IF d[2] = r THEN 0 ELSE age[d]]
  /\ UNCHANGED <<session, step, verdict, thread, bounds, history>>

\* The process dies and starts again: only the table is left, and app.py
\* starts the retry thread at once.
Crash ==
  /\ crashes < MaxCrashes
  /\ crashes' = crashes + 1
  /\ step' = [r \in Regs |-> IF step[r] = "idle" THEN "idle" ELSE "done"]
  /\ verdict' = [d \in Durable \X Regs |-> "failed"]
  /\ stage' = "sleep" /\ target' = "grok" /\ queue' = {} /\ answer' = "none" /\ left' = 0
  /\ UNCHANGED <<session, table, failures, history>>

----------------------------------------------------------------------------

WorkerStep(r) ==
  \/ BeginGrok(r) \/ BeginSub2(r)
  \/ \E sent \in Answers(r) : Send(r, sent)
  \/ FinishGrok(r) \/ FinishSub2(r) \/ HandlerMissing(r)
  \/ BeginRaises(r) \/ FinishRaises(r)

RetryStep ==
  \/ Wake \/ Claim \/ ClaimNothing
  \/ \E r \in queue, outcome \in Outcomes : RetrySend(r, outcome)
  \/ \E r \in queue : RetryFinish(r)

Next ==
  \/ \E r \in Regs : Commit(r) \/ WorkerStep(r) \/ Delete(r)
  \/ RetryStep \/ RetryAborts
  \/ Tick \/ Crash

Spec == Init /\ [][Next]_vars

\* Threads that are not blocked run, and time passes.
Fairness ==
  /\ \A r \in Regs : WF_vars(WorkerStep(r))
  /\ WF_vars(RetryStep)
  /\ WF_vars(Tick)

FairSpec == Spec /\ Fairness

----------------------------------------------------------------------------
(* Properties *)

\* Every variable has its type; the retry thread holds records only while it
\* uploads.
TypeOK ==
  /\ <<engine, enabled>> \in Setups
  /\ rows \subseteq Regs
  /\ status \in [Durable \X Regs -> Statuses]
  /\ age \in [Durable \X Regs -> 0..StaleUpload]
  /\ step \in [Regs -> Steps]
  /\ verdict \in [Durable \X Regs -> Outcomes]
  /\ stage \in {"sleep", "claim", "send"} /\ target \in Durable
  /\ queue \subseteq Regs /\ (stage = "send" <=> queue # {})
  /\ answer \in Outcomes \cup {"none"} /\ (answer # "none" => stage = "send")
  /\ left \in 0..Interval /\ (left > 0 => stage = "sleep")
  /\ failures \in 0..MaxFailures /\ crashes \in 0..MaxCrashes
  /\ accepted \subseteq Durable \X Regs /\ denied \subseteq Regs
  /\ late \subseteq Durable \X Regs /\ overlap \subseteq Durable \X Regs
  /\ marred \subseteq Regs /\ counted \subseteq Regs

\* At every moment, a crash and a failed write included, each delivery of a
\* committed registration is recorded as a success the backend really
\* accepted, as a denial its probe really got, or in a state the retry thread
\* looks for: nothing undelivered is out of reach of a retry
\* (complete_registration_success, finish_*, claim_*_retries).
DeliveryAccounted ==
  \A r \in rows, b \in Durable \cap enabled :
    \/ status[<<b, r>>] \in Retryable
    \/ status[<<b, r>>] = "success" /\ <<b, r>> \in accepted
    \/ status[<<b, r>>] = "probe_denied" /\ b = "grok" /\ r \in denied

\* The worker and the retry thread upload the same registration at the same
\* time only if the worker needed 30 s from the commit to the upload or 300 s
\* for the upload, or its own write raised and it starts to record over again:
\* nothing but the two limits keeps them apart, as the begin of the worker asks
\* nobody (begin_*_upload, claim_*_retries).
OverlapNeedsDelay == overlap \subseteq late \cup Durable \X marred

\* The worker and the retry thread met on this delivery, or the worker recorded
\* it a second time.
Disturbed(b, r) == <<b, r>> \in overlap \/ r \in marred

\* A record the retry thread has claimed stays its own until it is finished:
\* nobody else settles or fails it, unless the two met or the row is gone
\* (_run_grok2api_once, _run_sub2api_once over a batch of 20).
ClaimIsHeld ==
  \A r \in queue \cap rows :
    status[<<target, r>>] = "uploading" \/ Disturbed(target, r)

\* A recorded success or denial is final: no later write of the worker or of
\* the retry thread takes it back, unless the two met on it (finish_*_upload and
\* finish_grok2api_probe have no WHERE on the status).
SettledIsFinal ==
  [][\A r \in Regs, b \in Durable :
       status[<<b, r>>] \in Settled /\ r \in rows' =>
         \/ status'[<<b, r>>] = status[<<b, r>>]
         \/ Disturbed(b, r)]_vars

\* docs/USAGE.md: after a failed upload "wait for the background durable
\* retry".  Every delivery a backend would accept is settled in the end, after
\* restarts and failed uploads too, or its row is deleted.
Delivered ==
  \A r \in Regs \ Hopeless, b \in Durable :
    (r \in rows /\ b \in enabled) ~> (status[<<b, r>>] \in Settled \/ r \notin rows)

\* reserve_worker_round: only "retries that do not reach a terminal
\* success/failure do not consume a target slot".  A registration whose worker
\* is through with it, and met no restart and no error of SQLite, was counted;
\* except by the browser engine after an upload, where a method is missing.
SuccessIsCounted ==
  \A r \in Regs : step[r] = "done" /\ crashes = 0 /\ r \notin marred =>
    r \in counted \/ (engine = "browser" /\ enabled # {})

\* A success gets where it belongs: to every backend, and into the count.
SuccessArrives == Delivered /\ []SuccessIsCounted
=============================================================================
