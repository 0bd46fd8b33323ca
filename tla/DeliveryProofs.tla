----------------------------- MODULE DeliveryProofs -----------------------------
(***************************************************************************)
(* The safety properties of Delivery, for any number of registrations,     *)
(* backends enabled, claim limit and time limits.                          *)
(***************************************************************************)
EXTENDS Delivery, TLAPS

USE DEF session

\* What the worker or the retry thread is about to record is what it heard.
VerdictIsTrue ==
  /\ \A d \in Durable \X Regs :
       /\ verdict[d] = "ok" => d \in accepted
       /\ verdict[d] = "denied" => d[1] = "grok" /\ d[2] \in denied
  /\ \A r \in Regs : IsFirst(r) =>
       /\ answer = "ok" => <<target, r>> \in accepted
       /\ answer = "denied" => target = "grok" /\ r \in denied

\* Only committed registrations have deliveries.
CommittedOnly ==
  \A r \in Regs :
    /\ r \in rows \cup queue => step[r] # "idle"
    /\ r \notin rows => \A b \in Durable : status[<<b, r>>] = ""

\* While the worker has a delivery to itself the row says what the worker wrote.
WorkerOwns ==
  \A r \in rows, b \in Durable : ~Disturbed(b, r) =>
    /\ Waiting(b, r) => status[<<b, r>>] = "pending"
    /\ Uploading(b, r) => status[<<b, r>>] = "uploading"

\* A delivery the worker and the retry thread both hold is known to be one.
SharedIsKnown ==
  \A r \in queue : Waiting(target, r) \/ Uploading(target, r) => Disturbed(target, r)

\* A worker that kept within the limits still has them before it.
WithinLimits ==
  \A r \in rows, b \in Durable : ~Disturbed(b, r) /\ <<b, r>> \notin late =>
    /\ Waiting(b, r) => age[<<b, r>>] < RetryDelay
    /\ Uploading(b, r) => age[<<b, r>>] < StaleUpload

IInv ==
  /\ TypeOK /\ VerdictIsTrue /\ CommittedOnly /\ WorkerOwns /\ SharedIsKnown
  /\ WithinLimits /\ DeliveryAccounted /\ OverlapNeedsDelay /\ ClaimIsHeld

\* A write of a good value keeps the table's types, and touches one delivery.
LEMMA WriteTypes ==
  ASSUME TypeOK, NEW b \in Durable, NEW r \in Regs, NEW value \in Statuses,
         Write(b, r, value)
  PROVE  /\ rows' = rows
         /\ status' \in [Durable \X Regs -> Statuses]
         /\ age' \in [Durable \X Regs -> 0..StaleUpload]
         /\ \A d \in Durable \X Regs : d # <<b, r>> => status'[d] = status[d] /\ age'[d] = age[d]
         /\ r \in rows => status'[<<b, r>>] = value /\ age'[<<b, r>>] = 0
         /\ r \notin rows => status' = status /\ age' = age
  BY ConstantsAssumption DEF Write, TypeOK

\* What is recorded is a settled status or a failure.
LEMMA RecordedTypes ==
  ASSUME NEW outcome \in Outcomes
  PROVE  /\ Recorded(outcome) \in Statuses
         /\ Recorded(outcome) \in {"success", "failed", "probe_denied"}
         /\ Recorded(outcome) = "success" => outcome = "ok"
         /\ Recorded(outcome) = "probe_denied" => outcome = "denied"
  BY DEF Recorded, Outcomes, Statuses

\* The next stage is a sleep or a claim.
LEMMA NextBackendTypes ==
  ASSUME TypeOK, NextBackend
  PROVE  stage' \in {"sleep", "claim"} /\ target' \in Durable /\ left' \in 0..Interval
         /\ (stage' = "claim" => left' = left)
  BY ConstantsAssumption DEF NextBackend, TypeOK, Durable

\* A verdict is an outcome, and one that was heard.
LEMMA VerdictTypes ==
  ASSUME NEW r \in Regs, NEW sent \in Answers(r),
         NEW b \in Durable \cap enabled, enabled \subseteq Backends
  PROVE  /\ VerdictOf(sent, b) \in Outcomes
         /\ VerdictOf(sent, b) = "ok" => sent[b] = "ok"
         /\ VerdictOf(sent, b) = "denied" =>
              b = "grok" /\ sent["grok"] = "denied"
  BY DEF VerdictOf, Raises, FirstError, Answers, Outcomes, Durable, Backends

\* A write that may be skipped because the backend is not enabled.
LEMMA EntryEffect ==
  ASSUME TypeOK, NEW b \in Durable, NEW r \in Regs, NEW value \in Statuses,
         IF b \in enabled THEN Write(b, r, value) ELSE UNCHANGED table
  PROVE  /\ rows' = rows
         /\ status' \in [Durable \X Regs -> Statuses]
         /\ age' \in [Durable \X Regs -> 0..StaleUpload]
         /\ \A c \in Durable, q \in Regs : <<c, q>> # <<b, r>> =>
              status'[<<c, q>>] = status[<<c, q>>] /\ age'[<<c, q>>] = age[<<c, q>>]
         /\ r \in rows /\ b \in enabled => status'[<<b, r>>] = value /\ age'[<<b, r>>] = 0
         /\ r \notin rows \/ b \notin enabled => status' = status /\ age' = age
<1>1. CASE b \in enabled
  BY <1>1, WriteTypes
<1>2. CASE b \notin enabled
  BY <1>2 DEF TypeOK, table
<1>3. QED
  BY <1>1, <1>2

\* A worker that writes to a delivery it holds keeps the invariant, if it records
\* the truth and either goes on to upload or is done with the delivery.
LEMMA WorkerWrite ==
  ASSUME IInv, NEW r \in Regs, NEW b \in Durable, NEW value \in Statuses,
         IF b \in enabled THEN Write(b, r, value) ELSE UNCHANGED table,
         UNCHANGED <<engine, enabled, thread, bounds, history>>, counted' \subseteq Regs,
         step' \in [Regs -> Steps],
         \A q \in Regs \ {r} : step'[q] = step[q],
         step[r] # "idle", step'[r] # "idle",
         verdict' \in [Durable \X Regs -> Outcomes],
         VerdictIsTrue',
         \A c \in Durable \ {b} : /\ Waiting(c, r)' => Waiting(c, r)
                                  /\ Uploading(c, r)' => Uploading(c, r),
         b \in enabled => Waiting(b, r) \/ Uploading(b, r),
         ~Waiting(b, r)',
         Uploading(b, r)' => value = "uploading",
         \/ value \in Retryable
         \/ value = "success" /\ <<b, r>> \in accepted
         \/ value = "probe_denied" /\ b = "grok" /\ r \in denied
  PROVE  IInv'
<1>1. /\ rows' = rows
      /\ status' \in [Durable \X Regs -> Statuses]
      /\ age' \in [Durable \X Regs -> 0..StaleUpload]
      /\ \A c \in Durable, q \in Regs : <<c, q>> # <<b, r>> =>
           status'[<<c, q>>] = status[<<c, q>>] /\ age'[<<c, q>>] = age[<<c, q>>]
      /\ r \in rows /\ b \in enabled => status'[<<b, r>>] = value /\ age'[<<b, r>>] = 0
      /\ r \notin rows \/ b \notin enabled => status' = status /\ age' = age
  BY EntryEffect DEF IInv
<1>2. \A c \in Durable, q \in Regs : <<c, q>> # <<b, r>> =>
        /\ Waiting(c, q)' => Waiting(c, q)
        /\ Uploading(c, q)' => Uploading(c, q)
  BY DEF Waiting, Uploading
<1>3. Uploading(b, r)' => b \in enabled
  BY DEF Uploading
<1>4. \A c \in Durable, q \in Regs : Disturbed(c, q)' <=> Disturbed(c, q)
  BY DEF Disturbed, history
<1>5. rows \subseteq Regs /\ queue \subseteq Regs /\ target \in Durable
  BY DEF IInv, TypeOK
<1>6. UNCHANGED <<target, queue, enabled, late>>
  BY DEF thread, history
<1>7. TypeOK'
  BY <1>1 DEF IInv, TypeOK, thread, bounds, history
<1>8. CommittedOnly'
  <2>1. SUFFICES ASSUME NEW q \in Regs
                 PROVE  /\ q \in rows \cup queue => step'[q] # "idle"
                        /\ q \notin rows => \A c \in Durable : status'[<<c, q>>] = ""
    BY <1>1, <1>6 DEF CommittedOnly
  <2>2. q \in rows \cup queue => step'[q] # "idle"
    BY DEF IInv, CommittedOnly
  <2>3. ASSUME q \notin rows, NEW c \in Durable
        PROVE  status'[<<c, q>>] = ""
    BY <1>1, <2>3 DEF IInv, CommittedOnly
  <2>4. QED
    BY <2>2, <2>3
<1>9. WorkerOwns'
  <2>1. SUFFICES ASSUME NEW q \in rows, NEW c \in Durable, ~Disturbed(c, q)
                 PROVE  /\ Waiting(c, q)' => status'[<<c, q>>] = "pending"
                        /\ Uploading(c, q)' => status'[<<c, q>>] = "uploading"
    BY <1>1, <1>4, <1>5 DEF WorkerOwns
  <2>2. CASE <<c, q>> = <<b, r>>
    BY <1>1, <1>3, <2>2
  <2>3. CASE <<c, q>> # <<b, r>>
    BY <1>1, <1>2, <1>5, <2>1, <2>3 DEF IInv, WorkerOwns
  <2>4. QED
    BY <2>2, <2>3
<1>10. SharedIsKnown'
  <2>1. SUFFICES ASSUME NEW q \in queue, NEW c \in Durable, c = target,
                        Waiting(c, q)' \/ Uploading(c, q)'
                 PROVE  Disturbed(c, q)
    BY <1>4, <1>5, <1>6 DEF SharedIsKnown, Waiting, Uploading, Disturbed
  <2>2. Waiting(c, q) \/ Uploading(c, q)
    <3>1. CASE c = b /\ q = r
      BY <1>3, <2>1, <3>1
    <3>2. CASE ~(c = b /\ q = r)
      BY <1>2, <1>5, <2>1, <3>2
    <3>3. QED
      BY <3>1, <3>2
  <2>3. QED
    BY <2>1, <2>2 DEF IInv, SharedIsKnown
<1>11. WithinLimits'
  <2>1. SUFFICES ASSUME NEW q \in rows, NEW c \in Durable, ~Disturbed(c, q), <<c, q>> \notin late
                 PROVE  /\ Waiting(c, q)' => age'[<<c, q>>] < RetryDelay
                        /\ Uploading(c, q)' => age'[<<c, q>>] < StaleUpload
    BY <1>1, <1>4, <1>5, <1>6 DEF WithinLimits
  <2>2. CASE <<c, q>> = <<b, r>>
    <3>1. 0 < StaleUpload
      BY ConstantsAssumption
    <3>2. Uploading(b, r)' => age'[<<b, r>>] = 0
      BY <1>1, <1>3, <2>2
    <3>3. QED
      BY <2>2, <3>1, <3>2
  <2>3. CASE <<c, q>> # <<b, r>>
    BY <1>1, <1>2, <1>5, <2>1, <2>3 DEF IInv, WithinLimits
  <2>4. QED
    BY <2>2, <2>3
<1>12. DeliveryAccounted'
  <2>1. SUFFICES ASSUME NEW q \in rows, NEW c \in Durable \cap enabled
                 PROVE  \/ status'[<<c, q>>] \in Retryable
                        \/ status'[<<c, q>>] = "success" /\ <<c, q>> \in accepted
                        \/ status'[<<c, q>>] = "probe_denied" /\ c = "grok" /\ q \in denied
    BY <1>1, <1>6 DEF DeliveryAccounted, history
  <2>2. CASE <<c, q>> = <<b, r>>
    BY <1>1, <2>2
  <2>3. CASE <<c, q>> # <<b, r>>
    BY <1>1, <1>5, <2>3 DEF IInv, DeliveryAccounted
  <2>4. QED
    BY <2>2, <2>3
<1>13. OverlapNeedsDelay'
  BY DEF IInv, OverlapNeedsDelay, history
<1>14. ClaimIsHeld'
  <2>1. SUFFICES ASSUME NEW q \in queue \cap rows, ~Disturbed(target, q)
                 PROVE  status'[<<target, q>>] = "uploading"
    BY <1>1, <1>4, <1>5, <1>6 DEF ClaimIsHeld
  <2>2. status[<<target, q>>] = "uploading"
    BY <2>1 DEF IInv, ClaimIsHeld
  <2>3. CASE <<target, q>> = <<b, r>>
    BY <1>1, <2>1, <2>2, <2>3 DEF IInv, SharedIsKnown
  <2>4. CASE <<target, q>> # <<b, r>>
    BY <1>1, <1>5, <2>2, <2>4
  <2>5. QED
    BY <2>3, <2>4
<1>15. QED
  BY <1>7, <1>8, <1>9, <1>10, <1>11, <1>12, <1>13, <1>14 DEF IInv

\* The worker announces the uploads.
LEMMA BeginStep ==
  ASSUME IInv, NEW r \in Regs, BeginGrok(r) \/ BeginSub2(r)
  PROVE  IInv'
<1>1. PICK b \in Durable :
        \/ b = "grok" /\ Begin(r, b, "init", "beginSub2")
        \/ b = "sub2" /\ Begin(r, b, "beginSub2", "send")
  BY DEF BeginGrok, BeginSub2, Durable
<1>2. /\ IF b \in enabled THEN Write(b, r, "uploading") ELSE UNCHANGED table
      /\ UNCHANGED <<engine, enabled, thread, bounds, history>> /\ counted' \subseteq Regs
      /\ UNCHANGED verdict
  BY <1>1 DEF Begin, IInv, TypeOK
<1>3. /\ step' \in [Regs -> Steps]
      /\ \A q \in Regs \ {r} : step'[q] = step[q]
      /\ step[r] # "idle" /\ step'[r] # "idle"
  BY <1>1 DEF Begin, IInv, TypeOK, Steps
<1>4. /\ \A c \in Durable \ {b} : /\ Waiting(c, r)' => Waiting(c, r)
                                  /\ Uploading(c, r)' => Uploading(c, r)
      /\ b \in enabled => Waiting(b, r)
      /\ ~Waiting(b, r)'
  BY <1>1 DEF Begin, IInv, TypeOK, Steps, Waiting, Uploading, Durable
<1>5. verdict' \in [Durable \X Regs -> Outcomes] /\ VerdictIsTrue'
  BY <1>2 DEF IInv, TypeOK, VerdictIsTrue, IsFirst, thread, history
<1>6. "uploading" \in Statuses /\ "uploading" \in Retryable
  BY DEF Statuses, Retryable
<1>7. QED
  BY <1>2, <1>3, <1>4, <1>5, <1>6, WorkerWrite

\* The worker records what it heard.
LEMMA FinishStep ==
  ASSUME IInv, NEW r \in Regs, FinishGrok(r) \/ FinishSub2(r)
  PROVE  IInv'
<1>1. PICK b \in Durable :
        /\ \/ b = "grok" /\ Finish(r, b, "finishGrok", "finishSub2")
           \/ b = "sub2" /\ Finish(r, b, "finishSub2", "done")
        /\ counted' \subseteq Regs
  BY DEF FinishGrok, FinishSub2, Durable, IInv, TypeOK
<1> DEFINE value == Recorded(verdict[<<b, r>>])
<1>2. /\ IF b \in enabled THEN Write(b, r, value) ELSE UNCHANGED table
      /\ UNCHANGED <<engine, enabled, thread, bounds, history>> /\ counted' \subseteq Regs
      /\ verdict' = [verdict EXCEPT ![<<b, r>>] = "failed"]
  BY <1>1 DEF Finish
<1>3. /\ step' \in [Regs -> Steps]
      /\ \A q \in Regs \ {r} : step'[q] = step[q]
      /\ step[r] # "idle" /\ step'[r] # "idle"
  BY <1>1 DEF Finish, IInv, TypeOK, Steps
<1>4. /\ \A c \in Durable \ {b} : /\ Waiting(c, r)' => Waiting(c, r)
                                  /\ Uploading(c, r)' => Uploading(c, r)
      /\ b \in enabled => Uploading(b, r)
      /\ ~Waiting(b, r)' /\ ~Uploading(b, r)'
  BY <1>1 DEF Finish, IInv, TypeOK, Steps, Waiting, Uploading, Durable
<1>5. verdict' \in [Durable \X Regs -> Outcomes]
  BY <1>2 DEF IInv, TypeOK, Outcomes
<1>6. VerdictIsTrue'
  BY <1>2 DEF IInv, TypeOK, VerdictIsTrue, IsFirst, thread, history
<1>7. verdict[<<b, r>>] \in Outcomes
  BY DEF IInv, TypeOK
<1>8. /\ value \in Statuses
      /\ \/ value \in Retryable
         \/ value = "success" /\ <<b, r>> \in accepted
         \/ value = "probe_denied" /\ b = "grok" /\ r \in denied
  BY <1>7, RecordedTypes DEF IInv, VerdictIsTrue, Retryable
<1> HIDE DEF value
<1>9. QED
  BY <1>2, <1>3, <1>4, <1>5, <1>6, <1>8, WorkerWrite

\* A commit starts a delivery nobody else can know of.
LEMMA CommitStep ==
  ASSUME IInv, NEW r \in Regs, Commit(r)
  PROVE  IInv'
<1> USE DEF IInv
<1>1. /\ r \notin rows /\ r \notin queue
      /\ UNCHANGED <<engine, enabled, verdict, thread, bounds, history>>
  BY DEF Commit, CommittedOnly
<1>2. /\ rows' = rows \cup {r} /\ rows' \subseteq Regs
      /\ step' \in [Regs -> Steps] /\ step'[r] \in {"init", "done"}
      /\ \A q \in Regs \ {r} : step'[q] = step[q]
  BY DEF Commit, TypeOK, Steps
<1>3. /\ status' \in [Durable \X Regs -> Statuses]
      /\ \A b \in Durable, q \in Regs : status'[<<b, q>>] =
           IF q = r THEN IF b \in enabled THEN "pending" ELSE "" ELSE status[<<b, q>>]
  BY DEF Commit, TypeOK, Statuses
<1>4. 0 \in 0..StaleUpload /\ 0 < RetryDelay
  BY ConstantsAssumption
<1>5. /\ age' \in [Durable \X Regs -> 0..StaleUpload]
      /\ \A b \in Durable, q \in Regs : age'[<<b, q>>] = IF q = r THEN 0 ELSE age[<<b, q>>]
  BY <1>4 DEF Commit, TypeOK
<1>6. \A b \in Durable, q \in Regs :
        /\ Disturbed(b, q)' <=> Disturbed(b, q)
        /\ q # r => (Waiting(b, q)' <=> Waiting(b, q)) /\ (Uploading(b, q)' <=> Uploading(b, q))
        /\ ~Uploading(b, r)' /\ (Waiting(b, r)' => b \in enabled)
  BY <1>1, <1>2 DEF Disturbed, Waiting, Uploading, history
<1>7. UNCHANGED <<target, queue, enabled, late, accepted, denied, overlap, marred>>
      /\ rows \subseteq Regs /\ queue \subseteq Regs /\ target \in Durable
  BY <1>1 DEF thread, history, TypeOK
<1>8. TypeOK'
  <2>1. counted' \subseteq Regs
    BY DEF Commit, TypeOK
  <2>2. QED
    BY <1>1, <1>2, <1>3, <1>5, <2>1 DEF TypeOK, thread, bounds, history
<1>9. VerdictIsTrue'
  BY <1>1 DEF VerdictIsTrue, IsFirst, thread, history
<1>10. CommittedOnly'
  BY <1>2, <1>3, <1>7 DEF CommittedOnly
<1>11. WorkerOwns'
  <2>1. SUFFICES ASSUME NEW q \in rows', NEW b \in Durable, ~Disturbed(b, q)
                 PROVE  /\ Waiting(b, q)' => status'[<<b, q>>] = "pending"
                        /\ Uploading(b, q)' => status'[<<b, q>>] = "uploading"
    BY <1>2, <1>6 DEF WorkerOwns
  <2>2. CASE q = r
    BY <1>3, <1>6, <2>2
  <2>3. CASE q # r
    BY <1>2, <1>3, <1>6, <1>7, <2>1, <2>3 DEF WorkerOwns
  <2>4. QED
    BY <2>2, <2>3
<1>12. SharedIsKnown'
  <2>1. SUFFICES ASSUME NEW q \in queue, NEW b \in Durable, b = target,
                        Waiting(b, q)' \/ Uploading(b, q)'
                 PROVE  Disturbed(b, q)
    BY <1>6, <1>7 DEF SharedIsKnown, Waiting, Uploading, Disturbed
  <2>2. QED
    BY <1>1, <1>6, <1>7, <2>1 DEF SharedIsKnown
<1>13. WithinLimits'
  BY <1>2, <1>4, <1>5, <1>6, <1>7 DEF WithinLimits
<1>14. DeliveryAccounted'
  <2>1. SUFFICES ASSUME NEW q \in rows', NEW b \in Durable \cap enabled
                 PROVE  \/ status'[<<b, q>>] \in Retryable
                        \/ status'[<<b, q>>] = "success" /\ <<b, q>> \in accepted
                        \/ status'[<<b, q>>] = "probe_denied" /\ b = "grok" /\ q \in denied
    BY <1>7 DEF DeliveryAccounted
  <2>2. CASE q = r
    BY <1>2, <1>3, <2>2 DEF Retryable
  <2>3. CASE q # r
    <3>1. q \in rows /\ b \in Durable /\ b \in enabled
      BY <1>2, <2>3
    <3>2. status'[<<b, q>>] = status[<<b, q>>]
      BY <1>3, <1>7, <2>3, <3>1
    <3>3. QED
      BY <3>1, <3>2 DEF DeliveryAccounted
  <2>4. QED
    BY <2>2, <2>3
<1>15. OverlapNeedsDelay'
  BY <1>7 DEF OverlapNeedsDelay
<1>16. ClaimIsHeld'
  <2>1. SUFFICES ASSUME NEW q \in queue \cap rows', ~Disturbed(target, q)
                 PROVE  status'[<<target, q>>] = "uploading"
    BY <1>6, <1>7 DEF ClaimIsHeld, Disturbed
  <2>2. q # r /\ q \in rows
    BY <1>1, <1>2
  <2>3. QED
    BY <1>3, <1>7, <2>1, <2>2 DEF ClaimIsHeld
<1>17. QED
  BY <1>8, <1>9, <1>10, <1>11, <1>12, <1>13, <1>14, <1>15, <1>16

\* An upload of the worker changes what it is going to record.
LEMMA SendStep ==
  ASSUME IInv, NEW r \in Regs, NEW sent \in Answers(r),
         Send(r, sent)
  PROVE  IInv'
<1> USE DEF IInv
<1>1. enabled \subseteq Backends
  BY ConstantsAssumption DEF TypeOK
<1>2. UNCHANGED <<engine, enabled, counted, table, thread, bounds, late, overlap, marred>>
  BY DEF Send
<1>3. /\ step[r] = "send" /\ step'[r] = "finishGrok"
      /\ step' \in [Regs -> Steps]
      /\ \A q \in Regs \ {r} : step'[q] = step[q]
  BY DEF Send, TypeOK, Steps
<1>4. \A d \in Durable \X Regs : verdict'[d] =
        IF d[2] = r /\ d[1] \in enabled THEN VerdictOf(sent, d[1]) ELSE verdict[d]
  BY DEF Send
<1>5. verdict' \in [Durable \X Regs -> Outcomes]
  <2>1. \A d \in Durable \X Regs : d[2] = r /\ d[1] \in enabled =>
          VerdictOf(sent, d[1]) \in Outcomes
    BY <1>1, VerdictTypes
  <2>2. QED
    BY <2>1 DEF Send, TypeOK
<1>6. /\ accepted \subseteq accepted' /\ denied \subseteq denied'
      /\ accepted' \subseteq Durable \X Regs /\ denied' \subseteq Regs
  BY DEF Send, TypeOK
<1>7. \A b \in Durable \cap enabled :
        /\ sent[b] = "ok" => <<b, r>> \in accepted'
        /\ b = "grok" /\ sent[b] = "denied" => r \in denied'
  BY DEF Send
<1>8. UNCHANGED <<rows, status, age, target, queue, answer, stage, left>>
  BY <1>2 DEF table, thread
<1>9. \A b \in Durable, q \in Regs :
        /\ Disturbed(b, q)' <=> Disturbed(b, q)
        /\ Waiting(b, q)' <=> Waiting(b, q)
        /\ Uploading(b, q)' <=> Uploading(b, q)
  BY <1>2, <1>3 DEF Disturbed, Waiting, Uploading, TypeOK
<1>10. rows \subseteq Regs /\ queue \subseteq Regs /\ target \in Durable
  BY DEF TypeOK
<1>11. TypeOK'
  BY <1>2, <1>3, <1>5, <1>6 DEF TypeOK, table, thread, bounds
<1>12. VerdictIsTrue'
  <2>1. \A d \in Durable \X Regs :
          /\ verdict'[d] = "ok" => d \in accepted'
          /\ verdict'[d] = "denied" => d[1] = "grok" /\ d[2] \in denied'
    <3>1. SUFFICES ASSUME NEW d \in Durable \X Regs
                   PROVE  /\ verdict'[d] = "ok" => d \in accepted'
                          /\ verdict'[d] = "denied" => d[1] = "grok" /\ d[2] \in denied'
      OBVIOUS
    <3>2. CASE d[2] = r /\ d[1] \in enabled
      <4>1. PICK b \in Durable \cap enabled : d = <<b, r>>
        BY <3>2
      <4>2. QED
        BY <1>1, <1>4, <1>7, <4>1, VerdictTypes
    <3>3. CASE ~(d[2] = r /\ d[1] \in enabled)
      BY <1>4, <1>6, <3>3 DEF VerdictIsTrue
    <3>4. QED
      BY <3>2, <3>3
  <2>2. QED
    BY <1>6, <1>8, <2>1 DEF VerdictIsTrue, IsFirst
<1>13. CommittedOnly'
  BY <1>3, <1>8 DEF CommittedOnly
<1>14. WorkerOwns' /\ SharedIsKnown'
  BY <1>2, <1>3, <1>8, <1>10 DEF WorkerOwns, SharedIsKnown, Disturbed, Waiting, Uploading, TypeOK
<1>15. WithinLimits'
  BY <1>2, <1>8, <1>9, <1>10 DEF WithinLimits
<1>16. DeliveryAccounted'
  BY <1>2, <1>6, <1>8 DEF DeliveryAccounted
<1>17. OverlapNeedsDelay' /\ ClaimIsHeld'
  BY <1>2, <1>8 DEF OverlapNeedsDelay, ClaimIsHeld, Disturbed
<1>18. QED
  BY <1>11, <1>12, <1>13, <1>14, <1>15, <1>16, <1>17

\* An error in a write of the worker.
LEMMA RaiseStep ==
  ASSUME IInv, NEW r \in Regs, BeginRaises(r) \/ FinishRaises(r)
  PROVE  IInv'
<1> USE DEF IInv
<1>1. /\ UNCHANGED <<engine, enabled, counted, table, thread, bounds, accepted, denied, late, overlap>>
      /\ marred' = marred \cup {r}
  BY DEF BeginRaises, FinishRaises
<1>2. /\ step[r] # "idle" /\ step'[r] # "idle"
      /\ step' \in [Regs -> Steps]
      /\ \A q \in Regs \ {r} : step'[q] = step[q]
  BY DEF BeginRaises, FinishRaises, TypeOK, Steps
<1>3. /\ verdict' \in [Durable \X Regs -> Outcomes]
      /\ \A d \in Durable \X Regs : verdict'[d] = verdict[d] \/ verdict'[d] = "failed"
  BY DEF BeginRaises, FinishRaises, TypeOK, Outcomes
<1>4. UNCHANGED <<rows, status, age, target, queue, answer, stage, left>>
  BY <1>1 DEF table, thread
<1>5. TypeOK'
  BY <1>1, <1>2, <1>3 DEF TypeOK, table, thread, bounds
<1>6. VerdictIsTrue'
  BY <1>1, <1>3, <1>4 DEF VerdictIsTrue, IsFirst
<1>7. CommittedOnly'
  BY <1>2, <1>4 DEF CommittedOnly
<1>8. WorkerOwns' /\ SharedIsKnown' /\ WithinLimits'
  BY <1>1, <1>2, <1>4
     DEF WorkerOwns, SharedIsKnown, WithinLimits, Disturbed, Waiting, Uploading, TypeOK
<1>9. DeliveryAccounted' /\ OverlapNeedsDelay' /\ ClaimIsHeld'
  BY <1>1, <1>4 DEF DeliveryAccounted, OverlapNeedsDelay, ClaimIsHeld, Disturbed
<1>10. QED
  BY <1>5, <1>6, <1>7, <1>8, <1>9

\* A round of the browser engine ends without a record of its uploads.
LEMMA MissingStep ==
  ASSUME IInv, NEW r \in Regs, HandlerMissing(r)
  PROVE  IInv'
<1> USE DEF IInv
<1>1. UNCHANGED <<engine, enabled, counted, table, thread, bounds, history>>
  BY DEF HandlerMissing
<1>2. /\ step[r] # "idle" /\ step'[r] = "done"
      /\ step' \in [Regs -> Steps]
      /\ \A q \in Regs \ {r} : step'[q] = step[q]
  BY DEF HandlerMissing, TypeOK, Steps
<1>3. /\ verdict' \in [Durable \X Regs -> Outcomes]
      /\ \A d \in Durable \X Regs : verdict'[d] = verdict[d] \/ verdict'[d] = "failed"
  BY DEF HandlerMissing, TypeOK, Outcomes
<1>4. UNCHANGED <<rows, status, age, target, queue, answer, stage, left,
                  accepted, denied, late, overlap, marred>>
  BY <1>1 DEF table, thread, history
<1>5. TypeOK'
  BY <1>1, <1>2, <1>3, <1>4 DEF TypeOK, bounds
<1>6. VerdictIsTrue' /\ CommittedOnly'
  BY <1>2, <1>3, <1>4 DEF VerdictIsTrue, IsFirst, CommittedOnly
<1>7. WorkerOwns' /\ SharedIsKnown' /\ WithinLimits'
  BY <1>1, <1>2, <1>4
     DEF WorkerOwns, SharedIsKnown, WithinLimits, Disturbed, Waiting, Uploading, TypeOK
<1>8. DeliveryAccounted' /\ OverlapNeedsDelay' /\ ClaimIsHeld'
  BY <1>1, <1>4 DEF DeliveryAccounted, OverlapNeedsDelay, ClaimIsHeld, Disturbed
<1>9. QED
  BY <1>5, <1>6, <1>7, <1>8

\* The retry thread moves on without a record: it holds none.
LEMMA IdleStep ==
  ASSUME IInv, Wake \/ ClaimNothing \/ RetryAborts
  PROVE  IInv'
<1> USE DEF IInv
<1>1. UNCHANGED <<engine, enabled, counted, table, step, verdict, crashes, history>>
  BY DEF Wake, ClaimNothing, RetryAborts, bounds
<1>2. stage' \in {"sleep", "claim"} /\ target' \in Durable /\ left' \in 0..Interval
      /\ (stage' = "claim" => left' = 0)
  <2>1. CASE ClaimNothing
    <3>1. left = 0
      BY <2>1, ConstantsAssumption DEF ClaimNothing, TypeOK
    <3>2. QED
      BY <2>1, <3>1, NextBackendTypes DEF ClaimNothing
  <2>2. CASE Wake
    BY <2>2 DEF Wake, TypeOK, Durable
  <2>3. CASE RetryAborts
    BY <2>3, ConstantsAssumption DEF RetryAborts, TypeOK
  <2>4. QED
    BY <2>1, <2>2, <2>3
<1>3. queue' = {} /\ answer' = "none"
  BY DEF Wake, ClaimNothing, RetryAborts, TypeOK
<1>4. failures' \in 0..MaxFailures
  BY ConstantsAssumption DEF Wake, ClaimNothing, RetryAborts, TypeOK, bounds
<1>5. UNCHANGED <<rows, status, age, accepted, denied, late, overlap, marred>>
  BY <1>1 DEF table, history
<1>6. left' > 0 => stage' = "sleep"
  BY <1>2
<1>7. TypeOK'
  BY <1>1, <1>2, <1>3, <1>4, <1>5, <1>6 DEF TypeOK
<1>8. VerdictIsTrue' /\ CommittedOnly' /\ SharedIsKnown' /\ ClaimIsHeld'
  BY <1>1, <1>3, <1>5 DEF VerdictIsTrue, IsFirst, CommittedOnly, SharedIsKnown, ClaimIsHeld
<1>9. WorkerOwns' /\ WithinLimits' /\ DeliveryAccounted' /\ OverlapNeedsDelay'
  BY <1>1, <1>5 DEF WorkerOwns, WithinLimits, DeliveryAccounted, OverlapNeedsDelay,
                    Disturbed, Waiting, Uploading
<1>10. QED
  BY <1>7, <1>8, <1>9

\* The retry thread hears from a backend.
LEMMA RetrySendStep ==
  ASSUME IInv, NEW r \in queue, NEW outcome \in Outcomes, RetrySend(r, outcome)
  PROVE  IInv'
<1> USE DEF IInv
<1>1. UNCHANGED <<engine, enabled, counted, table, step, verdict, stage, target, queue, left, crashes,
                  late, overlap, marred>>
  BY DEF RetrySend
<1>2. UNCHANGED <<rows, status, age>>
  BY <1>1 DEF table
<1>3. failures' \in 0..MaxFailures
  BY ConstantsAssumption DEF RetrySend, TypeOK
<1>4. /\ accepted \subseteq accepted' /\ denied \subseteq denied'
      /\ accepted' \subseteq Durable \X Regs /\ denied' \subseteq Regs
  BY DEF RetrySend, TypeOK
<1>5. answer' \in Outcomes /\ stage = "send"
  BY DEF RetrySend
<1>6. TypeOK'
  BY <1>1, <1>2, <1>3, <1>4, <1>5 DEF TypeOK
<1>7. VerdictIsTrue'
  <2>1. \A q \in Regs : IsFirst(q) => q = r
    BY ConstantsAssumption DEF RetrySend, IsFirst, TypeOK
  <2>2. /\ answer' = "ok" => <<target, r>> \in accepted'
        /\ answer' = "denied" => target = "grok" /\ r \in denied'
    BY DEF RetrySend
  <2>3. QED
    BY <1>1, <1>4, <2>1, <2>2 DEF VerdictIsTrue, IsFirst
<1>8. CommittedOnly' /\ WorkerOwns' /\ SharedIsKnown' /\ WithinLimits'
  BY <1>1, <1>2 DEF CommittedOnly, WorkerOwns, SharedIsKnown, WithinLimits,
                    Disturbed, Waiting, Uploading
<1>9. DeliveryAccounted' /\ OverlapNeedsDelay' /\ ClaimIsHeld'
  BY <1>1, <1>2, <1>4 DEF DeliveryAccounted, OverlapNeedsDelay, ClaimIsHeld, Disturbed
<1>10. QED
  BY <1>6, <1>7, <1>8, <1>9

\* A claim takes records nobody holds, or whose worker outlasted a limit.
LEMMA ClaimStep ==
  ASSUME IInv, Claim
  PROVE  IInv'
<1> USE DEF IInv
<1> DEFINE C == FirstDue(target)
<1>1. /\ C \subseteq rows /\ C # {} /\ C \subseteq Regs
      /\ \A r \in C : \/ status[<<target, r>>] \in {"pending", "failed"}
                           /\ age[<<target, r>>] >= RetryDelay
                      \/ status[<<target, r>>] = "uploading"
                           /\ age[<<target, r>>] >= StaleUpload
  BY DEF Claim, FirstDue, Due, TypeOK
<1>2. /\ UNCHANGED <<engine, enabled, counted, rows, step, verdict, target, answer, left, bounds,
                     accepted, denied, late, marred>>
      /\ stage = "claim" /\ stage' = "send" /\ queue' = C
      /\ target \in Durable
  BY DEF Claim, TypeOK
<1>3. /\ \A d \in Durable \X Regs : status'[d] =
           IF d[1] = target /\ d[2] \in C THEN "uploading" ELSE status[d]
      /\ \A d \in Durable \X Regs : age'[d] =
           IF d[1] = target /\ d[2] \in C THEN 0 ELSE age[d]
      /\ overlap' = overlap \cup
           {d \in {target} \X C : Waiting(d[1], d[2]) \/ Uploading(d[1], d[2])}
  BY DEF Claim
<1>4. status' \in [Durable \X Regs -> Statuses]
  BY DEF Claim, TypeOK, Statuses
<1>5. age' \in [Durable \X Regs -> 0..StaleUpload]
  BY ConstantsAssumption DEF Claim, TypeOK
<1> HIDE DEF C
<1>6. \A b \in Durable, q \in Regs :
        /\ Waiting(b, q)' <=> Waiting(b, q)
        /\ Uploading(b, q)' <=> Uploading(b, q)
        /\ Disturbed(b, q) => Disturbed(b, q)'
        /\ b = target /\ q \in C /\ (Waiting(b, q) \/ Uploading(b, q)) => Disturbed(b, q)'
  BY <1>2, <1>3 DEF Waiting, Uploading, Disturbed
<1>7. rows \subseteq Regs /\ 0 < RetryDelay /\ 0 < StaleUpload
  BY ConstantsAssumption DEF TypeOK
<1>8. TypeOK'
  <2>1. overlap' \subseteq Durable \X Regs
    BY <1>1, <1>2, <1>3 DEF TypeOK
  <2>2. left = 0 /\ left' = 0
    BY <1>2, ConstantsAssumption DEF TypeOK
  <2>3. stage' = "send" /\ queue' \subseteq Regs /\ queue' # {}
    BY <1>1, <1>2
  <2>4. QED
    BY <1>2, <1>4, <1>5, <2>1, <2>2, <2>3 DEF TypeOK, bounds
<1>9. VerdictIsTrue'
  <2>1. answer = "none"
    BY <1>2 DEF TypeOK
  <2>2. QED
    BY <1>2, <2>1 DEF VerdictIsTrue
<1>10. CommittedOnly'
  <2>1. \A r \in Regs : r \in rows \cup queue' => step[r] # "idle"
    BY <1>1, <1>2 DEF CommittedOnly
  <2>2. ASSUME NEW r \in Regs, r \notin rows, NEW b \in Durable
        PROVE  status'[<<b, r>>] = ""
    BY <1>1, <1>3, <2>2 DEF CommittedOnly
  <2>3. QED
    BY <1>2, <2>1, <2>2 DEF CommittedOnly
<1>11. WorkerOwns'
  <2>1. SUFFICES ASSUME NEW q \in rows, NEW b \in Durable, ~Disturbed(b, q)'
                 PROVE  /\ Waiting(b, q)' => status'[<<b, q>>] = "pending"
                        /\ Uploading(b, q)' => status'[<<b, q>>] = "uploading"
    BY <1>2 DEF WorkerOwns
  <2>2. CASE b = target /\ q \in C
    BY <1>6, <1>7, <2>1, <2>2
  <2>3. CASE ~(b = target /\ q \in C)
    BY <1>3, <1>6, <1>7, <2>1, <2>3 DEF WorkerOwns
  <2>4. QED
    BY <2>2, <2>3
<1>12. SharedIsKnown'
  <2>1. SUFFICES ASSUME NEW q \in C, NEW b \in Durable, b = target,
                        Waiting(b, q)' \/ Uploading(b, q)'
                 PROVE  Disturbed(b, q)'
    BY <1>2 DEF SharedIsKnown, Waiting, Uploading, Disturbed
  <2>2. QED
    BY <1>1, <1>6, <2>1
<1>13. WithinLimits'
  <2>1. SUFFICES ASSUME NEW q \in rows, NEW b \in Durable, ~Disturbed(b, q)',
                        <<b, q>> \notin late
                 PROVE  /\ Waiting(b, q)' => age'[<<b, q>>] < RetryDelay
                        /\ Uploading(b, q)' => age'[<<b, q>>] < StaleUpload
    BY <1>2 DEF WithinLimits
  <2>2. CASE b = target /\ q \in C
    BY <1>6, <1>7, <2>1, <2>2
  <2>3. CASE ~(b = target /\ q \in C)
    BY <1>3, <1>6, <1>7, <2>1, <2>3 DEF WithinLimits
  <2>4. QED
    BY <2>2, <2>3
<1>14. DeliveryAccounted'
  <2>1. SUFFICES ASSUME NEW q \in rows, NEW b \in Durable, b \in enabled
                 PROVE  \/ status'[<<b, q>>] \in Retryable
                        \/ status'[<<b, q>>] = "success" /\ <<b, q>> \in accepted
                        \/ status'[<<b, q>>] = "probe_denied" /\ b = "grok" /\ q \in denied
    BY <1>2 DEF DeliveryAccounted
  <2>2. status'[<<b, q>>] = "uploading" \/ status'[<<b, q>>] = status[<<b, q>>]
    BY <1>3, <1>7
  <2>3. QED
    BY <2>1, <2>2 DEF DeliveryAccounted, Retryable
<1>15. OverlapNeedsDelay'
  <2>1. ASSUME NEW r \in C, Waiting(target, r) \/ Uploading(target, r),
               <<target, r>> \notin late, r \notin marred, <<target, r>> \notin overlap
        PROVE  FALSE
    <3>1. ~Disturbed(target, r) /\ r \in rows
      BY <1>1, <2>1 DEF Disturbed
    <3>2. /\ Waiting(target, r) => status[<<target, r>>] = "pending"
          /\ Uploading(target, r) => status[<<target, r>>] = "uploading"
          /\ Waiting(target, r) => age[<<target, r>>] < RetryDelay
          /\ Uploading(target, r) => age[<<target, r>>] < StaleUpload
      BY <1>2, <2>1, <3>1 DEF WorkerOwns, WithinLimits
    <3>3. age[<<target, r>>] \in Nat /\ RetryDelay \in Nat /\ StaleUpload \in Nat
      BY <1>1, <1>2, ConstantsAssumption DEF TypeOK
    <3>4. QED
      BY <1>1, <2>1, <3>2, <3>3
  <2>2. SUFFICES ASSUME NEW d \in overlap', d \notin late, d \notin overlap
                 PROVE  d \in Durable \X marred
    BY <1>2 DEF OverlapNeedsDelay
  <2>3. PICK r \in C : d = <<target, r>> /\ (Waiting(target, r) \/ Uploading(target, r))
    BY <1>3, <2>2
  <2>4. QED
    BY <1>2, <2>1, <2>2, <2>3
<1>16. ClaimIsHeld'
  BY <1>1, <1>2, <1>3 DEF ClaimIsHeld
<1>17. QED
  BY <1>8, <1>9, <1>10, <1>11, <1>12, <1>13, <1>14, <1>15, <1>16

\* The retry thread records what it heard, and lets go of the record.
LEMMA RetryFinishStep ==
  ASSUME IInv, NEW r \in queue, RetryFinish(r)
  PROVE  IInv'
<1> USE DEF IInv
<1> DEFINE value == Recorded(answer)
<1>1. /\ stage = "send" /\ answer \in Outcomes /\ IsFirst(r)
      /\ r \in Regs /\ target \in Durable
      /\ UNCHANGED <<engine, enabled, counted, step, verdict, bounds, history>>
      /\ queue' = queue \ {r} /\ answer' = "none"
  BY DEF RetryFinish, TypeOK
<1>2. value \in Statuses
  BY <1>1, RecordedTypes
<1>3. /\ rows' = rows
      /\ status' \in [Durable \X Regs -> Statuses]
      /\ age' \in [Durable \X Regs -> 0..StaleUpload]
      /\ \A d \in Durable \X Regs : d # <<target, r>> => status'[d] = status[d] /\ age'[d] = age[d]
      /\ r \in rows => status'[<<target, r>>] = value /\ age'[<<target, r>>] = 0
      /\ r \notin rows => status' = status /\ age' = age
  BY <1>1, <1>2, WriteTypes DEF RetryFinish
<1>4. \/ value = "failed"
      \/ value = "success" /\ <<target, r>> \in accepted
      \/ value = "probe_denied" /\ target = "grok" /\ r \in denied
  BY <1>1, RecordedTypes DEF VerdictIsTrue
<1> HIDE DEF value
<1>5. Waiting(target, r) \/ Uploading(target, r) => Disturbed(target, r)
  BY DEF SharedIsKnown
<1>6. \A b \in Durable, q \in Regs :
        /\ Disturbed(b, q)' <=> Disturbed(b, q)
        /\ Waiting(b, q)' <=> Waiting(b, q)
        /\ Uploading(b, q)' <=> Uploading(b, q)
  BY <1>1 DEF Disturbed, Waiting, Uploading, history
<1>7. /\ rows \subseteq Regs /\ queue \subseteq Regs
      /\ UNCHANGED <<accepted, denied, late, overlap, marred>>
  BY <1>1 DEF TypeOK, history
<1>8. queue' # {} => target' = target
  BY <1>1 DEF RetryFinish
<1>9. TypeOK'
  <2>1. left = 0
    BY <1>1, ConstantsAssumption DEF TypeOK
  <2>2. /\ left' \in 0..Interval /\ target' \in Durable /\ (left' > 0 => stage' = "sleep")
        /\ stage' \in {"sleep", "claim", "send"} /\ (stage' = "send" <=> queue' # {})
    <3>1. CASE queue = {r}
      <4>1. NextBackend
        BY <3>1 DEF RetryFinish
      <4>2. stage' \in {"sleep", "claim"} /\ target' \in Durable /\ left' \in 0..Interval
            /\ (stage' = "claim" => left' = left)
        BY <4>1, NextBackendTypes
      <4>3. queue' = {}
        BY <1>1, <3>1
      <4>4. QED
        BY <2>1, <4>2, <4>3
    <3>2. CASE queue # {r}
      <4>1. UNCHANGED <<stage, target, left>>
        BY <3>2 DEF RetryFinish
      <4>2. queue' # {}
        BY <1>1, <3>2
      <4>3. QED
        BY <1>1, <2>1, <4>1, <4>2, ConstantsAssumption DEF TypeOK
    <3>3. QED
      BY <3>1, <3>2
  <2>3. QED
    BY <1>1, <1>3, <1>7, <2>2 DEF TypeOK, bounds
<1>10. VerdictIsTrue'
  BY <1>1, <1>7 DEF VerdictIsTrue
<1>11. CommittedOnly'
  <2>1. \A q \in Regs : q \in rows \cup queue' => step[q] # "idle"
    BY <1>1 DEF CommittedOnly
  <2>2. ASSUME NEW q \in Regs, q \notin rows, NEW b \in Durable
        PROVE  status'[<<b, q>>] = ""
    BY <1>3, <2>2 DEF CommittedOnly
  <2>3. QED
    BY <1>1, <1>3, <2>1, <2>2 DEF CommittedOnly
<1>12. WorkerOwns'
  <2>1. SUFFICES ASSUME NEW q \in rows, NEW b \in Durable, ~Disturbed(b, q)
                 PROVE  /\ Waiting(b, q)' => status'[<<b, q>>] = "pending"
                        /\ Uploading(b, q)' => status'[<<b, q>>] = "uploading"
    BY <1>3, <1>6, <1>7 DEF WorkerOwns
  <2>2. CASE b = target /\ q = r
    BY <1>1, <1>5, <1>6, <2>1, <2>2
  <2>3. CASE ~(b = target /\ q = r)
    BY <1>3, <1>6, <1>7, <2>1, <2>3 DEF WorkerOwns
  <2>4. QED
    BY <2>2, <2>3
<1>13. SharedIsKnown'
  <2>1. SUFFICES ASSUME NEW q \in queue', NEW b \in Durable, b = target,
                        Waiting(b, q)' \/ Uploading(b, q)'
                 PROVE  Disturbed(b, q)
    BY <1>1, <1>6, <1>7, <1>8 DEF SharedIsKnown, Waiting, Uploading, Disturbed
  <2>2. QED
    BY <1>1, <1>6, <1>7, <2>1 DEF SharedIsKnown
<1>14. WithinLimits'
  <2>1. SUFFICES ASSUME NEW q \in rows, NEW b \in Durable, ~Disturbed(b, q), <<b, q>> \notin late
                 PROVE  /\ Waiting(b, q)' => age'[<<b, q>>] < RetryDelay
                        /\ Uploading(b, q)' => age'[<<b, q>>] < StaleUpload
    BY <1>3, <1>6, <1>7 DEF WithinLimits
  <2>2. CASE b = target /\ q = r
    BY <1>1, <1>5, <1>6, <2>1, <2>2
  <2>3. CASE ~(b = target /\ q = r)
    BY <1>3, <1>6, <1>7, <2>1, <2>3 DEF WithinLimits
  <2>4. QED
    BY <2>2, <2>3
<1>15. DeliveryAccounted'
  <2>1. SUFFICES ASSUME NEW q \in rows, NEW b \in Durable, b \in enabled
                 PROVE  \/ status'[<<b, q>>] \in Retryable
                        \/ status'[<<b, q>>] = "success" /\ <<b, q>> \in accepted
                        \/ status'[<<b, q>>] = "probe_denied" /\ b = "grok" /\ q \in denied
    BY <1>1, <1>3, <1>7 DEF DeliveryAccounted
  <2>2. CASE b = target /\ q = r
    BY <1>3, <1>4, <2>1, <2>2 DEF Retryable
  <2>3. CASE ~(b = target /\ q = r)
    <3>1. status'[<<b, q>>] = status[<<b, q>>]
      BY <1>3, <1>7, <2>3
    <3>2. QED
      BY <2>1, <3>1 DEF DeliveryAccounted
  <2>4. QED
    BY <2>2, <2>3
<1>16. OverlapNeedsDelay'
  BY <1>7 DEF OverlapNeedsDelay
<1>17. ClaimIsHeld'
  <2>1. SUFFICES ASSUME NEW q \in queue' \cap rows, ~Disturbed(target, q)
                 PROVE  status'[<<target, q>>] = "uploading"
    BY <1>1, <1>3, <1>6, <1>7, <1>8 DEF ClaimIsHeld, Disturbed
  <2>2. q \in queue /\ q \in rows /\ q # r
    BY <1>1, <2>1
  <2>3. QED
    BY <1>1, <1>3, <1>7, <2>1, <2>2 DEF ClaimIsHeld
<1>18. QED
  BY <1>9, <1>10, <1>11, <1>12, <1>13, <1>14, <1>15, <1>16, <1>17

\* Time passes; a worker at a limit is noted as late.
LEMMA TickStep ==
  ASSUME IInv, Tick
  PROVE  IInv'
<1> USE DEF IInv
<1>1. UNCHANGED <<engine, enabled, counted, rows, status, step, verdict, stage, target, queue, answer,
                  bounds, accepted, denied, overlap, marred>>
  BY DEF Tick
<1>2. late \subseteq late'
  BY DEF Tick
<1>3. age' \in [Durable \X Regs -> 0..StaleUpload]
  <2>1. \A n \in 0..StaleUpload : Older(n) \in 0..StaleUpload
    BY ConstantsAssumption DEF Older
  <2>2. QED
    BY <2>1 DEF Tick, TypeOK
<1>4. left' \in 0..Interval /\ (left' > 0 => stage' = "sleep")
  BY ConstantsAssumption DEF Tick, TypeOK
<1>5. rows \subseteq Regs
  BY DEF TypeOK
<1>6. TypeOK'
  <2>1. late' \subseteq Durable \X Regs
    BY <1>5 DEF Tick, TypeOK
  <2>2. QED
    BY <1>1, <1>3, <1>4, <2>1 DEF TypeOK, bounds
<1>7. VerdictIsTrue' /\ CommittedOnly' /\ WorkerOwns' /\ SharedIsKnown'
  BY <1>1 DEF VerdictIsTrue, IsFirst, CommittedOnly, WorkerOwns, SharedIsKnown,
              Disturbed, Waiting, Uploading
<1>8. WithinLimits'
  <2>1. SUFFICES ASSUME NEW q \in rows, NEW b \in Durable, <<b, q>> \notin late'
                 PROVE  /\ Waiting(b, q)' => age'[<<b, q>>] < RetryDelay
                        /\ Uploading(b, q)' => age'[<<b, q>>] < StaleUpload
    BY <1>1 DEF WithinLimits
  <2>2. /\ Waiting(b, q) => ~(age'[<<b, q>>] >= RetryDelay)
        /\ Uploading(b, q) => ~(age'[<<b, q>>] >= StaleUpload)
    BY <2>1 DEF Tick
  <2>3. age'[<<b, q>>] \in Nat /\ RetryDelay \in Nat /\ StaleUpload \in Nat
    BY <1>3, <1>5, ConstantsAssumption
  <2>4. (Waiting(b, q)' <=> Waiting(b, q)) /\ (Uploading(b, q)' <=> Uploading(b, q))
    BY <1>1 DEF Waiting, Uploading
  <2>5. QED
    BY <2>2, <2>3, <2>4
<1>9. DeliveryAccounted' /\ OverlapNeedsDelay' /\ ClaimIsHeld'
  BY <1>1, <1>2 DEF DeliveryAccounted, OverlapNeedsDelay, ClaimIsHeld, Disturbed
<1>10. QED
  BY <1>6, <1>7, <1>8, <1>9

\* A deleted row takes its deliveries with it.
LEMMA DeleteStep ==
  ASSUME IInv, NEW r \in Regs, Delete(r)
  PROVE  IInv'
<1>0. 0 \in 0..StaleUpload
  BY ConstantsAssumption
<1> USE DEF IInv, Delete, Durable
<1>1. UNCHANGED <<engine, enabled, counted, step, verdict, thread, bounds, history>>
  OBVIOUS
<1>2. TypeOK'
  <2>1. status' \in [Durable \X Regs -> Statuses]
    BY DEF TypeOK, Statuses
  <2>2. age' \in [Durable \X Regs -> 0..StaleUpload]
    BY <1>0 DEF TypeOK
  <2>3. rows' \subseteq Regs
    BY DEF TypeOK
  <2>4. QED
    BY <1>1, <2>1, <2>2, <2>3 DEF TypeOK, thread, bounds, history
<1>3. VerdictIsTrue'
  BY <1>1 DEF VerdictIsTrue, IsFirst, thread, history
<1>4. CommittedOnly'
  BY <1>1 DEF TypeOK, CommittedOnly, thread
<1>5. WorkerOwns' /\ WithinLimits'
  BY <1>1 DEF TypeOK, WorkerOwns, WithinLimits, Disturbed, Waiting, Uploading, history
<1>6. SharedIsKnown'
  BY <1>1 DEF SharedIsKnown, Disturbed, Waiting, Uploading, thread, history
<1>7. DeliveryAccounted'
  BY <1>1 DEF TypeOK, DeliveryAccounted, history
<1>8. OverlapNeedsDelay'
  BY <1>1 DEF OverlapNeedsDelay, history
<1>9. ClaimIsHeld'
  BY <1>1 DEF TypeOK, ClaimIsHeld, Disturbed, thread, history
<1>10. QED
  BY <1>2, <1>3, <1>4, <1>5, <1>6, <1>7, <1>8, <1>9

\* A crash leaves the table, and nobody who holds a delivery.
LEMMA CrashStep ==
  ASSUME IInv, Crash
  PROVE  IInv'
<1> USE DEF IInv
<1>1. /\ UNCHANGED <<engine, enabled, counted, table, failures, history>>
      /\ stage' = "sleep" /\ target' = "grok" /\ queue' = {} /\ answer' = "none" /\ left' = 0
      /\ \A r \in Regs : step'[r] = IF step[r] = "idle" THEN "idle" ELSE "done"
      /\ \A d \in Durable \X Regs : verdict'[d] = "failed"
  BY DEF Crash
<1>2. TypeOK'
  <2>1. crashes' \in 0..MaxCrashes /\ 0 \in 0..Interval
    BY ConstantsAssumption DEF Crash, TypeOK
  <2>2. step' \in [Regs -> Steps] /\ verdict' \in [Durable \X Regs -> Outcomes]
    BY DEF Crash, TypeOK, Steps, Outcomes
  <2>3. target' \in Durable
    BY <1>1 DEF Durable
  <2>4. ~(left' > 0)
    BY <1>1
  <2>5. QED
    BY <1>1, <2>1, <2>2, <2>3, <2>4 DEF TypeOK, table, history
<1>3. \A b \in Durable, r \in Regs : ~Waiting(b, r)' /\ ~Uploading(b, r)'
  BY <1>1 DEF Waiting, Uploading
<1>4. VerdictIsTrue'
  BY <1>1 DEF VerdictIsTrue, IsFirst
<1>5. CommittedOnly'
  BY <1>1 DEF CommittedOnly, table
<1>6. WorkerOwns' /\ WithinLimits' /\ SharedIsKnown'
  BY <1>1, <1>3 DEF WorkerOwns, WithinLimits, SharedIsKnown, table, TypeOK
<1>7. DeliveryAccounted' /\ OverlapNeedsDelay' /\ ClaimIsHeld'
  BY <1>1 DEF DeliveryAccounted, OverlapNeedsDelay, ClaimIsHeld, table, history
<1>8. QED
  BY <1>2, <1>4, <1>5, <1>6, <1>7

----------------------------------------------------------------------------

\* In the beginning nothing was committed.
LEMMA InitInvariant == Init => IInv
<1> SUFFICES ASSUME Init PROVE IInv
  OBVIOUS
<1>1. TypeOK
  <2>1. /\ 0 \in 0..StaleUpload /\ 0 \in 0..Interval
        /\ 0 \in 0..MaxFailures /\ 0 \in 0..MaxCrashes /\ ~(0 > 0)
    BY ConstantsAssumption
  <2>2. /\ status \in [Durable \X Regs -> Statuses] /\ step \in [Regs -> Steps]
        /\ verdict \in [Durable \X Regs -> Outcomes]
    BY DEF Init, Statuses, Steps, Outcomes
  <2>3. age \in [Durable \X Regs -> 0..StaleUpload]
    BY <2>1 DEF Init
  <2>4. target \in Durable
    BY DEF Init, Durable
  <2>5. <<engine, enabled>> \in Setups
    <3>1. PICK setup \in Setups : engine = setup[1] /\ enabled = setup[2]
      BY DEF Init
    <3>2. PICK e \in {"protocol", "browser"}, b \in SUBSET Backends : setup = <<e, b>>
      BY ConstantsAssumption
    <3>3. QED
      BY <3>1, <3>2
  <2>6. QED
    BY <2>1, <2>2, <2>3, <2>4, <2>5 DEF Init, TypeOK
<1>2. VerdictIsTrue /\ CommittedOnly /\ SharedIsKnown
  BY DEF Init, VerdictIsTrue, IsFirst, CommittedOnly, SharedIsKnown
<1>3. WorkerOwns /\ WithinLimits /\ DeliveryAccounted /\ OverlapNeedsDelay /\ ClaimIsHeld
  BY DEF Init, WorkerOwns, WithinLimits, DeliveryAccounted, OverlapNeedsDelay, ClaimIsHeld
<1>4. QED
  BY <1>1, <1>2, <1>3 DEF IInv

\* Every step keeps the invariant.
LEMMA NextInvariant == IInv /\ [Next]_vars => IInv'
<1> SUFFICES ASSUME IInv, [Next]_vars PROVE IInv'
  OBVIOUS
<1>1. CASE \E r \in Regs : Commit(r) \/ WorkerStep(r) \/ Delete(r)
  <2>1. PICK r \in Regs : Commit(r) \/ WorkerStep(r) \/ Delete(r)
    BY <1>1
  <2>2. CASE Commit(r) \/ Delete(r)
    BY <2>2, CommitStep, DeleteStep
  <2>3. CASE WorkerStep(r)
    <3>1. CASE \E sent \in Answers(r) : Send(r, sent)
      BY <3>1, SendStep
    <3>2. CASE BeginGrok(r) \/ BeginSub2(r)
      BY <3>2, BeginStep
    <3>3. CASE FinishGrok(r) \/ FinishSub2(r)
      BY <3>3, FinishStep
    <3>4. CASE BeginRaises(r) \/ FinishRaises(r)
      BY <3>4, RaiseStep
    <3>5. CASE HandlerMissing(r)
      BY <3>5, MissingStep
    <3>6. QED
      BY <2>3, <3>1, <3>2, <3>3, <3>4, <3>5 DEF WorkerStep
  <2>4. QED
    BY <2>1, <2>2, <2>3
<1>2. CASE RetryStep \/ RetryAborts
  <2>1. CASE Wake \/ ClaimNothing \/ RetryAborts
    BY <2>1, IdleStep
  <2>2. CASE Claim
    BY <2>2, ClaimStep
  <2>3. CASE \E r \in queue, outcome \in Outcomes : RetrySend(r, outcome)
    BY <2>3, RetrySendStep
  <2>4. CASE \E r \in queue : RetryFinish(r)
    BY <2>4, RetryFinishStep
  <2>5. QED
    BY <1>2, <2>1, <2>2, <2>3, <2>4 DEF RetryStep
<1>3. CASE Tick
  BY <1>3, TickStep
<1>4. CASE Crash
  BY <1>4, CrashStep
<1>5. CASE UNCHANGED vars
  BY <1>5 DEF vars, IInv, TypeOK, VerdictIsTrue, IsFirst, CommittedOnly, WorkerOwns,
              SharedIsKnown, WithinLimits, DeliveryAccounted, OverlapNeedsDelay,
              ClaimIsHeld, Disturbed, Waiting, Uploading
<1>6. QED
  BY <1>1, <1>2, <1>3, <1>4, <1>5 DEF Next

\* The invariant holds in every reachable state.
THEOREM Invariant == Spec => []IInv
<1>1. QED
  BY InitInvariant, NextInvariant, PTL DEF Spec

\* Every variable keeps its type, and the retry thread holds records only while
\* it uploads (_run_grok2api_once, _run_sub2api_once).
THEOREM DeliveryTypeCorrect == Spec => []TypeOK
<1>1. IInv => TypeOK
  BY DEF IInv
<1>2. QED
  BY <1>1, Invariant, PTL

\* Nothing undelivered is out of reach of a retry, and a recorded success or
\* denial is what the backend answered (complete_registration_success, finish_*).
THEOREM Accounted == Spec => []DeliveryAccounted
<1>1. IInv => DeliveryAccounted
  BY DEF IInv
<1>2. QED
  BY <1>1, Invariant, PTL

\* Worker and retry thread upload the same delivery only after a worker used up
\* its 30 or 300 seconds or met an error (begin_*_upload, claim_*_retries).
THEOREM DelayBehindOverlap == Spec => []OverlapNeedsDelay
<1>1. IInv => OverlapNeedsDelay
  BY DEF IInv
<1>2. QED
  BY <1>1, Invariant, PTL

\* A claimed record is the retry thread's until it has finished it
\* (claim_*_retries).
THEOREM ClaimHeld == Spec => []ClaimIsHeld
<1>1. IInv => ClaimIsHeld
  BY DEF IInv
<1>2. QED
  BY <1>1, Invariant, PTL

\* A settled delivery changes only if worker and retry thread met on it.
LEMMA SettledStep ==
  ASSUME IInv, [Next]_vars, NEW r \in Regs, NEW b \in Durable,
         status[<<b, r>>] \in Settled, r \in rows'
  PROVE  status'[<<b, r>>] = status[<<b, r>>] \/ Disturbed(b, r)
<1> SUFFICES ASSUME ~Disturbed(b, r)
             PROVE  status'[<<b, r>>] = status[<<b, r>>]
  OBVIOUS
<1>1. r \in rows
  BY DEF IInv, CommittedOnly, Settled
<1>2. ~Waiting(b, r) /\ ~Uploading(b, r)
  BY <1>1 DEF IInv, WorkerOwns, Settled
<1>3. ~(r \in queue /\ b = target)
  BY <1>1 DEF IInv, ClaimIsHeld, Settled
<1>4. CASE \E q \in Regs : Commit(q) \/ WorkerStep(q) \/ Delete(q)
  <2>1. PICK q \in Regs : Commit(q) \/ WorkerStep(q) \/ Delete(q)
    BY <1>4
  <2>2. CASE Commit(q)
    BY <1>1, <2>2 DEF Commit, IInv, CommittedOnly, TypeOK
  <2>3. CASE Delete(q)
    BY <2>3 DEF Delete
  <2>4. CASE BeginGrok(q) \/ BeginSub2(q)
    BY <1>2, <2>4 DEF BeginGrok, BeginSub2, Begin, Write, table, Waiting, Durable, IInv, TypeOK
  <2>5. CASE FinishGrok(q) \/ FinishSub2(q)
    BY <1>2, <2>5 DEF FinishGrok, FinishSub2, Finish, Write, table, Uploading, Durable, IInv, TypeOK
  <2>6. CASE BeginRaises(q) \/ FinishRaises(q) \/ HandlerMissing(q)
    BY <2>6 DEF BeginRaises, FinishRaises, HandlerMissing, table
  <2>7. CASE \E sent \in Answers(q) : Send(q, sent)
    BY <2>7 DEF Send, table
  <2>8. QED
    BY <2>1, <2>2, <2>3, <2>4, <2>5, <2>6, <2>7 DEF WorkerStep
<1>5. CASE RetryStep \/ RetryAborts
  <2>1. CASE Wake \/ ClaimNothing \/ RetryAborts
    BY <2>1 DEF Wake, ClaimNothing, RetryAborts, table
  <2>2. CASE Claim
    BY <2>2 DEF Claim, FirstDue, Due, Settled
  <2>3. CASE \E q \in queue, outcome \in Outcomes : RetrySend(q, outcome)
    BY <2>3 DEF RetrySend, table
  <2>4. CASE \E q \in queue : RetryFinish(q)
    BY <1>3, <2>4 DEF RetryFinish, Write, IInv, TypeOK
  <2>5. QED
    BY <1>5, <2>1, <2>2, <2>3, <2>4 DEF RetryStep
<1>6. CASE Tick \/ Crash \/ UNCHANGED vars
  BY <1>6 DEF Tick, Crash, vars, table
<1>7. QED
  BY <1>4, <1>5, <1>6 DEF Next

\* A recorded success or denial is never taken back unless worker and retry
\* thread met on the delivery (finish_*_upload, finish_grok2api_probe).
THEOREM SettledFinal == Spec => SettledIsFinal
<1>1. IInv /\ [Next]_vars =>
        [\A r \in Regs, b \in Durable :
           status[<<b, r>>] \in Settled /\ r \in rows' =>
             \/ status'[<<b, r>>] = status[<<b, r>>]
             \/ Disturbed(b, r)]_vars
  BY SettledStep
<1>2. QED
  BY <1>1, Invariant, PTL DEF Spec, SettledIsFinal

=============================================================================
