-------------------------- MODULE BatchActivation ---------------------------
(***************************************************************************)
(* core/batch_activation.py: TOS, birth date and a Cloudflare session for  *)
(* the accounts of earlier tasks, one after the other in one browser.  It  *)
(* waits for a human at a Cloudflare page, without a deadline.             *)
(***************************************************************************)
EXTENDS SignupRound

batchUnchanged == UNCHANGED <<config, rounds, recorded, created, controlVars>>
Batch(step) == IsKind("reactivate") /\ At(step)

\* _clear_identity_only: whatever goes wrong is swallowed.
ClearedIdentity ==
    UNION {IF o.ok THEN Cleared(o.chrome, May("cdp")) ELSE {o.chrome} : o \in Pages(chrome, May("start"))}

BatchBoots ==
    /\ Batch("boot")
    /\ \E o \in Starts(chrome, May("start")) :
        /\ chrome' = o.chrome
        /\ Goes(IF o.ok THEN "idle" ELSE "unborn")
    /\ UNCHANGED <<status, mutated>> /\ batchUnchanged

TakesRecord(a) ==
    /\ Batch("idle") /\ ~stopping /\ status[a] = "todo"
    /\ pc' = "gate"
    /\ round' = [NoRound EXCEPT !.alias = a]
    /\ UNCHANGED <<chrome, status, mutated>> /\ batchUnchanged

\* A pause ends here, also by a stop, which is not looked for again.
BeginsActivation ==
    /\ Batch("gate") /\ Unpaused
    /\ late' = IF stopping THEN late + 1 ELSE late
    /\ chrome' \in ClearedIdentity
    /\ Goes("switch")
    /\ UNCHANGED <<config, rounds, recordVars, stopping, paused>>

SwitchesIdentity ==
    /\ Batch("switch")
    /\ \E o \in Switches(round.alias) :
        /\ chrome' = o.chrome
        /\ Goes(IF o.ok THEN "challenge" ELSE "clear")
    /\ UNCHANGED <<status, mutated>> /\ batchUnchanged

\* _wait_for_grok(timeout=0): a page that is gone is asked again and again.
PassesChallenge ==
    /\ Batch("challenge") /\ chrome.window = "live"
    /\ Goes("mutate")
    /\ UNCHANGED <<chrome, status, mutated>> /\ batchUnchanged

InitsHistoricAccount ==
    /\ Batch("mutate")
    /\ mutated' \in Mutations(round.alias, IF chrome.window = "live" THEN chrome.tab ELSE round.alias)
    /\ Goes("clear")
    /\ UNCHANGED <<chrome, status>> /\ batchUnchanged

EndsActivation ==
    /\ Batch("clear")
    /\ status' = [status EXCEPT ![round.alias] = "used"]
    /\ IF stopping THEN UNCHANGED chrome ELSE chrome' \in ClearedIdentity
    /\ EndsRound
    /\ UNCHANGED mutated /\ batchUnchanged

\* The end, also of a final egress update that raises.
BatchEnds ==
    /\ Batch("idle")
    /\ stopping \/ \A a \in Aliases : status[a] # "todo"
    /\ chrome' = Stopped(chrome)
    /\ Goes("ended")
    /\ UNCHANGED <<status, mutated>> /\ batchUnchanged

BatchStep ==
    \/ BatchBoots \/ BeginsActivation \/ SwitchesIdentity \/ PassesChallenge
    \/ InitsHistoricAccount \/ EndsActivation \/ BatchEnds
    \/ \E a \in Aliases : TakesRecord(a)
=============================================================================
