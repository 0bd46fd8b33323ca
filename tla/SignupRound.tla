---------------------------- MODULE SignupRound ----------------------------
(***************************************************************************)
(* What the two kinds of registration worker and the batch reactivation    *)
(* share: one thread, its browser, the aliases it claims, the accounts it  *)
(* creates at xAI, and the registration records.  An xAI identity (an SSO  *)
(* cookie) is named by the alias its account was created with, so that     *)
(* recorded[a] = a says the record of alias a holds the SSO of its own     *)
(* account; a token is any other value that may be taken for one.  The     *)
(* database's own rules are in AliasLease; here a lease is held, lost, or  *)
(* lost and noticed by the heartbeat.                                      *)
(***************************************************************************)
EXTENDS BrowserSession, Functions

CONSTANTS
    Aliases,
    Tokens,     \* values in a page's storage that are no account's SSO
    Configs,    \* what a behaviour runs: a kind of worker, its settings, its faults
    MaxRounds   \* bound: rounds the worker begins

Kinds == {"protocol", "browser", "reactivate"}
\* What may go wrong; "upload" is a delivery backend that is switched on, which
\* the browser worker does not survive unharmed; "storage" is a site that keeps
\* a value under a key with "sso" or "token" in it.
Faults == {"cdp", "start", "death", "lease", "db", "upload", "storage"}

\* What may be taken for the SSO of an account.
Identities == Aliases \cup Tokens

ASSUME SignupAssumption ==
    /\ None \notin Identities /\ Aliases \cap Tokens = {}
    /\ Configs \subseteq [kind : Kinds, fallback : BOOLEAN, external : BOOLEAN, faults : SUBSET Faults]
    /\ MaxRounds \in Nat /\ MaxOrphans \in Nat

VARIABLES
    config,     \* [kind, fallback, external, faults], chosen once
    pc,
    chrome,     \* the browser session of this worker
    round,      \* the alias of the round, its lease, the SSO in hand, the error raised
    rounds,
    status,     \* aliases: todo, used, failed (reactivation: todo = not reached yet)
    recorded,   \* the SSO of the successful record of an alias
    created,    \* xAI accounts that exist
    mutated,    \* <<alias, identity>>: TOS or birth date set for a round's account
    stopping,   \* state.stop() was called
    paused,     \* _pause_event is not set
    late        \* reactivations begun after a stop

workerVars == <<config, pc, chrome, round, rounds>>
recordVars == <<status, recorded, created, mutated>>
controlVars == <<stopping, paused, late>>
sharedVars == <<workerVars, recordVars, controlVars>>

Reasons == {"none", "lease", "env", "denied", "existing", "duplicate", "error", "disconnect"}
Rounds == [alias : Aliases \cup {None}, lease : {"none", "held", "lost", "noticed"},
           sso : Identities \cup {None}, why : Reasons]
NoRound == [alias |-> None, lease |-> "none", sso |-> None, why |-> "none"]

May(fault) == fault \in config.faults
At(step) == pc = step
IsKind(kind) == config.kind = kind
NoticedLoss == round.lease = "noticed"

\* check_pause: a thread waits for the event, whatever the stop flag says.
Unpaused == ~paused

\* Mutant: stop() does not set the event a paused thread waits for.
StopsAsleep(condition) == stopping' = (stopping \/ condition) /\ paused' = paused

\* stop(), called by a request or, under a condition, by the worker itself.
StopsIf(condition) == stopping' = (stopping \/ condition) /\ paused' = (paused /\ ~condition)

Goes(step) == pc' = step /\ UNCHANGED round
Fails(why) == pc' = "failed" /\ round' = [round EXCEPT !.why = why]
Takes(step, sso) == pc' = step /\ round' = [round EXCEPT !.sso = sso]
EndsRound == pc' = "idle" /\ round' = NoRound

RoundInit ==
    /\ config \in Configs
    /\ pc = "boot"
    /\ chrome = NoBrowser
    /\ round = NoRound
    /\ rounds = 0
    /\ status = [a \in Aliases |-> "todo"]
    /\ recorded = [a \in Aliases |-> IF IsKind("reactivate") THEN a ELSE None]
    /\ created = IF IsKind("reactivate") THEN Aliases ELSE {}
    /\ mutated = {}
    /\ stopping = FALSE
    /\ paused = FALSE
    /\ late = 0

RoundTypeOK ==
    /\ config \in Configs
    /\ pc \in {"boot", "idle", "open", "send", "code", "solve", "profile", "submit", "extract",
               "check", "commit", "activate", "after", "failed", "gate", "switch", "challenge",
               "mutate", "clear", "ended", "unborn"}
    /\ chrome \in Sessions(Identities)
    /\ round \in Rounds
    /\ rounds \in 0 .. MaxRounds
    /\ status \in [Aliases -> {"todo", "used", "failed"}]
    /\ recorded \in [Aliases -> Identities \cup {None}]
    /\ created \subseteq Aliases
    /\ mutated \subseteq Aliases \X Identities
    /\ stopping \in BOOLEAN /\ paused \in BOOLEAN
    /\ late \in Nat

----------------------------------------------------------------------------
(* The loop of a registration worker *)

Registers == config.kind \in {"protocol", "browser"}

\* The top of the loop: stop flag, pause, stop flag again, capacity, an alias.
Claim(a) ==
    /\ Registers /\ At("idle")
    /\ ~stopping /\ ~paused /\ rounds < MaxRounds
    /\ status[a] = "todo"
    /\ pc' = "open"
    /\ round' = [NoRound EXCEPT !.alias = a, !.lease = "held"]
    /\ rounds' = rounds + 1
    /\ UNCHANGED <<config, chrome, recordVars, controlVars>>

\* No more rounds, no alias, or a stop, which is looked for before the pause and
\* after it; or the email provider raised, which stops the task.
Leaves == stopping \/ rounds = MaxRounds \/ \A a \in Aliases : status[a] # "todo"
LeavesLoop ==
    /\ Registers /\ At("idle") /\ (Unpaused \/ stopping)
    /\ StopsIf(~Leaves)
    /\ Goes("ended")
    /\ UNCHANGED <<config, rounds, recordVars, late>>

----------------------------------------------------------------------------
(* Records *)

IsDuplicate(sso) == \E a \in Aliases : recorded[a] = sso

\* Mutant: an SSO that is already recorded is not looked for.
ChecksNothing ==
    /\ At("check")
    /\ Goes(IF IsKind("protocol") THEN "commit" ELSE "activate")
    /\ UNCHANGED <<config, chrome, rounds, recordVars, controlVars>>

\* find_existing_sso: an SSO that is already recorded is not recorded again.
ChecksDuplicate ==
    /\ At("check")
    /\ IF IsDuplicate(round.sso) THEN Fails("duplicate")
       ELSE Goes(IF IsKind("protocol") THEN "commit" ELSE "activate")
    /\ UNCHANGED <<config, chrome, rounds, recordVars, controlVars>>

\* Mutant: the result of the compare-and-set is not looked at.
CommitsUnseen(next) ==
    /\ recorded' = IF round.lease = "held" THEN [recorded EXCEPT ![round.alias] = round.sso] ELSE recorded
    /\ status' = IF round.lease = "held" THEN [status EXCEPT ![round.alias] = "used"] ELSE status
    /\ Goes(next)

\* complete_registration_success: compare-and-set on the lease.  The SSO was
\* checked by this thread, and no other one records the identities it makes.
CommitsSuccess(next) ==
    \/ /\ round.lease = "held"
       /\ recorded' = [recorded EXCEPT ![round.alias] = round.sso]
       /\ status' = [status EXCEPT ![round.alias] = "used"]
       /\ pc' = next
       /\ round' = [round EXCEPT !.lease = "none"]
    \/ /\ \/ round.lease # "held" /\ Fails("lease")
          \/ May("db") /\ Fails("error")
       /\ UNCHANGED <<recorded, status>>

\* abort, skip or finish: a retry or the end of the alias, under the lease only.
RecordsFailure(why) ==
    LET a == round.alias IN
    CASE why \in {"lease", "env", "denied"} \/ round.lease # "held" -> UNCHANGED status
      [] why = "existing" -> status' = [status EXCEPT ![a] = "failed"]
      [] OTHER -> \E s \in {"todo", "failed"} : status' = [status EXCEPT ![a] = s]

----------------------------------------------------------------------------
(* activate_grok_web *)

\* Its way to grok.com: the SSO cookie is replaced, and a page that is gone is
\* renewed once.  Cookies that cannot be replaced stay.
Switches(sso) ==
    {IF o.ok THEN [o EXCEPT !.chrome.tab = sso] ELSE o : o \in Refreshes(chrome, May("start"))}
    \cup (IF May("cdp") /\ chrome.window = "live" THEN {Outcome(TRUE, chrome)} ELSE {})

\* TOS in a session of the SSO, the birth date with the cookies of the page;
\* neither without a cf_clearance cookie.
Mutations(identity, tab) ==
    {mutated \cup m : m \in SUBSET ({round.alias} \X ({identity, tab} \ {None}))}

----------------------------------------------------------------------------
(* The environment of a worker *)

RequestStop ==
    /\ pc \notin {"ended", "unborn"}
    /\ StopsIf(TRUE)
    /\ UNCHANGED <<workerVars, recordVars, late>>

\* pause and resume requests, before a stop and after it.
RequestPause ==
    /\ pc \notin {"ended", "unborn"}
    /\ paused' = ~paused
    /\ UNCHANGED <<workerVars, recordVars, stopping, late>>

\* The lease runs out or is taken away; the heartbeat notices some time later.
LoseLease ==
    /\ May("lease")
    /\ \/ round.lease = "held" /\ round' = [round EXCEPT !.lease = "lost"]
       \/ /\ round.lease = "lost" /\ IsKind("protocol")
          /\ round' = [round EXCEPT !.lease = "noticed"]
    /\ UNCHANGED <<config, pc, chrome, rounds, recordVars, controlVars>>

\* The connection to the page is lost, with the browser's process.
PageDies ==
    /\ May("death") /\ chrome.window = "live"
    /\ chrome' = [chrome EXCEPT !.window = "dead", !.tab = None, !.kept = None]
    /\ UNCHANGED <<config, pc, round, rounds, recordVars, controlVars>>

\* A page keeps the identity that is signed in, or something else, where the
\* browser worker will look; the other workers never do.
SiteStores ==
    /\ May("storage") /\ IsKind("browser") /\ chrome.window = "live"
    /\ \E value \in Tokens \cup ({chrome.tab} \ {None}) : chrome' = [chrome EXCEPT !.kept = value]
    /\ UNCHANGED <<config, pc, round, rounds, recordVars, controlVars>>

\* The cookie of a new account may be late for the look that finds a stored value.
CookieArrives ==
    /\ IsKind("browser") /\ pc \in {"extract", "check", "activate", "commit"}
    /\ chrome.window = "live" /\ chrome.tab = None /\ round.alias \in created
    /\ chrome' = [chrome EXCEPT !.tab = round.alias]
    /\ UNCHANGED <<config, pc, round, rounds, recordVars, controlVars>>

Environment ==
    \/ RequestStop \/ RequestPause
    \/ LoseLease \/ PageDies \/ SiteStores \/ CookieArrives
=============================================================================
