--------------------------- MODULE ProtocolSignup ---------------------------
(***************************************************************************)
(* core/registration: the protocol worker.  It talks to xAI over HTTP      *)
(* alone when the signup page can be read that way (pure), and otherwise   *)
(* through fetch() in its browser (hybrid).  In pure mode a browser may    *)
(* still be started, as the last resort for a Turnstile token.             *)
(***************************************************************************)
EXTENDS SignupRound

VARIABLE net  \* the transport: the identity in the HTTP session's cookie jar, whether it
              \* is pure, _browser_started, the provider's _started, and whether the
              \* backend's cookie getter and navigator are wired to the browser

Transports == [jar : Identities \cup {None}, pure : BOOLEAN, started : BOOLEAN, up : BOOLEAN,
               bound : BOOLEAN]
NoTransport == [jar |-> None, pure |-> FALSE, started |-> FALSE, up |-> FALSE, bound |-> FALSE]

protocolUnchanged == UNCHANGED <<config, rounds, recordVars, controlVars>>
Protocol(step) == IsKind("protocol") /\ At(step)

----------------------------------------------------------------------------
(* The browser as the Turnstile provider uses it *)

\* Outcomes of an operation on the browser: whether it returned, the browser
\* afterwards, and what the provider then believes of itself.
Believed(outcomes, up) ==
    {[ok |-> o.ok, chrome |-> o.chrome, up |-> up \/ o.ok] : o \in outcomes}

\* BrowserTurnstileProvider.ensure_started(): a page when it believes itself
\* started, a start otherwise, over whatever the manager holds.
Ensures == Believed(IF net.up THEN Pages(chrome, May("start")) ELSE Starts(chrome, May("start")), net.up)
IsUsable(o) == o.ok /\ o.chrome.window = "live"

\* The recycling of _ensure_browser_ready(): provider.stop() returns early
\* when the provider believes itself stopped.
Recycles(c) == Believed(Starts(IF net.up THEN Stopped(c) ELSE c, May("start")), FALSE)

\* Its soft reset: identity cookies out, Cloudflare's stay.
SoftResets(c) == Cleared(c, May("cdp"))

\* _ensure_browser_ready(force_reload) of a hybrid worker.
Readies(force) ==
    UNION {(IF p.ok /\ p.chrome.window = "live" /\ ~force
            THEN {[ok |-> TRUE, chrome |-> c, up |-> net.up] : c \in SoftResets(p.chrome)} ELSE {})
           \cup
           (IF force \/ ~p.ok \/ p.chrome.window # "live" \/ May("death") THEN Recycles(p.chrome) ELSE {})
           : p \in Pages(chrome, May("start"))}

\* A call of the backend: through the session, or through fetch() in the page.
Calls ==
    IF net.pure THEN {[ok |-> TRUE, chrome |-> chrome, up |-> net.up]}
    ELSE {[o EXCEPT !.ok = IsUsable(o)] : o \in Ensures}

Browses(o) == chrome' = o.chrome /\ net' = [net EXCEPT !.up = o.up]
LosesPage == \E why \in {"error", "disconnect"} : Fails(why)

----------------------------------------------------------------------------
(* _prepare_transport and _shutdown_transport *)

\* Discovery over HTTP: the worker never needs a browser to talk to xAI.
BootsPure ==
    /\ Protocol("boot")
    /\ net' = [NoTransport EXCEPT !.pure = TRUE]
    /\ Goes("idle")
    /\ UNCHANGED <<config, chrome, rounds, recordVars, controlVars>>

\* The page is blocked and no browser may be used: the worker does not start.
BootBlocked ==
    /\ Protocol("boot") /\ ~config.fallback
    /\ Goes("unborn")
    /\ UNCHANGED <<config, chrome, rounds, net, recordVars, controlVars>>

\* The page is blocked: bootstrap in the browser.  Whatever fails ends the
\* worker, which does not pass through _shutdown_transport then.
BootsHybrid ==
    /\ Protocol("boot") /\ config.fallback
    /\ \E o \in Starts(chrome, May("start")) :
        /\ chrome' = o.chrome
        /\ \/ /\ o.ok
              /\ net' = [NoTransport EXCEPT !.started = TRUE, !.up = TRUE, !.bound = TRUE]
              /\ Goes("idle")
           \/ /\ UNCHANGED net
              /\ Goes("unborn")
    /\ UNCHANGED <<config, rounds, recordVars, controlVars>>

\* The end of the loop: _shutdown_transport stops a provider that was started.
ProtocolLeaves ==
    /\ IsKind("protocol")
    /\ LeavesLoop
    /\ chrome' = IF net.started /\ net.up THEN Stopped(chrome) ELSE chrome
    /\ net' = NoTransport

----------------------------------------------------------------------------
(* _do_one_round *)

ProtocolClaims(a) == IsKind("protocol") /\ Claim(a) /\ UNCHANGED net

\* A step of a round looks at the heartbeat's event first; some wait for a
\* pause to end before they do.
RoundStep(step) == Protocol(step) /\ ~NoticedLoss
PauseSteps == {"open", "send", "code", "solve"}
PausedStep(step) == RoundStep(step) /\ Unpaused

StopsForLease ==
    /\ IsKind("protocol") /\ NoticedLoss
    /\ pc \in PauseSteps \cup {"submit", "extract", "commit"}
    /\ pc \in PauseSteps => Unpaused
    /\ Fails("lease")
    /\ UNCHANGED <<chrome, net>> /\ protocolUnchanged

\* A pure round has a session of its own; only Cloudflare cookies move over.
\* Nothing is done about a browser that an earlier round started.
OpensPure ==
    /\ PausedStep("open") /\ net.pure
    /\ net' = [net EXCEPT !.jar = None, !.bound = net.started]
    /\ Goes("send")
    /\ UNCHANGED chrome /\ protocolUnchanged

\* A hybrid round clears the jar, resets or recycles the browser, and clears
\* what the copy of the browser's cookies brought back.
OpensHybrid ==
    /\ PausedStep("open") /\ ~net.pure
    /\ \E o \in Readies(FALSE) :
        /\ chrome' = o.chrome
        /\ net' = [net EXCEPT !.jar = None, !.up = o.up]
        /\ IF o.ok THEN Goes("send") ELSE LosesPage
    /\ protocolUnchanged

\* send_email_code: accepted, blocked, or refused with permission_denied.
SendsCode ==
    /\ PausedStep("send")
    /\ \E o \in Calls :
        /\ Browses(o)
        /\ IF o.ok THEN Goes("code") \/ \E why \in {"env", "denied", "error"} : Fails(why) ELSE LosesPage
    /\ protocolUnchanged

\* The mailbox is polled, the code verified: a wrong or missing code, an
\* account that exists, a block.
VerifiesCode ==
    /\ PausedStep("code")
    /\ \E o \in Calls :
        /\ Browses(o)
        /\ IF o.ok THEN Goes("solve") \/ \E why \in {"env", "existing", "error"} : Fails(why) ELSE LosesPage
    /\ protocolUnchanged

\* _solve_turnstile: an external solver comes first.
SolvesExternally ==
    /\ PausedStep("solve") /\ config.external
    /\ Goes("submit")
    /\ IF net.pure THEN UNCHANGED <<chrome, net>> ELSE \E o \in Ensures : Browses(o)
    /\ protocolUnchanged

\* Mutant: strict mode falls back to a browser all the same.
MayFallBackAlways == TRUE

\* allow_browser_fallback
MayFallBack == config.fallback

FailsToSolve ==
    /\ PausedStep("solve") /\ ~MayFallBack
    /\ Fails("error")
    /\ UNCHANGED <<chrome, net>> /\ protocolUnchanged

\* The browser's widget: it is started now if it was not, and a token comes
\* with every cookie the browser has.
SolvesInBrowser ==
    /\ PausedStep("solve") /\ MayFallBack
    /\ \E o \in Ensures, solved \in BOOLEAN :
        /\ chrome' = o.chrome
        /\ net' = [net EXCEPT !.up = o.up,
                             !.started = @ \/ o.ok,
                             !.bound = @ \/ o.ok,
                             !.jar = IF IsUsable(o) /\ solved /\ o.chrome.tab # None THEN o.chrome.tab ELSE @]
        /\ IF IsUsable(o) /\ solved THEN Goes("submit") ELSE LosesPage
    /\ protocolUnchanged

\* submit_signup: xAI creates the account, or knows it; the answer, which may
\* set the session cookie, may be lost.
SubmitsSignup ==
    LET a == round.alias IN
    /\ RoundStep("submit")
    /\ \E o \in Calls, cookie \in BOOLEAN :
        \/ /\ o.ok /\ a \notin created
           /\ created' = created \cup {a}
           /\ chrome' = IF cookie /\ ~net.pure THEN [o.chrome EXCEPT !.tab = a] ELSE o.chrome
           /\ net' = [net EXCEPT !.up = o.up, !.jar = IF cookie /\ net.pure THEN a ELSE @]
           /\ Goes("extract") \/ LosesPage
        \/ /\ UNCHANGED created
           /\ Browses(o)
           /\ IF o.ok THEN \E why \in {"env", "error"} \cup {w \in {"existing"} : a \in created} : Fails(why)
              ELSE LosesPage
    /\ UNCHANGED <<config, rounds, status, recorded, mutated, controlVars>>

\* _browser_cookie and the session's jar: the first of them that holds an SSO.
BrowserIdentity == IF net.bound /\ chrome.window = "live" THEN chrome.tab ELSE None
FirstCookie == IF net.jar # None THEN net.jar ELSE BrowserIdentity

ReadsCookie ==
    /\ RoundStep("extract")
    /\ FirstCookie # None
    /\ Takes("check", FirstCookie)
    /\ UNCHANGED <<chrome, net>> /\ protocolUnchanged

\* _follow_for_sso: the set-cookie chain over HTTP (in the page, when hybrid).
FollowsOverHttp ==
    /\ RoundStep("extract") /\ FirstCookie = None
    /\ IF net.pure THEN net' = [net EXCEPT !.jar = round.alias] /\ UNCHANGED chrome
       ELSE /\ chrome.window = "live"
            /\ chrome' = [chrome EXCEPT !.tab = round.alias]
            /\ UNCHANGED net
    /\ Takes("check", round.alias)
    /\ protocolUnchanged

\* navigate_for_sso: the chain in the browser, which keeps the identity.
Navigates ==
    /\ RoundStep("extract") /\ FirstCookie = None /\ net.bound
    /\ \E o \in Ensures :
        IF IsUsable(o) THEN Browses([o EXCEPT !.chrome.tab = round.alias]) /\ Takes("check", round.alias)
        ELSE Browses(o) /\ Fails("error")
    /\ protocolUnchanged

FindsNoSso ==
    /\ RoundStep("extract") /\ FirstCookie = None
    /\ Fails("error")
    /\ UNCHANGED <<chrome, net>> /\ protocolUnchanged

ProtocolChecks == IsKind("protocol") /\ ChecksDuplicate /\ UNCHANGED net

ProtocolCommits ==
    /\ RoundStep("commit")
    /\ CommitsSuccess("mutate")
    /\ UNCHANGED <<config, chrome, net, rounds, created, mutated, controlVars>>

\* _post_success_init: TOS and birth date, in a session of the recorded SSO.
\* Optional, and its failures do not count.
InitsAccount ==
    /\ Protocol("mutate")
    /\ mutated' \in {mutated, mutated \cup {<<round.alias, round.sso>>}}
    /\ Goes("after")
    /\ UNCHANGED <<config, chrome, net, rounds, status, recorded, created, controlVars>>

\* After the delivery, a hybrid worker resets its browser, and errors of that
\* are logged; an error of the delivery's statements ends the round before it.
EndsSuccess ==
    /\ Protocol("after")
    /\ EndsRound
    /\ \/ (net.pure \/ May("db")) /\ UNCHANGED <<chrome, net>>
       \/ ~net.pure /\ \E o \in Readies(FALSE) : Browses(o)
    /\ protocolUnchanged

----------------------------------------------------------------------------
(* _handle_round_failure *)

\* A loss noticed by now overrides the error.
Reason == IF NoticedLoss THEN "lease" ELSE round.why

\* Errors that speak of a lost page recycle the browser of a hybrid worker.
HandlesFailure ==
    /\ Protocol("failed")
    /\ RecordsFailure(Reason)
    /\ StopsIf(Reason \in {"env", "denied"})
    /\ EndsRound
    /\ IF Reason = "disconnect" /\ ~net.pure THEN \E o \in Readies(TRUE) : Browses(o)
       ELSE UNCHANGED <<chrome, net>>
    /\ UNCHANGED <<config, rounds, recorded, created, mutated, late>>

\* The handler's statement fails: _run_worker releases the claim and goes on.
ProtocolHandlerFails ==
    /\ Protocol("failed") /\ May("db")
    /\ EndsRound
    /\ UNCHANGED <<chrome, net>> /\ protocolUnchanged

ProtocolStep ==
    \/ BootsPure \/ BootBlocked \/ BootsHybrid \/ ProtocolLeaves
    \/ \E a \in Aliases : ProtocolClaims(a)
    \/ StopsForLease
    \/ OpensPure \/ OpensHybrid \/ SendsCode \/ VerifiesCode
    \/ SolvesExternally \/ FailsToSolve \/ SolvesInBrowser
    \/ SubmitsSignup \/ ReadsCookie \/ FollowsOverHttp \/ Navigates \/ FindsNoSso
    \/ ProtocolChecks \/ ProtocolCommits \/ InitsAccount \/ EndsSuccess
    \/ HandlesFailure \/ ProtocolHandlerFails
=============================================================================
