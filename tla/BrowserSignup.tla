--------------------------- MODULE BrowserSignup ----------------------------
(***************************************************************************)
(* core/register.py: the browser worker, which signs up the way a person   *)
(* does.  Its own account is the identity the browser's cookies carry when *)
(* the profile form is done, whoever put it there.                         *)
(***************************************************************************)
EXTENDS SignupRound

browserUnchanged == UNCHANGED <<config, rounds, recordVars, controlVars>>
Browser(step) == IsKind("browser") /\ At(step)
BrowserPauses(step) == Browser(step) /\ Unpaused

IsLive == chrome.window = "live"

\* _refresh_active_page: a refresh that fails is followed by one more start.
Refreshed ==
    UNION {IF o.ok THEN {o} ELSE Starts(o.chrome, May("start")) : o \in Refreshes(chrome, May("start"))}

----------------------------------------------------------------------------
(* The loop *)

BrowserBoots ==
    /\ Browser("boot")
    /\ \E o \in Starts(chrome, May("start")) :
        /\ chrome' = o.chrome
        /\ Goes(IF o.ok THEN "idle" ELSE "unborn")
    /\ browserUnchanged

BrowserClaims(a) == IsKind("browser") /\ Claim(a)

BrowserLeaves ==
    /\ IsKind("browser")
    /\ LeavesLoop
    /\ chrome' = Stopped(chrome)

----------------------------------------------------------------------------
(* _do_one_round *)

\* _open_signup_page: the page is renewed if it must be, waited for, and the
\* email form is opened; a block page stops the task.
OpensSignupPage ==
    /\ BrowserPauses("open")
    /\ \E o \in Refreshed :
        /\ chrome' = o.chrome
        /\ Fails("error") \/ (o.ok /\ (Goes("send") \/ Fails("env")))
    /\ browserUnchanged

\* _fill_email, up to the page that asks for the code.
FillsEmail ==
    /\ BrowserPauses("send")
    /\ \E o \in Uses(chrome, May("start")) :
        /\ chrome' = o.chrome
        /\ Fails("error") \/ (o.ok /\ (Goes("code") \/ Fails("denied")))
    /\ browserUnchanged

\* The mailbox is polled and the code typed in.  The look for the profile form
\* renews a page that is gone, which is the end of the attempt.
FillsCode ==
    /\ BrowserPauses("code")
    /\ \/ IsLive /\ Goes("profile") /\ UNCHANGED chrome
       \/ Fails("error") /\ \E o \in Refreshed : chrome' = o.chrome
    /\ browserUnchanged

StartsProfile ==
    /\ BrowserPauses("profile")
    /\ Goes("submit")
    /\ UNCHANGED chrome /\ browserUnchanged

\* _profile_completion_reason: an SSO cookie in any tab, or an address beyond
\* the sign-up page, is taken for a finished registration.
CompletesProfile ==
    /\ Browser("submit") /\ IsLive
    /\ Goes("extract")
    /\ UNCHANGED chrome /\ browserUnchanged

\* xAI knows the address: the worker tries to log in with another code.
RecoversExisting ==
    /\ Browser("submit") /\ IsLive
    /\ chrome.tab = None /\ round.alias \in created
    /\ \/ Goes("extract") /\ chrome' = [chrome EXCEPT !.tab = round.alias]
       \/ Fails("existing") /\ UNCHANGED chrome
    /\ browserUnchanged

\* The form is submitted; the cookie may be there by the time of the next look
\* at it.  A stop during the wait is an error like any other passing one, and
\* the form is tried again.
SubmitsProfile ==
    LET a == round.alias IN
    /\ Browser("submit") /\ IsLive
    /\ chrome.tab = None /\ a \notin created
    /\ created' = created \cup {a}
    /\ chrome' \in {chrome, [chrome EXCEPT !.tab = a]}
    /\ Goes("extract") \/ Goes("submit") \/ Fails("error")
    /\ UNCHANGED <<config, rounds, status, recorded, mutated, controlVars>>

\* No form, no token, a refusal, or the deadline.
FailsProfile ==
    /\ Browser("submit") /\ (chrome.tab = None \/ ~IsLive)
    /\ \E o \in Refreshed \cup {Outcome(FALSE, chrome)} : chrome' = o.chrome
    /\ Fails("error")
    /\ browserUnchanged

\* What a look for the SSO may find: the cookie if there is one, and otherwise
\* what the page's storage keeps.  The page may be of an origin that keeps nothing.
Found(c) == IF c.tab # None THEN {c.tab} ELSE {None, c.kept}

\* Mutant: a look that finds nothing is the last one, and taken for an SSO.
ExtractsAnything ==
    /\ Browser("extract")
    /\ \E o \in Refreshed :
        /\ chrome' = o.chrome
        /\ IF o.ok THEN \E sso \in Found(o.chrome) : Takes("check", sso) ELSE Fails("error")
    /\ browserUnchanged

\* _extract_sso: each look renews a page that is gone, and with it goes the
\* identity; nothing is found in time, and the round fails.
ExtractsSso ==
    /\ Browser("extract")
    /\ \E o \in Refreshed : \E sso \in Found(o.chrome) :
        /\ chrome' = o.chrome
        /\ IF o.ok /\ sso # None THEN Takes("check", sso) ELSE Fails("error")
    /\ browserUnchanged

BrowserChecks == IsKind("browser") /\ ChecksDuplicate

\* Grok Web is activated before the record is written; it may be off, and it
\* never fails a round.
ActivatesNewAccount ==
    /\ Browser("activate")
    /\ \/ UNCHANGED <<chrome, mutated>>
       \/ \E o \in Switches(round.sso) :
            /\ chrome' = o.chrome
            /\ mutated' \in IF o.ok THEN Mutations(round.sso, o.chrome.tab) ELSE {mutated}
    /\ Goes("commit")
    /\ UNCHANGED <<config, rounds, status, recorded, created, controlVars>>

BrowserCommits ==
    /\ Browser("commit")
    /\ CommitsSuccess("after")
    /\ UNCHANGED <<config, chrome, rounds, created, mutated, controlVars>>

\* Mutant: the next round goes on with the cookies of this one.
KeepsCookies ==
    /\ Browser("after")
    /\ EndsRound
    /\ UNCHANGED chrome /\ browserUnchanged

\* _restart_browser() without closing it: the cookies go, and what the sites
\* keep, unless there is a Cloudflare context to preserve: then grok.com's stays.
Recycled(c) ==
    LET cleared == Cleared(c, May("cdp")) IN cleared \cup {[d EXCEPT !.kept = None] : d \in cleared}

\* After the delivery the browser is recycled, not closed.  An error after
\* the commit ends the round on the spot, and with a delivery there always is
\* one: _apply_delivery_result is no method of this class.
RecyclesBrowser ==
    /\ Browser("after")
    /\ \/ /\ ~May("upload")
          /\ \E p \in Pages(chrome, May("start")) :
                chrome' \in IF p.ok THEN Recycled(p.chrome) ELSE {p.chrome}
       \/ /\ config.faults \cap {"db", "upload"} # {}
          /\ UNCHANGED chrome
    /\ EndsRound
    /\ browserUnchanged

----------------------------------------------------------------------------
(* The end of a failed round *)

\* Mutant: the browser of a failed round is kept.
HandlesFailureKeepingBrowser ==
    /\ Browser("failed")
    /\ RecordsFailure(round.why)
    /\ StopsIf(round.why \in {"env", "denied"})
    /\ UNCHANGED chrome
    /\ EndsRound
    /\ UNCHANGED <<config, rounds, recorded, created, mutated, late>>

\* The browser is closed and started again, unless the task is at its end.
BrowserHandlesFailure ==
    /\ Browser("failed")
    /\ RecordsFailure(round.why)
    /\ StopsIf(round.why \in {"env", "denied"})
    /\ IF stopping' THEN UNCHANGED chrome
       ELSE \E p \in Pages(chrome, May("start")) :
            \E o \in IF p.ok THEN Restarts(p.chrome, May("start")) ELSE {p} : chrome' = o.chrome
    /\ EndsRound
    /\ UNCHANGED <<config, rounds, recorded, created, mutated, late>>

\* The handler's statement fails: _run_worker releases the claim and goes on.
BrowserHandlerFails ==
    /\ Browser("failed") /\ May("db")
    /\ EndsRound
    /\ UNCHANGED chrome /\ browserUnchanged

BrowserStep ==
    \/ BrowserBoots \/ BrowserLeaves
    \/ \E a \in Aliases : BrowserClaims(a)
    \/ OpensSignupPage \/ FillsEmail \/ FillsCode \/ StartsProfile
    \/ CompletesProfile \/ RecoversExisting \/ SubmitsProfile \/ FailsProfile
    \/ ExtractsSso \/ BrowserChecks \/ ActivatesNewAccount \/ BrowserCommits \/ RecyclesBrowser
    \/ BrowserHandlesFailure \/ BrowserHandlerFails
=============================================================================
