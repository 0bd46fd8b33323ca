------------------------------- MODULE Signup -------------------------------
(***************************************************************************)
(* One worker thread with its browser: a protocol worker, a browser worker *)
(* or a batch reactivation, with the settings and faults of its config.    *)
(* What is asked of all of them is that an account, its alias and its      *)
(* record belong together, whatever browser or cookie jar they pass by,    *)
(* and that nothing is left behind.                                        *)
(***************************************************************************)
EXTENDS ProtocolSignup, BrowserSignup, BatchActivation

vars == <<config, pc, chrome, round, rounds, status, recorded, created, mutated,
          stopping, paused, late, net>>

Init == RoundInit /\ net = NoTransport

Worker == ProtocolStep \/ ((BrowserStep \/ BatchStep) /\ UNCHANGED net)
Next == Worker \/ (Environment /\ UNCHANGED net)

\* A thread runs on; only a person or luck gets past a Cloudflare page, and a
\* thread at the top of its loop may be the one that sleeps there.
Fairness == WF_vars(Worker /\ ~Batch("challenge") /\ ~(paused /\ At("idle")))

Spec == Init /\ [][Next]_vars /\ Fairness

----------------------------------------------------------------------------

\* What a round has in hand where it goes on to use it: its alias to the end,
\* and from the look for it to the end of a success an SSO.
InHand ==
    /\ pc \notin {"boot", "idle", "ended", "unborn"} => round.alias \in Aliases
    /\ Registers /\ pc \in {"check", "activate", "commit", "mutate"} => round.sso \in Identities

\* Type invariant of the worker, its browser, its transport and the records.
TypeOK == RoundTypeOK /\ net \in Transports /\ InHand

\* The sites keep values where the browser worker looks for an SSO.
MayBeKept == IsKind("browser") /\ May("storage")

\* Where an earlier round's identity may reach this one: cookies that CDP
\* cannot remove; an error behind which the browser worker does not recycle
\* its browser; and the fallback browser of a pure protocol worker, which no
\* round resets.
MayCarryOver ==
    \/ May("cdp")
    \/ IsKind("browser") /\ config.faults \cap {"db", "upload"} # {}
    \/ IsKind("protocol") /\ net.pure /\ config.fallback

\* No SSO is recorded for two aliases, not even where one is carried over:
\* find_existing_sso looks at it before either worker commits.
DistinctIdentities ==
    \A a, b \in Aliases : recorded[a] = recorded[b] /\ recorded[a] # None => a = b

\* An alias is recorded with the SSO of the account made for it: no failed or
\* abandoned round leaves its identity in the jar, the browser or its storage
\* for the next one to record.  Where sites keep values, what is recorded may be
\* no SSO at all, or the SSO of an alias that was recorded with something else.
RecordsOwnIdentity ==
    [][\A a \in Aliases : recorded'[a] # recorded[a] =>
        \/ recorded'[a] = a
        \/ MayBeKept /\ (recorded'[a] \in Tokens \/ recorded[recorded'[a]] # None)
        \/ MayCarryOver]_vars

\* A round ends as a duplicate only where an identity may be carried over, or
\* where the storage of a success before it stays in the browser: otherwise an
\* account just made is not thrown away for the SSO of another round.
NoFalseDuplicate == At("failed") /\ round.why = "duplicate" => MayCarryOver \/ MayBeKept

\* The protocol worker and the reactivation accept terms and set a birth date
\* for no identity but the recorded one of the alias at hand: after the commit,
\* never before it.
MutatesRecordedOnly ==
    config.kind \in {"protocol", "reactivate"} /\ ~May("cdp") =>
        \A m \in mutated : recorded[m[1]] = m[2]

\* allow_browser_fallback=false: no browser is started, at no point of the
\* worker's life.
StrictOpensNoBrowser == IsKind("protocol") /\ ~config.fallback => chrome = NoBrowser

\* Where browsers start when told to, none runs unmanaged, and a worker that
\* leaves its loop leaves no browser.
NoBrowserLeft == ~May("start") => chrome.orphans = 0 /\ (At("ended") => chrome.window = "none")

\* Browsers are accounted for, in strict mode and in the others.
BrowsersAreAccounted == StrictOpensNoBrowser /\ NoBrowserLeft

\* A stop lets the reactivation begin at most one more account: the one it was
\* paused before.
AtMostOneLate == late <= 1

\* A stop leaves nobody asleep, whatever pause it finds.
StopWakes == [][stopping' /\ ~stopping => ~paused']_vars

\* A stopped worker that is awake ends, whatever fails in the round it is in:
\* unless it is paused again, or is a reactivation before a Cloudflare page,
\* which has no deadline.
StopEnds == (stopping /\ ~paused) ~> (pc \in {"ended", "unborn", "challenge"} \/ paused)

\* A stop is honoured: with little delay, and in the end.
StopIsHonoured == []AtMostOneLate /\ StopWakes /\ StopEnds

\* "Each signup must start without a prior account SSO."
StartsWithoutPriorSso == At("check") => round.sso = round.alias
=============================================================================
