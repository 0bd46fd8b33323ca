---------------------------- MODULE SignupProofs ----------------------------
(***************************************************************************)
(* Proofs about Signup, for every set of aliases, every configuration and  *)
(* any number of rounds: which identity the browser and the cookie jar of  *)
(* a worker may carry at each step of a round, and what follows for the    *)
(* records; then the types, what is set for an account after its commit,   *)
(* how late a stop may come, and who manages the browsers.                 *)
(***************************************************************************)
EXTENDS Signup, TLAPS

\* A session whose window does not live has nothing to read.
Sane == {c \in Sessions(Identities) : c.window = "live" \/ (c.tab = None /\ c.kept = None)}

\* What an operation on session c may return: no identity comes from nowhere.
Outs(c) ==
    {o \in [ok : BOOLEAN, chrome : Sane] : o.chrome.tab \in {None, c.tab} /\ o.chrome.kept \in {None, c.kept}}

Empty(c) == c.tab = None /\ c.kept = None
Fresh(c) == {o \in Outs(c) : Empty(o.chrome)}

----------------------------------------------------------------------------
(* The browser manager *)

\* A started browser has an empty profile, and one that is stopped is gone.
LEMMA SessionsStaySane ==
  ASSUME NEW c \in Sane
  PROVE  /\ Orphaned(c) \in Sane /\ Orphaned(c).tab = c.tab /\ Orphaned(c).kept = c.kept
         /\ Orphaned(c).window = c.window
         /\ Started(c) \in Sane /\ Empty(Started(c)) /\ Started(c).window = "live"
         /\ Stopped(c) \in Sane /\ Empty(Stopped(c))
<1>1. c \in [window : {"none", "live", "dead"}, tab : Identities \cup {None},
            kept : Identities \cup {None}, orphans : 0 .. MaxOrphans]
  BY DEF Sane, Sessions
<1>2. MaxOrphans \in Nat
  BY SignupAssumption
<1>3. Orphaned(c) \in Sane /\ Orphaned(c).tab = c.tab /\ Orphaned(c).kept = c.kept
      /\ Orphaned(c).window = c.window
  BY <1>1, <1>2 DEF Sane, Sessions, Orphaned
<1>4. Started(c) \in Sane /\ Empty(Started(c)) /\ Started(c).window = "live"
  BY <1>1, <1>3 DEF Sane, Sessions, Started, Empty
<1>5. Stopped(c) \in Sane /\ Empty(Stopped(c))
  BY <1>1 DEF Sane, Sessions, Stopped, Empty
<1> QED
  BY <1>3, <1>4, <1>5

\* The outcomes of a browser operation, as records.
LEMMA OutcomeIn ==
  ASSUME NEW c \in Sane, NEW ok \in BOOLEAN, NEW d \in Sane,
         d.tab \in {None, c.tab}, d.kept \in {None, c.kept}
  PROVE  Outcome(ok, d) \in Outs(c) /\ Outcome(ok, d).ok = ok /\ Outcome(ok, d).chrome = d
<1>1. Outcome(ok, d) \in [ok : BOOLEAN, chrome : Sane]
  BY DEF Outcome
<1>2. Outcome(ok, d).ok = ok /\ Outcome(ok, d).chrome = d
  BY DEF Outcome
<1> QED
  BY <1>1, <1>2 DEF Outs

\* start() brings no identity with it.
LEMMA StartOuts ==
  ASSUME NEW c \in Sane, NEW fails \in BOOLEAN, NEW o \in Starts(c, fails)
  PROVE  /\ o \in Outs(c)
         /\ o.ok => o.chrome.window = "live" /\ Empty(o.chrome)
         /\ Empty(c) => o \in Fresh(c)
<1>1. Started(c) \in Sane /\ Empty(Started(c)) /\ Started(c).window = "live"
  BY SessionsStaySane
<1>2. CASE o = Outcome(TRUE, Started(c))
  BY <1>1, <1>2, OutcomeIn DEF Fresh, Empty
<1>3. ASSUME NEW d \in StartFailures(c), o = Outcome(FALSE, d)
      PROVE  o \in Outs(c) /\ ~o.ok /\ (Empty(c) => o \in Fresh(c))
  <2>1. d \in Sane /\ d.tab \in {None, c.tab} /\ d.kept \in {None, c.kept}
    BY <1>1, SessionsStaySane DEF StartFailures, Empty
  <2> QED
    BY <1>3, <2>1, OutcomeIn DEF Fresh, Empty
<1> QED
  BY <1>1, <1>2, <1>3, OutcomeIn DEF Starts

\* restart() brings no identity with it.
LEMMA RestartOuts ==
  ASSUME NEW c \in Sane, NEW fails \in BOOLEAN, NEW o \in Restarts(c, fails)
  PROVE  o \in Fresh(c) /\ (o.ok => o.chrome.window = "live")
<1>1. Stopped(c) \in Sane /\ Empty(Stopped(c))
  BY SessionsStaySane
<1> QED
  BY <1>1, StartOuts DEF Restarts, Outs, Fresh, Empty

\* Without a page there is nothing to carry over; with one it stays as it is.
LEMMA PageOuts ==
  ASSUME NEW c \in Sane, NEW fails \in BOOLEAN, NEW o \in Pages(c, fails)
  PROVE  o \in Outs(c) /\ (~o.ok => Empty(o.chrome))
<1>1. CASE c.window = "none"
  <2>1. Empty(c)
    BY <1>1 DEF Sane, Empty
  <2> QED
    BY <1>1, <2>1, StartOuts DEF Pages, Fresh
<1>2. CASE c.window # "none"
  <2>1. c.window \in {"live", "dead"} /\ o = Outcome(TRUE, c)
    BY <1>2 DEF Pages, Sane, Sessions
  <2> QED
    BY <2>1, OutcomeIn
<1> QED
  BY <1>1, <1>2

\* A refreshed page shows the identity it had, or none.
LEMMA RefreshOuts ==
  ASSUME NEW c \in Sane, NEW fails \in BOOLEAN, NEW o \in Refreshes(c, fails)
  PROVE  o \in Outs(c) /\ (o.ok => o.chrome.window = "live")
<1>1. c.window \in {"none", "live", "dead"}
  BY DEF Sane, Sessions
<1>2. CASE c.window = "none"
  BY <1>2, StartOuts DEF Refreshes
<1>3. CASE c.window = "live"
  BY <1>3, OutcomeIn DEF Refreshes
<1>4. CASE c.window = "dead"
  BY <1>4, RestartOuts DEF Refreshes, Fresh
<1> QED
  BY <1>1, <1>2, <1>3, <1>4

\* Using the page changes no identity.
LEMMA UseOuts ==
  ASSUME NEW c \in Sane, NEW fails \in BOOLEAN, NEW o \in Uses(c, fails)
  PROVE  o \in Outs(c)
<1>1. PICK p \in Pages(c, fails) : o = [p EXCEPT !.ok = p.ok /\ p.chrome.window = "live"]
  BY DEF Uses
<1>2. p \in Outs(c)
  BY PageOuts
<1>3. o.chrome = p.chrome /\ o \in [ok : BOOLEAN, chrome : Sane]
  BY <1>1, <1>2 DEF Outs
<1> QED
  BY <1>2, <1>3 DEF Outs

\* Cookies are gone after their removal, unless CDP slips.
LEMMA ClearedSessions ==
  ASSUME NEW c \in Sane, NEW slips \in BOOLEAN, NEW d \in Cleared(c, slips)
  PROVE  d \in Sane /\ d.tab \in {None, c.tab} /\ d.kept = c.kept /\ (~slips => d.tab = None)
<1>1. c \in [window : {"none", "live", "dead"}, tab : Identities \cup {None},
            kept : Identities \cup {None}, orphans : 0 .. MaxOrphans]
  BY DEF Sane, Sessions
<1>2. [c EXCEPT !.tab = None] \in Sane /\ [c EXCEPT !.tab = None].tab = None
      /\ [c EXCEPT !.tab = None].kept = c.kept
  BY <1>1 DEF Sane, Sessions
<1> QED
  BY <1>2 DEF Cleared

----------------------------------------------------------------------------
(* The browser as the protocol worker uses it *)

ProviderOuts(c) ==
    {o \in [ok : BOOLEAN, chrome : Sane, up : BOOLEAN] : o.chrome.tab \in {None, c.tab}}

\* A fault may happen or not.
LEMMA FaultsAreBoolean == \A fault : May(fault) \in BOOLEAN
BY DEF May

\* What the provider does with a browser it believes in.
LEMMA BelievedOuts ==
  ASSUME NEW c \in Sane, NEW O \in SUBSET Outs(c), NEW up \in BOOLEAN, NEW o \in Believed(O, up)
  PROVE  \E p \in O : o.ok = p.ok /\ o.chrome = p.chrome /\ o \in ProviderOuts(c)
<1>1. PICK p \in O : o = [ok |-> p.ok, chrome |-> p.chrome, up |-> up \/ p.ok]
  BY DEF Believed
<1>2. p \in [ok : BOOLEAN, chrome : Sane] /\ p.chrome.tab \in {None, c.tab}
  BY DEF Outs
<1>3. o.ok = p.ok /\ o.chrome = p.chrome /\ o \in [ok : BOOLEAN, chrome : Sane, up : BOOLEAN]
  BY <1>1, <1>2
<1> QED
  BY <1>2, <1>3 DEF ProviderOuts

\* ensure_started keeps the page's identity, or starts with none.
LEMMA EnsureOuts ==
  ASSUME chrome \in Sane, net \in Transports, NEW o \in Ensures
  PROVE  o \in ProviderOuts(chrome)
<1> DEFINE O == IF net.up THEN Pages(chrome, May("start")) ELSE Starts(chrome, May("start"))
<1>1. O \in SUBSET Outs(chrome)
  BY PageOuts, StartOuts, FaultsAreBoolean
<1>2. net.up \in BOOLEAN
  BY DEF Transports
<1> QED
  BY <1>1, <1>2, BelievedOuts DEF Ensures

\* A call over HTTP leaves the browser alone.
LEMMA CallOuts ==
  ASSUME chrome \in Sane, net \in Transports, NEW o \in Calls
  PROVE  /\ o \in ProviderOuts(chrome)
         /\ net.pure => o.chrome = chrome
         /\ ~net.pure /\ o.ok => o.chrome.window = "live"
<1>1. CASE net.pure
  <2>1. o = [ok |-> TRUE, chrome |-> chrome, up |-> net.up] /\ net.up \in BOOLEAN
    BY <1>1 DEF Calls, Transports
  <2> QED
    BY <1>1, <2>1 DEF ProviderOuts
<1>2. CASE ~net.pure
  <2>1. PICK p \in Ensures : o = [p EXCEPT !.ok = IsUsable(p)]
    BY <1>2 DEF Calls
  <2>2. p \in ProviderOuts(chrome)
    BY EnsureOuts
  <2>3. IsUsable(p) \in BOOLEAN
    BY DEF IsUsable
  <2>4. o \in [ok : BOOLEAN, chrome : Sane, up : BOOLEAN] /\ o.chrome = p.chrome
    BY <2>1, <2>2, <2>3 DEF ProviderOuts
  <2>5. o.ok => p.chrome.window = "live"
    BY <2>1, <2>2 DEF ProviderOuts, IsUsable
  <2> QED
    BY <1>2, <2>2, <2>4, <2>5 DEF ProviderOuts
<1> QED
  BY <1>1, <1>2

\* A browser that is ready for a round carries no identity into it.
LEMMA ReadyOuts ==
  ASSUME chrome \in Sane, net \in Transports, NEW force \in BOOLEAN, NEW o \in Readies(force)
  PROVE  o \in ProviderOuts(chrome) /\ (o.ok /\ ~May("cdp") => o.chrome.tab = None)
<1>1. PICK p \in Pages(chrome, May("start")) :
        \/ o \in {[ok |-> TRUE, chrome |-> c, up |-> net.up] : c \in SoftResets(p.chrome)}
        \/ o \in Recycles(p.chrome)
  BY DEF Readies
<1>2. p \in Outs(chrome)
  BY PageOuts, FaultsAreBoolean
<1>3. p.chrome \in Sane /\ p.chrome.tab \in {None, chrome.tab}
  BY <1>2 DEF Outs
<1>4. net.up \in BOOLEAN
  BY DEF Transports
<1>5. CASE o \in {[ok |-> TRUE, chrome |-> c, up |-> net.up] : c \in SoftResets(p.chrome)}
  <2>1. PICK c \in SoftResets(p.chrome) : o = [ok |-> TRUE, chrome |-> c, up |-> net.up]
    BY <1>5
  <2>2. c \in Sane /\ c.tab \in {None, chrome.tab} /\ (~May("cdp") => c.tab = None)
    BY <1>3, ClearedSessions, FaultsAreBoolean DEF SoftResets
  <2> QED
    BY <1>4, <2>1, <2>2 DEF ProviderOuts
<1>6. CASE o \in Recycles(p.chrome)
  <2> DEFINE c == IF net.up THEN Stopped(p.chrome) ELSE p.chrome
             O == Starts(c, May("start"))
  <2>1. c \in Sane /\ c.tab \in {None, chrome.tab}
    BY <1>3, SessionsStaySane DEF Empty
  <2> HIDE DEF c
  <2>2. O \in SUBSET Outs(c) /\ \A q \in O : q.ok => q.chrome.tab = None
    BY <2>1, StartOuts, FaultsAreBoolean DEF Empty
  <2>3. \E q \in O : o.ok = q.ok /\ o.chrome = q.chrome /\ o \in ProviderOuts(c)
    <3>1. o \in Believed(O, FALSE)
      BY <1>6 DEF Recycles, c
    <3> HIDE DEF O
    <3> QED
      BY <2>1, <2>2, <3>1, BelievedOuts
  <2> QED
    BY <2>1, <2>2, <2>3 DEF ProviderOuts
<1> QED
  BY <1>1, <1>5, <1>6

----------------------------------------------------------------------------
(* The invariant *)

Early == {"open", "send", "code", "profile", "solve", "submit", "extract"}
BeforeCommit == Early \cup {"check", "activate", "commit"}
IsStrict == IsKind("protocol") /\ ~config.fallback

Types ==
    /\ config \in Configs
    /\ chrome \in Sane
    /\ net \in Transports
    /\ round \in Rounds
    /\ status \in [Aliases -> {"todo", "used", "failed"}]
    /\ recorded \in [Aliases -> Identities \cup {None}]
    /\ stopping \in BOOLEAN

\* What the storage may keep of earlier rounds: what is no SSO, or the SSO of an
\* alias that has its record.
Known(value) ==
    \/ value = None
    \/ MayBeKept /\ value \in Tokens
    \/ value \in Aliases /\ recorded[value] # None

\* What may be recorded for an alias: the SSO of its own account, or a value found.
MayTake(a, sso) == sso = a \/ (MayBeKept /\ sso # None /\ Known(sso))

InHandOver == {"check", "activate", "commit"}

\* The identity of a step is that of the round's own account, or no account's.
OwnIdentity ==
    /\ pc \in Early /\ (IsKind("protocol") => pc # "open") => chrome.tab \in {None, round.alias}
    /\ IsKind("protocol") /\ pc \in Early \ {"open"} => net.jar \in {None, round.alias}
    /\ IsKind("browser") /\ pc = "idle" => chrome.tab = None \/ stopping
    /\ pc \in InHandOver => MayTake(round.alias, round.sso)
    /\ pc = "failed" /\ round.why = "duplicate" => MayBeKept
    /\ pc # "ended" => \A a \in Aliases : recorded[a] \in {None, a} \/ MayBeKept

OwnIdentities == Registers /\ ~MayCarryOver => OwnIdentity

\* What the browser of a browser worker keeps is of a round that was recorded,
\* or of the one under way.
KeptIdentity ==
    /\ chrome.kept = None \/ MayBeKept
    /\ pc \in Early \cup InHandOver => Known(chrome.kept) \/ chrome.kept = round.alias
    /\ pc \in InHandOver => Known(chrome.tab) \/ chrome.tab = round.alias
    /\ pc = "after" => Known(chrome.tab) /\ Known(chrome.kept)
    /\ pc = "idle" => Known(chrome.kept) \/ stopping

KeptIdentities == IsKind("browser") /\ ~MayCarryOver => KeptIdentity

\* A record is written once, for an alias that has none.
RecordedIsUsed ==
    Registers =>
        /\ \A a \in Aliases : recorded[a] # None => status[a] = "used"
        /\ pc \in BeforeCommit \cup {"failed"} => round.alias \in Aliases /\ status[round.alias] = "todo"

\* What a worker is about to record is nobody else's.
NewIdentity ==
    /\ DistinctIdentities
    /\ pc \in {"activate", "commit"} => ~IsDuplicate(round.sso)

\* A reactivation begins no round and records nothing.
ReactivatesOnly == IsKind("reactivate") => pc \notin BeforeCommit \cup {"failed"}

StrictTransport ==
    IsStrict =>
        /\ chrome = NoBrowser /\ ~net.started /\ ~net.bound
        /\ pc \notin {"boot", "unborn", "ended"} => net.pure

\* The kind of the transport is chosen at boot.
PureAfterBoot == pc = "boot" => ~net.pure

IInv ==
    /\ Types
    /\ OwnIdentities
    /\ KeptIdentities
    /\ RecordedIsUsed
    /\ NewIdentity
    /\ ReactivatesOnly
    /\ StrictTransport
    /\ PureAfterBoot

RecordsOwn ==
    \A a \in Aliases : recorded'[a] # recorded[a] => MayTake(a, recorded'[a]) \/ MayCarryOver
Kept == IInv' /\ RecordsOwn

----------------------------------------------------------------------------
(* Moves *)

Failed ==
    /\ pc' = "failed" /\ round' \in Rounds
    /\ round'.alias = round.alias /\ round'.why # "duplicate"

\* A failing step leaves the round where handlers take it up.
LEMMA FailsFails ==
  ASSUME round \in Rounds, NEW why \in Reasons \ {"duplicate"}, Fails(why)
  PROVE  Failed
BY DEF Fails, Failed, Rounds

\* So does one that loses its page.
LEMMA LosesPageFails ==
  ASSUME round \in Rounds, LosesPage
  PROVE  Failed
BY FailsFails DEF LosesPage, Reasons

\* Taking an SSO moves the round to its duplicate check.
LEMMA TakesMoves ==
  ASSUME round \in Rounds, NEW step, NEW sso \in Identities \cup {None}, Takes(step, sso)
  PROVE  pc' = step /\ round' \in Rounds /\ round'.alias = round.alias /\ round'.sso = sso
BY DEF Takes, Rounds

\* No round is a round.
LEMMA NoRoundIsOne == NoRound \in Rounds
BY DEF NoRound, Rounds, Reasons

\* What is chosen once, and what the records tell.
SameSettings ==
    /\ Registers' = Registers /\ IsStrict' = IsStrict /\ MayCarryOver' = MayCarryOver
    /\ MayBeKept' = MayBeKept
    /\ \A kind : IsKind(kind)' = IsKind(kind)

SameKnown == \A value : Known(value)' = Known(value)

\* A step that keeps the configuration and the kind of the transport keeps both.
LEMMA SettingsStay ==
  ASSUME config' = config, net'.pure = net.pure
  PROVE  SameSettings /\ (recorded' = recorded => SameKnown)
<1>1. Registers' = Registers /\ IsStrict' = IsStrict /\ MayCarryOver' = MayCarryOver
      /\ \A kind : IsKind(kind)' = IsKind(kind)
  BY DEF Registers, IsStrict, IsKind, MayCarryOver, May
<1>2. MayBeKept' = MayBeKept
  BY DEF MayBeKept, IsKind, May
<1>3. recorded' = recorded => SameKnown
  BY <1>2 DEF SameKnown, Known
<1> QED
  BY <1>1, <1>2, <1>3 DEF SameSettings

\* No commit and nothing about the transport's kind.
Quiet ==
    /\ UNCHANGED <<config, status, recorded, stopping>>
    /\ chrome' \in Sane /\ net' \in Transports /\ round' \in Rounds
    /\ net'.pure = net.pure
    /\ IsKind("browser") => chrome'.kept \in {None, chrome.kept}

StaysStrict == IsStrict => chrome' = NoBrowser /\ ~net'.started /\ ~net'.bound

\* A step within a round, before its commit, up to its failure.
LEMMA AdvanceKeeps ==
  ASSUME IInv, Registers, Quiet, StaysStrict,
         pc \in BeforeCommit,
         round'.alias = round.alias,
         \/ /\ pc \in Early /\ pc' \in Early \ {"open"}
            /\ ~MayCarryOver => /\ chrome'.tab \in {None, round.alias}
                                /\ IsKind("protocol") => net'.jar \in {None, round.alias}
         \/ pc' = "failed" /\ round'.why # "duplicate"
  PROVE  Kept
<1>1. Types'
  BY DEF IInv, Types, Quiet
<1>2. SameSettings /\ SameKnown
  BY SettingsStay DEF Quiet
<1>3. OwnIdentities'
  BY <1>2 DEF IInv, OwnIdentities, OwnIdentity, SameSettings, Quiet, Early, BeforeCommit, InHandOver
<1>9. KeptIdentities'
  BY <1>2 DEF IInv, KeptIdentities, KeptIdentity, SameSettings, SameKnown, Quiet, Known, Early, InHandOver
<1>4. RecordedIsUsed'
  BY <1>2 DEF IInv, RecordedIsUsed, SameSettings, Quiet, BeforeCommit
<1>5. NewIdentity'
  BY DEF IInv, NewIdentity, DistinctIdentities, Quiet, Early
<1>6. ReactivatesOnly'
  BY DEF IInv, ReactivatesOnly, Quiet, IsKind, Registers
<1>7. StrictTransport'
  BY <1>2 DEF IInv, StrictTransport, StaysStrict, SameSettings, Quiet, BeforeCommit, Early
<1>8. PureAfterBoot' /\ RecordsOwn
  BY DEF PureAfterBoot, RecordsOwn, Quiet, Early
<1> QED
  BY <1>1, <1>3, <1>4, <1>5, <1>6, <1>7, <1>8, <1>9 DEF Kept, IInv

\* The SSO is taken from where the round left it.
LEMMA TakeKeeps ==
  ASSUME IInv, Registers, Quiet, StaysStrict,
         pc = "extract", pc' = "check",
         round'.alias = round.alias,
         ~MayCarryOver => MayTake(round.alias, round'.sso),
         IsKind("browser") => chrome'.tab \in {None, chrome.tab}
  PROVE  Kept
<1>1. Types'
  BY DEF IInv, Types, Quiet
<1>2. SameSettings /\ SameKnown
  BY SettingsStay DEF Quiet
<1>3. OwnIdentities'
  BY <1>2 DEF IInv, OwnIdentities, OwnIdentity, MayTake, SameSettings, SameKnown, Quiet, Early
<1>9. KeptIdentities'
  <2>1. Known(None)
    BY DEF Known
  <2>2. IsKind("browser") /\ ~MayCarryOver => chrome.tab \in {None, round.alias}
    BY DEF IInv, OwnIdentities, OwnIdentity, IsKind, Early
  <2> QED
    BY <1>2, <2>1, <2>2 DEF IInv, KeptIdentities, KeptIdentity, SameSettings, SameKnown, Quiet, Early, InHandOver
<1>4. RecordedIsUsed'
  BY <1>2 DEF IInv, RecordedIsUsed, SameSettings, Quiet, BeforeCommit, Early
<1>5. NewIdentity'
  BY DEF IInv, NewIdentity, DistinctIdentities, Quiet
<1>6. ReactivatesOnly'
  BY DEF IInv, ReactivatesOnly, Quiet, IsKind, Registers
<1>7. StrictTransport'
  BY <1>2 DEF IInv, StrictTransport, StaysStrict, SameSettings, Quiet
<1>8. PureAfterBoot' /\ RecordsOwn
  BY DEF PureAfterBoot, RecordsOwn, Quiet, Early
<1> QED
  BY <1>1, <1>3, <1>4, <1>5, <1>6, <1>7, <1>8, <1>9 DEF Kept, IInv

\* Outside a round, or past the commit, only the browser of a browser worker
\* and the use of an alias that is recorded are looked at.
LEMMA OutsideKeeps ==
  ASSUME IInv,
         UNCHANGED <<config, recorded>>,
         chrome' \in Sane, net' \in Transports, round' \in Rounds, stopping' \in BOOLEAN,
         status' \in [Aliases -> {"todo", "used", "failed"}],
         pc' \notin BeforeCommit \cup {"failed", "boot"},
         Registers => \A a \in Aliases : recorded[a] # None => status'[a] = "used",
         pc' # "ended" => pc # "ended" /\ (MayCarryOver => MayCarryOver'),
         ~MayCarryOver /\ IsKind("browser") =>
           /\ pc' \in {"idle", "unborn", "ended"} /\ (chrome'.kept = None \/ MayBeKept)
           /\ pc' = "idle" => (chrome'.tab = None /\ Known(chrome'.kept)) \/ stopping',
         StaysStrict,
         IsStrict /\ pc' \notin {"unborn", "ended"} => net'.pure
  PROVE  Kept
<1>1. Types'
  BY DEF IInv, Types
<1>2. /\ Registers' = Registers /\ IsStrict' = IsStrict /\ MayBeKept' = MayBeKept
      /\ \A kind : IsKind(kind)' = IsKind(kind)
  BY DEF IsKind, Registers, IsStrict, MayBeKept, May
<1>3. OwnIdentities'
  BY <1>2 DEF IInv, OwnIdentities, OwnIdentity, Early, BeforeCommit, InHandOver
<1>9. KeptIdentities'
  <2>1. \A value : Known(value)' = Known(value)
    BY <1>2 DEF Known
  <2>2. IsKind("browser") => MayCarryOver' = MayCarryOver
    BY DEF MayCarryOver, May, IsKind
  <2> QED
    BY <1>2, <2>1, <2>2 DEF KeptIdentities, KeptIdentity, Early, InHandOver
<1>4. RecordedIsUsed'
  BY <1>2 DEF IInv, RecordedIsUsed
<1>5. NewIdentity'
  BY DEF IInv, NewIdentity, DistinctIdentities, BeforeCommit
<1>6. ReactivatesOnly'
  BY DEF IInv, ReactivatesOnly, IsKind
<1>7. StrictTransport'
  BY <1>2 DEF IInv, StrictTransport, StaysStrict
<1>8. PureAfterBoot' /\ RecordsOwn
  BY DEF PureAfterBoot, RecordsOwn
<1> QED
  BY <1>1, <1>3, <1>4, <1>5, <1>6, <1>7, <1>8, <1>9 DEF Kept, IInv

----------------------------------------------------------------------------
(* The protocol worker *)

\* The browser's part of an outcome, and the transport's.
LEMMA BrowseMoves ==
  ASSUME net \in Transports, NEW o \in ProviderOuts(chrome), Browses(o)
  PROVE  /\ chrome' = o.chrome /\ chrome' \in Sane /\ chrome'.tab \in {None, chrome.tab}
         /\ net' \in Transports /\ net'.jar = net.jar /\ net'.pure = net.pure
         /\ net'.started = net.started /\ net'.bound = net.bound
BY DEF Browses, ProviderOuts, Transports

\* A loss that was noticed ends the round before its next step.
LEMMA StopsForLeaseKeeps == IInv /\ StopsForLease => Kept
<1> SUFFICES ASSUME IInv, StopsForLease PROVE Kept
  OBVIOUS
<1>1. Failed
  BY FailsFails DEF IInv, Types, StopsForLease, Reasons
<1>2. Quiet /\ StaysStrict /\ Registers
  BY <1>1 DEF IInv, Types, StopsForLease, protocolUnchanged, recordVars, controlVars, Quiet, Failed,
              StaysStrict, StrictTransport, Registers, IsKind
<1>3. pc \in BeforeCommit
  BY DEF StopsForLease, PauseSteps, BeforeCommit, Early
<1> QED
  BY <1>1, <1>2, <1>3, AdvanceKeeps DEF Failed

\* A pure round starts with an empty jar and, in strict mode, with no browser.
LEMMA OpensPureKeeps == IInv /\ OpensPure => Kept
<1> SUFFICES ASSUME IInv, OpensPure PROVE Kept
  OBVIOUS
<1>1. /\ pc = "open" /\ IsKind("protocol") /\ net.pure
      /\ pc' = "send" /\ round' = round /\ chrome' = chrome
      /\ net' = [net EXCEPT !.jar = None, !.bound = net.started]
      /\ UNCHANGED <<config, status, recorded, stopping>>
  BY DEF OpensPure, PausedStep, RoundStep, Protocol, At, Goes, protocolUnchanged, recordVars, controlVars
<1>2. net' \in Transports /\ net'.jar = None /\ net'.pure = net.pure /\ net'.started = net.started
      /\ net'.bound = net.started
  BY <1>1 DEF IInv, Types, Transports
<1>3. Quiet /\ StaysStrict /\ Registers
  BY <1>1, <1>2 DEF IInv, Types, Quiet, StaysStrict, StrictTransport, Registers, IsKind
<1>4. ~MayCarryOver => chrome.tab = None
  BY <1>1 DEF IInv, StrictTransport, IsStrict, MayCarryOver, NoBrowser
<1> QED
  BY <1>1, <1>2, <1>3, <1>4, AdvanceKeeps DEF BeforeCommit, Early

\* A hybrid round starts with an empty jar and no identity in the browser.
LEMMA OpensHybridKeeps == IInv /\ OpensHybrid => Kept
<1> SUFFICES ASSUME IInv, OpensHybrid PROVE Kept
  OBVIOUS
<1>1. PICK o \in Readies(FALSE) :
        /\ chrome' = o.chrome
        /\ net' = [net EXCEPT !.jar = None, !.up = o.up]
        /\ IF o.ok THEN Goes("send") ELSE LosesPage
  BY DEF OpensHybrid
<1>2. /\ pc = "open" /\ IsKind("protocol") /\ ~net.pure
      /\ UNCHANGED <<config, status, recorded, stopping>>
  BY DEF OpensHybrid, PausedStep, RoundStep, Protocol, At, protocolUnchanged, recordVars, controlVars
<1>3. o \in ProviderOuts(chrome) /\ (o.ok /\ ~May("cdp") => o.chrome.tab = None)
  BY ReadyOuts DEF IInv, Types
<1>4. net' \in Transports /\ net'.jar = None /\ net'.pure = net.pure /\ chrome' \in Sane
  BY <1>1, <1>3 DEF IInv, Types, Transports, ProviderOuts
<1>5. (pc' = "send" /\ round' = round /\ o.ok) \/ Failed
  BY <1>1, LosesPageFails DEF IInv, Types, Goes
<1>6. ~IsStrict
  BY <1>2 DEF IInv, StrictTransport
<1>7. Quiet /\ StaysStrict /\ Registers
  BY <1>2, <1>4, <1>5, <1>6 DEF IInv, Types, Quiet, StaysStrict, Registers, IsKind, Failed
<1>8. ~MayCarryOver /\ o.ok => chrome'.tab = None
  BY <1>1, <1>3 DEF MayCarryOver
<1> QED
  BY <1>2, <1>4, <1>5, <1>7, <1>8, AdvanceKeeps DEF BeforeCommit, Early, Failed

\* A step of a round that talks to xAI, or solves its challenge, and goes on
\* or fails: it brings no other identity.
LEMMA TalkKeeps ==
  ASSUME IInv, RoundStep(pc), pc \in Early \ {"open"},
         NEW o \in ProviderOuts(chrome), Browses(o), net.pure /\ ~config.fallback => o.chrome = chrome,
         protocolUnchanged,
         \/ pc' \in Early \ {"open"} /\ round' = round
         \/ Failed
  PROVE  Kept
<1>1. IsKind("protocol") /\ UNCHANGED <<config, status, recorded, stopping>>
  BY DEF RoundStep, Protocol, protocolUnchanged, recordVars, controlVars
<1>2. /\ chrome' = o.chrome /\ chrome' \in Sane /\ chrome'.tab \in {None, chrome.tab}
      /\ net' \in Transports /\ net'.jar = net.jar /\ net'.pure = net.pure
      /\ net'.started = net.started /\ net'.bound = net.bound
  BY BrowseMoves DEF IInv, Types
<1>3. Registers /\ Quiet
  BY <1>1, <1>2 DEF IInv, Types, Registers, IsKind, Quiet, Failed
<1>4. StaysStrict
  BY <1>2 DEF IInv, StrictTransport, IsStrict, StaysStrict, Early
<1>5. ~MayCarryOver => chrome.tab \in {None, round.alias} /\ net.jar \in {None, round.alias}
  BY <1>1, <1>3 DEF IInv, OwnIdentities, OwnIdentity
<1> QED
  BY <1>2, <1>3, <1>4, <1>5, AdvanceKeeps DEF Failed, BeforeCommit

\* send_email_code reads no identity.
LEMMA SendsCodeKeeps == IInv /\ SendsCode => Kept
<1> SUFFICES ASSUME IInv, SendsCode PROVE Kept
  OBVIOUS
<1>1. PICK o \in Calls :
        /\ Browses(o)
        /\ IF o.ok THEN Goes("code") \/ \E why \in {"env", "denied", "error"} : Fails(why) ELSE LosesPage
  BY DEF SendsCode
<1>2. o \in ProviderOuts(chrome) /\ (net.pure => o.chrome = chrome)
  BY CallOuts DEF IInv, Types
<1>3. (pc' = "code" /\ round' = round) \/ Failed
  BY <1>1, FailsFails, LosesPageFails DEF IInv, Types, Goes, Reasons
<1>4. RoundStep(pc) /\ pc = "send" /\ protocolUnchanged
  BY DEF SendsCode, PausedStep, RoundStep, Protocol, At
<1> QED
  BY <1>1, <1>2, <1>3, <1>4, TalkKeeps DEF Early

\* Nor does the verification of the code.
LEMMA VerifiesCodeKeeps == IInv /\ VerifiesCode => Kept
<1> SUFFICES ASSUME IInv, VerifiesCode PROVE Kept
  OBVIOUS
<1>1. PICK o \in Calls :
        /\ Browses(o)
        /\ IF o.ok THEN Goes("solve") \/ \E why \in {"env", "existing", "error"} : Fails(why) ELSE LosesPage
  BY DEF VerifiesCode
<1>2. o \in ProviderOuts(chrome) /\ (net.pure => o.chrome = chrome)
  BY CallOuts DEF IInv, Types
<1>3. (pc' = "solve" /\ round' = round) \/ Failed
  BY <1>1, FailsFails, LosesPageFails DEF IInv, Types, Goes, Reasons
<1>4. RoundStep(pc) /\ pc = "code" /\ protocolUnchanged
  BY DEF VerifiesCode, PausedStep, RoundStep, Protocol, At
<1> QED
  BY <1>1, <1>2, <1>3, <1>4, TalkKeeps DEF Early

\* An external solver's token brings no cookies.
LEMMA SolvesExternallyKeeps == IInv /\ SolvesExternally => Kept
<1> SUFFICES ASSUME IInv, SolvesExternally PROVE Kept
  OBVIOUS
<1>1. RoundStep(pc) /\ pc = "solve" /\ protocolUnchanged /\ pc' = "submit" /\ round' = round
  BY DEF SolvesExternally, PausedStep, RoundStep, Protocol, At, Goes
<1>2. CASE net.pure
  <2>1. chrome' = chrome /\ net' = net
    BY <1>2 DEF SolvesExternally
  <2>2. Registers /\ Quiet /\ StaysStrict
    BY <1>1, <2>1 DEF IInv, Types, StrictTransport, Quiet, StaysStrict, Registers, IsKind, RoundStep,
                      Protocol, protocolUnchanged, recordVars, controlVars
  <2>3. ~MayCarryOver => chrome.tab \in {None, round.alias} /\ (IsKind("protocol") => net.jar \in {None, round.alias})
    BY <1>1, <2>2 DEF IInv, OwnIdentities, OwnIdentity, Early
  <2> QED
    BY <1>1, <2>1, <2>2, <2>3, AdvanceKeeps DEF BeforeCommit, Early
<1>3. CASE ~net.pure
  <2>1. PICK o \in Ensures : Browses(o)
    BY <1>3 DEF SolvesExternally
  <2>2. o \in ProviderOuts(chrome)
    BY EnsureOuts DEF IInv, Types
  <2> QED
    BY <1>1, <1>3, <2>1, <2>2, TalkKeeps DEF Early
<1> QED
  BY <1>2, <1>3

\* A Turnstile that is not solved fails the round.
LEMMA FailsToSolveKeeps == IInv /\ FailsToSolve => Kept
<1> SUFFICES ASSUME IInv, FailsToSolve PROVE Kept
  OBVIOUS
<1>1. Failed
  BY FailsFails DEF IInv, Types, FailsToSolve, Reasons
<1>2. Quiet /\ StaysStrict /\ Registers /\ pc = "solve"
  BY <1>1 DEF IInv, Types, FailsToSolve, PausedStep, RoundStep, Protocol, At, protocolUnchanged,
              recordVars, controlVars, Quiet, Failed, StaysStrict, StrictTransport, Registers, IsKind
<1> QED
  BY <1>1, <1>2, AdvanceKeeps DEF Failed, BeforeCommit, Early

\* The browser's widget is not used in strict mode, and its cookies are those
\* of the round unless the browser is one that no round resets.
LEMMA SolvesInBrowserKeeps == IInv /\ SolvesInBrowser => Kept
<1> SUFFICES ASSUME IInv, SolvesInBrowser PROVE Kept
  OBVIOUS
<1>1. PICK o \in Ensures, solved \in BOOLEAN :
        /\ chrome' = o.chrome
        /\ net' = [net EXCEPT !.up = o.up,
                             !.started = @ \/ o.ok,
                             !.bound = @ \/ o.ok,
                             !.jar = IF IsUsable(o) /\ solved /\ o.chrome.tab # None THEN o.chrome.tab ELSE @]
        /\ IF IsUsable(o) /\ solved THEN Goes("submit") ELSE LosesPage
  BY DEF SolvesInBrowser
<1>2. /\ IsKind("protocol") /\ config.fallback /\ pc = "solve"
      /\ UNCHANGED <<config, status, recorded, stopping>>
  BY DEF SolvesInBrowser, MayFallBack, PausedStep, RoundStep, Protocol, At, protocolUnchanged, recordVars, controlVars
<1>3. o \in ProviderOuts(chrome)
  BY EnsureOuts DEF IInv, Types
<1>4. o.chrome \in Sane /\ o.chrome.tab \in {None, chrome.tab} /\ o.up \in BOOLEAN /\ o.ok \in BOOLEAN
      /\ o.chrome.tab \in Identities \cup {None}
  BY <1>3 DEF ProviderOuts, Sane, Sessions
<1>5. net' \in Transports /\ net'.pure = net.pure /\ net'.jar \in {net.jar, o.chrome.tab}
  BY <1>1, <1>4 DEF IInv, Types, Transports
<1>6. (pc' = "submit" /\ round' = round) \/ Failed
  BY <1>1, LosesPageFails DEF IInv, Types, Goes
<1>7. Quiet /\ StaysStrict /\ Registers
  BY <1>1, <1>2, <1>4, <1>5, <1>6 DEF IInv, Types, Quiet, StaysStrict, IsStrict, Registers, IsKind, Failed
<1>8. ~MayCarryOver => chrome.tab \in {None, round.alias} /\ net.jar \in {None, round.alias}
  BY <1>2, <1>7 DEF IInv, OwnIdentities, OwnIdentity, Early
<1> QED
  BY <1>1, <1>2, <1>4, <1>5, <1>6, <1>7, <1>8, AdvanceKeeps DEF BeforeCommit, Early, Failed

\* The answer to the form may set the cookie of the account just made.
LEMMA SubmitsSignupKeeps == IInv /\ SubmitsSignup => Kept
<1> SUFFICES ASSUME IInv, SubmitsSignup PROVE Kept
  OBVIOUS
<1>1. PICK o \in Calls, cookie \in BOOLEAN :
        \/ /\ o.ok
           /\ chrome' = IF cookie /\ ~net.pure THEN [o.chrome EXCEPT !.tab = round.alias] ELSE o.chrome
           /\ net' = [net EXCEPT !.up = o.up, !.jar = IF cookie /\ net.pure THEN round.alias ELSE @]
           /\ Goes("extract") \/ LosesPage
        \/ /\ Browses(o)
           /\ IF o.ok THEN \E why \in {"env", "error"} \cup {w \in {"existing"} : round.alias \in created} : Fails(why)
              ELSE LosesPage
  BY DEF SubmitsSignup
<1>2. /\ IsKind("protocol") /\ pc = "submit"
      /\ UNCHANGED <<config, status, recorded, stopping>>
  BY DEF SubmitsSignup, RoundStep, Protocol, At, controlVars
<1>3. /\ o \in ProviderOuts(chrome) /\ (net.pure => o.chrome = chrome)
      /\ ~net.pure /\ o.ok => o.chrome.window = "live"
  BY CallOuts DEF IInv, Types
<1>4. round.alias \in Aliases
  BY <1>2 DEF IInv, RecordedIsUsed, Registers, IsKind, BeforeCommit, Early
<1>5. ~MayCarryOver => chrome.tab \in {None, round.alias} /\ net.jar \in {None, round.alias}
  BY <1>2 DEF IInv, OwnIdentities, OwnIdentity, Early, Registers, IsKind
<1>6. CASE /\ o.ok
           /\ chrome' = IF cookie /\ ~net.pure THEN [o.chrome EXCEPT !.tab = round.alias] ELSE o.chrome
           /\ net' = [net EXCEPT !.up = o.up, !.jar = IF cookie /\ net.pure THEN round.alias ELSE @]
           /\ Goes("extract") \/ LosesPage
  <2>1. chrome' \in Sane /\ chrome'.tab \in {None, chrome.tab, round.alias} /\ (net.pure => chrome' = chrome)
    BY <1>3, <1>4, <1>6 DEF ProviderOuts, Sane, Sessions, Identities
  <2>2. net' \in Transports /\ net'.pure = net.pure /\ net'.jar \in {net.jar, round.alias}
        /\ net'.started = net.started /\ net'.bound = net.bound
    BY <1>3, <1>4, <1>6 DEF IInv, Types, Transports, ProviderOuts, Identities
  <2>3. (pc' = "extract" /\ round' = round) \/ Failed
    BY <1>6, LosesPageFails DEF IInv, Types, Goes
  <2>4. Quiet /\ StaysStrict /\ Registers
    BY <1>2, <2>1, <2>2, <2>3 DEF IInv, Types, Quiet, StaysStrict, StrictTransport, IsStrict, Registers, IsKind, Failed
  <2> QED
    BY <1>2, <1>5, <2>1, <2>2, <2>3, <2>4, AdvanceKeeps DEF BeforeCommit, Early, Failed
<1>7. CASE /\ Browses(o)
           /\ IF o.ok THEN \E why \in {"env", "error"} \cup {w \in {"existing"} : round.alias \in created} : Fails(why)
              ELSE LosesPage
  <2>1. Failed
    BY <1>7, FailsFails, LosesPageFails DEF IInv, Types, Reasons
  <2>2. /\ chrome' = o.chrome /\ chrome' \in Sane
        /\ net' \in Transports /\ net'.pure = net.pure
        /\ net'.started = net.started /\ net'.bound = net.bound
    BY <1>3, <1>7, BrowseMoves DEF IInv, Types
  <2>3. Quiet /\ StaysStrict /\ Registers
    BY <1>2, <1>3, <2>1, <2>2 DEF IInv, Types, Quiet, StaysStrict, StrictTransport, IsStrict, Registers, IsKind, Failed
  <2> QED
    BY <1>2, <2>1, <2>3, AdvanceKeeps DEF BeforeCommit, Early, Failed
<1> QED
  BY <1>1, <1>6, <1>7

\* The first cookie found is that of the round.
LEMMA ReadsCookieKeeps == IInv /\ ReadsCookie => Kept
<1> SUFFICES ASSUME IInv, ReadsCookie PROVE Kept
  OBVIOUS
<1>1. /\ IsKind("protocol") /\ pc = "extract" /\ FirstCookie # None /\ Takes("check", FirstCookie)
      /\ chrome' = chrome /\ net' = net /\ UNCHANGED <<config, status, recorded, stopping>>
  BY DEF ReadsCookie, RoundStep, Protocol, At, protocolUnchanged, recordVars, controlVars
<1>2. FirstCookie \in {net.jar, chrome.tab} /\ FirstCookie \in Identities \cup {None}
  BY <1>1 DEF IInv, Types, FirstCookie, BrowserIdentity, Transports, Sane, Sessions
<1>3. pc' = "check" /\ round' \in Rounds /\ round'.alias = round.alias /\ round'.sso = FirstCookie
  BY <1>1, <1>2, TakesMoves DEF IInv, Types
<1>4. Quiet /\ StaysStrict /\ Registers
  BY <1>1, <1>3 DEF IInv, Types, Quiet, StaysStrict, StrictTransport, Registers, IsKind
<1>5. ~MayCarryOver => chrome.tab \in {None, round.alias} /\ net.jar \in {None, round.alias}
  BY <1>1, <1>4 DEF IInv, OwnIdentities, OwnIdentity, Early
<1> QED
  BY <1>1, <1>2, <1>3, <1>4, <1>5, TakeKeeps DEF IsKind, MayTake

\* Over HTTP the SSO comes into the jar of the round.
LEMMA FollowsOverHttpKeeps == IInv /\ FollowsOverHttp => Kept
<1> SUFFICES ASSUME IInv, FollowsOverHttp PROVE Kept
  OBVIOUS
<1>1. /\ IsKind("protocol") /\ pc = "extract" /\ Takes("check", round.alias)
      /\ IF net.pure THEN net' = [net EXCEPT !.jar = round.alias] /\ chrome' = chrome
         ELSE chrome.window = "live" /\ chrome' = [chrome EXCEPT !.tab = round.alias] /\ net' = net
      /\ UNCHANGED <<config, status, recorded, stopping>>
  BY DEF FollowsOverHttp, RoundStep, Protocol, At, protocolUnchanged, recordVars, controlVars
<1>2. round.alias \in Aliases
  BY <1>1 DEF IInv, RecordedIsUsed, Registers, IsKind, BeforeCommit, Early
<1>3. pc' = "check" /\ round' \in Rounds /\ round'.alias = round.alias /\ round'.sso = round.alias
  BY <1>1, <1>2, TakesMoves DEF IInv, Types, Identities
<1>4. chrome' \in Sane /\ net' \in Transports /\ net'.pure = net.pure
      /\ net'.started = net.started /\ net'.bound = net.bound /\ (net.pure => chrome' = chrome)
  BY <1>1, <1>2 DEF IInv, Types, Sane, Sessions, Transports, Identities
<1>5. Quiet /\ StaysStrict /\ Registers
  BY <1>1, <1>3, <1>4 DEF IInv, Types, Quiet, StaysStrict, StrictTransport, IsStrict, Registers, IsKind
<1> QED
  BY <1>1, <1>3, <1>5, TakeKeeps DEF IsKind, MayTake

\* In a browser it comes into the page the round opened.
LEMMA NavigatesKeeps == IInv /\ Navigates => Kept
<1> SUFFICES ASSUME IInv, Navigates PROVE Kept
  OBVIOUS
<1>1. /\ IsKind("protocol") /\ pc = "extract" /\ net.bound
      /\ UNCHANGED <<config, status, recorded, stopping>>
  BY DEF Navigates, RoundStep, Protocol, At, protocolUnchanged, recordVars, controlVars
<1>2. PICK o \in Ensures :
        IF IsUsable(o) THEN Browses([o EXCEPT !.chrome.tab = round.alias]) /\ Takes("check", round.alias)
        ELSE Browses(o) /\ Fails("error")
  BY DEF Navigates
<1>3. o \in ProviderOuts(chrome)
  BY EnsureOuts DEF IInv, Types
<1>4. round.alias \in Aliases /\ ~IsStrict /\ Registers
  BY <1>1 DEF IInv, RecordedIsUsed, StrictTransport, Registers, IsKind, BeforeCommit, Early
<1>5. CASE IsUsable(o)
  <2>1. pc' = "check" /\ round' \in Rounds /\ round'.alias = round.alias /\ round'.sso = round.alias
    BY <1>2, <1>4, <1>5, TakesMoves DEF IInv, Types, Identities
  <2>2. [o EXCEPT !.chrome.tab = round.alias].chrome \in Sane
        /\ [o EXCEPT !.chrome.tab = round.alias].up \in BOOLEAN
    BY <1>3, <1>4, <1>5 DEF IsUsable, ProviderOuts, Sane, Sessions, Identities
  <2>3. chrome' \in Sane /\ net' \in Transports /\ net'.pure = net.pure
    BY <1>2, <1>5, <2>2 DEF IInv, Types, Browses, Transports
  <2>4. Quiet /\ StaysStrict
    BY <1>1, <1>4, <2>1, <2>3 DEF Quiet, StaysStrict, IsKind
  <2> QED
    BY <1>1, <1>4, <2>1, <2>4, TakeKeeps DEF IsKind, MayTake
<1>6. CASE ~IsUsable(o)
  <2>1. Failed
    BY <1>2, <1>6, FailsFails DEF IInv, Types, Reasons
  <2>2. chrome' \in Sane /\ net' \in Transports /\ net'.pure = net.pure
    BY <1>2, <1>3, <1>6, BrowseMoves DEF IInv, Types
  <2>3. Quiet /\ StaysStrict
    BY <1>1, <1>4, <2>1, <2>2 DEF Quiet, StaysStrict, Failed, IsKind
  <2> QED
    BY <1>1, <1>4, <2>1, <2>3, AdvanceKeeps DEF Failed, BeforeCommit, Early
<1> QED
  BY <1>5, <1>6

\* Without an SSO the round fails.
LEMMA FindsNoSsoKeeps == IInv /\ FindsNoSso => Kept
<1> SUFFICES ASSUME IInv, FindsNoSso PROVE Kept
  OBVIOUS
<1>1. Failed
  BY FailsFails DEF IInv, Types, FindsNoSso, Reasons
<1>2. Quiet /\ StaysStrict /\ Registers /\ pc = "extract"
  BY <1>1 DEF IInv, Types, FindsNoSso, RoundStep, Protocol, At, protocolUnchanged,
              recordVars, controlVars, Quiet, Failed, StaysStrict, StrictTransport, Registers, IsKind
<1> QED
  BY <1>1, <1>2, AdvanceKeeps DEF Failed, BeforeCommit, Early

----------------------------------------------------------------------------
(* The record of a success, and the end of a round *)

\* An SSO that is recorded already is that of another round; the round's own
\* account is new, so only an identity that is carried over can be.
LEMMA ChecksKeep ==
  ASSUME IInv, Registers, ChecksDuplicate, net' = net
  PROVE  Kept
<1>1. /\ pc = "check" /\ chrome' = chrome /\ UNCHANGED <<config, status, recorded, stopping>>
      /\ IF IsDuplicate(round.sso) THEN Fails("duplicate")
         ELSE Goes(IF IsKind("protocol") THEN "commit" ELSE "activate")
  BY DEF ChecksDuplicate, At, recordVars, controlVars
<1>2. /\ round' \in Rounds /\ round'.alias = round.alias /\ round'.sso = round.sso
      /\ \/ ~IsDuplicate(round.sso) /\ pc' \in {"commit", "activate"}
         \/ IsDuplicate(round.sso) /\ pc' = "failed"
  BY <1>1 DEF IInv, Types, Fails, Goes, Rounds, Reasons
<1>3. SameSettings /\ SameKnown
  BY <1>1, SettingsStay
<1>4. ~MayCarryOver /\ IsDuplicate(round.sso) => MayBeKept
  <2> SUFFICES ASSUME ~MayCarryOver, ~MayBeKept PROVE ~IsDuplicate(round.sso)
    OBVIOUS
  <2>1. round.sso = round.alias /\ \A a \in Aliases : recorded[a] \in {None, a}
    BY <1>1 DEF IInv, OwnIdentities, OwnIdentity, MayTake, InHandOver
  <2>2. round.alias \in Aliases /\ recorded[round.alias] = None
    BY <1>1 DEF IInv, RecordedIsUsed, BeforeCommit
  <2>3. None \notin Aliases
    BY SignupAssumption DEF Identities
  <2> QED
    BY <2>1, <2>2, <2>3 DEF IsDuplicate
<1>5. Types'
  BY <1>1, <1>2 DEF IInv, Types
<1>6. OwnIdentities'
  BY <1>1, <1>2, <1>3, <1>4 DEF IInv, OwnIdentities, OwnIdentity, MayTake, SameSettings, SameKnown, Early, InHandOver
<1>10. KeptIdentities'
  BY <1>1, <1>2, <1>3 DEF IInv, KeptIdentities, KeptIdentity, SameSettings, SameKnown, Early, InHandOver
<1>7. RecordedIsUsed'
  BY <1>1, <1>2, <1>3 DEF IInv, RecordedIsUsed, SameSettings, BeforeCommit
<1>8. NewIdentity'
  BY <1>1, <1>2 DEF IInv, NewIdentity, DistinctIdentities, IsDuplicate
<1>9. ReactivatesOnly' /\ StrictTransport'
  BY <1>1, <1>3 DEF IInv, ReactivatesOnly, StrictTransport, SameSettings, Registers, IsKind
<1> QED
  BY <1>1, <1>2, <1>5, <1>6, <1>7, <1>8, <1>9, <1>10 DEF Kept, IInv, PureAfterBoot, RecordsOwn

\* A commit under the lease records the identity that was checked.
LEMMA CommitsKeep ==
  ASSUME IInv, Registers, NEW next \in {"mutate", "after"}, pc = "commit", CommitsSuccess(next),
         UNCHANGED <<config, chrome, net, stopping>>
  PROVE  Kept
<1>1. CASE /\ recorded' = [recorded EXCEPT ![round.alias] = round.sso]
           /\ status' = [status EXCEPT ![round.alias] = "used"]
           /\ pc' = next
           /\ round' = [round EXCEPT !.lease = "none"]
  <2>1. /\ round.alias \in Aliases /\ ~IsDuplicate(round.sso) /\ recorded[round.alias] = None
        /\ ~MayCarryOver => MayTake(round.alias, round.sso)
    BY DEF IInv, RecordedIsUsed, BeforeCommit, NewIdentity, OwnIdentities, OwnIdentity, InHandOver
  <2>2. SameSettings
    BY SettingsStay
  <2>3. Types'
    BY <1>1, <2>1 DEF IInv, Types, Rounds
  <2>4. \A a \in Aliases : recorded'[a] = IF a = round.alias THEN round.sso ELSE recorded[a]
    BY <1>1, <2>1 DEF IInv, Types
  <2>5. OwnIdentities'
    BY <1>1, <2>1, <2>2, <2>4 DEF IInv, OwnIdentities, OwnIdentity, MayTake, SameSettings, Early, InHandOver
  <2>10. KeptIdentities'
    <3>1. None \notin Aliases /\ (~MayCarryOver => round.sso # None)
      BY <2>1, SignupAssumption DEF Identities, MayTake
    <3>2. ~MayCarryOver => \A value : Known(value) \/ value = round.alias => Known(value)'
      BY <2>1, <2>2, <2>4, <3>1 DEF Known, SameSettings
    <3> QED
      BY <1>1, <2>2, <3>2 DEF IInv, KeptIdentities, KeptIdentity, SameSettings, Early, InHandOver
  <2>6. RecordedIsUsed'
    BY <1>1, <2>1, <2>2, <2>4 DEF IInv, Types, RecordedIsUsed, SameSettings, BeforeCommit, Early
  <2>7. NewIdentity'
    BY <1>1, <2>1, <2>4 DEF IInv, NewIdentity, DistinctIdentities, IsDuplicate
  <2>8. ReactivatesOnly' /\ StrictTransport'
    BY <1>1, <2>2 DEF IInv, ReactivatesOnly, StrictTransport, SameSettings, Registers, IsKind
  <2>9. RecordsOwn
    BY <2>1, <2>4 DEF RecordsOwn
  <2> QED
    BY <1>1, <2>3, <2>5, <2>6, <2>7, <2>8, <2>9, <2>10 DEF Kept, IInv, PureAfterBoot
<1>2. CASE (Fails("lease") \/ Fails("error")) /\ UNCHANGED <<recorded, status>>
  <2>1. Failed
    BY <1>2, FailsFails DEF IInv, Types, Reasons
  <2>2. Quiet /\ StaysStrict
    BY <1>2, <2>1 DEF IInv, Types, Quiet, StaysStrict, StrictTransport, Failed
  <2> QED
    BY <2>1, <2>2, AdvanceKeeps DEF Failed, BeforeCommit
<1> QED
  BY <1>1, <1>2 DEF CommitsSuccess

\* A failure is recorded for an alias without a record.
LEMMA FailureRecords ==
  ASSUME IInv, Registers, pc = "failed", NEW why, RecordsFailure(why)
  PROVE  /\ status' \in [Aliases -> {"todo", "used", "failed"}]
         /\ \A a \in Aliases : recorded[a] # None => status'[a] = "used"
<1>1. round.alias \in Aliases /\ status[round.alias] = "todo"
  BY DEF IInv, RecordedIsUsed
<1>2. status' = status \/ \E s \in {"todo", "failed"} : status' = [status EXCEPT ![round.alias] = s]
  BY DEF RecordsFailure
<1> QED
  BY <1>1, <1>2 DEF IInv, Types, RecordedIsUsed

\* A claim begins a round of an alias that is still to be used.
LEMMA ClaimKeeps ==
  ASSUME IInv, NEW a \in Aliases, Claim(a), net' = net
  PROVE  Kept
<1>1. /\ Registers /\ pc = "idle" /\ ~stopping /\ status[a] = "todo" /\ pc' = "open"
      /\ round' = [NoRound EXCEPT !.alias = a, !.lease = "held"]
      /\ UNCHANGED <<config, chrome, status, recorded, stopping>>
  BY DEF Claim, At, recordVars, controlVars
<1>2. round' \in Rounds /\ round'.alias = a
  BY <1>1 DEF NoRound, Rounds, Reasons
<1>3. SameSettings /\ SameKnown
  BY <1>1, SettingsStay
<1>4. Types'
  BY <1>1, <1>2 DEF IInv, Types
<1>5. OwnIdentities'
  BY <1>1, <1>2, <1>3 DEF IInv, OwnIdentities, OwnIdentity, SameSettings, Registers, IsKind, Early, InHandOver
<1>9. KeptIdentities'
  BY <1>1, <1>2, <1>3 DEF IInv, KeptIdentities, KeptIdentity, SameSettings, SameKnown, Early, InHandOver
<1>6. RecordedIsUsed'
  BY <1>1, <1>2, <1>3 DEF IInv, RecordedIsUsed, SameSettings
<1>7. NewIdentity'
  BY <1>1 DEF IInv, NewIdentity, DistinctIdentities
<1>8. ReactivatesOnly' /\ StrictTransport'
  BY <1>1, <1>3 DEF IInv, ReactivatesOnly, StrictTransport, SameSettings, Registers, IsKind
<1> QED
  BY <1>1, <1>4, <1>5, <1>6, <1>7, <1>8, <1>9 DEF Kept, IInv, PureAfterBoot, RecordsOwn

----------------------------------------------------------------------------
(* The protocol worker between its rounds *)

\* Discovery over HTTP leaves no browser; without it strict mode does not boot.
LEMMA ProtocolBootsKeep == IInv /\ (BootsPure \/ BootBlocked \/ BootsHybrid) => Kept
<1> SUFFICES ASSUME IInv, BootsPure \/ BootBlocked \/ BootsHybrid PROVE Kept
  OBVIOUS
<1>1. IsKind("protocol") /\ pc = "boot" /\ UNCHANGED <<config, status, recorded, stopping>>
  BY DEF BootsPure, BootBlocked, BootsHybrid, Protocol, At, recordVars, controlVars
<1>2. Registers /\ ~IsKind("browser") /\ \A a \in Aliases : recorded[a] # None => status[a] = "used"
  BY <1>1 DEF IInv, RecordedIsUsed, Registers, IsKind
<1>3. CASE BootsPure
  <2>1. /\ pc' = "idle" /\ round' = round /\ chrome' = chrome
        /\ net' = [NoTransport EXCEPT !.pure = TRUE]
    BY <1>3 DEF BootsPure, Goes
  <2>2. net' \in Transports /\ net'.pure /\ ~net'.started /\ ~net'.bound
    BY <2>1 DEF NoTransport, Transports
  <2>3. StaysStrict /\ (MayCarryOver => MayCarryOver')
    BY <1>1, <2>1, <2>2 DEF IInv, StrictTransport, StaysStrict, MayCarryOver, May, IsKind
  <2> QED
    BY <1>1, <1>2, <2>1, <2>2, <2>3, OutsideKeeps DEF IInv, Types, BeforeCommit, Early
<1>4. CASE BootBlocked
  <2>1. pc' = "unborn" /\ round' = round /\ chrome' = chrome /\ net' = net
    BY <1>4 DEF BootBlocked, Goes
  <2>2. StaysStrict /\ (MayCarryOver => MayCarryOver')
    BY <1>1, <2>1 DEF IInv, StrictTransport, StaysStrict, MayCarryOver, May, IsKind
  <2> QED
    BY <1>1, <1>2, <2>1, <2>2, OutsideKeeps DEF IInv, Types, BeforeCommit, Early
<1>5. CASE BootsHybrid
  <2>1. PICK o \in Starts(chrome, May("start")) :
          /\ chrome' = o.chrome
          /\ \/ /\ net' = [NoTransport EXCEPT !.started = TRUE, !.up = TRUE, !.bound = TRUE]
                /\ Goes("idle")
             \/ /\ net' = net
                /\ Goes("unborn")
    BY <1>5 DEF BootsHybrid
  <2>2. chrome' \in Sane
    BY <2>1, StartOuts, FaultsAreBoolean DEF IInv, Types, Outs
  <2>3. net' \in Transports /\ pc' \in {"idle", "unborn"} /\ round' = round
    BY <2>1 DEF IInv, Types, Goes, NoTransport, Transports
  <2>4. ~IsStrict
    BY <1>5 DEF BootsHybrid, IsStrict
  <2>5. MayCarryOver => MayCarryOver' \/ net.pure
    BY <1>1 DEF MayCarryOver, May, IsKind
  <2>6. CASE net.pure
    \* Before the boot the transport is of no kind.
    BY <1>1, <2>6 DEF IInv, PureAfterBoot
  <2> QED
    BY <1>1, <1>2, <2>2, <2>3, <2>4, <2>5, <2>6, OutsideKeeps DEF IInv, Types, StaysStrict, BeforeCommit, Early
<1> QED
  BY <1>3, <1>4, <1>5

\* The worker leaves its loop.
LEMMA ProtocolLeavesKeeps == IInv /\ ProtocolLeaves => Kept
<1> SUFFICES ASSUME IInv, ProtocolLeaves PROVE Kept
  OBVIOUS
<1>1. /\ Registers /\ IsKind("protocol") /\ pc = "idle" /\ pc' = "ended" /\ round' = round
      /\ chrome' = IF net.started /\ net.up THEN Stopped(chrome) ELSE chrome
      /\ net' = NoTransport /\ UNCHANGED <<config, status, recorded>> /\ stopping' \in BOOLEAN
  BY DEF ProtocolLeaves, LeavesLoop, StopsIf, At, Goes, recordVars, IInv, Types
<1>2. chrome' \in Sane /\ net' \in Transports /\ ~net'.started /\ ~net'.bound
  BY <1>1, SessionsStaySane DEF IInv, Types, NoTransport, Transports
<1>3. StaysStrict /\ ~IsKind("browser")
  BY <1>1, <1>2 DEF IInv, StrictTransport, StaysStrict, IsKind
<1> QED
  BY <1>1, <1>2, <1>3, OutsideKeeps DEF IInv, Types, RecordedIsUsed, BeforeCommit, Early

\* What follows a commit, or a failure, ends the round.
LEMMA ProtocolEndsKeep ==
  ASSUME IInv, IsKind("protocol"), pc \in {"mutate", "after", "failed"},
         pc' \in {"idle", "after"}, round' \in Rounds,
         chrome' \in Sane, net' \in Transports, net'.pure = net.pure,
         UNCHANGED <<config, recorded>>, stopping' \in BOOLEAN,
         status' \in [Aliases -> {"todo", "used", "failed"}],
         \A a \in Aliases : recorded[a] # None => status'[a] = "used",
         StaysStrict
  PROVE  Kept
<1>1. ~IsKind("browser") /\ (MayCarryOver => MayCarryOver')
  BY DEF MayCarryOver, May, IsKind
<1>2. IsStrict => net.pure
  BY DEF IInv, StrictTransport
<1> QED
  BY <1>1, <1>2, OutsideKeeps DEF BeforeCommit, Early

\* The resets of a hybrid worker's browser, whatever comes of them.
LEMMA ResetMoves ==
  ASSUME IInv, IsKind("protocol"), pc \in {"after", "failed"},
         (chrome' = chrome /\ net' = net) \/ (~net.pure /\ \E force \in BOOLEAN : \E o \in Readies(force) : Browses(o))
  PROVE  chrome' \in Sane /\ net' \in Transports /\ net'.pure = net.pure /\ StaysStrict
<1>1. CASE chrome' = chrome /\ net' = net
  BY <1>1 DEF IInv, Types, StrictTransport, StaysStrict
<1>2. CASE ~net.pure /\ \E force \in BOOLEAN : \E o \in Readies(force) : Browses(o)
  <2>0. PICK force \in BOOLEAN : \E o \in Readies(force) : Browses(o)
    BY <1>2
  <2>1. PICK o \in Readies(force) : Browses(o)
    BY <2>0
  <2>2. o \in ProviderOuts(chrome)
    BY ReadyOuts DEF IInv, Types
  <2>3. ~IsStrict
    BY <1>2 DEF IInv, StrictTransport
  <2> QED
    BY <2>1, <2>2, <2>3, BrowseMoves DEF IInv, Types, StaysStrict
<1> QED
  BY <1>1, <1>2

\* After the commit nothing is recorded any more.
LEMMA AfterCommitKeeps == IInv /\ (InitsAccount \/ EndsSuccess) => Kept
<1> SUFFICES ASSUME IInv, InitsAccount \/ EndsSuccess PROVE Kept
  OBVIOUS
<1>1. IsKind("protocol") /\ UNCHANGED <<config, status, recorded, stopping>>
  BY DEF InitsAccount, EndsSuccess, Protocol, protocolUnchanged, recordVars, controlVars
<1>2. /\ status \in [Aliases -> {"todo", "used", "failed"}] /\ stopping \in BOOLEAN
      /\ \A a \in Aliases : recorded[a] # None => status[a] = "used"
  BY <1>1 DEF IInv, Types, RecordedIsUsed, Registers, IsKind
<1>3. CASE InitsAccount
  <2>1. pc = "mutate" /\ pc' = "after" /\ round' = round /\ chrome' = chrome /\ net' = net
    BY <1>3 DEF InitsAccount, Protocol, At, Goes
  <2>2. StaysStrict
    BY <2>1 DEF IInv, StrictTransport, StaysStrict
  <2> QED
    BY <1>1, <1>2, <2>1, <2>2, ProtocolEndsKeep DEF IInv, Types
<1>4. CASE EndsSuccess
  <2>1. pc = "after" /\ pc' = "idle" /\ round' = NoRound
    BY <1>4 DEF EndsSuccess, Protocol, At, EndsRound
  <2>2. (chrome' = chrome /\ net' = net) \/ (~net.pure /\ \E o \in Readies(FALSE) : Browses(o))
    BY <1>4 DEF EndsSuccess
  <2>3. chrome' \in Sane /\ net' \in Transports /\ net'.pure = net.pure /\ StaysStrict
    BY <1>1, <2>1, <2>2, ResetMoves
  <2> QED
    BY <1>1, <1>2, <2>1, <2>3, NoRoundIsOne, ProtocolEndsKeep
<1> QED
  BY <1>3, <1>4

\* A failure handler ends the round and records nothing.
LEMMA HandlesFailureKeeps == IInv /\ (HandlesFailure \/ ProtocolHandlerFails) => Kept
<1> SUFFICES ASSUME IInv, HandlesFailure \/ ProtocolHandlerFails PROVE Kept
  OBVIOUS
<1>1. /\ IsKind("protocol") /\ Registers /\ pc = "failed" /\ pc' = "idle" /\ round' = NoRound
      /\ UNCHANGED <<config, recorded>> /\ stopping' \in BOOLEAN
  BY DEF HandlesFailure, ProtocolHandlerFails, Protocol, At, EndsRound, Registers, IsKind, StopsIf,
         protocolUnchanged, recordVars, controlVars, IInv, Types
<1>2. /\ status' \in [Aliases -> {"todo", "used", "failed"}]
      /\ \A a \in Aliases : recorded[a] # None => status'[a] = "used"
  <2>1. CASE HandlesFailure
    BY <1>1, <2>1, FailureRecords DEF HandlesFailure
  <2>2. CASE ProtocolHandlerFails
    BY <1>1, <2>2 DEF ProtocolHandlerFails, protocolUnchanged, recordVars, IInv, Types, RecordedIsUsed
  <2> QED
    BY <2>1, <2>2
<1>3. (chrome' = chrome /\ net' = net) \/ (~net.pure /\ \E o \in Readies(TRUE) : Browses(o))
  BY DEF HandlesFailure, ProtocolHandlerFails
<1>4. chrome' \in Sane /\ net' \in Transports /\ net'.pure = net.pure /\ StaysStrict
  BY <1>1, <1>3, ResetMoves
<1> QED
  BY <1>1, <1>2, <1>4, NoRoundIsOne, ProtocolEndsKeep

\* Every step of a protocol worker keeps the invariant.
LEMMA ProtocolKeeps == IInv /\ ProtocolStep => Kept
<1> SUFFICES ASSUME IInv, ProtocolStep PROVE Kept
  OBVIOUS
<1>1. ASSUME NEW a \in Aliases, ProtocolClaims(a)
      PROVE  Kept
  BY <1>1, ClaimKeeps DEF ProtocolClaims
<1>2. CASE ProtocolChecks
  BY <1>2, ChecksKeep DEF ProtocolChecks, Registers, IsKind
<1>3. CASE ProtocolCommits
  <2>1. Registers /\ pc = "commit" /\ CommitsSuccess("mutate") /\ UNCHANGED <<config, chrome, net, stopping>>
    BY <1>3 DEF ProtocolCommits, RoundStep, Protocol, At, Registers, IsKind, controlVars
  <2> QED
    BY <2>1, CommitsKeep
<1> QED
  BY <1>1, <1>2, <1>3, ProtocolBootsKeep, ProtocolLeavesKeeps, StopsForLeaseKeeps, OpensPureKeeps,
     OpensHybridKeeps, SendsCodeKeeps, VerifiesCodeKeeps, SolvesExternallyKeeps, FailsToSolveKeeps,
     SolvesInBrowserKeeps, SubmitsSignupKeeps, ReadsCookieKeeps, FollowsOverHttpKeeps, NavigatesKeeps,
     FindsNoSsoKeeps, AfterCommitKeeps, HandlesFailureKeeps DEF ProtocolStep

----------------------------------------------------------------------------
(* The browser worker *)

\* The sessions of a browser worker after its page was refreshed.
LEMMA RefreshedOuts ==
  ASSUME chrome \in Sane, NEW o \in Refreshed
  PROVE  o \in Outs(chrome) /\ (o.ok => o.chrome.window = "live")
<1>1. PICK p \in Refreshes(chrome, May("start")) : o \in IF p.ok THEN {p} ELSE Starts(p.chrome, May("start"))
  BY DEF Refreshed
<1>2. p \in Outs(chrome) /\ (p.ok => p.chrome.window = "live")
  BY RefreshOuts, FaultsAreBoolean
<1>3. CASE p.ok
  BY <1>1, <1>2, <1>3
<1>4. CASE ~p.ok
  <2>1. /\ p.chrome \in Sane /\ o \in Starts(p.chrome, May("start"))
        /\ p.chrome.tab \in {None, chrome.tab} /\ p.chrome.kept \in {None, chrome.kept}
    BY <1>1, <1>2, <1>4 DEF Outs
  <2>2. o \in Outs(p.chrome) /\ (o.ok => o.chrome.window = "live")
    BY <2>1, StartOuts, FaultsAreBoolean
  <2> QED
    BY <2>1, <2>2 DEF Outs
<1> QED
  BY <1>3, <1>4

\* A step of a round in the browser goes on or fails, and the page holds no
\* identity but one of the round.
LEMMA BrowseKeeps ==
  ASSUME IInv, IsKind("browser"), pc \in Early,
         UNCHANGED <<config, status, recorded, stopping, net>>,
         chrome' \in Sane,
         chrome'.tab \in {None, chrome.tab, round.alias}, chrome'.kept \in {None, chrome.kept},
         (pc' \in Early \ {"open"} /\ round' = round) \/ Failed
  PROVE  Kept
<1>1. Registers /\ ~IsKind("protocol")
  BY DEF Registers, IsKind
<1>2. Quiet /\ StaysStrict
  BY <1>1 DEF IInv, Types, Quiet, StaysStrict, IsStrict, Failed
<1>3. ~MayCarryOver => chrome.tab \in {None, round.alias}
  BY <1>1 DEF IInv, OwnIdentities, OwnIdentity
<1> QED
  BY <1>1, <1>2, <1>3, AdvanceKeeps DEF BeforeCommit, Failed

\* The page of a new round has no identity, save one that may be carried over.
LEMMA OpensSignupPageKeeps == IInv /\ OpensSignupPage /\ net' = net => Kept
<1> SUFFICES ASSUME IInv, OpensSignupPage, net' = net PROVE Kept
  OBVIOUS
<1>1. PICK o \in Refreshed : chrome' = o.chrome /\ (Fails("error") \/ Goes("send") \/ Fails("env"))
  BY DEF OpensSignupPage
<1>2. IsKind("browser") /\ pc = "open" /\ UNCHANGED <<config, status, recorded, stopping>>
  BY DEF OpensSignupPage, BrowserPauses, Browser, At, browserUnchanged, recordVars, controlVars
<1>3. chrome' \in Sane /\ chrome'.tab \in {None, chrome.tab} /\ chrome'.kept \in {None, chrome.kept}
  BY <1>1, RefreshedOuts DEF IInv, Types, Outs
<1>4. (pc' = "send" /\ round' = round) \/ Failed
  BY <1>1, FailsFails DEF IInv, Types, Goes, Reasons
<1> QED
  BY <1>2, <1>3, <1>4, BrowseKeeps DEF Early

\* Filling the form changes no identity.
LEMMA FillsEmailKeeps == IInv /\ FillsEmail /\ net' = net => Kept
<1> SUFFICES ASSUME IInv, FillsEmail, net' = net PROVE Kept
  OBVIOUS
<1>1. PICK o \in Uses(chrome, May("start")) : chrome' = o.chrome /\ (Fails("error") \/ Goes("code") \/ Fails("denied"))
  BY DEF FillsEmail
<1>2. IsKind("browser") /\ pc = "send" /\ UNCHANGED <<config, status, recorded, stopping>>
  BY DEF FillsEmail, BrowserPauses, Browser, At, browserUnchanged, recordVars, controlVars
<1>3. chrome' \in Sane /\ chrome'.tab \in {None, chrome.tab} /\ chrome'.kept \in {None, chrome.kept}
  BY <1>1, UseOuts, FaultsAreBoolean DEF IInv, Types, Outs
<1>4. (pc' = "code" /\ round' = round) \/ Failed
  BY <1>1, FailsFails DEF IInv, Types, Goes, Reasons
<1> QED
  BY <1>2, <1>3, <1>4, BrowseKeeps DEF Early

\* Nor does the code, or the profile that follows.
LEMMA FillsCodeKeeps == IInv /\ (FillsCode \/ StartsProfile) /\ net' = net => Kept
<1> SUFFICES ASSUME IInv, FillsCode \/ StartsProfile, net' = net PROVE Kept
  OBVIOUS
<1>1. IsKind("browser") /\ pc \in {"code", "profile"} /\ UNCHANGED <<config, status, recorded, stopping>>
  BY DEF FillsCode, StartsProfile, BrowserPauses, Browser, At, browserUnchanged, recordVars, controlVars
<1>2. \/ pc' \in {"profile", "submit"} /\ round' = round /\ chrome' = chrome
      \/ Failed /\ \E o \in Refreshed : chrome' = o.chrome
  BY FailsFails DEF IInv, Types, FillsCode, StartsProfile, Goes, Reasons
<1>3. chrome' \in Sane /\ chrome'.tab \in {None, chrome.tab} /\ chrome'.kept \in {None, chrome.kept}
  BY <1>2, RefreshedOuts DEF IInv, Types, Outs
<1> QED
  BY <1>1, <1>2, <1>3, BrowseKeeps DEF Early

\* The form: a new account's cookie, a login to one that exists, a failure.
LEMMA ProfileKeeps ==
  IInv /\ (CompletesProfile \/ RecoversExisting \/ SubmitsProfile \/ FailsProfile) /\ net' = net => Kept
<1> SUFFICES ASSUME IInv, CompletesProfile \/ RecoversExisting \/ SubmitsProfile \/ FailsProfile, net' = net
             PROVE  Kept
  OBVIOUS
<1>1. IsKind("browser") /\ pc = "submit" /\ UNCHANGED <<config, status, recorded, stopping>>
  BY DEF CompletesProfile, RecoversExisting, SubmitsProfile, FailsProfile, Browser, At, browserUnchanged,
         recordVars, controlVars
<1>2. round.alias \in Aliases
  BY <1>1 DEF IInv, RecordedIsUsed, Registers, IsKind, BeforeCommit, Early
<1>3. IsLive => /\ [chrome EXCEPT !.tab = round.alias] \in Sane
                /\ [chrome EXCEPT !.tab = round.alias].tab = round.alias
                /\ [chrome EXCEPT !.tab = round.alias].kept = chrome.kept
  BY <1>2 DEF IInv, Types, IsLive, Sane, Sessions, Identities
<1>4. CASE CompletesProfile \/ RecoversExisting \/ SubmitsProfile
  <2>1. chrome' = chrome \/ (IsLive /\ chrome' = [chrome EXCEPT !.tab = round.alias])
    BY <1>4 DEF CompletesProfile, RecoversExisting, SubmitsProfile
  <2>2. chrome' \in Sane /\ chrome'.tab \in {chrome.tab, round.alias} /\ chrome'.kept = chrome.kept
    BY <1>3, <2>1 DEF IInv, Types
  <2>3. (pc' \in {"extract", "submit"} /\ round' = round) \/ Failed
    BY <1>4, FailsFails DEF IInv, Types, CompletesProfile, RecoversExisting, SubmitsProfile, Goes, Reasons
  <2> QED
    BY <1>1, <2>2, <2>3, BrowseKeeps DEF Early
<1>5. CASE FailsProfile
  <2>1. PICK o \in Refreshed \cup {Outcome(FALSE, chrome)} : chrome' = o.chrome
    BY <1>5 DEF FailsProfile
  <2>2. o \in Outs(chrome)
    BY RefreshedOuts, OutcomeIn DEF IInv, Types
  <2>3. chrome' \in Sane /\ chrome'.tab \in {None, chrome.tab} /\ chrome'.kept \in {None, chrome.kept}
    BY <2>1, <2>2 DEF Outs
  <2>4. Failed
    BY <1>5, FailsFails DEF IInv, Types, FailsProfile, Reasons
  <2> QED
    BY <1>1, <2>3, <2>4, BrowseKeeps DEF Early
<1> QED
  BY <1>4, <1>5

\* The SSO is the one the page carries, or what its storage keeps where it
\* carries none: of this round, recorded already, or no account's.
LEMMA ExtractsSsoKeeps == IInv /\ ExtractsSso /\ net' = net => Kept
<1> SUFFICES ASSUME IInv, ExtractsSso, net' = net PROVE Kept
  OBVIOUS
<1>1. PICK o \in Refreshed : \E found \in Found(o.chrome) :
        /\ chrome' = o.chrome
        /\ IF o.ok /\ found # None THEN Takes("check", found) ELSE Fails("error")
  BY DEF ExtractsSso
<1>0. PICK sso \in Found(o.chrome) : IF o.ok /\ sso # None THEN Takes("check", sso) ELSE Fails("error")
  BY <1>1
<1>2. IsKind("browser") /\ pc = "extract" /\ UNCHANGED <<config, status, recorded, stopping>>
  BY DEF ExtractsSso, Browser, At, browserUnchanged, recordVars, controlVars
<1>3. chrome' \in Sane /\ chrome'.tab \in {None, chrome.tab} /\ chrome'.kept \in {None, chrome.kept}
  BY <1>1, RefreshedOuts DEF IInv, Types, Outs
<1>4. Registers /\ ~IsKind("protocol")
  BY <1>2 DEF Registers, IsKind
<1>5. CASE o.ok /\ sso # None
  <2>0. sso \in Identities \cup {None} /\ sso = IF chrome'.tab # None THEN chrome'.tab ELSE chrome'.kept
    BY <1>1, <1>0, <1>3, <1>5 DEF Found, Sane, Sessions
  <2>1. pc' = "check" /\ round' \in Rounds /\ round'.alias = round.alias /\ round'.sso = sso
    BY <1>0, <1>5, <2>0, TakesMoves DEF IInv, Types
  <2>2. Quiet /\ StaysStrict
    BY <1>2, <1>3, <1>4, <2>1 DEF IInv, Types, Quiet, StaysStrict, IsStrict
  <2>3. ~MayCarryOver => /\ chrome.tab \in {None, round.alias}
                         /\ chrome.kept = None \/ MayBeKept
                         /\ Known(chrome.kept) \/ chrome.kept = round.alias
    BY <1>2, <1>4 DEF IInv, OwnIdentities, OwnIdentity, KeptIdentities, KeptIdentity, Early
  <2>4. ~MayCarryOver => MayTake(round.alias, sso)
    BY <1>3, <1>5, <2>0, <2>3 DEF MayTake
  <2> QED
    BY <1>2, <1>3, <1>4, <1>5, <2>1, <2>2, <2>4, TakeKeeps
<1>6. CASE ~(o.ok /\ sso # None)
  <2>1. Failed
    BY <1>0, <1>6, FailsFails DEF IInv, Types, Reasons
  <2> QED
    BY <1>2, <1>3, <2>1, BrowseKeeps DEF Early
<1> QED
  BY <1>5, <1>6

\* activate_grok_web leaves a session that is one, with its SSO or as it was.
LEMMA SwitchOuts ==
  ASSUME chrome \in Sane, NEW sso \in Identities \cup {None}, NEW o \in Switches(sso)
  PROVE  /\ o.chrome \in Sane
         /\ o.chrome.tab \in {None, chrome.tab, sso} /\ o.chrome.kept \in {None, chrome.kept}
<1>1. CASE o = Outcome(TRUE, chrome)
  BY <1>1, OutcomeIn
<1>2. ASSUME NEW p \in Refreshes(chrome, May("start")), o = IF p.ok THEN [p EXCEPT !.chrome.tab = sso] ELSE p
      PROVE  /\ o.chrome \in Sane
             /\ o.chrome.tab \in {None, chrome.tab, sso} /\ o.chrome.kept \in {None, chrome.kept}
  <2>1. p \in Outs(chrome) /\ (p.ok => p.chrome.window = "live")
    BY RefreshOuts, FaultsAreBoolean
  <2>2. CASE p.ok
    BY <1>2, <2>1, <2>2 DEF Outs, Sane, Sessions
  <2>3. CASE ~p.ok
    BY <1>2, <2>1, <2>3 DEF Outs
  <2> QED
    BY <2>2, <2>3
<1> QED
  BY <1>1, <1>2 DEF Switches

\* The activation comes between the check and the commit and changes neither.
LEMMA ActivatesKeeps == IInv /\ ActivatesNewAccount /\ net' = net => Kept
<1> SUFFICES ASSUME IInv, ActivatesNewAccount, net' = net PROVE Kept
  OBVIOUS
<1>1. /\ IsKind("browser") /\ pc = "activate" /\ pc' = "commit" /\ round' = round
      /\ UNCHANGED <<config, status, recorded, stopping>>
  BY DEF ActivatesNewAccount, Browser, At, Goes, controlVars
<1>2. round.sso \in Identities \cup {None}
  BY DEF IInv, Types, Rounds
<1>3. /\ chrome' \in Sane
      /\ chrome'.tab \in {None, chrome.tab, round.sso} /\ chrome'.kept \in {None, chrome.kept}
  BY <1>2, SwitchOuts DEF IInv, Types, ActivatesNewAccount
<1>4. SameSettings /\ SameKnown
  BY <1>1, SettingsStay
<1>5. Types'
  BY <1>1, <1>3 DEF IInv, Types
<1>6. OwnIdentities'
  BY <1>1, <1>4 DEF IInv, OwnIdentities, OwnIdentity, MayTake, SameSettings, SameKnown, Early, InHandOver
<1>10. KeptIdentities'
  <2>1. Known(None)
    BY DEF Known
  <2>2. IsKind("browser") /\ ~MayCarryOver => Known(round.sso) \/ round.sso = round.alias
    BY <1>1 DEF IInv, OwnIdentities, OwnIdentity, MayTake, Registers, IsKind, InHandOver
  <2> QED
    BY <1>1, <1>3, <1>4, <2>1, <2>2
       DEF IInv, KeptIdentities, KeptIdentity, SameSettings, SameKnown, Early, InHandOver
<1>7. RecordedIsUsed'
  BY <1>1, <1>4 DEF IInv, RecordedIsUsed, SameSettings, BeforeCommit
<1>8. NewIdentity'
  BY <1>1 DEF IInv, NewIdentity, DistinctIdentities, IsDuplicate
<1>9. ReactivatesOnly' /\ StrictTransport'
  BY <1>1, <1>4 DEF IInv, ReactivatesOnly, StrictTransport, SameSettings, IsStrict, IsKind
<1> QED
  BY <1>1, <1>5, <1>6, <1>7, <1>8, <1>9, <1>10 DEF Kept, IInv, PureAfterBoot, RecordsOwn

\* Between two rounds of a browser worker its page holds nobody's identity, or
\* the task is over.
LEMMA BrowserOutsideKeeps ==
  ASSUME IInv, IsKind("browser"), pc \in {"boot", "idle", "after", "failed"},
         pc' \in {"idle", "unborn", "ended"}, round' \in Rounds,
         UNCHANGED <<config, recorded, net>>, chrome' \in Sane, stopping' \in BOOLEAN,
         status' \in [Aliases -> {"todo", "used", "failed"}],
         \A a \in Aliases : recorded[a] # None => status'[a] = "used",
         ~MayCarryOver => /\ chrome'.kept = None \/ MayBeKept
                          /\ pc' = "idle" => (chrome'.tab = None /\ Known(chrome'.kept)) \/ stopping'
  PROVE  Kept
<1>1. ~IsStrict /\ (MayCarryOver => MayCarryOver')
  BY DEF MayCarryOver, May, IsKind, IsStrict
<1>2. net' \in Transports
  BY DEF IInv, Types
<1>3. pc' \notin BeforeCommit \cup {"failed", "boot"} /\ pc # "ended"
  BY DEF BeforeCommit, Early
<1>4. StaysStrict
  BY <1>1 DEF StaysStrict
<1> QED
  BY <1>1, <1>2, <1>3, <1>4, OutsideKeeps

\* Nothing is known to nobody, and where no site keeps anything nothing is kept.
LEMMA NothingIsKept ==
  ASSUME IInv, IsKind("browser")
  PROVE  /\ Known(None) /\ (~MayCarryOver => chrome.kept = None \/ MayBeKept)
         /\ pc = "after" /\ ~MayCarryOver => Known(chrome.kept)
BY DEF Known, IInv, KeptIdentities, KeptIdentity

\* The ends of a browser worker's loop.
LEMMA BrowserLoopKeeps == IInv /\ (BrowserBoots \/ BrowserLeaves) /\ net' = net => Kept
<1> SUFFICES ASSUME IInv, BrowserBoots \/ BrowserLeaves, net' = net PROVE Kept
  OBVIOUS
<1>1. /\ status \in [Aliases -> {"todo", "used", "failed"}] /\ stopping \in BOOLEAN
      /\ IsKind("browser") => \A a \in Aliases : recorded[a] # None => status[a] = "used"
  BY DEF IInv, Types, RecordedIsUsed, Registers, IsKind
<1>2. CASE BrowserBoots
  <2>1. PICK o \in Starts(chrome, May("start")) : chrome' = o.chrome /\ Goes(IF o.ok THEN "idle" ELSE "unborn")
    BY <1>2 DEF BrowserBoots
  <2>2. o \in Outs(chrome) /\ (o.ok => Empty(o.chrome))
    BY StartOuts, FaultsAreBoolean DEF IInv, Types
  <2>3. /\ IsKind("browser") /\ pc = "boot" /\ UNCHANGED <<config, status, recorded, stopping>>
        /\ pc' = (IF o.ok THEN "idle" ELSE "unborn") /\ round' = round
    BY <1>2, <2>1 DEF BrowserBoots, Browser, At, Goes, browserUnchanged, recordVars, controlVars
  <2>4. /\ chrome' \in Sane /\ chrome'.kept \in {None, chrome.kept}
        /\ pc' = "idle" => chrome'.tab = None /\ chrome'.kept = None
    BY <2>1, <2>2, <2>3 DEF Outs, Empty
  <2> QED
    BY <1>1, <2>3, <2>4, NothingIsKept, BrowserOutsideKeeps DEF IInv, Types
<1>3. CASE BrowserLeaves
  <2>1. /\ IsKind("browser") /\ pc = "idle" /\ UNCHANGED <<config, status, recorded>>
        /\ pc' = "ended" /\ round' = round /\ stopping' \in BOOLEAN
        /\ chrome' = Stopped(chrome)
    BY <1>3 DEF BrowserLeaves, LeavesLoop, StopsIf, At, Goes, recordVars, IInv, Types
  <2>2. chrome' \in Sane /\ chrome'.kept = None
    BY <2>1, SessionsStaySane DEF IInv, Types, Empty
  <2> QED
    BY <1>1, <2>1, <2>2, BrowserOutsideKeeps DEF IInv, Types
<1> QED
  BY <1>2, <1>3

\* Recycling takes the cookies, unless CDP slips, and brings nothing into the storage.
LEMMA RecycledSessions ==
  ASSUME NEW c \in Sane, NEW r \in Recycled(c)
  PROVE  r \in Sane /\ r.kept \in {None, c.kept} /\ (~May("cdp") => r.tab = None)
<1>1. ASSUME NEW e \in Cleared(c, May("cdp"))
      PROVE  /\ e \in Sane /\ e.kept = c.kept /\ (~May("cdp") => e.tab = None)
             /\ [e EXCEPT !.kept = None] \in Sane /\ [e EXCEPT !.kept = None].kept = None
             /\ [e EXCEPT !.kept = None].tab = e.tab
  <2>1. e \in Sane /\ e.kept = c.kept /\ (~May("cdp") => e.tab = None)
    BY <1>1, ClearedSessions, FaultsAreBoolean
  <2> QED
    BY <2>1 DEF Sane, Sessions
<1>2. PICK e \in Cleared(c, May("cdp")) : r = e \/ r = [e EXCEPT !.kept = None]
  BY DEF Recycled
<1>3. CASE r = e
  BY <1>1, <1>3
<1>4. CASE r = [e EXCEPT !.kept = None]
  BY <1>1, <1>4
<1> QED
  BY <1>2, <1>3, <1>4

\* After a success the cookies are removed; what keeps them is an error after
\* the commit, or CDP.
LEMMA RecyclesKeeps == IInv /\ RecyclesBrowser /\ net' = net => Kept
<1> SUFFICES ASSUME IInv, RecyclesBrowser, net' = net PROVE Kept
  OBVIOUS
<1>1. /\ IsKind("browser") /\ pc = "after" /\ pc' = "idle" /\ round' = NoRound
      /\ UNCHANGED <<config, status, recorded, stopping>>
  BY DEF RecyclesBrowser, Browser, At, EndsRound, browserUnchanged, recordVars, controlVars
<1>2. chrome' \in Sane /\ chrome'.kept \in {None, chrome.kept} /\ (~MayCarryOver => chrome'.tab = None)
  <2>1. CASE \E p \in Pages(chrome, May("start")) :
               chrome' \in IF p.ok THEN Recycled(p.chrome) ELSE {p.chrome}
    <3>1. PICK p \in Pages(chrome, May("start")) :
            chrome' \in IF p.ok THEN Recycled(p.chrome) ELSE {p.chrome}
      BY <2>1
    <3>2. p \in Outs(chrome) /\ (~p.ok => Empty(p.chrome))
      BY PageOuts, FaultsAreBoolean DEF IInv, Types
    <3>3. p.chrome \in Sane /\ p.chrome.kept \in {None, chrome.kept}
      BY <3>2 DEF Outs
    <3>4. CASE p.ok
      BY <3>1, <3>3, <3>4, RecycledSessions DEF MayCarryOver
    <3>5. CASE ~p.ok
      BY <3>1, <3>2, <3>3, <3>5 DEF Empty
    <3> QED
      BY <3>4, <3>5
  <2>2. CASE config.faults \cap {"db", "upload"} # {} /\ chrome' = chrome
    BY <1>1, <2>2 DEF IInv, Types, MayCarryOver
  <2> QED
    BY <2>1, <2>2 DEF RecyclesBrowser
<1>3. /\ status \in [Aliases -> {"todo", "used", "failed"}] /\ stopping \in BOOLEAN
      /\ \A a \in Aliases : recorded[a] # None => status[a] = "used"
  BY <1>1 DEF IInv, Types, RecordedIsUsed, Registers, IsKind
<1> QED
  BY <1>1, <1>2, <1>3, NoRoundIsOne, NothingIsKept, BrowserOutsideKeeps

\* After a failure the browser is closed and started on an empty profile.
LEMMA BrowserFailureKeeps == IInv /\ (BrowserHandlesFailure \/ BrowserHandlerFails) /\ net' = net => Kept
<1> SUFFICES ASSUME IInv, BrowserHandlesFailure \/ BrowserHandlerFails, net' = net PROVE Kept
  OBVIOUS
<1>1. CASE BrowserHandlesFailure
  <2>1. /\ IsKind("browser") /\ pc = "failed" /\ pc' = "idle" /\ round' = NoRound /\ Registers
        /\ UNCHANGED <<config, recorded>> /\ stopping' \in BOOLEAN /\ RecordsFailure(round.why)
    BY <1>1 DEF BrowserHandlesFailure, Browser, At, EndsRound, Registers, IsKind, StopsIf, IInv, Types
  <2>2. chrome' \in Sane /\ (Empty(chrome') \/ (stopping' /\ chrome'.kept = chrome.kept))
    <3>1. CASE stopping'
      BY <1>1, <3>1 DEF BrowserHandlesFailure, IInv, Types
    <3>2. CASE ~stopping'
      <4>1. PICK p \in Pages(chrome, May("start")) :
              \E o \in IF p.ok THEN Restarts(p.chrome, May("start")) ELSE {p} : chrome' = o.chrome
        BY <1>1, <3>2 DEF BrowserHandlesFailure
      <4>2. p \in Outs(chrome) /\ (~p.ok => Empty(p.chrome))
        BY PageOuts, FaultsAreBoolean DEF IInv, Types
      <4>3. p.chrome \in Sane
        BY <4>2 DEF Outs
      <4>4. CASE p.ok
        BY <4>1, <4>3, <4>4, RestartOuts, FaultsAreBoolean DEF Fresh, Outs
      <4>5. CASE ~p.ok
        BY <4>1, <4>2, <4>3, <4>5
      <4> QED
        BY <4>4, <4>5
    <3> QED
      BY <3>1, <3>2
  <2> QED
    BY <2>1, <2>2, FailureRecords, NoRoundIsOne, NothingIsKept, BrowserOutsideKeeps DEF Empty
<1>2. CASE BrowserHandlerFails
  <2>1. /\ IsKind("browser") /\ May("db") /\ pc = "failed" /\ pc' = "idle" /\ round' = NoRound
        /\ UNCHANGED <<config, chrome, status, recorded, stopping>>
    BY <1>2 DEF BrowserHandlerFails, Browser, At, EndsRound, browserUnchanged, recordVars, controlVars
  <2>2. MayCarryOver
    BY <2>1 DEF MayCarryOver, May
  <2>3. /\ status \in [Aliases -> {"todo", "used", "failed"}] /\ stopping \in BOOLEAN
        /\ \A a \in Aliases : recorded[a] # None => status[a] = "used"
    BY <2>1 DEF IInv, Types, RecordedIsUsed, Registers, IsKind
  <2> QED
    BY <2>1, <2>2, <2>3, NoRoundIsOne, BrowserOutsideKeeps DEF IInv, Types
<1> QED
  BY <1>1, <1>2

\* Every step of a browser worker keeps the invariant.
LEMMA BrowserKeeps == IInv /\ BrowserStep /\ net' = net => Kept
<1> SUFFICES ASSUME IInv, BrowserStep, net' = net PROVE Kept
  OBVIOUS
<1>1. ASSUME NEW a \in Aliases, BrowserClaims(a)
      PROVE  Kept
  BY <1>1, ClaimKeeps DEF BrowserClaims
<1>2. CASE BrowserChecks
  BY <1>2, ChecksKeep DEF BrowserChecks, Registers, IsKind
<1>3. CASE BrowserCommits
  <2>1. Registers /\ pc = "commit" /\ CommitsSuccess("after") /\ UNCHANGED <<config, chrome, net, stopping>>
    BY <1>3 DEF BrowserCommits, Browser, At, Registers, IsKind, controlVars
  <2> QED
    BY <2>1, CommitsKeep
<1> QED
  BY <1>1, <1>2, <1>3, BrowserLoopKeeps, OpensSignupPageKeeps, FillsEmailKeeps, FillsCodeKeeps, ProfileKeeps,
     ExtractsSsoKeeps, ActivatesKeeps, RecyclesKeeps, BrowserFailureKeeps DEF BrowserStep

----------------------------------------------------------------------------
(* The batch reactivation *)

\* A reactivation records nothing, so it may pass by any identity.
LEMMA BatchOutsideKeeps ==
  ASSUME IInv, IsKind("reactivate"), pc # "ended",
         pc' \in {"idle", "gate", "switch", "challenge", "mutate", "clear", "unborn", "ended"},
         UNCHANGED <<config, recorded, net, stopping>>, chrome' \in Sane, round' \in Rounds,
         status' \in [Aliases -> {"todo", "used", "failed"}]
  PROVE  Kept
<1>1. ~Registers /\ ~IsStrict /\ ~IsKind("browser") /\ (MayCarryOver => MayCarryOver')
  BY DEF MayCarryOver, May, IsKind, IsStrict, Registers
<1>2. net' \in Transports /\ stopping' \in BOOLEAN
  BY DEF IInv, Types
<1>3. pc' \notin BeforeCommit \cup {"failed", "boot"}
  BY DEF BeforeCommit, Early
<1>4. StaysStrict
  BY <1>1 DEF StaysStrict
<1> QED
  BY <1>1, <1>2, <1>3, <1>4, OutsideKeeps

\* Clearing cookies leaves a session sane.
LEMMA ClearedIdentityIsSane ==
  ASSUME chrome \in Sane, NEW d \in ClearedIdentity
  PROVE  d \in Sane
<1>1. PICK p \in Pages(chrome, May("start")) :
        d \in IF p.ok THEN Cleared(p.chrome, May("cdp")) ELSE {p.chrome}
  BY DEF ClearedIdentity
<1>2. p.chrome \in Sane
  BY PageOuts, FaultsAreBoolean DEF Outs
<1> QED
  BY <1>1, <1>2, ClearedSessions, FaultsAreBoolean

\* Every step of a reactivation keeps the invariant.
LEMMA BatchKeeps == IInv /\ BatchStep /\ net' = net => Kept
<1> SUFFICES ASSUME IInv, BatchStep, net' = net PROVE Kept
  OBVIOUS
<1>1. /\ chrome \in Sane /\ round \in Rounds /\ stopping \in BOOLEAN
      /\ status \in [Aliases -> {"todo", "used", "failed"}]
  BY DEF IInv, Types
<1>2. ASSUME BatchBoots PROVE Kept
  <2>1. PICK o \in Starts(chrome, May("start")) : chrome' = o.chrome /\ Goes(IF o.ok THEN "idle" ELSE "unborn")
    BY <1>2 DEF BatchBoots
  <2>2. chrome' \in Sane
    BY <1>1, <2>1, StartOuts, FaultsAreBoolean DEF Outs
  <2> QED
    BY <1>1, <1>2, <2>1, <2>2, BatchOutsideKeeps DEF BatchBoots, Batch, At, Goes, batchUnchanged, controlVars
<1>3. ASSUME NEW a \in Aliases, TakesRecord(a) PROVE Kept
  <2>1. round' \in Rounds
    BY <1>3, NoRoundIsOne DEF TakesRecord, NoRound, Rounds
  <2> QED
    BY <1>1, <1>3, <2>1, BatchOutsideKeeps DEF TakesRecord, Batch, At, batchUnchanged, controlVars
<1>4. ASSUME BeginsActivation PROVE Kept
  <2>1. chrome' \in Sane
    BY <1>1, <1>4, ClearedIdentityIsSane DEF BeginsActivation
  <2> QED
    BY <1>1, <1>4, <2>1, BatchOutsideKeeps DEF BeginsActivation, Batch, At, Goes, recordVars
<1>5. ASSUME SwitchesIdentity PROVE Kept
  <2>1. PICK o \in Switches(round.alias) : chrome' = o.chrome /\ Goes(IF o.ok THEN "challenge" ELSE "clear")
    BY <1>5 DEF SwitchesIdentity
  <2>2. chrome' \in Sane
    BY <1>1, <2>1, SwitchOuts, FaultsAreBoolean DEF Rounds, Identities
  <2> QED
    BY <1>1, <1>5, <2>1, <2>2, BatchOutsideKeeps DEF SwitchesIdentity, Batch, At, Goes, batchUnchanged, controlVars
<1>6. ASSUME PassesChallenge \/ InitsHistoricAccount PROVE Kept
  BY <1>1, <1>6, BatchOutsideKeeps
     DEF PassesChallenge, InitsHistoricAccount, Batch, At, Goes, batchUnchanged, controlVars
<1>7. ASSUME EndsActivation PROVE Kept
  <2>1. chrome' \in Sane
    BY <1>1, <1>7, ClearedIdentityIsSane DEF EndsActivation
  <2>2. status' \in [Aliases -> {"todo", "used", "failed"}]
    BY <1>1, <1>7 DEF EndsActivation
  <2> QED
    BY <1>7, <2>1, <2>2, NoRoundIsOne, BatchOutsideKeeps
       DEF EndsActivation, Batch, At, EndsRound, batchUnchanged, controlVars
<1>8. ASSUME BatchEnds PROVE Kept
  <2>1. chrome' \in Sane
    BY <1>1, <1>8, SessionsStaySane DEF BatchEnds
  <2> QED
    BY <1>1, <1>8, <2>1, BatchOutsideKeeps DEF BatchEnds, Batch, At, Goes, batchUnchanged, controlVars
<1> QED
  BY <1>2, <1>3, <1>4, <1>5, <1>6, <1>7, <1>8 DEF BatchStep

----------------------------------------------------------------------------
(* The environment *)

\* A stop, a pause, a lease that is lost and a page that dies bring no identity,
\* and what a site keeps is the one that is signed in, or no account's.
LEMMA SettledKeeps ==
  ASSUME IInv, UNCHANGED <<config, pc, status, recorded, net>>,
         round' \in Rounds, round'.alias = round.alias, round'.sso = round.sso, round'.why = round.why,
         chrome' \in Sane, IsStrict => chrome' = NoBrowser,
         \/ chrome'.tab \in {None, chrome.tab}
         \/ pc \in {"extract"} \cup InHandOver /\ chrome'.tab = round.alias,
         \/ chrome'.kept \in {None, chrome.kept}
         \/ MayBeKept /\ chrome'.kept \in Tokens \cup {chrome.tab},
         stopping' \in BOOLEAN, stopping => stopping'
  PROVE  Kept
<1>1. SameSettings /\ SameKnown
  BY SettingsStay
<1>2. Types'
  BY DEF IInv, Types
<1>3. OwnIdentities'
  <2>1. SUFFICES ASSUME Registers, ~MayCarryOver PROVE OwnIdentity'
    BY <1>1 DEF OwnIdentities, SameSettings
  <2>2. OwnIdentity
    BY <2>1 DEF IInv, OwnIdentities
  <2> QED
    BY <1>1, <2>2 DEF OwnIdentity, MayTake, SameSettings, SameKnown, InHandOver
<1>9. KeptIdentities'
  <2>1. SUFFICES ASSUME IsKind("browser"), ~MayCarryOver PROVE KeptIdentity'
    BY <1>1 DEF KeptIdentities, SameSettings
  <2>2. KeptIdentity /\ OwnIdentity /\ ~IsKind("protocol")
    BY <2>1 DEF IInv, KeptIdentities, OwnIdentities, Registers, IsKind
  <2>3. Known(None)
    BY DEF Known
  <2>4. \A value : Known(value)' = Known(value)
    BY <1>1 DEF SameKnown
  <2>5. CASE chrome'.kept \in {None, chrome.kept}
    BY <1>1, <2>2, <2>3, <2>4, <2>5 DEF KeptIdentity, SameSettings, InHandOver, Early
  <2>6. CASE MayBeKept /\ chrome'.kept \in Tokens \cup {chrome.tab}
    <3>1. \A value \in Tokens : Known(value)
      BY <2>6 DEF Known
    <3> QED
      BY <1>1, <2>1, <2>2, <2>3, <2>4, <2>6, <3>1 DEF KeptIdentity, OwnIdentity, SameSettings, InHandOver, Early
  <2> QED
    BY <2>5, <2>6
<1>4. RecordedIsUsed'
  BY <1>1 DEF IInv, RecordedIsUsed, SameSettings
<1>5. NewIdentity'
  BY DEF IInv, NewIdentity, DistinctIdentities, IsDuplicate
<1>6. ReactivatesOnly'
  BY <1>1 DEF IInv, ReactivatesOnly, SameSettings
<1>7. StrictTransport'
  BY <1>1 DEF IInv, StrictTransport, SameSettings
<1>8. PureAfterBoot'
  BY DEF IInv, PureAfterBoot
<1> QED
  BY <1>2, <1>3, <1>4, <1>5, <1>6, <1>7, <1>8, <1>9 DEF Kept, IInv, RecordsOwn

\* What happens around the worker: pauses, stops, lost leases, dying windows,
\* sites that keep something, cookies that come late.
LEMMA EnvironmentKeeps == IInv /\ Environment /\ net' = net => Kept
<1> SUFFICES ASSUME IInv, Environment, net' = net PROVE Kept
  OBVIOUS
<1>1. /\ chrome \in Sane /\ round \in Rounds /\ stopping \in BOOLEAN
      /\ IsStrict => chrome = NoBrowser
  BY DEF IInv, Types, StrictTransport
<1>2. CASE RequestStop
  BY <1>1, <1>2, SettledKeeps DEF RequestStop, StopsIf, workerVars, recordVars
<1>3. CASE RequestPause
  BY <1>1, <1>3, SettledKeeps DEF RequestPause, workerVars, recordVars
<1>4. CASE LoseLease
  <2>1. /\ round' \in Rounds /\ round'.alias = round.alias
        /\ round'.sso = round.sso /\ round'.why = round.why
    BY <1>1, <1>4 DEF LoseLease, Rounds
  <2> QED
    BY <1>1, <1>4, <2>1, SettledKeeps DEF LoseLease, recordVars, controlVars
<1>5. CASE PageDies
  <2>1. chrome' \in Sane /\ chrome'.tab = None /\ chrome'.kept = None
    BY <1>1, <1>5 DEF PageDies, Sane, Sessions
  <2>2. ~IsStrict
    BY <1>1, <1>5 DEF PageDies, NoBrowser
  <2> QED
    BY <1>1, <1>5, <2>1, <2>2, SettledKeeps DEF PageDies, recordVars, controlVars
<1>6. CASE SiteStores
  <2>1. PICK value \in Tokens \cup ({chrome.tab} \ {None}) : chrome' = [chrome EXCEPT !.kept = value]
    BY <1>6 DEF SiteStores
  <2>2. value \in Identities
    BY <1>1 DEF Sane, Sessions, Identities
  <2>3. chrome' \in Sane /\ chrome'.tab = chrome.tab /\ chrome'.kept = value
    BY <1>1, <1>6, <2>1, <2>2 DEF SiteStores, Sane, Sessions
  <2>4. ~IsStrict /\ MayBeKept
    BY <1>6 DEF SiteStores, IsStrict, IsKind, MayBeKept
  <2> QED
    BY <1>1, <1>6, <2>3, <2>4, SettledKeeps DEF SiteStores, recordVars, controlVars
<1>7. CASE CookieArrives
  <2>1. /\ chrome.window = "live" /\ round.alias \in created /\ chrome' = [chrome EXCEPT !.tab = round.alias]
        /\ pc \in {"extract"} \cup InHandOver /\ ~IsStrict /\ Registers
    BY <1>7 DEF CookieArrives, IsStrict, IsKind, Registers, InHandOver
  <2>2. round.alias \in Aliases
    BY <2>1 DEF IInv, RecordedIsUsed, BeforeCommit, Early, InHandOver
  <2>3. chrome' \in Sane /\ chrome'.tab = round.alias /\ chrome'.kept = chrome.kept
    BY <1>1, <2>1, <2>2 DEF Sane, Sessions, Identities
  <2> QED
    BY <1>1, <1>7, <2>1, <2>3, SettledKeeps DEF CookieArrives, recordVars, controlVars
<1> QED
  BY <1>2, <1>3, <1>4, <1>5, <1>6, <1>7 DEF Environment

----------------------------------------------------------------------------
(* The theorems *)

\* Initially there is no identity anywhere.
LEMMA InitIInv == Init => IInv
<1> SUFFICES ASSUME Init PROVE IInv
  OBVIOUS
<1>1. /\ config \in Configs /\ pc = "boot" /\ chrome = NoBrowser /\ round = NoRound
      /\ status = [a \in Aliases |-> "todo"] /\ stopping = FALSE /\ net = NoTransport
      /\ recorded = [a \in Aliases |-> IF IsKind("reactivate") THEN a ELSE None]
  BY DEF Init, RoundInit
<1>2. NoBrowser \in Sane
  BY SignupAssumption DEF Sane, Sessions, NoBrowser
<1>3. NoTransport \in Transports /\ ~NoTransport.started /\ ~NoTransport.bound /\ ~NoTransport.pure
  BY DEF NoTransport, Transports
<1>4. Types
  BY <1>1, <1>2, <1>3, NoRoundIsOne DEF Types, Identities
<1>5. \A a \in Aliases : recorded[a] \in {None, a} /\ (Registers => recorded[a] = None)
  BY <1>1 DEF Registers, IsKind
<1>6. OwnIdentities /\ KeptIdentities /\ RecordedIsUsed
  BY <1>1, <1>5 DEF OwnIdentities, OwnIdentity, KeptIdentities, KeptIdentity, RecordedIsUsed, NoBrowser,
                    BeforeCommit, Early, InHandOver
<1>7. NewIdentity
  BY <1>1, <1>5, SignupAssumption DEF NewIdentity, DistinctIdentities, Identities
<1>8. ReactivatesOnly /\ StrictTransport /\ PureAfterBoot
  BY <1>1, <1>3 DEF ReactivatesOnly, StrictTransport, PureAfterBoot, BeforeCommit, Early
<1> QED
  BY <1>4, <1>6, <1>7, <1>8 DEF IInv

\* Every step keeps the invariant of the identities.
LEMMA NextKeeps == IInv /\ [Next]_vars => Kept
<1> SUFFICES ASSUME IInv, [Next]_vars PROVE Kept
  OBVIOUS
<1>1. CASE ProtocolStep
  BY <1>1, ProtocolKeeps
<1>2. CASE BrowserStep /\ net' = net
  BY <1>2, BrowserKeeps
<1>3. CASE BatchStep /\ net' = net
  BY <1>3, BatchKeeps
<1>4. CASE Environment /\ net' = net
  BY <1>4, EnvironmentKeeps
<1>5. CASE UNCHANGED vars
  <2>1. UNCHANGED <<config, pc, status, recorded, net, round, chrome, stopping>>
    BY <1>5 DEF vars
  <2> QED
    BY <2>1, SettledKeeps DEF IInv, Types, StrictTransport
<1> QED
  BY <1>1, <1>2, <1>3, <1>4, <1>5 DEF Next, Worker

\* The identities a worker carries stay those of its round.
THEOREM IInvInvariant == Spec => []IInv
<1>1. Init => IInv
  BY InitIInv
<1>2. IInv /\ [Next]_vars => IInv'
  BY NextKeeps DEF Kept
<1> QED
  BY <1>1, <1>2, PTL DEF Spec

\* No SSO is recorded for two aliases, whatever browser or cookie jar it passed
\* by, for every number of aliases and rounds (find_existing_sso before both
\* commits, and one thread that makes the identities it records).
THEOREM DistinctIdentitiesHolds == Spec => []DistinctIdentities
<1>1. IInv => DistinctIdentities
  BY DEF IInv, NewIdentity
<1> QED
  BY <1>1, IInvInvariant, PTL

\* Where no identity can be carried over and no site keeps one, no round ends as
\* a duplicate: the account it just made is the one it records.
THEOREM NoFalseDuplicateHolds == Spec => []NoFalseDuplicate
<1>1. IInv => NoFalseDuplicate
  <2> SUFFICES ASSUME IInv, pc = "failed", round.why = "duplicate", ~MayCarryOver, ~MayBeKept PROVE FALSE
    BY DEF NoFalseDuplicate, At
  <2>1. config.kind \in Kinds
    BY SignupAssumption DEF IInv, Types
  <2>2. Registers
    BY <2>1 DEF IInv, ReactivatesOnly, IsKind, Registers, Kinds
  <2> QED
    BY <2>2 DEF IInv, OwnIdentities, OwnIdentity
<1> QED
  BY <1>1, IInvInvariant, PTL

\* Every commit of a registration worker records the SSO of the account made
\* for the alias (complete_registration_success in both workers), save where
\* MayCarryOver names the way an earlier identity takes.  Where sites keep values
\* that _extract_sso finds, it may record one of those: no SSO at all, or that of
\* an alias that has another record already.
THEOREM RecordsOwnIdentityHolds == Spec => RecordsOwnIdentity
<1>1. IInv /\ [Next]_vars => [RecordsOwn]_vars
  BY NextKeeps DEF Kept
<1>2. ASSUME IInv, RecordsOwn, NEW a \in Aliases, recorded'[a] # recorded[a]
      PROVE  \/ recorded'[a] = a
             \/ MayBeKept /\ (recorded'[a] \in Tokens \/ recorded[recorded'[a]] # None)
             \/ MayCarryOver
  BY <1>2 DEF RecordsOwn, MayTake, Known
<1>3. IInv /\ [RecordsOwn]_vars =>
        [\A a \in Aliases : recorded'[a] # recorded[a] =>
           \/ recorded'[a] = a
           \/ MayBeKept /\ (recorded'[a] \in Tokens \/ recorded[recorded'[a]] # None)
           \/ MayCarryOver]_vars
  BY <1>2
<1> QED
  BY <1>1, <1>3, IInvInvariant, PTL DEF Spec, RecordsOwnIdentity

\* allow_browser_fallback=false opens no browser: not in a failure, not in the
\* reset after it, for any number of rounds (ProtocolRegistrationWorker).
THEOREM StrictOpensNoBrowserHolds == Spec => []StrictOpensNoBrowser
<1>1. IInv => StrictOpensNoBrowser
  BY DEF IInv, StrictTransport, IsStrict, StrictOpensNoBrowser
<1> QED
  BY <1>1, IInvInvariant, PTL

----------------------------------------------------------------------------
(* What a step may change *)

Places ==
    {"boot", "idle", "open", "send", "code", "solve", "profile", "submit", "extract",
     "check", "commit", "activate", "after", "failed", "gate", "switch", "challenge",
     "mutate", "clear", "ended", "unborn"}

BatchOnly == {"gate", "switch", "challenge", "clear"}

\* A worker creates the account of its round, and mutates one in a step of its own.
Creates == created' = created \cup {round.alias} /\ pc = "submit"
Counts == \E a \in Aliases : Claim(a)

\* A round has its SSO from the look for it on, up to the end of a success.
HoldsSso == {"check", "activate", "commit", "mutate"}

\* Protocol worker: what it does to the records, and how it comes by its SSO.
LEMMA ProtocolFrame ==
  ASSUME IInv, ProtocolStep
  PROVE  /\ IsKind("protocol") /\ config' = config /\ late' = late /\ (paused \in BOOLEAN => paused' \in BOOLEAN)
         /\ pc' \in Places \ BatchOnly
         /\ rounds' = rounds \/ Counts
         /\ created' = created \/ Creates
         /\ mutated' = mutated \/ InitsAccount
<1>1. ASSUME NEW a \in Aliases, ProtocolClaims(a)
      PROVE  /\ IsKind("protocol") /\ config' = config /\ late' = late /\ paused' = paused
             /\ pc' = "open" /\ Counts /\ created' = created /\ mutated' = mutated
  BY <1>1 DEF ProtocolClaims, Claim, Counts, recordVars, controlVars
<1>2. CASE BootsPure \/ BootBlocked \/ BootsHybrid \/ ProtocolLeaves
  BY <1>2 DEF BootsPure, BootBlocked, BootsHybrid, ProtocolLeaves, LeavesLoop, StopsIf, Protocol, Goes, Places, BatchOnly,
     recordVars, controlVars
<1>3. CASE StopsForLease \/ OpensPure \/ OpensHybrid \/ SendsCode \/ VerifiesCode \/ SolvesExternally
           \/ FailsToSolve \/ SolvesInBrowser
  BY <1>3 DEF StopsForLease, OpensPure, OpensHybrid, SendsCode, VerifiesCode, SolvesExternally,
     FailsToSolve, SolvesInBrowser, PausedStep, RoundStep, Protocol, Goes, Fails, LosesPage, Places, BatchOnly,
     protocolUnchanged, recordVars, controlVars
<1>4. CASE ReadsCookie \/ FollowsOverHttp \/ Navigates \/ FindsNoSso
  BY <1>4 DEF ReadsCookie, FollowsOverHttp, Navigates, FindsNoSso, RoundStep, Protocol, Takes, Fails,
     Places, BatchOnly, protocolUnchanged, recordVars, controlVars
<1>5. CASE SubmitsSignup
  BY <1>5 DEF SubmitsSignup, RoundStep, Protocol, At, Goes, Fails, LosesPage, Places, BatchOnly, Creates, controlVars
<1>6. CASE ProtocolChecks \/ ProtocolCommits
  BY <1>6 DEF ProtocolChecks, ProtocolCommits, ChecksDuplicate, CommitsSuccess, RoundStep, Protocol, Goes,
     Fails, Places, BatchOnly, recordVars, controlVars
<1>7. CASE InitsAccount \/ EndsSuccess \/ HandlesFailure \/ ProtocolHandlerFails
  BY <1>7 DEF InitsAccount, EndsSuccess, HandlesFailure, ProtocolHandlerFails, StopsIf, Protocol, Goes, EndsRound,
     Places, BatchOnly, protocolUnchanged, recordVars, controlVars
<1> QED
  BY <1>1, <1>2, <1>3, <1>4, <1>5, <1>6, <1>7 DEF ProtocolStep, Places, BatchOnly

\* Browser worker.
LEMMA BrowserFrame ==
  ASSUME IInv, BrowserStep
  PROVE  /\ IsKind("browser") /\ config' = config /\ late' = late /\ (paused \in BOOLEAN => paused' \in BOOLEAN)
         /\ pc' \in Places \ (BatchOnly \cup {"mutate"})
         /\ rounds' = rounds \/ Counts
         /\ created' = created \/ Creates
         /\ mutated' = mutated \/ ActivatesNewAccount
<1>1. ASSUME NEW a \in Aliases, BrowserClaims(a)
      PROVE  /\ IsKind("browser") /\ config' = config /\ late' = late /\ paused' = paused
             /\ pc' = "open" /\ Counts /\ created' = created /\ mutated' = mutated
  BY <1>1 DEF BrowserClaims, Claim, Counts, recordVars, controlVars
<1>2. CASE BrowserBoots \/ BrowserLeaves
  BY <1>2 DEF BrowserBoots, BrowserLeaves, LeavesLoop, StopsIf, Browser, Goes, Places, BatchOnly,
     browserUnchanged, recordVars, controlVars
<1>3. CASE OpensSignupPage \/ FillsEmail \/ FillsCode \/ StartsProfile
  BY <1>3 DEF OpensSignupPage, FillsEmail, FillsCode, StartsProfile, BrowserPauses, Browser, Goes, Fails,
     Places, BatchOnly, browserUnchanged, recordVars, controlVars
<1>4. CASE CompletesProfile \/ RecoversExisting \/ FailsProfile \/ ExtractsSso
  BY <1>4 DEF CompletesProfile, RecoversExisting, FailsProfile, ExtractsSso, Browser, Goes, Fails, Takes,
     Places, BatchOnly, browserUnchanged, recordVars, controlVars
<1>5. CASE SubmitsProfile
  BY <1>5 DEF SubmitsProfile, Browser, At, Goes, Fails, Places, BatchOnly, Creates, controlVars
<1>6. CASE BrowserChecks \/ BrowserCommits \/ ActivatesNewAccount
  BY <1>6 DEF BrowserChecks, BrowserCommits, ChecksDuplicate, CommitsSuccess, ActivatesNewAccount, Browser,
     IsKind, Goes, Fails, Places, BatchOnly, recordVars, controlVars
<1>7. CASE RecyclesBrowser \/ BrowserHandlesFailure \/ BrowserHandlerFails
  BY <1>7 DEF RecyclesBrowser, BrowserHandlesFailure, BrowserHandlerFails, StopsIf, Browser, EndsRound,
     Places, BatchOnly, browserUnchanged, recordVars, controlVars
<1> QED
  BY <1>1, <1>2, <1>3, <1>4, <1>5, <1>6, <1>7 DEF BrowserStep, Places, BatchOnly
\* Reactivation: it counts an activation it begins after a stop, and decides
\* for itself whether to go on only between two of them.
BatchMutates ==
    /\ pc = "mutate"
    /\ chrome' = chrome /\ round' = round
    /\ mutated' \in Mutations(round.alias, IF chrome.window = "live" THEN chrome.tab ELSE round.alias)
BatchPlaces == {"boot", "idle", "gate", "switch", "challenge", "mutate", "clear", "ended", "unborn"}

\* The steps of a reactivation, and what each leaves alone.
LEMMA BatchFrame ==
  ASSUME IInv, BatchStep
  PROVE  /\ IsKind("reactivate") /\ UNCHANGED <<config, rounds, created, recorded, stopping, paused>>
         /\ pc' \in BatchPlaces
         /\ mutated' = mutated \/ BatchMutates
         /\ \/ /\ pc = "gate" /\ pc' = "switch" /\ round' = round
               /\ late' = IF stopping THEN late + 1 ELSE late
            \/ /\ late' = late
               /\ pc' = "gate" => ~stopping /\ round'.alias \in Aliases
               /\ pc' \in {"switch", "challenge", "mutate", "clear"} =>
                    round' = round /\ pc \in {"switch", "challenge", "mutate"}
<1>1. ASSUME NEW a \in Aliases, TakesRecord(a)
      PROVE  /\ pc' = "gate" /\ ~stopping /\ round'.alias \in Aliases
             /\ UNCHANGED <<config, rounds, created, recorded, mutated, stopping, paused, late>>
             /\ IsKind("reactivate")
  <2>1. round'.alias = a
    BY <1>1 DEF TakesRecord, NoRound
  <2> QED
    BY <1>1, <2>1 DEF TakesRecord, Batch, batchUnchanged, controlVars
<1>2. CASE BatchBoots \/ SwitchesIdentity \/ PassesChallenge \/ BatchEnds
  BY <1>2 DEF BatchBoots, SwitchesIdentity, PassesChallenge, BatchEnds, Batch, At, Goes,
     batchUnchanged, controlVars, BatchPlaces
<1>3. CASE BeginsActivation
  BY <1>3 DEF BeginsActivation, Batch, At, Goes, recordVars, BatchPlaces
<1>4. CASE InitsHistoricAccount
  BY <1>4 DEF InitsHistoricAccount, Batch, At, Goes, batchUnchanged, controlVars, BatchMutates, BatchPlaces
<1>5. CASE EndsActivation
  BY <1>5 DEF EndsActivation, Batch, At, EndsRound, batchUnchanged, controlVars, BatchPlaces
<1> QED
  BY <1>1, <1>2, <1>3, <1>4, <1>5 DEF BatchStep, BatchPlaces

\* The environment goes nowhere and creates nothing.
LEMMA EnvironmentFrame ==
  ASSUME IInv, Environment
  PROVE  /\ UNCHANGED <<config, pc, rounds, recorded, created, mutated, late>>
         /\ paused \in BOOLEAN => paused' \in BOOLEAN
         /\ stopping => stopping'
         /\ round'.alias = round.alias /\ round'.sso = round.sso
         /\ IsKind("browser") \/ chrome'.tab \in {None, chrome.tab}
<1>1. round \in Rounds /\ chrome \in Sane
  BY DEF IInv, Types
<1>2. CASE RequestStop \/ RequestPause
  <2>1. UNCHANGED <<config, pc, rounds, recorded, created, mutated, late, round, chrome>>
    BY <1>2 DEF RequestStop, RequestPause, workerVars, recordVars
  <2>2. paused' \in BOOLEAN /\ (stopping => stopping')
    <3>1. CASE RequestStop
      BY <3>1 DEF RequestStop, StopsIf
    <3>2. CASE RequestPause
      BY <3>2 DEF RequestPause
    <3> QED
      BY <1>2, <3>1, <3>2
  <2> QED
    BY <2>1, <2>2
<1>3. CASE LoseLease
  BY <1>1, <1>3 DEF LoseLease, Rounds, recordVars, controlVars
<1>4. CASE PageDies
  <2>1. chrome'.tab = None
    BY <1>1, <1>4 DEF PageDies, Sane, Sessions
  <2> QED
    BY <1>4, <2>1 DEF PageDies, recordVars, controlVars
<1>5. CASE SiteStores \/ CookieArrives
  BY <1>5 DEF SiteStores, CookieArrives, recordVars, controlVars
<1> QED
  BY <1>2, <1>3, <1>4, <1>5 DEF Environment

----------------------------------------------------------------------------
(* Types, and mutations *)

\* A registration has the alias of its round to the end of it, a reactivation between
\* its gate and its end.
HasAlias == pc \notin {"boot", "idle", "ended", "unborn"} => round.alias \in Aliases

\* A registration has an SSO in hand from the look for it on; a protocol worker has
\* recorded it before it mutates the account.
HasSso ==
    Registers =>
        /\ pc \in HoldsSso => round.sso \in Identities
        /\ pc = "mutate" => IsKind("protocol") /\ recorded[round.alias] = round.sso

\* A reactivation knows the records of earlier tasks, and is at the identity of the
\* account at hand when the page it waits for is there.
AtIdentity ==
    IsKind("reactivate") =>
        /\ \A a \in Aliases : recorded[a] = a
        /\ pc \in {"challenge", "mutate"} /\ ~May("cdp") => chrome.tab \in {None, round.alias}

\* An activation that begins after a stop is the last one.
LastIsLate ==
    /\ late \in {0, 1}
    /\ late = 1 => stopping /\ pc # "gate"
    /\ ~IsKind("reactivate") => late = 0

MInv ==
    /\ TypeOK
    /\ HasAlias
    /\ HasSso
    /\ AtIdentity
    /\ LastIsLate
    /\ MutatesRecordedOnly

\* Outside the commit the records stay; an alias is recorded once.
LEMMA RecordsStay ==
  ASSUME IInv, [Next]_vars
  PROVE  \/ recorded' = recorded
         \/ /\ Registers /\ pc = "commit" /\ recorded[round.alias] = None
            /\ recorded' = [recorded EXCEPT ![round.alias] = round.sso]
<1>1. ASSUME NEW next, CommitsSuccess(next)
      PROVE  recorded' = recorded \/ recorded' = [recorded EXCEPT ![round.alias] = round.sso]
  BY <1>1 DEF CommitsSuccess
<1>2. ASSUME Registers, pc = "commit" PROVE recorded[round.alias] = None
  BY <1>2 DEF IInv, RecordedIsUsed, BeforeCommit, Types
<1>3. CASE ProtocolCommits
  BY <1>1, <1>2, <1>3 DEF ProtocolCommits, RoundStep, Protocol, At, Registers, IsKind
<1>4. CASE BrowserCommits
  BY <1>1, <1>2, <1>4 DEF BrowserCommits, Browser, At, Registers, IsKind
<1>5. CASE ProtocolStep /\ ~ProtocolCommits
  BY <1>5 DEF ProtocolStep, BootsPure, BootBlocked, BootsHybrid, ProtocolLeaves, LeavesLoop, ProtocolClaims, Claim,
     StopsForLease, OpensPure, OpensHybrid, SendsCode, VerifiesCode, SolvesExternally, FailsToSolve,
     SolvesInBrowser, SubmitsSignup, ReadsCookie, FollowsOverHttp, Navigates, FindsNoSso, ProtocolChecks,
     ChecksDuplicate, InitsAccount, EndsSuccess, HandlesFailure, ProtocolHandlerFails, protocolUnchanged, recordVars
<1>6. CASE BrowserStep /\ ~BrowserCommits
  BY <1>6 DEF BrowserStep, BrowserBoots, BrowserLeaves, LeavesLoop, BrowserClaims, Claim, OpensSignupPage,
     FillsEmail, FillsCode, StartsProfile, CompletesProfile, RecoversExisting, SubmitsProfile, FailsProfile,
     ExtractsSso, BrowserChecks, ChecksDuplicate, ActivatesNewAccount, RecyclesBrowser, BrowserHandlesFailure,
     BrowserHandlerFails, browserUnchanged, recordVars
<1>7. CASE BatchStep
  BY <1>7, BatchFrame
<1>8. CASE Environment
  BY <1>8, EnvironmentFrame
<1>9. CASE UNCHANGED vars
  BY <1>9 DEF vars
<1> QED
  BY <1>3, <1>4, <1>5, <1>6, <1>7, <1>8, <1>9 DEF Next, Worker
\* An SSO that is taken from somewhere is one.
LEMMA ProtocolHoldsSso ==
  ASSUME IInv, HasSso, ProtocolStep, pc' \in HoldsSso
  PROVE  /\ round'.sso \in Identities
         /\ pc' = "mutate" => recorded'[round'.alias] = round'.sso
<1>t. /\ chrome \in Sane /\ net \in Transports /\ round \in Rounds
      /\ recorded \in [Aliases -> Identities \cup {None}] /\ Registers
  BY ProtocolFrame DEF IInv, Types, Registers, IsKind
<1>e. ASSUME pc = "extract" PROVE round.alias \in Identities
  BY <1>t, <1>e DEF IInv, RecordedIsUsed, BeforeCommit, Early, Identities
<1>1. CASE ReadsCookie
  <2>1. FirstCookie \in Identities
    BY <1>t, <1>1 DEF ReadsCookie, FirstCookie, BrowserIdentity, Transports, Sane, Sessions
  <2> QED
    BY <1>t, <1>1, <2>1, TakesMoves DEF ReadsCookie
<1>2. CASE FollowsOverHttp
  BY <1>t, <1>e, <1>2, TakesMoves DEF FollowsOverHttp, RoundStep, Protocol, At
<1>3. CASE Navigates
  <2>1. Takes("check", round.alias) \/ Fails("error")
    BY <1>3 DEF Navigates
  <2>2. Takes("check", round.alias)
    BY <2>1 DEF Fails, HoldsSso
  <2> QED
    BY <1>t, <1>e, <1>3, <2>2, TakesMoves DEF Navigates, RoundStep, Protocol, At
<1>4. CASE ProtocolChecks
  <2>1. pc = "check" /\ pc' # "mutate" /\ round' = round
    BY <1>4 DEF ProtocolChecks, ChecksDuplicate, At, Goes, Fails, HoldsSso
  <2> QED
    BY <1>t, <2>1 DEF HasSso, HoldsSso
<1>5. CASE ProtocolCommits
  <2>1. pc = "commit" /\ CommitsSuccess("mutate")
    BY <1>5 DEF ProtocolCommits, RoundStep, Protocol, At
  <2>2. /\ recorded' = [recorded EXCEPT ![round.alias] = round.sso]
        /\ round' = [round EXCEPT !.lease = "none"]
    BY <2>1 DEF CommitsSuccess, Fails, HoldsSso
  <2>3. round.alias \in Aliases /\ round.sso \in Identities
    BY <1>t, <2>1 DEF HasSso, HoldsSso, IInv, RecordedIsUsed, BeforeCommit
  <2> QED
    BY <1>t, <2>2, <2>3 DEF Rounds
<1>6. ~(BootsPure \/ BootBlocked \/ BootsHybrid \/ ProtocolLeaves \/ StopsForLease)
  BY DEF BootsPure, BootBlocked, BootsHybrid, ProtocolLeaves, LeavesLoop, StopsForLease, Goes, Fails, HoldsSso
<1>7. ~(OpensPure \/ OpensHybrid \/ SendsCode \/ VerifiesCode \/ SolvesExternally \/ FailsToSolve \/ SolvesInBrowser)
  BY DEF OpensPure, OpensHybrid, SendsCode, VerifiesCode, SolvesExternally, FailsToSolve, SolvesInBrowser,
     Goes, Fails, LosesPage, HoldsSso
<1>8. ~(SubmitsSignup \/ FindsNoSso \/ InitsAccount \/ EndsSuccess \/ HandlesFailure \/ ProtocolHandlerFails)
  BY DEF SubmitsSignup, FindsNoSso, InitsAccount, EndsSuccess, HandlesFailure, ProtocolHandlerFails,
     Goes, Fails, LosesPage, EndsRound, HoldsSso
<1>9. ASSUME NEW a \in Aliases PROVE ~ProtocolClaims(a)
  BY DEF ProtocolClaims, Claim, HoldsSso
<1> QED
  BY <1>1, <1>2, <1>3, <1>4, <1>5, <1>6, <1>7, <1>8, <1>9 DEF ProtocolStep

\* The SSO a browser worker works with is in hand.
LEMMA BrowserHoldsSso ==
  ASSUME IInv, HasSso, BrowserStep, pc' \in HoldsSso
  PROVE  round'.sso \in Identities
<1>t. chrome \in Sane /\ round \in Rounds /\ Registers
  BY BrowserFrame DEF IInv, Types, Registers, IsKind
<1>1. CASE ExtractsSso
  <2>1. PICK o \in Refreshed : \E found \in Found(o.chrome) :
          IF o.ok /\ found # None THEN Takes("check", found) ELSE Fails("error")
    BY <1>1 DEF ExtractsSso
  <2>2. PICK found \in Found(o.chrome) : IF o.ok /\ found # None THEN Takes("check", found) ELSE Fails("error")
    BY <2>1
  <2>3. o.chrome \in Sane
    BY <1>t, RefreshedOuts DEF Outs
  <2>4. found \in Identities \cup {None}
    BY <2>2, <2>3 DEF Found, Sane, Sessions
  <2>5. found # None /\ Takes("check", found)
    BY <2>2 DEF Fails, HoldsSso
  <2> QED
    BY <1>t, <2>4, <2>5, TakesMoves
<1>2. CASE BrowserChecks \/ ActivatesNewAccount
  <2>1. pc \in {"check", "activate"} /\ round' = round
    BY <1>2 DEF BrowserChecks, ChecksDuplicate, ActivatesNewAccount, Browser, At, Goes, Fails, HoldsSso
  <2> QED
    BY <1>t, <2>1 DEF HasSso, HoldsSso
<1>3. ~(BrowserBoots \/ BrowserLeaves \/ OpensSignupPage \/ FillsEmail \/ FillsCode \/ StartsProfile)
  BY DEF BrowserBoots, BrowserLeaves, LeavesLoop, OpensSignupPage, FillsEmail, FillsCode, StartsProfile,
     Goes, Fails, HoldsSso
<1>4. ~(CompletesProfile \/ RecoversExisting \/ SubmitsProfile \/ FailsProfile \/ BrowserCommits)
  BY DEF CompletesProfile, RecoversExisting, SubmitsProfile, FailsProfile, BrowserCommits, CommitsSuccess,
     Goes, Fails, HoldsSso
<1>5. ~(RecyclesBrowser \/ BrowserHandlesFailure \/ BrowserHandlerFails)
  BY DEF RecyclesBrowser, BrowserHandlesFailure, BrowserHandlerFails, EndsRound, HoldsSso
<1>6. ASSUME NEW a \in Aliases PROVE ~BrowserClaims(a)
  BY DEF BrowserClaims, Claim, HoldsSso
<1> QED
  BY <1>1, <1>2, <1>3, <1>4, <1>5, <1>6 DEF BrowserStep

\* A page that a reactivation got hold of is at the identity of its account.
LEMMA SwitchedTab ==
  ASSUME chrome \in Sane, ~May("cdp"), NEW sso \in Aliases, NEW o \in Switches(sso), o.ok
  PROVE  o.chrome.tab = sso
<1>1. PICK p \in Refreshes(chrome, May("start")) : o = IF p.ok THEN [p EXCEPT !.chrome.tab = sso] ELSE p
  BY DEF Switches
<1>2. p \in Outs(chrome)
  BY RefreshOuts, FaultsAreBoolean
<1>3. p.ok
  BY <1>1
<1> QED
  BY <1>1, <1>2, <1>3 DEF Outs, Sane, Sessions

\* The steps between which the page is at the identity.
LEMMA BatchStaysAtIdentity ==
  ASSUME IInv, HasAlias, AtIdentity, BatchStep, pc' \in {"challenge", "mutate"}, ~May("cdp")
  PROVE  chrome'.tab \in {None, round'.alias}
<1>k. IsKind("reactivate")
  BY BatchFrame
<1>1. CASE SwitchesIdentity
  <2>1. PICK o \in Switches(round.alias) : chrome' = o.chrome /\ Goes(IF o.ok THEN "challenge" ELSE "clear")
    BY <1>1 DEF SwitchesIdentity
  <2>2. o.ok /\ round' = round
    BY <2>1 DEF Goes
  <2>3. pc = "switch"
    BY <1>1 DEF SwitchesIdentity, Batch, At
  <2> QED
    BY <2>1, <2>2, <2>3, SwitchedTab DEF HasAlias, IInv, Types
<1>2. CASE PassesChallenge
  BY <1>k, <1>2 DEF PassesChallenge, Batch, At, Goes, AtIdentity
<1>3. ~(BatchBoots \/ BeginsActivation \/ InitsHistoricAccount \/ EndsActivation \/ BatchEnds)
  BY DEF BatchBoots, BeginsActivation, InitsHistoricAccount, EndsActivation, BatchEnds, Goes, EndsRound
<1>4. ASSUME NEW a \in Aliases PROVE ~TakesRecord(a)
  BY DEF TakesRecord
<1> QED
  BY <1>1, <1>2, <1>3, <1>4 DEF BatchStep
\* What is common to the steps of a worker that registers.
LEMMA RegisterFrame ==
  ASSUME IInv, ProtocolStep \/ BrowserStep
  PROVE  /\ Registers /\ ~IsKind("reactivate")
         /\ config' = config /\ late' = late /\ (paused \in BOOLEAN => paused' \in BOOLEAN)
         /\ pc' \in Places \ BatchOnly
         /\ pc' = "mutate" => ProtocolStep
         /\ rounds' = rounds \/ Counts
         /\ created' = created \/ Creates
         /\ mutated' = mutated \/ InitsAccount \/ ActivatesNewAccount
<1>1. CASE ProtocolStep
  BY <1>1, ProtocolFrame DEF Registers, IsKind
<1>2. CASE BrowserStep
  BY <1>2, BrowserFrame DEF Registers, IsKind
<1> QED
  BY <1>1, <1>2

\* The configuration of a behaviour is chosen once.
LEMMA ConfigStays ==
  ASSUME IInv, [Next]_vars
  PROVE  /\ config' = config /\ Registers' = Registers
         /\ \A fault : May(fault)' = May(fault)
         /\ \A kind : IsKind(kind)' = IsKind(kind)
<1>1. config' = config
  <2>1. UNCHANGED vars => config' = config
    BY DEF vars
  <2> QED
    BY <2>1, RegisterFrame, BatchFrame, EnvironmentFrame DEF Next, Worker
<1> QED
  BY <1>1 DEF Registers, May, IsKind

\* A round has an alias from its claim on.
LEMMA NextKeepsHasAlias ==
  ASSUME IInv, HasAlias, [Next]_vars PROVE HasAlias'
<1> SUFFICES ASSUME pc' \notin {"boot", "idle", "ended", "unborn"} PROVE round'.alias \in Aliases
  BY DEF HasAlias
<1>i. IInv'
  BY NextKeeps DEF Kept
<1>c. Registers' = Registers
  BY ConfigStays
<1>a. ASSUME pc' \in BeforeCommit \cup {"failed"}, Registers PROVE round'.alias \in Aliases
  BY <1>a, <1>i, <1>c DEF IInv, RecordedIsUsed
<1>s. ASSUME pc \in {"commit", "mutate"}, round'.alias = round.alias PROVE round'.alias \in Aliases
  BY <1>s DEF HasAlias
<1>p. ASSUME NEW next, CommitsSuccess(next), pc' # "failed" PROVE round'.alias = round.alias
  BY <1>p DEF CommitsSuccess, Fails, IInv, Types, Rounds
<1>1. CASE ProtocolStep /\ pc' \in {"mutate", "after"}
  <2>1. CASE ProtocolCommits
    BY <1>1, <1>s, <1>p, <2>1 DEF ProtocolCommits, RoundStep, Protocol, At
  <2>2. CASE InitsAccount
    BY <1>1, <1>s, <2>2 DEF InitsAccount, Protocol, At, Goes
  <2>3. ~(BootsPure \/ BootBlocked \/ BootsHybrid \/ ProtocolLeaves \/ StopsForLease)
    BY <1>1 DEF BootsPure, BootBlocked, BootsHybrid, ProtocolLeaves, LeavesLoop, StopsForLease, Goes, Fails
  <2>4. ~(OpensPure \/ OpensHybrid \/ SendsCode \/ VerifiesCode \/ SolvesExternally \/ FailsToSolve
          \/ SolvesInBrowser)
    BY <1>1 DEF OpensPure, OpensHybrid, SendsCode, VerifiesCode, SolvesExternally, FailsToSolve,
       SolvesInBrowser, Goes, Fails, LosesPage
  <2>5. ~(SubmitsSignup \/ ReadsCookie \/ FollowsOverHttp \/ Navigates \/ FindsNoSso \/ ProtocolChecks)
    BY <1>1 DEF SubmitsSignup, ReadsCookie, FollowsOverHttp, Navigates, FindsNoSso, ProtocolChecks,
       ChecksDuplicate, Goes, Fails, Takes, LosesPage
  <2>6. ~(EndsSuccess \/ HandlesFailure \/ ProtocolHandlerFails)
    BY <1>1 DEF EndsSuccess, HandlesFailure, ProtocolHandlerFails, EndsRound
  <2>7. ASSUME NEW a \in Aliases PROVE ~ProtocolClaims(a)
    BY <1>1 DEF ProtocolClaims, Claim
  <2> QED
    BY <1>1, <2>1, <2>2, <2>3, <2>4, <2>5, <2>6, <2>7 DEF ProtocolStep
<1>2. CASE BrowserStep /\ pc' = "after"
  <2>1. CASE BrowserCommits
    BY <1>2, <1>s, <1>p, <2>1 DEF BrowserCommits, Browser, At
  <2>2. ~(BrowserBoots \/ BrowserLeaves \/ OpensSignupPage \/ FillsEmail \/ FillsCode \/ StartsProfile)
    BY <1>2 DEF BrowserBoots, BrowserLeaves, LeavesLoop, OpensSignupPage, FillsEmail, FillsCode, StartsProfile,
       Goes, Fails
  <2>3. ~(CompletesProfile \/ RecoversExisting \/ SubmitsProfile \/ FailsProfile)
    BY <1>2 DEF CompletesProfile, RecoversExisting, SubmitsProfile, FailsProfile, Goes, Fails
  <2>4. ~(ExtractsSso \/ BrowserChecks \/ ActivatesNewAccount)
    BY <1>2 DEF ExtractsSso, BrowserChecks, ChecksDuplicate, ActivatesNewAccount, Goes, Fails, Takes
  <2>5. ~(RecyclesBrowser \/ BrowserHandlesFailure \/ BrowserHandlerFails)
    BY <1>2 DEF RecyclesBrowser, BrowserHandlesFailure, BrowserHandlerFails, EndsRound
  <2>6. ASSUME NEW a \in Aliases PROVE ~BrowserClaims(a)
    BY <1>2 DEF BrowserClaims, Claim
  <2> QED
    BY <1>2, <2>1, <2>2, <2>3, <2>4, <2>5, <2>6 DEF BrowserStep
<1>3. CASE ProtocolStep \/ BrowserStep
  <2>1. Registers /\ pc' \in Places \ BatchOnly /\ (pc' = "mutate" => ProtocolStep)
    BY <1>3, RegisterFrame
  <2>2. pc' \in BeforeCommit \cup {"failed", "mutate", "after"}
    BY <2>1 DEF Places, BatchOnly, BeforeCommit, Early
  <2> QED
    BY <1>1, <1>2, <1>3, <1>a, <2>1, <2>2
<1>4. CASE BatchStep
  <2>1. pc' \in {"gate", "switch", "challenge", "mutate", "clear"}
    BY <1>4, BatchFrame DEF BatchPlaces
  <2> QED
    BY <1>4, <2>1, BatchFrame DEF HasAlias
<1>5. CASE Environment
  BY <1>5, EnvironmentFrame DEF HasAlias
<1>6. CASE UNCHANGED vars
  BY <1>6 DEF vars, HasAlias
<1> QED
  BY <1>3, <1>4, <1>5, <1>6 DEF Next, Worker

\* A round has an SSO from its extraction on.
LEMMA NextKeepsHasSso ==
  ASSUME IInv, HasSso, [Next]_vars PROVE HasSso'
<1>c. Registers' = Registers /\ IsKind("protocol")' = IsKind("protocol")
  BY ConfigStays
<1> SUFFICES ASSUME Registers, pc' \in HoldsSso
             PROVE /\ round'.sso \in Identities
                   /\ pc' = "mutate" => IsKind("protocol") /\ recorded'[round'.alias] = round'.sso
  BY <1>c DEF HasSso, HoldsSso
<1>1. CASE ProtocolStep
  BY <1>1, ProtocolHoldsSso, ProtocolFrame
<1>2. CASE BrowserStep
  BY <1>2, BrowserHoldsSso, BrowserFrame
<1>3. CASE BatchStep
  BY <1>3, BatchFrame DEF Registers, IsKind
<1>4. CASE Environment
  BY <1>4, EnvironmentFrame DEF HasSso
<1>5. CASE UNCHANGED vars
  BY <1>5 DEF vars, HasSso
<1> QED
  BY <1>1, <1>2, <1>3, <1>4, <1>5 DEF Next, Worker

\* A reactivation accepts terms with the identity of the account at hand.
LEMMA NextKeepsAtIdentity ==
  ASSUME IInv, HasAlias, AtIdentity, [Next]_vars PROVE AtIdentity'
<1>c. IsKind("reactivate")' = IsKind("reactivate") /\ May("cdp")' = May("cdp")
  BY ConfigStays
<1> SUFFICES ASSUME IsKind("reactivate")
             PROVE /\ \A a \in Aliases : recorded'[a] = a
                   /\ pc' \in {"challenge", "mutate"} /\ ~May("cdp") => chrome'.tab \in {None, round'.alias}
  BY <1>c DEF AtIdentity
<1>r. ~ProtocolStep /\ ~BrowserStep
  BY RegisterFrame
<1>1. \A a \in Aliases : recorded'[a] = a
  BY RecordsStay DEF AtIdentity, Registers, IsKind
<1>2. ASSUME pc' \in {"challenge", "mutate"}, ~May("cdp") PROVE chrome'.tab \in {None, round'.alias}
  <2>1. CASE BatchStep
    BY <1>2, <2>1, BatchStaysAtIdentity
  <2>2. CASE Environment
    BY <1>2, <2>2, EnvironmentFrame DEF AtIdentity, IsKind
  <2>3. CASE UNCHANGED vars
    BY <1>2, <2>3 DEF vars, AtIdentity
  <2> QED
    BY <1>r, <2>1, <2>2, <2>3 DEF Next, Worker
<1> QED
  BY <1>1, <1>2

\* Who was late once is about to look at the stop flag.
LEMMA NextKeepsLastIsLate ==
  ASSUME IInv, LastIsLate, [Next]_vars PROVE LastIsLate'
<1>c. IsKind("reactivate")' = IsKind("reactivate")
  BY ConfigStays
<1>1. CASE ProtocolStep \/ BrowserStep
  <2>1. late' = late /\ ~IsKind("reactivate")
    BY <1>1, RegisterFrame
  <2>2. late' = 0
    BY <2>1 DEF LastIsLate
  <2> QED
    BY <2>2 DEF LastIsLate
<1>2. CASE BatchStep
  BY <1>2, <1>c, BatchFrame DEF LastIsLate
<1>3. CASE Environment
  <2>1. late' = late /\ pc' = pc /\ (stopping => stopping')
    BY <1>3, EnvironmentFrame
  <2> QED
    BY <1>c, <2>1 DEF LastIsLate
<1>4. CASE UNCHANGED vars
  BY <1>c, <1>4 DEF vars, LastIsLate
<1> QED
  BY <1>1, <1>2, <1>3, <1>4 DEF Next, Worker
\* Which accounts a step may mutate.
LEMMA NewMutations ==
  ASSUME IInv, MInv, [Next]_vars
  PROVE  /\ mutated' \subseteq Aliases \X Identities
         /\ config.kind \in {"protocol", "reactivate"} /\ ~May("cdp") =>
              \A m \in mutated' \ mutated : m[2] \in Identities /\ recorded'[m[1]] = m[2]
<1>t. /\ chrome \in Sane /\ mutated \subseteq Aliases \X Identities
      /\ HasAlias /\ HasSso /\ AtIdentity
  BY DEF IInv, Types, MInv, TypeOK, RoundTypeOK
<1>1. CASE mutated' = mutated
  BY <1>t, <1>1
<1>2. CASE InitsAccount
  <2>1. /\ pc = "mutate" /\ IsKind("protocol") /\ recorded' = recorded
        /\ mutated' \subseteq mutated \cup {<<round.alias, round.sso>>}
    BY <1>2 DEF InitsAccount, Protocol, At
  <2>2. round.alias \in Aliases /\ round.sso \in Identities /\ recorded[round.alias] = round.sso
    BY <1>t, <2>1 DEF HasAlias, HasSso, HoldsSso, Registers, IsKind
  <2> QED
    BY <1>t, <2>1, <2>2
<1>3. CASE ActivatesNewAccount /\ mutated' # mutated
  <2>1. IsKind("browser") /\ pc = "activate"
    BY <1>3 DEF ActivatesNewAccount, Browser, At
  <2>2. PICK o \in Switches(round.sso) : mutated' \in IF o.ok THEN Mutations(round.sso, o.chrome.tab) ELSE {mutated}
    BY <1>3 DEF ActivatesNewAccount
  <2>3. round.alias \in Aliases /\ round.sso \in Identities
    BY <1>t, <2>1 DEF HasAlias, HasSso, HoldsSso, Registers, IsKind
  <2>4. o.chrome.tab \in Identities \cup {None}
    BY <1>t, <2>2, <2>3, SwitchOuts DEF Sane, Sessions
  <2>5. mutated' \in Mutations(round.sso, o.chrome.tab)
    BY <1>3, <2>2
  <2>6. mutated' \subseteq Aliases \X Identities
    BY <1>t, <2>3, <2>4, <2>5 DEF Mutations
  <2> QED
    BY <2>1, <2>6 DEF IsKind
<1>4. CASE BatchMutates /\ BatchStep
  <2> DEFINE tab == IF chrome.window = "live" THEN chrome.tab ELSE round.alias
  <2>1. IsKind("reactivate") /\ recorded' = recorded /\ pc = "mutate" /\ mutated' \in Mutations(round.alias, tab)
    BY <1>4, BatchFrame DEF BatchMutates
  <2>2. round.alias \in Aliases /\ recorded[round.alias] = round.alias
    BY <1>t, <2>1 DEF HasAlias, AtIdentity
  <2>3. tab \in Identities \cup {None} /\ (~May("cdp") => tab \in {None, round.alias})
    BY <1>t, <2>1, <2>2 DEF AtIdentity, Sane, Sessions, Identities
  <2> HIDE DEF tab
  <2>4. mutated' \subseteq mutated \cup ({round.alias} \X ({round.alias, tab} \ {None}))
    BY <2>1 DEF Mutations
  <2>5. ~May("cdp") => \A m \in mutated' \ mutated : m = <<round.alias, round.alias>>
    BY <2>3, <2>4
  <2> QED
    BY <1>t, <2>1, <2>2, <2>3, <2>4, <2>5 DEF Identities
<1>5. CASE BatchStep
  BY <1>1, <1>4, <1>5, BatchFrame
<1>6. CASE ProtocolStep \/ BrowserStep
  BY <1>1, <1>2, <1>3, <1>6, RegisterFrame
<1>7. CASE Environment
  BY <1>1, <1>7, EnvironmentFrame
<1>8. UNCHANGED vars => mutated' = mutated
  BY DEF vars
<1> QED
  BY <1>1, <1>5, <1>6, <1>7, <1>8 DEF Next, Worker

\* What is set is set for the recorded identity.
LEMMA NextKeepsMutations ==
  ASSUME IInv, MInv, [Next]_vars PROVE MutatesRecordedOnly'
<1>c. config' = config /\ May("cdp")' = May("cdp")
  BY ConfigStays
<1> SUFFICES ASSUME config.kind \in {"protocol", "reactivate"}, ~May("cdp"), NEW m \in mutated'
             PROVE recorded'[m[1]] = m[2]
  BY <1>c DEF MutatesRecordedOnly
<1>1. CASE m \notin mutated
  BY <1>1, NewMutations
<1>2. CASE m \in mutated
  <2>1. recorded[m[1]] = m[2]
    BY <1>2 DEF MInv, MutatesRecordedOnly
  <2>2. m[1] \in Aliases /\ m[2] \in Identities /\ recorded \in [Aliases -> Identities \cup {None}]
    BY <1>2 DEF MInv, TypeOK, RoundTypeOK
  <2>3. m[2] # None
    BY <2>2, SignupAssumption
  <2> QED
    BY <2>1, <2>2, <2>3, RecordsStay
<1> QED
  BY <1>1, <1>2

\* The types are kept.
LEMMA NextKeepsTypeOK ==
  ASSUME IInv, MInv, [Next]_vars PROVE TypeOK'
<1>i. Types'
  BY NextKeeps DEF Kept, IInv
<1>t. /\ pc \in Places /\ rounds \in 0 .. MaxRounds /\ created \subseteq Aliases
      /\ paused \in BOOLEAN /\ MaxRounds \in Nat
  BY SignupAssumption DEF MInv, TypeOK, RoundTypeOK, Places
<1>1. pc' \in Places
  <2>1. UNCHANGED vars => pc' = pc
    BY DEF vars
  <2>2. BatchPlaces \subseteq Places
    BY DEF BatchPlaces, Places
  <2> QED
    BY <1>t, <2>1, <2>2, RegisterFrame, BatchFrame, EnvironmentFrame DEF Next, Worker
<1>2. rounds' \in 0 .. MaxRounds
  <2>1. UNCHANGED vars => rounds' = rounds
    BY DEF vars
  <2>2. ASSUME NEW a \in Aliases, Claim(a) PROVE rounds' \in 0 .. MaxRounds
    BY <1>t, <2>2 DEF Claim
  <2> QED
    BY <1>t, <2>1, <2>2, RegisterFrame, BatchFrame, EnvironmentFrame DEF Next, Worker, Counts
<1>3. created' \subseteq Aliases
  <2>1. UNCHANGED vars => created' = created
    BY DEF vars
  <2>2. Creates => created' \subseteq Aliases
    BY <1>t DEF Creates, MInv, HasAlias
  <2> QED
    BY <1>t, <2>1, <2>2, RegisterFrame, BatchFrame, EnvironmentFrame DEF Next, Worker
<1>4. paused' \in BOOLEAN
  <2>1. UNCHANGED vars => paused' = paused
    BY DEF vars
  <2> QED
    BY <1>t, <2>1, RegisterFrame, BatchFrame, EnvironmentFrame DEF Next, Worker
<1>5. late' \in Nat
  BY NextKeepsLastIsLate DEF MInv, LastIsLate
<1>6. mutated' \subseteq Aliases \X Identities
  BY NewMutations
<1>7. chrome' \in Sessions(Identities)
  BY <1>i DEF Types, Sane
<1>8. InHand'
  BY NextKeepsHasAlias, NextKeepsHasSso DEF MInv, InHand, HasAlias, HasSso, HoldsSso
<1> QED
  BY <1>i, <1>1, <1>2, <1>3, <1>4, <1>5, <1>6, <1>7, <1>8 DEF Types, TypeOK, RoundTypeOK, Places

\* Initially nothing is in hand and nothing was set.
LEMMA InitMInv == Init => MInv
<1> SUFFICES ASSUME Init PROVE MInv
  OBVIOUS
<1>1. /\ pc = "boot" /\ round = NoRound /\ rounds = 0 /\ mutated = {} /\ late = 0
      /\ paused = FALSE /\ stopping = FALSE /\ created \subseteq Aliases
      /\ IsKind("reactivate") => \A a \in Aliases : recorded[a] = a
  BY DEF Init, RoundInit
<1>2. Types
  BY InitIInv DEF IInv
<1>3. rounds \in 0 .. MaxRounds /\ chrome \in Sessions(Identities)
  BY <1>1, <1>2, SignupAssumption DEF Types, Sane
<1>4. TypeOK
  BY <1>1, <1>2, <1>3 DEF Types, TypeOK, RoundTypeOK, InHand
<1>5. HasAlias /\ HasSso /\ AtIdentity
  BY <1>1 DEF HasAlias, HasSso, HoldsSso, AtIdentity
<1>6. LastIsLate
  BY <1>1 DEF LastIsLate
<1>7. MutatesRecordedOnly
  BY <1>1 DEF MutatesRecordedOnly
<1> QED
  BY <1>4, <1>5, <1>6, <1>7 DEF MInv

\* The second invariant is inductive relative to the first.
LEMMA NextKeepsMInv == IInv /\ MInv /\ [Next]_vars => MInv'
<1> SUFFICES ASSUME IInv, MInv, [Next]_vars PROVE MInv'
  OBVIOUS
<1>1. HasAlias' /\ HasSso' /\ AtIdentity' /\ LastIsLate'
  BY NextKeepsHasAlias, NextKeepsHasSso, NextKeepsAtIdentity, NextKeepsLastIsLate DEF MInv
<1> QED
  BY <1>1, NextKeepsTypeOK, NextKeepsMutations DEF MInv

\* The types, the SSO a round has in hand and what it mutated hold throughout.
THEOREM MInvInvariant == Spec => []MInv
<1>1. Init => MInv
  BY InitMInv
<1> QED
  BY <1>1, IInvInvariant, NextKeepsMInv, PTL DEF Spec

\* The state of a worker, its browser and its records is well-typed, for any number of
\* rounds, aliases and configurations.
THEOREM TypeCorrect == Spec => []TypeOK
<1>1. MInv => TypeOK
  BY DEF MInv
<1> QED
  BY <1>1, MInvInvariant, PTL

\* Neither a protocol worker nor a reactivation accepts terms or sets a birth date for
\* an identity that is not the recorded one of the alias (_post_success_init,
\* activate_grok_web), unless CDP lets a cookie slip.
THEOREM MutatesRecordedOnlyHolds == Spec => []MutatesRecordedOnly
<1>1. MInv => MutatesRecordedOnly
  BY DEF MInv
<1> QED
  BY <1>1, MInvInvariant, PTL

\* After a stop, a reactivation begins one account at most (run_batch_activation).
THEOREM AtMostOneLateHolds == Spec => []AtMostOneLate
<1>1. MInv => AtMostOneLate
  BY DEF MInv, LastIsLate, AtMostOneLate
<1> QED
  BY <1>1, MInvInvariant, PTL

----------------------------------------------------------------------------
(* Browsers, where those that are started start *)

\* Nothing runs unmanaged.
Managed(c) == c \in Sane /\ c.orphans = 0

\* Where browsers start when told to, start() leaves none unmanaged.
LEMMA ManagedStarts ==
  ASSUME NEW c, Managed(c), c.window # "live"
  PROVE  Managed(Started(c)) /\ Started(c).window = "live"
<1>1. Started(c) \in Sane /\ Started(c).window = "live"
  BY SessionsStaySane DEF Managed
<1>2. Started(c).orphans = 0
  BY DEF Managed, Sane, Sessions, Started
<1> QED
  BY <1>1, <1>2 DEF Managed

\* stop() leaves no window.
LEMMA ManagedStops ==
  ASSUME NEW c, Managed(c)
  PROVE  Managed(Stopped(c)) /\ Stopped(c).window = "none"
<1>1. Stopped(c) \in Sane
  BY SessionsStaySane DEF Managed
<1>2. Stopped(c).orphans = 0 /\ Stopped(c).window = "none"
  BY DEF Managed, Sane, Sessions, Stopped
<1> QED
  BY <1>1, <1>2 DEF Managed

\* A browser that is started where there is none orphans none.
LEMMA ManagedStart ==
  ASSUME NEW c, Managed(c), c.window # "live", NEW fails \in BOOLEAN, ~fails, NEW o \in Starts(c, fails)
  PROVE  o.ok /\ Managed(o.chrome) /\ o.chrome.window = "live"
<1>1. o = Outcome(TRUE, Started(c))
  BY DEF Starts
<1>2. o.ok /\ o.chrome = Started(c)
  BY <1>1 DEF Outcome
<1> QED
  BY <1>2, ManagedStarts

\* restart() is the two in turn.
LEMMA ManagedRestart ==
  ASSUME NEW c, Managed(c), NEW fails \in BOOLEAN, ~fails, NEW o \in Restarts(c, fails)
  PROVE  o.ok /\ Managed(o.chrome) /\ o.chrome.window = "live"
BY ManagedStops, ManagedStart DEF Restarts

\* Opening a page leaves the window managed.
LEMMA ManagedPage ==
  ASSUME NEW c, Managed(c), NEW fails \in BOOLEAN, ~fails, NEW o \in Pages(c, fails)
  PROVE  /\ o.ok /\ Managed(o.chrome) /\ o.chrome.window # "none"
         /\ c.window # "none" => o.chrome = c
<1>1. CASE c.window = "none"
  BY <1>1, ManagedStart DEF Pages
<1>2. CASE c.window # "none"
  <2>1. o = Outcome(TRUE, c)
    BY <1>2 DEF Pages
  <2> QED
    BY <1>2, <2>1 DEF Outcome
<1> QED
  BY <1>1, <1>2

\* So does a refresh.
LEMMA ManagedRefresh ==
  ASSUME NEW c, Managed(c), NEW fails \in BOOLEAN, ~fails, NEW o \in Refreshes(c, fails)
  PROVE  o.ok /\ Managed(o.chrome)
<1>1. c.window \in {"none", "live", "dead"}
  BY DEF Managed, Sane, Sessions
<1>2. CASE c.window = "none"
  BY <1>2, ManagedStart DEF Refreshes
<1>3. CASE c.window = "live"
  BY <1>3 DEF Refreshes, Outcome
<1>4. CASE c.window = "dead"
  BY <1>4, ManagedRestart DEF Refreshes
<1> QED
  BY <1>1, <1>2, <1>3, <1>4

\* So does any use of the page.
LEMMA ManagedUse ==
  ASSUME NEW c, Managed(c), NEW fails \in BOOLEAN, ~fails, NEW o \in Uses(c, fails)
  PROVE  Managed(o.chrome)
<1>1. PICK p \in Pages(c, fails) : o = [p EXCEPT !.ok = p.ok /\ p.chrome.window = "live"]
  BY DEF Uses
<1>2. p \in Outs(c) /\ Managed(p.chrome)
  BY PageOuts, ManagedPage DEF Managed
<1>3. o.chrome = p.chrome
  BY <1>1, <1>2 DEF Outs
<1> QED
  BY <1>2, <1>3

\* So does clearing cookies.
LEMMA ManagedClears ==
  ASSUME NEW c, Managed(c), NEW slips \in BOOLEAN, NEW d \in Cleared(c, slips)
  PROVE  Managed(d) /\ d.window = c.window
<1>1. d \in Sane
  BY ClearedSessions DEF Managed
<1>2. d.orphans = 0 /\ d.window = c.window
  BY DEF Managed, Sane, Sessions, Cleared
<1> QED
  BY <1>1, <1>2 DEF Managed

\* So does the recycling of a browser worker.
LEMMA ManagedRecycles ==
  ASSUME NEW c, Managed(c), NEW r \in Recycled(c)
  PROVE  Managed(r)
<1>1. PICK e \in Cleared(c, May("cdp")) : r = e \/ r = [e EXCEPT !.kept = None]
  BY DEF Recycled
<1>2. r \in Sane
  BY RecycledSessions DEF Managed
<1>3. Managed(e)
  BY ManagedClears, FaultsAreBoolean
<1> QED
  BY <1>1, <1>2, <1>3 DEF Managed, Sane, Sessions

\* So does the switch of a reactivation to the next identity.
LEMMA ManagedSwitch ==
  ASSUME Managed(chrome), ~May("start"), NEW sso \in Identities \cup {None}, NEW o \in Switches(sso)
  PROVE  Managed(o.chrome)
<1>1. CASE o \in {IF p.ok THEN [p EXCEPT !.chrome.tab = sso] ELSE p : p \in Refreshes(chrome, May("start"))}
  <2>1. PICK p \in Refreshes(chrome, May("start")) : o = IF p.ok THEN [p EXCEPT !.chrome.tab = sso] ELSE p
    BY <1>1
  <2>2. p \in Outs(chrome) /\ p.chrome.window = "live" /\ p.ok /\ Managed(p.chrome)
    BY RefreshOuts, ManagedRefresh, FaultsAreBoolean DEF Managed
  <2>3. /\ o.chrome = [p.chrome EXCEPT !.tab = sso]
        /\ p.chrome \in Sane
    BY <2>1, <2>2 DEF Outs
  <2>4. o.chrome \in Sane /\ o.chrome.orphans = 0
    BY <2>2, <2>3 DEF Managed, Sane, Sessions
  <2> QED
    BY <2>4 DEF Managed
<1>2. CASE o = Outcome(TRUE, chrome)
  BY <1>2 DEF Outcome
<1> QED
  BY <1>1, <1>2 DEF Switches

\* The provider starts a browser over no live one, if it believes in the one it has.
LEMMA ManagedEnsure ==
  ASSUME Managed(chrome), net \in Transports, ~May("start"),
         chrome.window = "live" => net.up,
         NEW o \in Ensures
  PROVE  o.ok /\ o.up /\ Managed(o.chrome)
<1> DEFINE O == IF net.up THEN Pages(chrome, May("start")) ELSE Starts(chrome, May("start"))
<1>1. \A p \in O : p.ok /\ Managed(p.chrome)
  BY ManagedPage, ManagedStart, FaultsAreBoolean
<1>2. o \in Believed(O, net.up)
  BY DEF Ensures
<1> HIDE DEF O
<1>3. PICK p \in O : o = [ok |-> p.ok, chrome |-> p.chrome, up |-> net.up \/ p.ok]
  BY <1>2 DEF Believed
<1> QED
  BY <1>1, <1>3

\* A call through the provider leaves its browser in its hands.
LEMMA ManagedCall ==
  ASSUME Managed(chrome), net \in Transports, ~May("start"),
         ~net.pure => net.up,
         NEW o \in Calls
  PROVE  /\ Managed(o.chrome)
         /\ net.pure => o.chrome = chrome /\ o.up = net.up
         /\ ~net.pure => o.up
<1>1. CASE net.pure
  BY <1>1 DEF Calls
<1>2. CASE ~net.pure
  <2>1. PICK p \in Ensures : o = [p EXCEPT !.ok = IsUsable(p)]
    BY <1>2 DEF Calls
  <2>2. p.up /\ Managed(p.chrome)
    BY <1>2, ManagedEnsure
  <2>3. p \in ProviderOuts(chrome)
    BY EnsureOuts DEF Managed
  <2>4. o.chrome = p.chrome /\ o.up = p.up
    BY <2>1, <2>3 DEF ProviderOuts
  <2> QED
    BY <1>2, <2>2, <2>4
<1> QED
  BY <1>1, <1>2

\* So does _ensure_browser_ready.
LEMMA ManagedReady ==
  ASSUME Managed(chrome), net \in Transports, ~May("start"), net.up,
         NEW force \in BOOLEAN, NEW o \in Readies(force)
  PROVE  o.up /\ Managed(o.chrome)
<1>1. PICK p \in Pages(chrome, May("start")) :
        \/ o \in {[ok |-> TRUE, chrome |-> c, up |-> net.up] : c \in SoftResets(p.chrome)}
        \/ o \in Recycles(p.chrome)
  BY DEF Readies
<1>2. Managed(p.chrome)
  BY ManagedPage, FaultsAreBoolean
<1>3. CASE o \in {[ok |-> TRUE, chrome |-> c, up |-> net.up] : c \in SoftResets(p.chrome)}
  <2>1. PICK c \in SoftResets(p.chrome) : o = [ok |-> TRUE, chrome |-> c, up |-> net.up]
    BY <1>3
  <2> QED
    BY <1>2, <2>1, ManagedClears, FaultsAreBoolean DEF SoftResets
<1>4. CASE o \in Recycles(p.chrome)
  <2> DEFINE O == Starts(Stopped(p.chrome), May("start"))
  <2>1. \A q \in O : q.ok /\ Managed(q.chrome)
    BY <1>2, ManagedStops, ManagedStart, FaultsAreBoolean
  <2>2. o \in Believed(O, FALSE)
    BY <1>4 DEF Recycles
  <2> HIDE DEF O
  <2>3. PICK q \in O : o = [ok |-> q.ok, chrome |-> q.chrome, up |-> FALSE \/ q.ok]
    BY <2>2 DEF Believed
  <2> QED
    BY <2>1, <2>3
<1> QED
  BY <1>1, <1>3, <1>4

----------------------------------------------------------------------------
(* Accounting for browsers *)

Running == pc \notin {"boot", "unborn", "ended"}

\* A running protocol worker that has a browser, or talks through one, has it in the
\* hands of its provider, and knows that it was started.
HasTransport ==
    IsKind("protocol") /\ Running =>
        /\ chrome.window # "none" \/ ~net.pure => net.up /\ net.started
        /\ net.bound => net.started

AllManaged ==
    ~May("start") =>
        /\ chrome.orphans = 0
        /\ pc \in {"boot", "ended"} => chrome.window = "none"
        /\ HasTransport

\* What a step of a running protocol worker leaves.
Carries ==
    /\ Running' /\ chrome'.orphans = 0
    /\ (chrome'.window # "none" \/ ~net'.pure) => (net'.up /\ net'.started)
    /\ net'.bound => net'.started

\* A step that leaves browser and transport alone keeps both managed.
LEMMA CarriesManages ==
  ASSUME config' = config, Carries
  PROVE  AllManaged'
BY DEF Carries, AllManaged, HasTransport, Running, IsKind, May

\* What a running protocol worker has when its next step begins.
LEMMA RunningIsManaged ==
  ASSUME IInv, AllManaged, ~May("start"), IsKind("protocol"), Running
  PROVE  /\ Managed(chrome) /\ net \in Transports
         /\ chrome.window # "none" => net.up /\ net.started
         /\ ~net.pure => net.up /\ net.started
         /\ net.bound => net.started
         /\ chrome.window = "live" => net.up
<1>1. chrome.window = "live" => chrome.window # "none"
  OBVIOUS
<1> QED
  BY <1>1 DEF IInv, Types, AllManaged, HasTransport, Managed

\* A step that leaves browser and transport alone, within the loop.
LEMMA SettledManages ==
  ASSUME IInv, AllManaged, ~May("start"), IsKind("protocol"), Running, Running', UNCHANGED <<chrome, net>>
  PROVE  Carries
BY RunningIsManaged DEF Carries, Managed

\* A step that goes through the provider does too.
LEMMA BrowseManages ==
  ASSUME IInv, AllManaged, ~May("start"), IsKind("protocol"), Running, Running',
         NEW c, NEW up, Managed(c), chrome' = c,
         \/ net.pure /\ c = chrome /\ up = net.up
         \/ ~net.pure /\ up = TRUE,
         net' = [net EXCEPT !.up = up]
  PROVE  Carries
<1>1. net'.up = up /\ net'.started = net.started /\ net'.pure = net.pure /\ net'.bound = net.bound
  BY RunningIsManaged DEF Transports
<1> QED
  BY <1>1, RunningIsManaged DEF Carries, Managed

\* The steps in which the worker talks to xAI.
LEMMA TalkManages ==
  ASSUME IInv, AllManaged, ~May("start"), IsKind("protocol"), Running, Running',
         NEW o \in Calls, Browses(o)
  PROVE  Carries
<1>1. Managed(o.chrome) /\ (net.pure => o.chrome = chrome /\ o.up = net.up) /\ (~net.pure => o.up)
  BY RunningIsManaged, ManagedCall
<1>2. o.up \in BOOLEAN
  BY RunningIsManaged, CallOuts DEF Managed, ProviderOuts
<1>3. net.pure \/ ~net.pure
  OBVIOUS
<1> QED
  BY <1>1, <1>2, <1>3, BrowseManages DEF Browses

\* So does getting the browser ready, softly or by force.
LEMMA ResetManages ==
  ASSUME IInv, AllManaged, ~May("start"), IsKind("protocol"), Running, Running', ~net.pure,
         NEW force \in BOOLEAN, NEW o \in Readies(force), Browses(o)
  PROVE  Carries
<1>1. o.up /\ Managed(o.chrome)
  BY RunningIsManaged, ManagedReady
<1>2. o.up \in BOOLEAN
  BY RunningIsManaged, ReadyOuts DEF Managed, ProviderOuts
<1> QED
  BY <1>1, <1>2, BrowseManages DEF Browses

\* The bootstrap of a protocol worker.
LEMMA ProtocolBootsManage ==
  ASSUME IInv, AllManaged, ~May("start"), BootsPure \/ BootBlocked \/ BootsHybrid
  PROVE  AllManaged'
<1>1. /\ config' = config /\ pc = "boot" /\ pc' \in {"idle", "unborn"} /\ IsKind("protocol")
  BY DEF BootsPure, BootBlocked, BootsHybrid, Protocol, At, Goes
<1>2. Managed(chrome) /\ chrome.window = "none"
  BY <1>1 DEF IInv, Types, AllManaged, Managed
<1>3. CASE BootsPure
  <2>1. chrome' = chrome /\ net' = [jar |-> None, pure |-> TRUE, started |-> FALSE, up |-> FALSE, bound |-> FALSE]
    BY <1>3 DEF BootsPure, NoTransport
  <2>2. Running'
    BY <1>3 DEF BootsPure, Goes, Running
  <2> QED
    BY <1>1, <1>2, <2>1, <2>2, CarriesManages DEF Carries, Managed
<1>4. CASE BootBlocked
  <2>1. chrome' = chrome /\ pc' = "unborn"
    BY <1>4 DEF BootBlocked, Goes
  <2> QED
    BY <1>1, <1>2, <2>1 DEF AllManaged, HasTransport, Running, IsKind, May, Managed
<1>5. CASE BootsHybrid
  <2>1. PICK o \in Starts(chrome, May("start")) :
          /\ chrome' = o.chrome
          /\ \/ net' = [NoTransport EXCEPT !.started = TRUE, !.up = TRUE, !.bound = TRUE] /\ pc' = "idle"
             \/ pc' = "unborn"
    BY <1>5 DEF BootsHybrid, Goes
  <2>2. Managed(chrome') /\ chrome'.window = "live"
    BY <1>2, <2>1, ManagedStart, FaultsAreBoolean
  <2>3. CASE net' = [NoTransport EXCEPT !.started = TRUE, !.up = TRUE, !.bound = TRUE] /\ pc' = "idle"
    <3>1. net'.started /\ net'.up
      BY <2>3 DEF NoTransport
    <3> QED
      BY <1>1, <2>2, <2>3, <3>1, CarriesManages DEF Carries, Managed, Running
  <2>4. CASE pc' = "unborn"
    BY <1>1, <2>2, <2>4 DEF AllManaged, HasTransport, Running, IsKind, May, Managed
  <2> QED
    BY <2>1, <2>3, <2>4
<1> QED
  BY <1>3, <1>4, <1>5

\* A worker that leaves its loop stops the browser its provider has.
LEMMA ProtocolLeavesManages ==
  ASSUME IInv, AllManaged, ~May("start"), ProtocolLeaves
  PROVE  AllManaged'
<1>1. /\ config' = config /\ pc = "idle" /\ pc' = "ended" /\ IsKind("protocol")
      /\ chrome' = IF net.started /\ net.up THEN Stopped(chrome) ELSE chrome
  BY DEF ProtocolLeaves, LeavesLoop, At, Goes
<1>2. Managed(chrome) /\ (chrome.window # "none" => net.up /\ net.started)
  BY <1>1, RunningIsManaged DEF Running
<1>3. Managed(chrome') /\ chrome'.window = "none"
  BY <1>1, <1>2, ManagedStops
<1> QED
  BY <1>1, <1>3 DEF AllManaged, HasTransport, Running, IsKind, May, Managed

\* The ways to solve a Turnstile.
LEMMA SolvesManages ==
  ASSUME IInv, AllManaged, ~May("start"), SolvesExternally \/ SolvesInBrowser
  PROVE  Carries
<1>1. IsKind("protocol") /\ Running /\ Running'
  BY DEF SolvesExternally, SolvesInBrowser, PausedStep, RoundStep, Protocol, At, Running, Goes, LosesPage, Fails
<1>2. /\ Managed(chrome) /\ net \in Transports /\ (chrome.window = "live" => net.up)
      /\ chrome.window # "none" => net.up /\ net.started
      /\ net.bound => net.started
      /\ ~net.pure => net.up /\ net.started
  BY <1>1, RunningIsManaged
<1>3. ASSUME NEW o \in Ensures PROVE o.ok /\ o.up /\ Managed(o.chrome) /\ o \in ProviderOuts(chrome)
  BY <1>2, ManagedEnsure, EnsureOuts DEF Managed
<1>4. CASE SolvesExternally /\ net.pure
  BY <1>1, <1>4, SettledManages DEF SolvesExternally
<1>5. CASE SolvesExternally /\ ~net.pure
  <2>1. PICK o \in Ensures : chrome' = o.chrome /\ net' = [net EXCEPT !.up = o.up]
    BY <1>5 DEF SolvesExternally, Browses
  <2>2. o.up = TRUE /\ Managed(o.chrome)
    BY <1>3 DEF ProviderOuts
  <2> QED
    BY <1>1, <1>5, <2>1, <2>2, BrowseManages
<1>6. CASE SolvesInBrowser
  <2>1. PICK o \in Ensures, solved \in BOOLEAN :
          /\ chrome' = o.chrome
          /\ net' = [net EXCEPT !.up = o.up,
                                !.started = @ \/ o.ok,
                                !.bound = @ \/ o.ok,
                                !.jar = IF IsUsable(o) /\ solved /\ o.chrome.tab # None THEN o.chrome.tab ELSE @]
    BY <1>6 DEF SolvesInBrowser
  <2>2. o.ok /\ o.up /\ Managed(o.chrome)
    BY <1>3
  <2>3. net'.up = o.up /\ net'.started = (net.started \/ o.ok)
    BY <1>2, <2>1 DEF Transports
  <2> QED
    BY <1>1, <2>1, <2>2, <2>3 DEF Carries, Managed
<1> QED
  BY <1>4, <1>5, <1>6

\* The submission of the form, over the jar or the browser.
LEMMA SubmitsManages ==
  ASSUME IInv, AllManaged, ~May("start"), SubmitsSignup
  PROVE  Carries
<1>1. IsKind("protocol") /\ Running /\ Running'
  BY DEF SubmitsSignup, RoundStep, Protocol, At, Running, Goes, LosesPage, Fails
<1>2. PICK o \in Calls, cookie \in BOOLEAN :
        \/ /\ chrome' = IF cookie /\ ~net.pure THEN [o.chrome EXCEPT !.tab = round.alias] ELSE o.chrome
           /\ net' = [net EXCEPT !.up = o.up, !.jar = IF cookie /\ net.pure THEN round.alias ELSE @]
        \/ Browses(o)
  BY DEF SubmitsSignup
<1>3. CASE Browses(o)
  BY <1>1, <1>3, TalkManages
<1>4. CASE /\ chrome' = IF cookie /\ ~net.pure THEN [o.chrome EXCEPT !.tab = round.alias] ELSE o.chrome
           /\ net' = [net EXCEPT !.up = o.up, !.jar = IF cookie /\ net.pure THEN round.alias ELSE @]
  <2>1. /\ Managed(chrome) /\ net \in Transports /\ (net.bound => net.started)
        /\ ~net.pure => net.up /\ net.started
        /\ chrome.window # "none" => net.up /\ net.started
    BY <1>1, RunningIsManaged
  <2>2. Managed(o.chrome) /\ (net.pure => o.chrome = chrome /\ o.up = net.up) /\ (~net.pure => o.up)
    BY <2>1, ManagedCall
  <2>3. net'.up = o.up /\ net'.started = net.started /\ net'.pure = net.pure /\ net'.bound = net.bound
    BY <1>4, <2>1 DEF Transports
  <2>4. chrome'.orphans = 0 /\ chrome'.window = o.chrome.window
    BY <1>4, <2>2 DEF Managed, Sane, Sessions
  <2> QED
    BY <1>1, <2>1, <2>2, <2>3, <2>4 DEF Carries
<1> QED
  BY <1>2, <1>3, <1>4

\* The ways to the session cookie.
LEMMA ExtractsManage ==
  ASSUME IInv, AllManaged, ~May("start"), ReadsCookie \/ FollowsOverHttp \/ Navigates \/ FindsNoSso
  PROVE  Carries
<1>1. IsKind("protocol") /\ Running /\ Running'
  BY DEF ReadsCookie, FollowsOverHttp, Navigates, FindsNoSso, RoundStep, Protocol, At, Running, Takes, Fails
<1>2. /\ Managed(chrome) /\ net \in Transports /\ (chrome.window = "live" => net.up)
      /\ chrome.window # "none" => net.up /\ net.started
      /\ net.bound => net.started
      /\ ~net.pure => net.up /\ net.started
  BY <1>1, RunningIsManaged
<1>3. CASE ReadsCookie \/ FindsNoSso
  BY <1>1, <1>3, SettledManages DEF ReadsCookie, FindsNoSso
<1>4. CASE FollowsOverHttp /\ net.pure
  <2>1. chrome' = chrome /\ net' = [net EXCEPT !.jar = round.alias]
    BY <1>4 DEF FollowsOverHttp
  <2>2. net'.up = net.up /\ net'.started = net.started /\ net'.pure = net.pure /\ net'.bound = net.bound
    BY <1>2, <2>1 DEF Transports
  <2> QED
    BY <1>1, <1>2, <2>1, <2>2 DEF Carries, Managed
<1>5. CASE FollowsOverHttp /\ ~net.pure
  <2>1. chrome' = [chrome EXCEPT !.tab = round.alias] /\ net' = net
    BY <1>5 DEF FollowsOverHttp
  <2>2. chrome'.orphans = 0 /\ chrome'.window = chrome.window
    BY <1>2, <2>1 DEF Managed, Sane, Sessions
  <2> QED
    BY <1>1, <1>2, <2>1, <2>2 DEF Carries
<1>6. CASE Navigates
  <2>1. PICK o \in Ensures :
          /\ \/ chrome' = [o EXCEPT !.chrome.tab = round.alias].chrome
                /\ net' = [net EXCEPT !.up = [o EXCEPT !.chrome.tab = round.alias].up]
             \/ chrome' = o.chrome /\ net' = [net EXCEPT !.up = o.up]
    BY <1>6 DEF Navigates, Browses
  <2>2. o.up /\ Managed(o.chrome) /\ o \in ProviderOuts(chrome) /\ net.bound
    BY <1>2, <1>6, ManagedEnsure, EnsureOuts DEF Managed, Navigates
  <2>3. net' = [net EXCEPT !.up = o.up] /\ chrome'.orphans = 0
    BY <2>1, <2>2 DEF ProviderOuts, Managed, Sane, Sessions
  <2>4. net'.up = o.up /\ net'.started = net.started
    BY <1>2, <2>3 DEF Transports
  <2> QED
    BY <1>1, <1>2, <2>2, <2>3, <2>4 DEF Carries
<1> QED
  BY <1>3, <1>4, <1>5, <1>6

\* The opening of a round, pure or hybrid.
LEMMA OpensManage ==
  ASSUME IInv, AllManaged, ~May("start"), OpensPure \/ OpensHybrid
  PROVE  Carries
<1>1. IsKind("protocol") /\ Running /\ Running'
  BY DEF OpensPure, OpensHybrid, PausedStep, RoundStep, Protocol, At, Running, Goes, LosesPage, Fails
<1>2. /\ Managed(chrome) /\ net \in Transports
      /\ chrome.window # "none" => net.up /\ net.started
      /\ ~net.pure => net.up /\ net.started
  BY <1>1, RunningIsManaged
<1>3. CASE OpensPure
  <2>1. chrome' = chrome /\ net.pure /\ net' = [net EXCEPT !.jar = None, !.bound = net.started]
    BY <1>3 DEF OpensPure
  <2>2. net'.up = net.up /\ net'.started = net.started /\ net'.pure = net.pure /\ net'.bound = net.started
    BY <1>2, <2>1 DEF Transports
  <2> QED
    BY <1>1, <1>2, <2>1, <2>2 DEF Carries, Managed
<1>4. CASE OpensHybrid
  <2>1. PICK o \in Readies(FALSE) : chrome' = o.chrome /\ net' = [net EXCEPT !.jar = None, !.up = o.up]
    BY <1>4 DEF OpensHybrid
  <2>2. net.up /\ net.started
    BY <1>2, <1>4 DEF OpensHybrid
  <2>3. o.up /\ Managed(o.chrome)
    BY <1>2, <2>2, ManagedReady
  <2>4. net'.up = o.up /\ net'.started = net.started
    BY <1>2, <2>1 DEF Transports
  <2> QED
    BY <1>1, <2>1, <2>2, <2>3, <2>4 DEF Carries, Managed
<1> QED
  BY <1>3, <1>4

\* All steps of a protocol worker.
LEMMA ProtocolManages ==
  ASSUME IInv, AllManaged, ~May("start"), ProtocolStep
  PROVE  AllManaged'
<1>c. config' = config /\ IsKind("protocol")
  BY ProtocolFrame
<1>1. CASE BootsPure \/ BootBlocked \/ BootsHybrid
  BY <1>1, ProtocolBootsManage
<1>2. CASE ProtocolLeaves
  BY <1>2, ProtocolLeavesManages
<1>3. ASSUME NEW a \in Aliases, ProtocolClaims(a) PROVE AllManaged'
  <2>1. Running /\ Running' /\ chrome' = chrome /\ net' = net
    BY <1>3 DEF ProtocolClaims, Claim, At, Running
  <2> QED
    BY <1>c, <2>1, SettledManages, CarriesManages
<1>4. CASE StopsForLease \/ FailsToSolve
  <2>1. Running /\ Running' /\ chrome' = chrome /\ net' = net
    BY <1>4 DEF StopsForLease, FailsToSolve, PausedStep, RoundStep, Protocol, At, Running, Fails, PauseSteps
  <2> QED
    BY <1>c, <2>1, SettledManages, CarriesManages
<1>5. CASE OpensPure \/ OpensHybrid
  BY <1>c, <1>5, OpensManage, CarriesManages
<1>6. CASE SendsCode \/ VerifiesCode
  <2>1. Running /\ Running'
    BY <1>6 DEF SendsCode, VerifiesCode, PausedStep, RoundStep, Protocol, At, Running, Goes, Fails, LosesPage
  <2>2. \E o \in Calls : Browses(o)
    BY <1>6 DEF SendsCode, VerifiesCode
  <2> QED
    BY <1>c, <2>1, <2>2, TalkManages, CarriesManages
<1>7. CASE SolvesExternally \/ SolvesInBrowser
  BY <1>c, <1>7, SolvesManages, CarriesManages
<1>8. CASE SubmitsSignup
  BY <1>c, <1>8, SubmitsManages, CarriesManages
<1>9. CASE ReadsCookie \/ FollowsOverHttp \/ Navigates \/ FindsNoSso
  BY <1>c, <1>9, ExtractsManage, CarriesManages
<1>10. CASE ProtocolChecks \/ ProtocolCommits
  <2>1. Running /\ Running' /\ chrome' = chrome /\ net' = net
    BY <1>c, <1>10 DEF ProtocolChecks, ChecksDuplicate, ProtocolCommits, CommitsSuccess, RoundStep, Protocol,
       At, Running, Goes, Fails
  <2> QED
    BY <1>c, <2>1, SettledManages, CarriesManages
<1>11. CASE InitsAccount \/ ProtocolHandlerFails
  <2>1. Running /\ Running' /\ chrome' = chrome /\ net' = net
    BY <1>11 DEF InitsAccount, ProtocolHandlerFails, Protocol, At, Running, Goes, EndsRound
  <2> QED
    BY <1>c, <2>1, SettledManages, CarriesManages
<1>12. CASE EndsSuccess \/ HandlesFailure
  <2>1. Running /\ Running'
    BY <1>12 DEF EndsSuccess, HandlesFailure, Protocol, At, Running, EndsRound
  <2>2. \/ chrome' = chrome /\ net' = net
        \/ ~net.pure /\ \E force \in BOOLEAN : \E o \in Readies(force) : Browses(o)
    BY <1>12 DEF EndsSuccess, HandlesFailure
  <2>3. ASSUME chrome' = chrome, net' = net PROVE AllManaged'
    BY <1>c, <2>1, <2>3, SettledManages, CarriesManages
  <2>4. ASSUME ~net.pure, NEW force \in BOOLEAN, NEW o \in Readies(force), Browses(o) PROVE AllManaged'
    BY <1>c, <2>1, <2>4, ResetManages, CarriesManages
  <2> QED
    BY <2>2, <2>3, <2>4
<1> QED
  BY <1>1, <1>2, <1>3, <1>4, <1>5, <1>6, <1>7, <1>8, <1>9, <1>10, <1>11, <1>12 DEF ProtocolStep

\* A worker of another kind needs no transport.
LEMMA OtherManages ==
  ASSUME config' = config, ~IsKind("protocol"), chrome'.orphans = 0,
         pc' \in {"boot", "ended"} => chrome'.window = "none"
  PROVE  AllManaged'
BY DEF AllManaged, HasTransport, IsKind

\* The refresh between two rounds of a browser worker.
LEMMA ManagedRefreshed ==
  ASSUME Managed(chrome), ~May("start"), NEW o \in Refreshed
  PROVE  Managed(o.chrome)
<1>1. PICK p \in Refreshes(chrome, May("start")) : o \in IF p.ok THEN {p} ELSE Starts(p.chrome, May("start"))
  BY DEF Refreshed
<1>2. p.ok /\ Managed(p.chrome)
  BY ManagedRefresh, FaultsAreBoolean
<1> QED
  BY <1>1, <1>2

\* All steps of a browser worker.
LEMMA BrowserManages ==
  ASSUME IInv, AllManaged, ~May("start"), BrowserStep
  PROVE  AllManaged'
<1>c. config' = config /\ ~IsKind("protocol")
  BY BrowserFrame DEF IsKind
<1>m. Managed(chrome) /\ (pc = "boot" => chrome.window = "none")
  BY DEF IInv, Types, AllManaged, Managed
<1>b. May("start") \in BOOLEAN /\ May("cdp") \in BOOLEAN
  BY FaultsAreBoolean
<1>k. ASSUME Managed(chrome'), pc' \notin {"boot", "ended"} PROVE AllManaged'
  BY <1>c, <1>k, OtherManages DEF Managed
<1>1. CASE BrowserBoots
  <2>1. PICK o \in Starts(chrome, May("start")) : chrome' = o.chrome /\ Goes(IF o.ok THEN "idle" ELSE "unborn")
    BY <1>1 DEF BrowserBoots
  <2>2. pc = "boot"
    BY <1>1 DEF BrowserBoots, Browser, At
  <2>3. Managed(o.chrome)
    BY <1>m, <1>b, <2>2, ManagedStart
  <2> QED
    BY <1>k, <2>1, <2>3 DEF Goes
<1>2. CASE BrowserLeaves
  <2>1. chrome' = Stopped(chrome)
    BY <1>2 DEF BrowserLeaves
  <2>2. Managed(chrome') /\ chrome'.window = "none"
    BY <1>m, <2>1, ManagedStops
  <2> QED
    BY <1>c, <2>2, OtherManages DEF Managed
<1>3. ASSUME NEW a \in Aliases, BrowserClaims(a) PROVE AllManaged'
  BY <1>k, <1>m, <1>3 DEF BrowserClaims, Claim
<1>4. CASE OpensSignupPage \/ ExtractsSso
  <2>1. pc' \notin {"boot", "ended"}
    BY <1>4 DEF OpensSignupPage, ExtractsSso, Goes, Fails, Takes
  <2>2. PICK o \in Refreshed : chrome' = o.chrome
    BY <1>4 DEF OpensSignupPage, ExtractsSso
  <2> QED
    BY <1>k, <1>m, <2>1, <2>2, ManagedRefreshed
<1>5. CASE FillsEmail
  <2>1. pc' \notin {"boot", "ended"}
    BY <1>5 DEF FillsEmail, Goes, Fails
  <2>2. PICK o \in Uses(chrome, May("start")) : chrome' = o.chrome
    BY <1>5 DEF FillsEmail
  <2> QED
    BY <1>k, <1>m, <1>b, <2>1, <2>2, ManagedUse
<1>6. CASE FillsCode \/ FailsProfile
  <2>1. pc' \notin {"boot", "ended"}
    BY <1>6 DEF FillsCode, FailsProfile, Goes, Fails
  <2>2. chrome' = chrome \/ \E o \in Refreshed : chrome' = o.chrome
    BY <1>6 DEF FillsCode, FailsProfile, Outcome
  <2> QED
    BY <1>k, <1>m, <2>1, <2>2, ManagedRefreshed
<1>7. CASE StartsProfile \/ CompletesProfile \/ BrowserChecks \/ BrowserCommits \/ BrowserHandlerFails
  <2>1. pc' \notin {"boot", "ended"} /\ chrome' = chrome
    BY <1>c, <1>7 DEF StartsProfile, CompletesProfile, BrowserChecks, ChecksDuplicate, BrowserCommits, CommitsSuccess,
       BrowserHandlerFails, Goes, Fails, EndsRound
  <2> QED
    BY <1>k, <1>m, <2>1
<1>8. CASE RecoversExisting \/ SubmitsProfile
  <2>1. pc' \notin {"boot", "ended"}
    BY <1>8 DEF RecoversExisting, SubmitsProfile, Goes, Fails
  <2>2. chrome' = chrome \/ chrome' = [chrome EXCEPT !.tab = round.alias]
    BY <1>8 DEF RecoversExisting, SubmitsProfile
  <2>3. chrome'.orphans = 0
    BY <1>m, <2>2 DEF Managed, Sane, Sessions
  <2> QED
    BY <1>c, <2>1, <2>3, OtherManages
<1>9. CASE ActivatesNewAccount
  <2>1. pc' \notin {"boot", "ended"} /\ round.sso \in Identities \cup {None}
    BY <1>9 DEF ActivatesNewAccount, Goes, IInv, Types, Rounds
  <2>2. chrome' = chrome \/ \E o \in Switches(round.sso) : chrome' = o.chrome
    BY <1>9 DEF ActivatesNewAccount
  <2> QED
    BY <1>k, <1>m, <2>1, <2>2, ManagedSwitch
<1>10. CASE RecyclesBrowser
  <2>1. pc' \notin {"boot", "ended"}
    BY <1>10 DEF RecyclesBrowser, EndsRound
  <2>2. \/ chrome' = chrome
        \/ \E p \in Pages(chrome, May("start")) :
             chrome' \in IF p.ok THEN Recycled(p.chrome) ELSE {p.chrome}
    BY <1>10 DEF RecyclesBrowser
  <2>3. ASSUME NEW p \in Pages(chrome, May("start")),
               chrome' \in IF p.ok THEN Recycled(p.chrome) ELSE {p.chrome}
        PROVE  Managed(chrome')
    BY <1>m, <1>b, <2>3, ManagedPage, ManagedRecycles
  <2> QED
    BY <1>k, <1>m, <2>1, <2>2, <2>3
<1>11. CASE BrowserHandlesFailure
  <2>1. pc' \notin {"boot", "ended"}
    BY <1>11 DEF BrowserHandlesFailure, EndsRound
  <2>2. \/ chrome' = chrome
        \/ \E p \in Pages(chrome, May("start")) :
             \E o \in IF p.ok THEN Restarts(p.chrome, May("start")) ELSE {p} : chrome' = o.chrome
    BY <1>11 DEF BrowserHandlesFailure
  <2>3. ASSUME NEW p \in Pages(chrome, May("start")),
               NEW o \in IF p.ok THEN Restarts(p.chrome, May("start")) ELSE {p}, chrome' = o.chrome
        PROVE  Managed(chrome')
    BY <1>m, <1>b, <2>3, ManagedPage, ManagedRestart
  <2> QED
    BY <1>k, <1>m, <2>1, <2>2, <2>3
<1> QED
  BY <1>1, <1>2, <1>3, <1>4, <1>5, <1>6, <1>7, <1>8, <1>9, <1>10, <1>11 DEF BrowserStep

\* Clearing identity cookies leaves the window managed.
LEMMA ManagedIdentityClears ==
  ASSUME Managed(chrome), ~May("start"), NEW d \in ClearedIdentity
  PROVE  Managed(d)
<1>1. PICK o \in Pages(chrome, May("start")) :
        d \in IF o.ok THEN Cleared(o.chrome, May("cdp")) ELSE {o.chrome}
  BY DEF ClearedIdentity
<1> QED
  BY <1>1, ManagedPage, ManagedClears, FaultsAreBoolean

\* All steps of a reactivation.
LEMMA BatchManages ==
  ASSUME IInv, MInv, AllManaged, ~May("start"), BatchStep
  PROVE  AllManaged'
<1>c. config' = config /\ ~IsKind("protocol")
  BY BatchFrame DEF IsKind
<1>m. Managed(chrome) /\ (pc = "boot" => chrome.window = "none")
  BY DEF IInv, Types, AllManaged, Managed
<1>k. ASSUME Managed(chrome'), pc' \notin {"boot", "ended"} PROVE AllManaged'
  BY <1>c, <1>k, OtherManages DEF Managed
<1>1. CASE BatchBoots
  <2>1. PICK o \in Starts(chrome, May("start")) : chrome' = o.chrome /\ Goes(IF o.ok THEN "idle" ELSE "unborn")
    BY <1>1 DEF BatchBoots
  <2>2. pc = "boot"
    BY <1>1 DEF BatchBoots, Batch, At
  <2>3. Managed(o.chrome)
    BY <1>m, <2>2, ManagedStart, FaultsAreBoolean
  <2> QED
    BY <1>k, <2>1, <2>3 DEF Goes
<1>2. CASE BatchEnds
  <2>1. chrome' = Stopped(chrome)
    BY <1>2 DEF BatchEnds
  <2>2. Managed(chrome') /\ chrome'.window = "none"
    BY <1>m, <2>1, ManagedStops
  <2> QED
    BY <1>c, <2>2, OtherManages DEF Managed
<1>3. CASE (\E a \in Aliases : TakesRecord(a)) \/ PassesChallenge \/ InitsHistoricAccount
  <2>1. pc' \notin {"boot", "ended"} /\ chrome' = chrome
    BY <1>3 DEF TakesRecord, PassesChallenge, InitsHistoricAccount, Goes
  <2> QED
    BY <1>k, <1>m, <2>1
<1>4. CASE BeginsActivation \/ EndsActivation
  <2>1. pc' \notin {"boot", "ended"} /\ (chrome' = chrome \/ chrome' \in ClearedIdentity)
    BY <1>4 DEF BeginsActivation, EndsActivation, Goes, EndsRound
  <2> QED
    BY <1>k, <1>m, <2>1, ManagedIdentityClears
<1>5. CASE SwitchesIdentity
  <2>1. PICK o \in Switches(round.alias) : chrome' = o.chrome
    BY <1>5 DEF SwitchesIdentity
  <2>2. pc' \notin {"boot", "ended"} /\ round.alias \in Aliases
    BY <1>5 DEF SwitchesIdentity, Goes, Batch, At, MInv, HasAlias
  <2> QED
    BY <1>k, <1>m, <2>1, <2>2, ManagedSwitch DEF Identities
<1> QED
  BY <1>1, <1>2, <1>3, <1>4, <1>5 DEF BatchStep

\* The environment starts no browser.
LEMMA EnvironmentManages ==
  ASSUME IInv, AllManaged, ~May("start"), Environment, net' = net
  PROVE  AllManaged'
<1>c. config' = config /\ pc' = pc
  BY EnvironmentFrame
<1>1. chrome'.orphans = chrome.orphans /\ (chrome'.window = "none" <=> chrome.window = "none")
  <2>1. chrome \in Sane
    BY DEF IInv, Types
  <2>2. CASE PageDies
    BY <2>1, <2>2 DEF PageDies, Sane, Sessions
  <2>3. CASE SiteStores
    <3>1. PICK value \in Tokens \cup ({chrome.tab} \ {None}) : chrome' = [chrome EXCEPT !.kept = value]
      BY <2>3 DEF SiteStores
    <3> QED
      BY <2>1, <3>1 DEF Sane, Sessions
  <2>4. CASE CookieArrives
    BY <2>1, <2>4 DEF CookieArrives, Sane, Sessions
  <2> QED
    BY <2>2, <2>3, <2>4 DEF Environment, RequestStop, RequestPause, LoseLease, workerVars
<1> QED
  BY <1>c, <1>1 DEF AllManaged, HasTransport, Running, IsKind, May

\* The invariant of the browsers is inductive, with the types.
LEMMA NextKeepsManaged ==
  ASSUME IInv, MInv, AllManaged, [Next]_vars PROVE AllManaged'
<1> SUFFICES ASSUME ~May("start") PROVE AllManaged'
  BY ConfigStays DEF AllManaged, May
<1>1. CASE ProtocolStep
  BY <1>1, ProtocolManages
<1>2. CASE BrowserStep
  BY <1>2, BrowserManages
<1>3. CASE BatchStep
  BY <1>3, BatchManages
<1>4. CASE Environment /\ net' = net
  BY <1>4, EnvironmentManages
<1>5. CASE UNCHANGED vars
  BY <1>5 DEF vars, AllManaged, HasTransport, Running, IsKind, May
<1> QED
  BY <1>1, <1>2, <1>3, <1>4, <1>5 DEF Next, Worker

\* Where browsers start when told to, each is in the hands of its worker.
THEOREM ManagedInvariant == Spec => []AllManaged
<1>1. Init => AllManaged
  BY DEF Init, RoundInit, AllManaged, HasTransport, Running, NoBrowser
<1>2. IInv /\ MInv /\ AllManaged /\ [Next]_vars => AllManaged'
  BY NextKeepsManaged
<1> QED
  BY <1>1, <1>2, IInvInvariant, MInvInvariant, PTL DEF Spec

\* Strict mode opens no browser; elsewhere none runs unmanaged, and a worker that leaves
\* its loop leaves none (BrowserManager, _shutdown_transport, ensure_started).
THEOREM BrowsersAreAccountedHolds == Spec => []BrowsersAreAccounted
<1>1. IInv => StrictOpensNoBrowser
  BY DEF IInv, StrictTransport, IsStrict, StrictOpensNoBrowser
<1>2. AllManaged => NoBrowserLeft
  BY DEF AllManaged, NoBrowserLeft, At
<1> QED
  BY <1>1, <1>2, IInvInvariant, ManagedInvariant, PTL DEF BrowsersAreAccounted
=============================================================================
