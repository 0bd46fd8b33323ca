-------------------------- MODULE VerificationMail --------------------------
(***************************************************************************)
(* core/email_manager.py and core/mail_providers.py: how a round finds the *)
(* verification mail xAI sent for its alias.  Several aliases share a      *)
(* Microsoft mailbox; a round looks at the newest messages, a few times,   *)
(* and tells them apart by id, by time and by recipient.  The mail servers *)
(* are external: mail is late or lost, its time stamp is off, and a        *)
(* recipient is rewritten to the mailbox's main address or left out, for   *)
(* good or until a later look.                                             *)
(***************************************************************************)
EXTENDS Naturals, Sequences, FiniteSets, FiniteSetsExt

CONSTANTS
    None,
    Workers,
    Boxes,
    Aliases,
    Mains,         \* aliases that are a mailbox's own address; others are plus addresses
    BoxOf,         \* the mailbox an alias is delivered to
    Apis,          \* assignments of an API to each mailbox: graph, imap or temp
    Window,        \* newest messages a look returns (25, 40 or 20)
    SeenLimit,     \* known ids before the set is trimmed (2000)
    SeenKept,      \* ids a trimmed set keeps (1000)
    Tolerance,     \* clock tolerance towards Microsoft's stamps (5 s)
    MaxSkew,       \* bound: how far a stamp is behind the clock
    MaxPolls,
    MaxRequests,   \* bound: codes requested
    MaxMail,       \* bound: messages per mailbox
    MaxTime        \* bound: the clock

ASSUME MailAssumption ==
    /\ Mains \subseteq Aliases
    /\ BoxOf \in [Aliases -> Boxes]
    /\ \A b \in Boxes : \E a \in Mains : BoxOf[a] = b
    /\ None \notin Aliases \cup (Boxes \X (1 .. MaxMail))
    /\ Apis \subseteq [Boxes -> {"graph", "imap", "temp"}]
    /\ SeenKept \in 0 .. SeenLimit
    /\ {Window, SeenLimit, Tolerance, MaxSkew, MaxPolls, MaxRequests, MaxMail, MaxTime} \subseteq Nat
    /\ MaxPolls # 0

VARIABLES
    api,        \* the API of each mailbox, fixed
    clock,
    mail,       \* messages of each mailbox, oldest first
    travelling, \* mail that is sent and not delivered
    requests,   \* codes requested so far
    seen,       \* _seen_message_ids, by API; the providers' own for temporary mailboxes
    trimmed,    \* ids were forgotten
    round,      \* what each worker's round does; missed: its mail, at the last look
    returned    \* messages whose code was handed out

vars == <<api, clock, mail, travelling, requests, seen, trimmed, round, returned>>
postVars == <<mail, travelling, requests>>

Shown == {"exact", "main", "none"}
Letters == [to : Aliases \cup {None}, request : 0 .. MaxRequests, stamp : 0 .. MaxTime,
            shown : Shown, completed : BOOLEAN]
Places == Boxes \X (1 .. MaxMail)
Ids == Places \cup ({"imap"} \X (1 .. MaxMail))

NoRound == [pc |-> "idle", alias |-> None, request |-> 0, asked |-> 0, known |-> {}, polls |-> 0,
            missed |-> {}, code |-> None, leased |-> FALSE, alone |-> TRUE]
Rounds == [pc : {"idle", "asked", "polling", "got", "failed"}, alias : Aliases \cup {None},
           request : 0 .. MaxRequests, asked : 0 .. MaxTime, known : SUBSET Ids, polls : 0 .. MaxPolls,
           missed : SUBSET (1 .. MaxMail), code : Places \cup {None},
           leased : BOOLEAN, alone : BOOLEAN]

Init ==
    /\ api \in Apis
    /\ clock = 0
    /\ mail = [b \in Boxes |-> <<>>]
    /\ travelling = {}
    /\ requests = 0
    /\ seen = [k \in {"graph", "imap", "temp"} |-> {}]
    /\ trimmed = FALSE
    /\ round = [w \in Workers |-> NoRound]
    /\ returned = {}

\* Type invariant of the mailboxes, the rounds and the known ids, which stay
\* within their limit.
TypeOK ==
    /\ api \in Apis
    /\ clock \in 0 .. MaxTime
    /\ DOMAIN mail = Boxes
    /\ \A b \in Boxes : Len(mail[b]) <= MaxMail /\ \A i \in DOMAIN mail[b] : mail[b][i] \in Letters
    /\ travelling \subseteq Aliases \X (1 .. MaxRequests)
    /\ requests \in 0 .. MaxRequests
    /\ seen \in [{"graph", "imap", "temp"} -> SUBSET Ids]
    /\ \A k \in {"graph", "imap"} : Cardinality(seen[k]) <= SeenLimit
    /\ trimmed \in BOOLEAN
    /\ round \in [Workers -> Rounds]
    /\ returned \subseteq Places

----------------------------------------------------------------------------
(* Ids, times and recipients *)

\* _message_fingerprint: the message's id, or its number within the mailbox.
Fingerprint(b, i) == IF api[b] = "imap" THEN <<"imap", i>> ELSE <<b, i>>

\* Mutant: the time the code was requested, to the second.
CutoffAtRequest(b, asked) == asked

\* Older mail is of an earlier round.
Cutoff(b, asked) ==
    IF api[b] = "temp" THEN asked ELSE IF asked < Tolerance THEN 0 ELSE asked - Tolerance

IsCode(m) == m.to # None
MainOf(b) == CHOOSE a \in Mains : BoxOf[a] = b

\* _graph_recipients, _outlook_recipients, _imap_recipients.
Recipients(b, m) ==
    CASE m.shown = "exact" -> {m.to}
      [] m.shown = "main" -> {MainOf(b)}
      [] m.shown = "none" -> {}

\* _recipient_match: the alias itself; a rewritten plus address and a message
\* without recipients are ambiguous.
IsFor(b, m, a) ==
    a \in Recipients(b, m) \/ (api[b] = "temp" /\ Recipients(b, m) = {})
IsAmbiguous(b, m, a) ==
    /\ ~IsFor(b, m, a)
    /\ Recipients(b, m) = {} \/ (a \notin Mains /\ MainOf(b) \in Recipients(b, m))

\* Mutant: a plus address takes an ambiguous message too.
TakesAnyAmbiguous(b, a) == api[b] # "temp"

\* _allow_ambiguous_recipient_fallback
TakesAmbiguous(b, a) == api[b] # "temp" /\ a \in Mains

----------------------------------------------------------------------------
(* A look into a mailbox *)

Newest(b) == {i \in DOMAIN mail[b] : i + Window > Len(mail[b])}
Unread(b, known) == {i \in Newest(b) : Fingerprint(b, i) \notin known}
Fresh(b, known, asked) == {i \in Unread(b, known) : mail[b][i].stamp >= Cutoff(b, asked)}

\* The newest message for the alias, or the only ambiguous one.
Found(b, a, known, asked) ==
    LET codes == {i \in Fresh(b, known, asked) : IsCode(mail[b][i])}
        exact == {i \in codes : IsFor(b, mail[b][i], a)}
        maybe == {i \in codes : IsAmbiguous(b, mail[b][i], a)}
    IN  IF exact # {} THEN Max(exact)
        ELSE IF TakesAmbiguous(b, a) /\ Cardinality(maybe) = 1 THEN Max(maybe) ELSE 0

\* Whether the message is known after it was looked at.  Graph and Outlook:
\* every code, and what is no code.  IMAP: what is too old, no code, or taken.
\* A temporary mailbox: the same.
Marks(b, i, a, asked, found) ==
    IF api[b] = "graph" THEN mail[b][i].stamp >= Cutoff(b, asked)
    ELSE mail[b][i].stamp < Cutoff(b, asked) \/ ~IsCode(mail[b][i]) \/ i = found

\* Newest first: what is older than an exact match is not reached.
Marked(b, a, known, asked) ==
    LET found == Found(b, a, known, asked)
        stop == IF found # 0 /\ IsFor(b, mail[b][found], a) THEN found ELSE 0
    IN  {Fingerprint(b, i) : i \in {j \in Unread(b, known) : j >= stop /\ Marks(b, j, a, asked, found)}}

Active(w) == round[w].pc # "idle"
Finished(r, pc) ==
    [r EXCEPT !.pc = pc, !.request = 0, !.asked = 0, !.known = {}, !.polls = 0, !.missed = {}]

\* A look without a code: the last one ends the wait.
Looked(r, known, missed) ==
    IF r.polls + 1 = MaxPolls THEN [Finished(r, "failed") EXCEPT !.missed = missed]
    ELSE [r EXCEPT !.polls = @ + 1, !.known = known, !.missed = missed]

Box(w) == BoxOf[round[w].alias]
Known(w) == IF api[Box(w)] = "temp" THEN seen["temp"] ELSE round[w].known

\* Mutant: ids are not kept beyond a call.
RemembersNothing(k, ids) == UNCHANGED <<seen, trimmed>>

\* Mutant: the set is never trimmed.
RemembersAll(k, ids) == seen' = [seen EXCEPT ![k] = @ \cup ids] /\ UNCHANGED trimmed

\* _remember_message_ids: a set beyond its limit keeps any of its ids.
Remembers(k, ids) ==
    LET all == seen[k] \cup ids IN
    \/ /\ Cardinality(all) <= SeenLimit \/ k = "temp"
       /\ seen' = [seen EXCEPT ![k] = all]
       /\ UNCHANGED trimmed
    \/ /\ Cardinality(all) > SeenLimit /\ k # "temp"
       /\ \E kept \in kSubset(SeenKept, all) : seen' = [seen EXCEPT ![k] = kept]
       /\ trimmed' = TRUE

----------------------------------------------------------------------------
(* A round *)

\* xAI is asked for a code.  The lease on the account keeps other rounds away
\* from the mailbox, and so does nothing once it is lost.
Asks(w, a) ==
    LET others == {v \in Workers : Active(v) /\ Box(v) = BoxOf[a]} IN
    /\ ~Active(w) /\ requests < MaxRequests
    /\ api[BoxOf[a]] = "temp" => a \in Mains
    /\ \A v \in others : ~round[v].leased
    /\ requests' = requests + 1
    /\ travelling' = travelling \cup {<<a, requests + 1>>}
    /\ round' = [v \in Workers |->
         IF v = w THEN [NoRound EXCEPT !.pc = "asked", !.alias = a, !.request = requests + 1,
                                       !.asked = clock, !.leased = TRUE, !.alone = (others = {})]
         ELSE IF v \in others THEN [round[v] EXCEPT !.alone = FALSE] ELSE round[v]]
    /\ UNCHANGED <<api, clock, mail, seen, trimmed, returned>>

\* get_verification_code: the token is refreshed and proves good for an API,
\* and the ids known for that API are copied; or no mail can be read.
OpensMailbox(w) ==
    /\ round[w].pc = "asked"
    /\ \/ round' = [round EXCEPT ![w].pc = "polling",
                                 ![w].known = IF api[Box(w)] = "temp" THEN {} ELSE seen[api[Box(w)]]]
       \/ round' = [round EXCEPT ![w] = Finished(@, "failed")]
    /\ UNCHANGED <<api, clock, postVars, seen, trimmed, returned>>

\* The mail of the round that is there to be found: among the newest, with its
\* recipient, and within the tolerance.  What Graph or Outlook showed without
\* the recipient before is known by now.
Readable(w) ==
    LET b == Box(w)
        r == round[w]
        tolerance == IF api[b] = "temp" THEN 0 ELSE Tolerance
    IN  {i \in Newest(b) :
            /\ mail[b][i].to = r.alias /\ mail[b][i].request = r.request
            /\ mail[b][i].shown = "exact" /\ mail[b][i].stamp + tolerance >= r.asked
            /\ mail[b][i].completed => api[b] = "imap"}

\* One look: a code ends the round's wait, the last one without it the round.
Polls(w) ==
    LET b == Box(w)
        r == round[w]
        found == Found(b, r.alias, Known(w), r.asked)
        marked == Marked(b, r.alias, Known(w), r.asked)
    IN
    /\ r.pc = "polling"
    /\ round' = [round EXCEPT ![w] =
         IF found # 0 THEN [Finished(r, "got") EXCEPT !.code = <<b, found>>]
         ELSE Looked(r, IF api[b] = "temp" THEN {} ELSE r.known \cup marked, Readable(w))]
    /\ returned' = IF found # 0 THEN returned \cup {<<b, found>>} ELSE returned
    /\ Remembers(api[b], r.known \cup marked)
    /\ UNCHANGED <<api, clock, postVars>>

\* The look fails; what cannot be read at all ends the round.
PollFails(w) ==
    /\ round[w].pc = "polling"
    /\ \/ /\ round' = [round EXCEPT ![w] = Looked(@, @.known, {})]
          /\ Remembers(api[Box(w)], round[w].known)
       \/ /\ round' = [round EXCEPT ![w] = Finished(@, "failed")]
          /\ UNCHANGED <<seen, trimmed>>
    /\ UNCHANGED <<api, clock, postVars, returned>>

LosesLease(w) ==
    /\ Active(w) /\ round[w].leased
    /\ round' = [round EXCEPT ![w].leased = FALSE]
    /\ UNCHANGED <<api, clock, postVars, seen, trimmed, returned>>

\* The round goes on to its end, with the code or without.
Ends(w) ==
    /\ round[w].pc \in {"got", "failed"}
    /\ round' = [round EXCEPT ![w] = NoRound]
    /\ UNCHANGED <<api, clock, postVars, seen, trimmed, returned>>

----------------------------------------------------------------------------
(* The mail servers, external *)

Stamps == {t \in 0 .. clock : clock - t <= MaxSkew}
Ways(a) == IF a \in Mains THEN {"exact", "none"} ELSE Shown

Delivers(b, letter) ==
    /\ Len(mail[b]) < MaxMail
    /\ mail' = [mail EXCEPT ![b] = Append(@, letter)]

Arrives(t) ==
    LET b == BoxOf[t[1]] IN
    /\ \E stamp \in Stamps, shown \in Ways(t[1]) :
        Delivers(b, [to |-> t[1], request |-> t[2], stamp |-> stamp, shown |-> shown, completed |-> FALSE])
    /\ travelling' = travelling \ {t}
    /\ UNCHANGED <<api, clock, requests, seen, trimmed, round, returned>>

\* Any other mail.
ArrivesOther(b) ==
    /\ Delivers(b, [to |-> None, request |-> 0, stamp |-> clock, shown |-> "none", completed |-> FALSE])
    /\ UNCHANGED <<api, clock, travelling, requests, seen, trimmed, round, returned>>

Complete(m) == [m EXCEPT !.shown = "exact", !.completed = TRUE]

\* The headers that name the alias are there at a later look.
CompletesHeaders(b, i) ==
    /\ api[b] # "temp" /\ i \in DOMAIN mail[b]
    /\ IsCode(mail[b][i]) /\ mail[b][i].shown # "exact"
    /\ mail' = [mail EXCEPT ![b][i] = Complete(@)]
    /\ UNCHANGED <<api, clock, travelling, requests, seen, trimmed, round, returned>>

Tick ==
    /\ clock < MaxTime
    /\ clock' = clock + 1
    /\ UNCHANGED <<api, postVars, seen, trimmed, round, returned>>

Next ==
    \/ \E w \in Workers :
        \/ \E a \in Aliases : Asks(w, a)
        \/ OpensMailbox(w) \/ Polls(w) \/ PollFails(w) \/ LosesLease(w) \/ Ends(w)
    \/ \E t \in travelling : Arrives(t)
    \/ \E b \in Boxes : ArrivesOther(b) \/ \E i \in 1 .. MaxMail : CompletesHeaders(b, i)
    \/ Tick

Spec == Init /\ [][Next]_vars

----------------------------------------------------------------------------

Letter(place) == mail[place[1]][place[2]]

\* The code of a round was sent to its alias.  A round of the main address may
\* take that of a plus address whose recipient the server hid or rewrote.
CodeIsForAlias ==
    \A w \in Workers : round[w].code # None =>
        \/ Letter(round[w].code).to = round[w].alias
        \/ round[w].alias \in Mains /\ Letter(round[w].code).shown # "exact"
        \/ Letter(round[w].code).completed

\* A code is handed out once, within the clock tolerance too, unless ids were
\* trimmed or a round that lost its lease looked into the same mailbox.
CodeReturnedOnce ==
    [][\A w \in Workers :
        round'[w].code # round[w].code /\ round'[w].code \in returned =>
            trimmed \/ ~round[w].alone]_vars

\* A look that worked does not overlook the mail of its round, as long as no
\* other round shares the mailbox and no two mailboxes are read over IMAP.
OverlooksNothing ==
    \A w \in Workers : round[w].missed # {} =>
        \/ ~round[w].alone
        \/ api[Box(w)] = "imap" /\ \E b \in Boxes \ {Box(w)} : api[b] = "imap"

\* "Message IDs are only a second line of defence behind recipient and timestamp."
IdsAreSecondary == \A w \in Workers : round[w].missed # {} => ~round[w].alone
=============================================================================
