----------------------- MODULE VerificationMailProofs -----------------------
(***************************************************************************)
(* Proofs about VerificationMail, for any number of mailboxes, aliases,    *)
(* rounds, looks and messages: whose code a round takes, that it takes one *)
(* once, and that a round that is alone overlooks nothing.  The sets of    *)
(* known ids carry the last two: what they hold of a round's mail is spent *)
(* for it, and they hold what was handed out.                              *)
(***************************************************************************)
EXTENDS VerificationMail, FiniteSetTheorems, TLAPS

Kinds == {"graph", "imap", "temp"}

----------------------------------------------------------------------------
(* The newest message *)

\* A finite set of numbers has a greatest one: the least, by inclusion, of the sets of
\* what is above a member belongs to it.
LEMMA MaxIsGreatest ==
  ASSUME NEW S \in SUBSET Nat, IsFiniteSet(S), S # {}
  PROVE  Max(S) \in S
<1> DEFINE Above(x) == {y \in S : y > x}
           Tails == {Above(x) : x \in S}
           R == StrictSubsetOrdering(S)
<1>1. Tails \subseteq FiniteSubsetsOf(S) /\ Tails # {}
  <2>1. \A x \in S : Above(x) \in SUBSET S /\ IsFiniteSet(Above(x))
    BY FS_Subset
  <2> QED
    BY <2>1 DEF FiniteSubsetsOf
<1>2. IsWellFoundedOn(R, FiniteSubsetsOf(S))
  BY FS_StrictSubsetOrderingWellFounded
<1>3. PICK T \in Tails : \A U \in Tails : <<U, T>> \notin R
  <2> HIDE DEF Tails, R
  <2> QED
    BY <1>1, <1>2, WFMin
<1>4. PICK x \in S : T = Above(x)
  OBVIOUS
<1>5. ASSUME NEW y \in S, y > x PROVE FALSE
  <2>n. x \in Nat /\ y \in Nat /\ \A z \in S : z \in Nat
    OBVIOUS
  <2>a. \A z \in S : z > y => z > x
    BY <1>5, <2>n
  <2>b. ~(y > y)
    BY <2>n
  <2>1. Above(y) \subseteq T /\ y \in T /\ y \notin Above(y)
    BY <1>4, <1>5, <2>a, <2>b
  <2>2. Above(y) \in SUBSET S /\ T \in SUBSET S /\ Above(y) \in Tails
    BY <1>4
  <2> HIDE DEF Above, Tails
  <2> QED
    BY <1>3, <2>1, <2>2 DEF StrictSubsetOrdering
<1>6. \A y \in S : x >= y
  BY <1>5
<1> QED
  BY <1>6 DEF Max

----------------------------------------------------------------------------
(* The invariant *)

Types == TypeOK /\ mail \in [Boxes -> Seq(Letters)]

Waits(w) == round[w].pc \in {"asked", "polling"}

\* What a round has in hand at each of its steps.
RoundShape ==
    \A w \in Workers :
        /\ round[w].pc = "idle" => round[w] = NoRound
        /\ Active(w) => round[w].alias \in Aliases /\ (api[Box(w)] = "temp" => round[w].alias \in Mains)
        /\ Waits(w) => round[w].request \in 1 .. requests /\ round[w].polls < MaxPolls /\ round[w].code = None
        /\ round[w].pc # "polling" => round[w].known = {}
        /\ round[w].code # None => round[w].pc = "got" /\ round[w].code[2] \in DOMAIN mail[round[w].code[1]]

\* A round that is alone shares its mailbox with no other one.
AloneIsAlone ==
    \A v, w \in Workers : v # w /\ Active(v) /\ Active(w) /\ Box(v) = Box(w) => ~round[w].alone

\* A code goes to the alias it was requested for.
Tickets ==
    /\ \A t \in travelling :
        /\ t[2] <= requests
        /\ \A w \in Workers : Waits(w) /\ t[2] = round[w].request => t[1] = round[w].alias
    /\ \A b \in Boxes : \A i \in DOMAIN mail[b] :
        /\ mail[b][i].request <= requests
        /\ \A w \in Workers : Waits(w) /\ mail[b][i].request = round[w].request => mail[b][i].to = round[w].alias

\* The ids of a mailbox are its own.
Distinct(b) == api[b] = "imap" => \A c \in Boxes \ {b} : api[c] # "imap"

Slack(b) == IF api[b] = "temp" THEN 0 ELSE Tolerance

\* Mail of a round that is of no use to it any more: too old, or seen by Graph or
\* Outlook without its recipient.
Spent(w, b, i) ==
    \/ mail[b][i].stamp + Slack(b) < round[w].asked
    \/ api[b] = "graph" /\ (mail[b][i].shown # "exact" \/ mail[b][i].completed)

\* A known id is that of a message that is there, and spent for a round that waits for
\* it alone.
KnownIsSpent(k, ids) ==
    \A b \in Boxes, i \in 1 .. MaxMail :
        api[b] = k /\ Distinct(b) /\ Fingerprint(b, i) \in ids =>
            /\ i \in DOMAIN mail[b]
            /\ \A w \in Workers :
                Waits(w) /\ round[w].alone /\ Box(w) = b /\ mail[b][i].request = round[w].request => Spent(w, b, i)

\* The same after a step, of ids known before it.
StaysSpent(k, ids) ==
    \A b \in Boxes, i \in 1 .. MaxMail :
        api'[b] = k /\ Distinct(b)' /\ Fingerprint(b, i)' \in ids =>
            /\ i \in DOMAIN mail'[b]
            /\ \A w \in Workers :
                /\ Waits(w)' /\ round'[w].alone /\ Box(w)' = b
                /\ mail'[b][i].request = round'[w].request
                => Spent(w, b, i)'

Knowledge ==
    /\ \A k \in Kinds : KnownIsSpent(k, seen[k])
    /\ \A v \in Workers : round[v].pc = "polling" => KnownIsSpent(api[Box(v)], round[v].known)

\* Until ids are forgotten, what was handed out is known, to a round that is alone too.
ReturnedIsKnown ==
    ~trimmed =>
        /\ \A p \in returned : Fingerprint(p[1], p[2]) \in seen[api[p[1]]]
        /\ \A w \in Workers :
            round[w].pc = "polling" /\ round[w].alone /\ api[Box(w)] # "temp" =>
                \A p \in returned : p[1] = Box(w) => Fingerprint(p[1], p[2]) \in round[w].known

IInv ==
    /\ Types
    /\ RoundShape
    /\ AloneIsAlone
    /\ Tickets
    /\ Knowledge
    /\ ReturnedIsKnown
    /\ CodeIsForAlias
    /\ OverlooksNothing

----------------------------------------------------------------------------
(* A look into a mailbox *)

\* What the constants are.
LEMMA Bounds ==
  /\ Window \in Nat /\ SeenLimit \in Nat /\ SeenKept \in Nat /\ SeenKept <= SeenLimit /\ Tolerance \in Nat
  /\ MaxSkew \in Nat /\ MaxPolls \in Nat \ {0} /\ MaxRequests \in Nat /\ MaxMail \in Nat /\ MaxTime \in Nat
  /\ None \notin Aliases /\ None \notin Places
BY MailAssumption DEF Places

\* A message that is there, its number and its id.
LEMMA LetterIs ==
  ASSUME Types, NEW b \in Boxes, NEW i \in DOMAIN mail[b]
  PROVE  /\ mail[b][i] \in Letters /\ i \in 1 .. Len(mail[b]) /\ i \in 1 .. MaxMail /\ i \in Nat \ {0}
         /\ mail[b][i].stamp \in Nat /\ mail[b][i].request \in Nat
         /\ Fingerprint(b, i) \in Ids /\ <<b, i>> \in Places
<1>1. mail[b] \in Seq(Letters) /\ Len(mail[b]) <= MaxMail
  BY DEF Types, TypeOK
<1>2. i \in 1 .. Len(mail[b]) /\ mail[b][i] \in Letters /\ Len(mail[b]) \in Nat
  BY <1>1
<1>3. i \in 1 .. MaxMail
  BY <1>1, <1>2, Bounds
<1>4. mail[b][i].stamp \in Nat /\ mail[b][i].request \in Nat
  BY <1>2, Bounds DEF Letters
<1>5. Fingerprint(b, i) \in Ids /\ <<b, i>> \in Places
  BY <1>3 DEF Fingerprint, Ids, Places
<1> QED
  BY <1>2, <1>3, <1>4, <1>5

\* The mailbox of a round.
LEMMA BoxIs ==
  ASSUME Types, RoundShape, NEW w \in Workers, Active(w)
  PROVE  Box(w) \in Boxes /\ round[w].alias \in Aliases /\ api[Box(w)] \in Kinds
<1>1. round[w].alias \in Aliases
  BY DEF RoundShape
<1>2. Box(w) \in Boxes
  BY <1>1, MailAssumption DEF Box
<1>3. api \in [Boxes -> Kinds]
  BY MailAssumption DEF Types, TypeOK, Kinds
<1> QED
  BY <1>1, <1>2, <1>3

\* The cutoff is the time of the request, less what a stamp may be behind.
LEMMA CutoffIs ==
  ASSUME NEW b \in Boxes, NEW asked \in Nat, NEW stamp \in Nat
  PROVE  stamp >= Cutoff(b, asked) <=> ~(stamp + Slack(b) < asked)
BY Bounds DEF Cutoff, Slack

\* Sets of places in a mailbox are finite.
LEMMA PlacesAreFinite ==
  ASSUME Types, NEW b \in Boxes, NEW S \in SUBSET (DOMAIN mail[b]), S # {}
  PROVE  Max(S) \in S
<1>1. mail[b] \in Seq(Letters)
  BY DEF Types
<1>2. Len(mail[b]) \in Nat /\ DOMAIN mail[b] = 1 .. Len(mail[b])
  BY <1>1
<1>3. IsFiniteSet(1 .. Len(mail[b]))
  BY <1>2, FS_Interval
<1>4. S \in SUBSET Nat /\ IsFiniteSet(S)
  BY <1>2, <1>3, FS_Subset
<1> QED
  BY <1>4, MaxIsGreatest

\* What a look considers is in the mailbox, unknown and in time.
LEMMA FreshIsThere ==
  ASSUME NEW b \in Boxes, NEW known, NEW asked
  PROVE  /\ Fresh(b, known, asked) \subseteq Unread(b, known)
         /\ Unread(b, known) \subseteq Newest(b) /\ Newest(b) \subseteq DOMAIN mail[b]
BY DEF Fresh, Unread, Newest

\* A code that is found is unread, recent enough, and for the alias or for nobody in
\* particular.
LEMMA FoundIs ==
  ASSUME Types, NEW b \in Boxes, NEW a, NEW known, NEW asked, Found(b, a, known, asked) # 0
  PROVE  LET i == Found(b, a, known, asked) IN
         /\ i \in Fresh(b, known, asked) /\ i \in DOMAIN mail[b] /\ IsCode(mail[b][i])
         /\ IsFor(b, mail[b][i], a) \/ (IsAmbiguous(b, mail[b][i], a) /\ TakesAmbiguous(b, a))
<1> DEFINE codes == {i \in Fresh(b, known, asked) : IsCode(mail[b][i])}
           exact == {i \in codes : IsFor(b, mail[b][i], a)}
           maybe == {i \in codes : IsAmbiguous(b, mail[b][i], a)}
<1>1. exact \in SUBSET (DOMAIN mail[b]) /\ maybe \in SUBSET (DOMAIN mail[b])
  BY FreshIsThere
<1>2. Found(b, a, known, asked) =
        IF exact # {} THEN Max(exact)
        ELSE IF TakesAmbiguous(b, a) /\ Cardinality(maybe) = 1 THEN Max(maybe) ELSE 0
  BY DEF Found
<1>3. CASE exact # {}
  <2>1. Max(exact) \in exact
    BY <1>1, <1>3, PlacesAreFinite
  <2> QED
    BY <1>1, <1>2, <1>3, <2>1
<1>4. CASE exact = {}
  <2>1. TakesAmbiguous(b, a) /\ Cardinality(maybe) = 1 /\ Found(b, a, known, asked) = Max(maybe)
    BY <1>2, <1>4
  <2>2. maybe # {}
    BY <2>1, FS_EmptySet
  <2>3. Max(maybe) \in maybe
    BY <1>1, <2>2, PlacesAreFinite
  <2> QED
    BY <1>1, <2>1, <2>3
<1> QED
  BY <1>3, <1>4

\* Mail for the alias that is unread and recent is not overlooked.
LEMMA FindsWhatIsFor ==
  ASSUME Types, NEW b \in Boxes, NEW a, NEW known, NEW asked,
         NEW i \in Fresh(b, known, asked), IsCode(mail[b][i]), IsFor(b, mail[b][i], a)
  PROVE  Found(b, a, known, asked) # 0
<1> DEFINE exact == {j \in {k \in Fresh(b, known, asked) : IsCode(mail[b][k])} : IsFor(b, mail[b][j], a)}
<1>1. exact \in SUBSET (DOMAIN mail[b]) /\ exact # {}
  BY FreshIsThere
<1>2. Max(exact) \in exact
  BY <1>1, PlacesAreFinite
<1>3. Found(b, a, known, asked) = Max(exact)
  BY <1>1 DEF Found
<1> QED
  BY <1>1, <1>2, <1>3, LetterIs

\* A look marks what it reads, and what it finds.
LEMMA MarkedIs ==
  ASSUME Types, NEW b \in Boxes, NEW a, NEW known, NEW asked, NEW id \in Marked(b, a, known, asked)
  PROVE  /\ id \in Ids
         /\ \E i \in Unread(b, known) :
              id = Fingerprint(b, i) /\ Marks(b, i, a, asked, Found(b, a, known, asked))
<1>1. PICK i \in Unread(b, known) :
        id = Fingerprint(b, i) /\ Marks(b, i, a, asked, Found(b, a, known, asked))
  BY DEF Marked
<1>2. i \in DOMAIN mail[b]
  BY FreshIsThere
<1> QED
  BY <1>1, <1>2, LetterIs

\* The message a code is taken from is known afterwards.
LEMMA FoundIsMarked ==
  ASSUME Types, NEW b \in Boxes, NEW a, NEW known, NEW asked, Found(b, a, known, asked) # 0
  PROVE  /\ Fingerprint(b, Found(b, a, known, asked)) \in Marked(b, a, known, asked)
         /\ Fingerprint(b, Found(b, a, known, asked)) \notin known
<1> DEFINE f == Found(b, a, known, asked)
<1>1. f \in Fresh(b, known, asked) /\ f \in Unread(b, known)
  BY FoundIs, FreshIsThere
<1>2. Marks(b, f, a, asked, f)
  BY <1>1 DEF Marks, Fresh
<1>3. f \in Nat
  BY FoundIs, LetterIs
<1> HIDE DEF f
<1>4. f >= f /\ f >= 0
  BY <1>3
<1>5. Fingerprint(b, f) \in Marked(b, a, known, asked)
  BY <1>1, <1>2, <1>4 DEF Marked, f
<1> QED
  BY <1>1, <1>5 DEF Unread, f

\* What a look marks without finding a code is spent for the round that looks.
LEMMA UnfoundIsSpent ==
  ASSUME Types, RoundShape, Tickets, NEW w \in Workers, Waits(w), NEW known,
         Found(Box(w), round[w].alias, known, round[w].asked) = 0,
         NEW i \in Unread(Box(w), known), mail[Box(w)][i].request = round[w].request,
         Marks(Box(w), i, round[w].alias, round[w].asked, 0)
  PROVE  Spent(w, Box(w), i)
<1> DEFINE b == Box(w)
           m == mail[b][i]
<1>1. Active(w) /\ b \in Boxes /\ round[w].alias \in Aliases /\ round[w].asked \in Nat
  <2>1. Active(w)
    BY DEF Waits, Active
  <2>2. round[w].asked \in Nat
    BY Bounds DEF Types, TypeOK, Rounds
  <2> QED
    BY <2>1, <2>2, BoxIs
<1>2. i \in DOMAIN mail[b]
  BY <1>1, FreshIsThere
<1>3. m.to = round[w].alias /\ IsCode(m) /\ m.stamp \in Nat /\ i # 0
  BY <1>1, <1>2, LetterIs, Bounds DEF Tickets, IsCode
<1> HIDE DEF b, m
<1>4. m.stamp >= Cutoff(b, round[w].asked) <=> ~(m.stamp + Slack(b) < round[w].asked)
  BY <1>1, <1>3, CutoffIs
<1>5. CASE api[b] = "graph"
  <2>1. i \in Fresh(b, known, round[w].asked)
    BY <1>5 DEF Marks, Fresh, b, m
  <2>2. ASSUME m.shown = "exact" PROVE FALSE
    <3>1. IsFor(b, m, round[w].alias)
      BY <1>3, <2>2 DEF IsFor, Recipients
    <3> QED
      BY <1>1, <1>3, <2>1, <3>1, FindsWhatIsFor DEF b, m
  <2> QED
    BY <1>5, <2>2 DEF Spent, b, m
<1>6. CASE api[b] # "graph"
  <2>1. m.stamp < Cutoff(b, round[w].asked)
    BY <1>3, <1>6 DEF Marks, b, m
  <2>2. Cutoff(b, round[w].asked) \in Nat
    BY <1>1, Bounds DEF Cutoff
  <2>3. ~(m.stamp >= Cutoff(b, round[w].asked))
    BY <1>3, <2>1, <2>2
  <2> QED
    BY <1>4, <2>3 DEF Spent, b, m
<1> QED
  BY <1>5, <1>6

\* A trimmed set is within the limit, and everything is known as long as none was trimmed.
LEMMA RemembersIs ==
  ASSUME Types, NEW k \in Kinds, NEW ids \in SUBSET Ids, Remembers(k, ids)
  PROVE  /\ seen' \in [Kinds -> SUBSET Ids] /\ trimmed' \in BOOLEAN
         /\ \A j \in {"graph", "imap"} : Cardinality(seen'[j]) <= SeenLimit
         /\ seen'[k] \subseteq seen[k] \cup ids
         /\ \A j \in Kinds \ {k} : seen'[j] = seen[j]
         /\ ~trimmed' => ~trimmed /\ seen'[k] = seen[k] \cup ids
<1>1. /\ seen \in [Kinds -> SUBSET Ids] /\ trimmed \in BOOLEAN
      /\ \A j \in {"graph", "imap"} : Cardinality(seen[j]) <= SeenLimit
  BY DEF Types, TypeOK, Kinds
<1> DEFINE all == seen[k] \cup ids
<1>2. all \in SUBSET Ids
  BY <1>1
<1> HIDE DEF all
<1>3. CASE /\ Cardinality(all) <= SeenLimit \/ k = "temp"
           /\ seen' = [seen EXCEPT ![k] = all] /\ trimmed' = trimmed
  <2>1. \A j \in {"graph", "imap"} : Cardinality(seen'[j]) <= SeenLimit
    BY <1>1, <1>3 DEF Kinds
  <2> QED
    BY <1>1, <1>2, <1>3, <2>1 DEF all
<1>4. CASE /\ \E kept \in kSubset(SeenKept, all) : seen' = [seen EXCEPT ![k] = kept]
           /\ trimmed' = TRUE
  <2>1. PICK kept \in kSubset(SeenKept, all) : seen' = [seen EXCEPT ![k] = kept]
    BY <1>4
  <2>2. kept \subseteq all /\ Cardinality(kept) = SeenKept
    BY DEF kSubset
  <2>3. Cardinality(kept) <= SeenLimit
    BY <2>2, Bounds
  <2>4. \A j \in {"graph", "imap"} : Cardinality(seen'[j]) <= SeenLimit
    BY <1>1, <2>1, <2>3 DEF Kinds
  <2> QED
    BY <1>1, <1>2, <1>4, <2>1, <2>2, <2>4 DEF all
<1> QED
  BY <1>3, <1>4 DEF Remembers, all

----------------------------------------------------------------------------
(* The moves of a round *)

\* A round that is over, or has its code, has forgotten what it knew.
LEMMA FinishedIs ==
  ASSUME NEW r \in Rounds, NEW pc \in {"got", "failed"}
  PROVE  /\ Finished(r, pc) \in Rounds /\ Finished(r, pc).pc = pc
         /\ Finished(r, pc).alias = r.alias /\ Finished(r, pc).alone = r.alone /\ Finished(r, pc).code = r.code
         /\ Finished(r, pc).known = {} /\ Finished(r, pc).missed = {}
<1>1. /\ Finished(r, pc).pc = pc /\ Finished(r, pc).known = {} /\ Finished(r, pc).missed = {}
      /\ Finished(r, pc).alias = r.alias /\ Finished(r, pc).alone = r.alone /\ Finished(r, pc).code = r.code
  BY DEF Finished, Rounds
<1>2. 0 \in 0 .. MaxRequests /\ 0 \in 0 .. MaxTime /\ 0 \in 0 .. MaxPolls
  BY Bounds
<1>3. {} \in SUBSET Ids /\ {} \in SUBSET (1 .. MaxMail)
  OBVIOUS
<1>4. Finished(r, pc) \in Rounds
  BY <1>2, <1>3 DEF Finished, Rounds
<1> QED
  BY <1>1, <1>4

\* A round after a look without a code: it waits on or has failed.
LEMMA LookedIs ==
  ASSUME NEW r \in Rounds, r.pc = "polling", r.polls < MaxPolls,
         NEW known \in SUBSET Ids, NEW missed \in SUBSET (1 .. MaxMail)
  PROVE  LET l == Looked(r, known, missed) IN
         /\ l \in Rounds /\ l.alias = r.alias /\ l.alone = r.alone /\ l.code = r.code /\ l.missed = missed
         /\ \/ l.pc = "failed" /\ l.known = {}
            \/ l.pc = "polling" /\ l.known = known /\ l.request = r.request /\ l.asked = r.asked /\ l.polls < MaxPolls
<1>1. r.polls \in Nat /\ r.polls + 1 <= MaxPolls
  BY Bounds DEF Rounds
<1>2. CASE r.polls + 1 = MaxPolls
  <2>1. /\ Finished(r, "failed") \in Rounds /\ Finished(r, "failed").pc = "failed"
        /\ Finished(r, "failed").alias = r.alias /\ Finished(r, "failed").alone = r.alone
        /\ Finished(r, "failed").code = r.code /\ Finished(r, "failed").known = {}
    BY FinishedIs
  <2>2. Looked(r, known, missed) = [Finished(r, "failed") EXCEPT !.missed = missed]
    BY <1>2 DEF Looked
  <2> QED
    BY <2>1, <2>2 DEF Rounds
<1>3. CASE r.polls + 1 # MaxPolls
  <2>1. Looked(r, known, missed) = [r EXCEPT !.polls = @ + 1, !.known = known, !.missed = missed]
    BY <1>3 DEF Looked
  <2>2. r.polls + 1 \in 0 .. MaxPolls /\ r.polls + 1 < MaxPolls
    BY <1>1, <1>3, Bounds
  <2> QED
    BY <2>1, <2>2 DEF Rounds
<1> QED
  BY <1>2, <1>3

\* Rounds go on: none begins, and none changes what it asked for or its company.
Settles ==
    \A v \in Workers :
        /\ Active(v)' => Active(v) /\ round'[v].alias = round[v].alias /\ (round'[v].alone => round[v].alone)
        /\ Waits(v)' => Waits(v) /\ round'[v].request = round[v].request /\ round'[v].asked = round[v].asked

\* Where rounds only go on, company and tickets stay.
LEMMA SettledKeeps ==
  ASSUME AloneIsAlone, Tickets, Settles, UNCHANGED <<api, mail, travelling, requests>>
  PROVE  /\ AloneIsAlone' /\ Tickets'
         /\ \A k, ids : KnownIsSpent(k, ids) => StaysSpent(k, ids)
<1>b. \A v \in Workers : Active(v)' => Box(v)' = Box(v)
  BY DEF Settles, Box
<1>w. \A v \in Workers : Waits(v)' => Active(v)'
  BY DEF Waits, Active
<1>1. AloneIsAlone'
  BY <1>b DEF AloneIsAlone, Settles
<1>2. Tickets'
  BY <1>w DEF Tickets, Settles
<1>3. ASSUME NEW k, NEW ids, KnownIsSpent(k, ids) PROVE StaysSpent(k, ids)
  BY <1>b, <1>w, <1>3 DEF KnownIsSpent, StaysSpent, Settles, Distinct, Fingerprint, Spent, Slack
<1> QED
  BY <1>1, <1>2, <1>3

SeenTypes ==
    /\ seen \in [Kinds -> SUBSET Ids] /\ trimmed \in BOOLEAN
    /\ \A j \in {"graph", "imap"} : Cardinality(seen[j]) <= SeenLimit

\* What CodeIsForAlias asks of a code in hand.
CodeFits(place, a) ==
    \/ Letter(place).to = a
    \/ a \in Mains /\ Letter(place).shown # "exact"
    \/ Letter(place).completed

\* What OverlooksNothing excuses.
Excused(alone, b) == ~alone \/ (api[b] = "imap" /\ \E c \in Boxes \ {b} : api[c] = "imap")

\* What holds after a step but for the known ids.
OthersKept ==
    /\ Types' /\ RoundShape' /\ AloneIsAlone' /\ Tickets' /\ CodeIsForAlias' /\ OverlooksNothing'
    /\ \A k, ids : KnownIsSpent(k, ids) => StaysSpent(k, ids)

\* The round of one worker moves to r.
Moves(w, r) ==
    /\ round' = [round EXCEPT ![w] = r]
    /\ UNCHANGED <<api, clock, mail, travelling, requests>>
    /\ r.pc = "idle" => r = NoRound
    /\ r.pc # "idle" => r.alias = round[w].alias /\ r.alone = round[w].alone
    /\ r.pc \in {"asked", "polling"} =>
         /\ Waits(w) /\ r.request = round[w].request /\ r.asked = round[w].asked
         /\ r.polls < MaxPolls /\ r.code = None
    /\ r.pc # "polling" => r.known = {}
    /\ r.code # None => r.pc = "got" /\ r.code[2] \in DOMAIN mail[r.code[1]] /\ CodeFits(r.code, r.alias)
    /\ r.missed # {} => r.pc # "idle" /\ Excused(round[w].alone, Box(w))

\* The move of one round is such a step.
LEMMA MovesSettle ==
  ASSUME IInv, NEW w \in Workers, NEW r \in Rounds, Active(w), Moves(w, r)
  PROVE  /\ Settles
         /\ \A v \in Workers : round'[v] = IF v = w THEN r ELSE round[v]
<1>1. round \in [Workers -> Rounds]
  BY DEF IInv, Types, TypeOK
<1>2. \A v \in Workers : round'[v] = IF v = w THEN r ELSE round[v]
  BY <1>1 DEF Moves
<1>3. ASSUME NEW v \in Workers
      PROVE  /\ Active(v)' => Active(v) /\ round'[v].alias = round[v].alias /\ (round'[v].alone => round[v].alone)
             /\ Waits(v)' => Waits(v) /\ round'[v].request = round[v].request /\ round'[v].asked = round[v].asked
  <2>1. CASE v = w
    BY <1>2, <2>1 DEF Moves, Active, Waits
  <2>2. CASE v # w
    BY <1>2, <2>2 DEF Active, Waits
  <2> QED
    BY <2>1, <2>2
<1> QED
  BY <1>2, <1>3 DEF Settles

\* It keeps all invariants but those of the known ids.
LEMMA MovesKeep ==
  ASSUME IInv, NEW w \in Workers, NEW r \in Rounds, Active(w), Moves(w, r),
         returned' \in SUBSET Places, SeenTypes'
  PROVE  OthersKept
<1>1. Settles /\ \A v \in Workers : round'[v] = IF v = w THEN r ELSE round[v]
  BY MovesSettle
<1>u. UNCHANGED <<api, clock, mail, travelling, requests>>
  BY DEF Moves
<1>2. AloneIsAlone' /\ Tickets' /\ \A k, ids : KnownIsSpent(k, ids) => StaysSpent(k, ids)
  BY <1>1, <1>u, SettledKeeps DEF IInv
<1>3. Types'
  <2>1. round' \in [Workers -> Rounds]
    BY DEF IInv, Types, TypeOK, Moves
  <2> QED
    BY <1>u, <2>1 DEF IInv, Types, TypeOK, SeenTypes, Kinds
<1>4. RoundShape'
  <2> SUFFICES ASSUME NEW v \in Workers
      PROVE  /\ round'[v].pc = "idle" => round'[v] = NoRound
             /\ Active(v)' => round'[v].alias \in Aliases /\ (api'[Box(v)'] = "temp" => round'[v].alias \in Mains)
             /\ Waits(v)' => round'[v].request \in 1 .. requests' /\ round'[v].polls < MaxPolls /\ round'[v].code = None
             /\ round'[v].pc # "polling" => round'[v].known = {}
             /\ round'[v].code # None => round'[v].pc = "got" /\ round'[v].code[2] \in DOMAIN mail'[round'[v].code[1]]
    BY DEF RoundShape
  <2>1. CASE v = w
    BY <1>1, <1>u, <2>1 DEF IInv, RoundShape, Moves, Active, Waits, Box
  <2>2. CASE v # w
    BY <1>1, <1>u, <2>2 DEF IInv, RoundShape, Active, Waits, Box
  <2> QED
    BY <2>1, <2>2
<1>5. CodeIsForAlias'
  BY <1>1, <1>u DEF IInv, CodeIsForAlias, Moves, CodeFits, Letter
<1>6. OverlooksNothing'
  BY <1>1, <1>u DEF IInv, OverlooksNothing, Moves, Excused, Box
<1> QED
  BY <1>2, <1>3, <1>4, <1>5, <1>6 DEF OthersKept

\* What is known of two sets is known of what is in either.
LEMMA KnowledgeAdds ==
  ASSUME NEW k, NEW K, NEW L, NEW ids, ids \subseteq K \cup L, StaysSpent(k, K), StaysSpent(k, L)
  PROVE  StaysSpent(k, ids)
BY DEF StaysSpent

\* What a look marks is spent for the round that goes on looking, and no other waits for
\* it alone.
LEMMA MarkedIsSpent ==
  ASSUME IInv, NEW w \in Workers, Waits(w), Settles, UNCHANGED <<api, mail>>,
         Found(Box(w), round[w].alias, Known(w), round[w].asked) = 0 \/ ~Waits(w)'
  PROVE  StaysSpent(api[Box(w)], Marked(Box(w), round[w].alias, Known(w), round[w].asked))
<1> DEFINE b == Box(w)
           marked == Marked(b, round[w].alias, Known(w), round[w].asked)
<1>1. Active(w) /\ b \in Boxes
  BY BoxIs DEF IInv, Waits, Active
<1> SUFFICES ASSUME NEW c \in Boxes, NEW i \in 1 .. MaxMail,
                    api[c] = api[b], Distinct(c), Fingerprint(c, i) \in marked
             PROVE  /\ i \in DOMAIN mail[c]
                    /\ \A v \in Workers :
                         /\ Waits(v)' /\ round'[v].alone /\ Box(v)' = c
                         /\ mail[c][i].request = round'[v].request
                         => Spent(v, c, i)'
  BY DEF StaysSpent, Distinct, Fingerprint
<1>2. PICK j \in Unread(b, Known(w)) :
        /\ Fingerprint(c, i) = Fingerprint(b, j)
        /\ Marks(b, j, round[w].alias, round[w].asked, Found(b, round[w].alias, Known(w), round[w].asked))
  BY <1>1, MarkedIs DEF IInv
<1>3. c = b /\ i = j
  <2>1. CASE api[b] = "imap"
    BY <1>1, <1>2, <2>1 DEF Fingerprint, Distinct
  <2>2. CASE api[b] # "imap"
    BY <1>2, <2>2 DEF Fingerprint
  <2> QED
    BY <2>1, <2>2
<1>4. i \in DOMAIN mail[c]
  BY <1>1, <1>3, FreshIsThere
<1>5. ASSUME NEW v \in Workers, Waits(v)', round'[v].alone, Box(v)' = c, mail[c][i].request = round'[v].request
      PROVE  Spent(v, c, i)'
  <2>1. /\ Waits(v) /\ Active(v) /\ round[v].alone /\ Box(v) = c
        /\ round'[v].request = round[v].request /\ round'[v].asked = round[v].asked
    BY <1>5 DEF Settles, Waits, Active, Box
  <2>2. v = w
    BY <1>1, <1>3, <2>1 DEF IInv, AloneIsAlone
  <2>3. Found(b, round[w].alias, Known(w), round[w].asked) = 0
    BY <1>5, <2>2
  <2>4. Spent(w, b, i)
    BY <1>2, <1>3, <1>5, <2>1, <2>2, <2>3, UnfoundIsSpent DEF IInv
  <2> QED
    BY <1>3, <2>1, <2>2, <2>4 DEF Spent, Slack
<1> QED
  BY <1>4, <1>5

\* The known ids after a move of worker w.
LEMMA KnowledgeKeeps ==
  ASSUME IInv, NEW w \in Workers, NEW r \in Rounds, Active(w), Moves(w, r),
         \A j \in Kinds \ {api[Box(w)]} : seen'[j] = seen[j],
         StaysSpent(api[Box(w)], seen'[api[Box(w)]]),
         r.pc = "polling" => StaysSpent(api[Box(w)], r.known)
  PROVE  Knowledge'
<1>1. Settles /\ \A v \in Workers : round'[v] = IF v = w THEN r ELSE round[v]
  BY MovesSettle
<1>2. UNCHANGED <<api, mail, travelling, requests>>
  BY DEF Moves
<1>3. \A k, ids : KnownIsSpent(k, ids) => StaysSpent(k, ids)
  BY <1>1, <1>2, SettledKeeps DEF IInv
<1>4. ASSUME NEW k \in Kinds PROVE StaysSpent(k, seen'[k])
  <2>1. CASE k = api[Box(w)]
    BY <2>1
  <2>2. CASE k # api[Box(w)]
    <3>1. seen'[k] = seen[k] /\ KnownIsSpent(k, seen[k])
      BY <2>2 DEF IInv, Knowledge
    <3> QED
      BY <1>3, <3>1
  <2> QED
    BY <2>1, <2>2
<1>5. ASSUME NEW v \in Workers, round'[v].pc = "polling" PROVE StaysSpent(api'[Box(v)'], round'[v].known)
  <2>1. Active(v)'
    BY <1>5 DEF Active
  <2>2. Box(v)' = Box(v) /\ api' = api
    BY <1>1, <1>2, <2>1 DEF Settles, Box
  <2>3. CASE v = w
    BY <1>1, <1>5, <2>2, <2>3
  <2>4. CASE v # w
    <3>1. round'[v] = round[v] /\ KnownIsSpent(api[Box(v)], round[v].known)
      BY <1>1, <1>5, <2>4 DEF IInv, Knowledge
    <3> QED
      BY <1>3, <2>2, <3>1
  <2> QED
    BY <2>3, <2>4
<1>6. \A k \in Kinds : KnownIsSpent(k, seen[k])'
  BY <1>4 DEF StaysSpent, KnownIsSpent
<1>7. \A v \in Workers : round'[v].pc = "polling" => KnownIsSpent(api[Box(v)], round[v].known)'
  BY <1>5 DEF StaysSpent, KnownIsSpent
<1> QED
  BY <1>6, <1>7 DEF Knowledge

\* What was handed out stays known; only the worker that moves hands out, and from its
\* own mailbox.
LEMMA ReturnedKeeps ==
  ASSUME IInv, NEW w \in Workers, NEW r \in Rounds, Active(w), Moves(w, r),
         ~trimmed' => ~trimmed /\ \A j \in Kinds : seen[j] \subseteq seen'[j],
         \A p \in returned' \ returned :
           /\ r.pc # "polling" /\ p[1] = Box(w)
           /\ ~trimmed' => Fingerprint(p[1], p[2]) \in seen'[api[Box(w)]],
         r.pc = "polling" /\ r.alone /\ api[Box(w)] # "temp" /\ ~trimmed' =>
           \A p \in returned : p[1] = Box(w) => Fingerprint(p[1], p[2]) \in r.known
  PROVE  ReturnedIsKnown'
<1>1. Settles /\ \A v \in Workers : round'[v] = IF v = w THEN r ELSE round[v]
  BY MovesSettle
<1>2. api' = api /\ \A b, i : Fingerprint(b, i)' = Fingerprint(b, i)
  BY DEF Moves, Fingerprint
<1> SUFFICES ASSUME ~trimmed'
             PROVE  /\ \A p \in returned' : Fingerprint(p[1], p[2])' \in seen'[api'[p[1]]]
                    /\ \A v \in Workers :
                         round'[v].pc = "polling" /\ round'[v].alone /\ api'[Box(v)'] # "temp" =>
                           \A p \in returned' : p[1] = Box(v)' => Fingerprint(p[1], p[2])' \in round'[v].known
  BY DEF ReturnedIsKnown
<1>3. ASSUME NEW p \in returned' PROVE Fingerprint(p[1], p[2]) \in seen'[api[p[1]]]
  <2>1. CASE p \in returned
    <3>1. p[1] \in Boxes
      BY <2>1 DEF IInv, Types, TypeOK, Places
    <3>2. api[p[1]] \in Kinds
      BY <3>1, MailAssumption DEF IInv, Types, TypeOK, Kinds
    <3> QED
      BY <2>1, <3>2 DEF IInv, ReturnedIsKnown
  <2>2. CASE p \notin returned
    BY <2>2
  <2> QED
    BY <2>1, <2>2
<1>4. ASSUME NEW v \in Workers, round'[v].pc = "polling", round'[v].alone, api[Box(v)'] # "temp",
             NEW p \in returned', p[1] = Box(v)'
      PROVE  Fingerprint(p[1], p[2]) \in round'[v].known
  <2>1. Active(v)' /\ Box(v)' = Box(v) /\ Active(v) /\ round[v].alone
    BY <1>1, <1>4 DEF Settles, Box, Active
  <2>2. CASE v = w
    BY <1>1, <1>4, <2>1, <2>2
  <2>3. CASE v # w
    <3>1. round'[v] = round[v]
      BY <1>1, <2>3
    <3>2. p \in returned
      BY <1>4, <2>1, <2>3 DEF IInv, AloneIsAlone
    <3> QED
      BY <1>4, <2>1, <3>1, <3>2 DEF IInv, ReturnedIsKnown
  <2> QED
    BY <2>2, <2>3
<1> QED
  BY <1>2, <1>3, <1>4

----------------------------------------------------------------------------
(* The steps of a round *)

CodeOnce ==
    \A w \in Workers :
        round'[w].code # round[w].code /\ round'[w].code \in returned => trimmed \/ ~round[w].alone

Kept == IInv' /\ CodeOnce

\* Where no code is new, none is handed out again.
LEMMA NoNewCode ==
  ASSUME IInv, \A v \in Workers : round'[v].code \in {round[v].code, None}
  PROVE  CodeOnce
<1>1. None \notin returned
  BY Bounds DEF IInv, Types, TypeOK
<1> QED
  BY <1>1 DEF CodeOnce

\* A round that opens its mailbox knows what is known, and that is spent for it.
LEMMA OpensMailboxKeeps ==
  ASSUME IInv, NEW w \in Workers, OpensMailbox(w)
  PROVE  Kept
<1>t. /\ round[w] \in Rounds /\ round[w].pc = "asked" /\ Active(w) /\ Waits(w)
      /\ seen \in [Kinds -> SUBSET Ids] /\ returned \in SUBSET Places /\ SeenTypes
  BY DEF OpensMailbox, IInv, Types, TypeOK, Active, Waits, SeenTypes, Kinds
<1>b. Box(w) \in Boxes /\ api[Box(w)] \in Kinds
  BY <1>t, BoxIs DEF IInv
<1>u. UNCHANGED <<api, clock, mail, travelling, requests, seen, trimmed, returned>>
  BY DEF OpensMailbox, postVars
<1>s. round[w].code = None /\ round[w].polls < MaxPolls /\ (round[w].missed # {} => Excused(round[w].alone, Box(w)))
  BY <1>t DEF IInv, RoundShape, OverlooksNothing, Excused
<1>k. \A k \in Kinds : KnownIsSpent(k, seen[k])
  BY DEF IInv, Knowledge
<1>e. \A k : StaysSpent(k, {})
  BY DEF StaysSpent
<1>1. ASSUME NEW r \in Rounds, Moves(w, r), r.code = None,
             r.pc = "polling" => r.known = IF api[Box(w)] = "temp" THEN {} ELSE seen[api[Box(w)]]
      PROVE  Kept
  <2>1. OthersKept
    BY <1>1, <1>t, <1>u, MovesKeep DEF SeenTypes
  <2>2. \A k \in Kinds : StaysSpent(k, seen[k])
    BY <1>k, <2>1 DEF OthersKept
  <2>3. Knowledge'
    <3>1. r.pc = "polling" => StaysSpent(api[Box(w)], r.known)
      BY <1>1, <1>b, <1>e, <2>2
    <3> QED
      BY <1>1, <1>t, <1>b, <1>u, <2>2, <3>1, KnowledgeKeeps
  <2>4. ReturnedIsKnown'
    <3>1. r.pc = "polling" /\ api[Box(w)] # "temp" /\ ~trimmed' =>
            \A p \in returned : p[1] = Box(w) => Fingerprint(p[1], p[2]) \in r.known
      BY <1>1, <1>u DEF IInv, ReturnedIsKnown
    <3> QED
      BY <1>1, <1>t, <1>u, <3>1, ReturnedKeeps
  <2>5. CodeOnce
    <3>1. \A v \in Workers : round'[v].code \in {round[v].code, None}
      BY <1>1, <1>t, MovesSettle
    <3> QED
      BY <3>1, NoNewCode
  <2> QED
    BY <2>1, <2>3, <2>4, <2>5 DEF Kept, IInv, OthersKept
<1>2. CASE round' = [round EXCEPT ![w].pc = "polling",
                                  ![w].known = IF api[Box(w)] = "temp" THEN {} ELSE seen[api[Box(w)]]]
  <2> DEFINE known == IF api[Box(w)] = "temp" THEN {} ELSE seen[api[Box(w)]]
             r == [round[w] EXCEPT !.pc = "polling", !.known = known]
  <2>1. known \in SUBSET Ids
    BY <1>t, <1>b
  <2>2. round' = [round EXCEPT ![w] = r]
    BY <1>2
  <2> HIDE DEF known
  <2>3. /\ r \in Rounds /\ r.pc = "polling" /\ r.known = known /\ r.code = None
        /\ r.alias = round[w].alias /\ r.alone = round[w].alone /\ r.missed = round[w].missed
        /\ r.request = round[w].request /\ r.asked = round[w].asked /\ r.polls < MaxPolls
    BY <1>t, <1>s, <2>1 DEF Rounds
  <2> HIDE DEF r
  <2>4. Moves(w, r)
    BY <1>t, <1>u, <1>s, <2>2, <2>3 DEF Moves
  <2> QED
    BY <1>1, <2>3, <2>4 DEF known
<1>3. CASE round' = [round EXCEPT ![w] = Finished(@, "failed")]
  <2> DEFINE r == Finished(round[w], "failed")
  <2>1. /\ r \in Rounds /\ r.pc = "failed" /\ r.known = {} /\ r.missed = {} /\ r.code = None
        /\ r.alias = round[w].alias /\ r.alone = round[w].alone
    BY <1>t, <1>s, FinishedIs
  <2>2. round' = [round EXCEPT ![w] = r]
    BY <1>3
  <2> HIDE DEF r
  <2>3. Moves(w, r)
    BY <1>u, <2>1, <2>2 DEF Moves
  <2> QED
    BY <1>1, <2>1, <2>3
<1> QED
  BY <1>2, <1>3 DEF OpensMailbox

\* A round that looks.
LEMMA PollingIs ==
  ASSUME IInv, NEW w \in Workers, round[w].pc = "polling"
  PROVE  /\ Active(w) /\ Waits(w) /\ round[w] \in Rounds /\ Box(w) \in Boxes /\ api[Box(w)] \in Kinds
         /\ round[w].polls < MaxPolls /\ round[w].code = None /\ round[w].known \in SUBSET Ids
         /\ round[w].alias \in Aliases /\ round[w].asked \in Nat
         /\ (api[Box(w)] = "temp" => round[w].alias \in Mains)
<1>1. Active(w) /\ Waits(w) /\ round[w] \in Rounds
  BY DEF Active, Waits, IInv, Types, TypeOK
<1>2. Box(w) \in Boxes /\ api[Box(w)] \in Kinds /\ round[w].alias \in Aliases
  BY <1>1, BoxIs DEF IInv
<1> QED
  BY <1>1, <1>2, Bounds DEF Rounds, IInv, RoundShape

\* What the main address may take without knowing its recipient, and the alias itself.
LEMMA FoundFits ==
  ASSUME IInv, NEW w \in Workers, round[w].pc = "polling",
         Found(Box(w), round[w].alias, Known(w), round[w].asked) # 0
  PROVE  CodeFits(<<Box(w), Found(Box(w), round[w].alias, Known(w), round[w].asked)>>, round[w].alias)
<1> DEFINE b == Box(w)
           a == round[w].alias
           f == Found(b, a, Known(w), round[w].asked)
           m == mail[b][f]
<1>1. b \in Boxes /\ a \in Aliases /\ (api[b] = "temp" => a \in Mains)
  BY PollingIs
<1>2. f \in DOMAIN mail[b] /\ (IsFor(b, m, a) \/ (IsAmbiguous(b, m, a) /\ TakesAmbiguous(b, a)))
  BY <1>1, FoundIs DEF IInv
<1>3. m \in Letters /\ Letter(<<b, f>>) = m
  BY <1>1, <1>2, LetterIs DEF IInv, Letter
<1>4. MainOf(b) \in Mains
  BY <1>1, MailAssumption DEF MainOf
<1> HIDE DEF b, a, f, m
<1>5. m.shown \in {"exact", "main", "none"}
  BY <1>3 DEF Letters, Shown
<1>6. CASE m.shown = "exact"
  <2>1. Recipients(b, m) = {m.to}
    BY <1>6 DEF Recipients
  <2>2. m.to = a \/ (a \notin Mains /\ TakesAmbiguous(b, a))
    BY <1>2, <2>1 DEF IsFor, IsAmbiguous
  <2> QED
    BY <1>3, <2>2 DEF TakesAmbiguous, CodeFits, b, a, f
<1>7. CASE m.shown = "main"
  <2>1. Recipients(b, m) = {MainOf(b)}
    BY <1>7 DEF Recipients
  <2>2. a \in Mains
    BY <1>2, <1>4, <2>1 DEF IsFor, IsAmbiguous, TakesAmbiguous
  <2> QED
    BY <1>3, <1>7, <2>2 DEF CodeFits, b, a, f
<1>8. CASE m.shown = "none"
  <2>1. Recipients(b, m) = {}
    BY <1>8 DEF Recipients
  <2>2. a \in Mains
    BY <1>1, <1>2, <2>1 DEF IsFor, TakesAmbiguous
  <2> QED
    BY <1>3, <1>8, <2>2 DEF CodeFits, b, a, f
<1> QED
  BY <1>5, <1>6, <1>7, <1>8

\* A look that finds nothing has overlooked nothing, but for what may be excused: mail
\* that can be read is not spent, so its id is not known.
LEMMA UnfoundIsExcused ==
  ASSUME IInv, NEW w \in Workers, round[w].pc = "polling",
         Found(Box(w), round[w].alias, Known(w), round[w].asked) = 0, Readable(w) # {}
  PROVE  Excused(round[w].alone, Box(w))
<1> DEFINE b == Box(w)
           a == round[w].alias
<1>1. /\ Waits(w) /\ b \in Boxes /\ api[b] \in Kinds /\ a \in Aliases /\ round[w].asked \in Nat
  BY PollingIs
<1>2. PICK i \in Readable(w) : TRUE
  OBVIOUS
<1>3. /\ i \in Newest(b) /\ mail[b][i].to = a /\ mail[b][i].request = round[w].request
      /\ mail[b][i].shown = "exact" /\ mail[b][i].stamp + Slack(b) >= round[w].asked
      /\ mail[b][i].completed => api[b] = "imap"
  BY DEF Readable, Slack
<1>4. i \in DOMAIN mail[b] /\ i \in 1 .. MaxMail /\ mail[b][i].stamp \in Nat
  BY <1>1, <1>3, FreshIsThere, LetterIs DEF IInv
<1>5. Slack(b) \in Nat
  BY Bounds DEF Slack
<1>6. ~(mail[b][i].stamp + Slack(b) < round[w].asked)
  BY <1>1, <1>3, <1>4, <1>5
<1>7. ~Spent(w, b, i)
  BY <1>3, <1>6 DEF Spent
<1>8. SUFFICES ASSUME round[w].alone, Distinct(b) PROVE FALSE
  BY DEF Excused, Distinct
<1>9. Fingerprint(b, i) \notin Known(w)
  <2>1. KnownIsSpent(api[b], Known(w))
    BY <1>1 DEF IInv, Knowledge, Known
  <2> QED
    BY <1>1, <1>3, <1>4, <1>7, <1>8, <2>1 DEF KnownIsSpent
<1>10. i \in Fresh(b, Known(w), round[w].asked)
  BY <1>1, <1>3, <1>4, <1>6, <1>9, CutoffIs DEF Unread, Fresh
<1>11. IsCode(mail[b][i]) /\ IsFor(b, mail[b][i], a)
  BY <1>1, <1>3, Bounds DEF IsCode, IsFor, Recipients
<1> QED
  BY <1>1, <1>10, <1>11, FindsWhatIsFor DEF IInv

\* A code that a round alone finds was not handed out before: it would be known.
LEMMA FoundIsNew ==
  ASSUME IInv, NEW w \in Workers, round[w].pc = "polling",
         Found(Box(w), round[w].alias, Known(w), round[w].asked) # 0,
         ~trimmed, round[w].alone
  PROVE  <<Box(w), Found(Box(w), round[w].alias, Known(w), round[w].asked)>> \notin returned
<1> DEFINE b == Box(w)
           f == Found(b, round[w].alias, Known(w), round[w].asked)
<1>1. b \in Boxes
  BY PollingIs
<1>2. Fingerprint(b, f) \notin Known(w)
  BY <1>1, FoundIsMarked DEF IInv
<1> HIDE DEF f
<1> SUFFICES ASSUME <<b, f>> \in returned PROVE FALSE
  BY DEF f
<1>3. CASE api[b] = "temp"
  BY <1>2, <1>3 DEF IInv, ReturnedIsKnown, Known
<1>4. CASE api[b] # "temp"
  BY <1>2, <1>4 DEF IInv, ReturnedIsKnown, Known
<1> QED
  BY <1>3, <1>4

\* A look: what it finds is for the round and not known, what it marks is spent.
LEMMA PollsKeeps ==
  ASSUME IInv, NEW w \in Workers, Polls(w)
  PROVE  Kept
<1> DEFINE b == Box(w)
           a == round[w].alias
           f == Found(b, a, Known(w), round[w].asked)
           marked == Marked(b, a, Known(w), round[w].asked)
           ids == round[w].known \cup marked
<1>p. round[w].pc = "polling"
  BY DEF Polls
<1>t. /\ Active(w) /\ Waits(w) /\ round[w] \in Rounds /\ b \in Boxes /\ api[b] \in Kinds
      /\ round[w].polls < MaxPolls /\ round[w].code = None /\ round[w].known \in SUBSET Ids
      /\ a \in Aliases /\ returned \in SUBSET Places
  BY <1>p, PollingIs DEF IInv, Types, TypeOK
<1>u. UNCHANGED <<api, clock, mail, travelling, requests>>
  BY DEF Polls, postVars
<1>m. ids \in SUBSET Ids /\ marked \in SUBSET Ids
  BY <1>t, MarkedIs DEF IInv
<1>s. /\ SeenTypes'
      /\ seen'[api[b]] \subseteq seen[api[b]] \cup ids
      /\ \A j \in Kinds \ {api[b]} : seen'[j] = seen[j]
      /\ ~trimmed' => ~trimmed /\ seen'[api[b]] = seen[api[b]] \cup ids
  <2>1. Remembers(api[b], ids)
    BY DEF Polls
  <2> HIDE DEF ids
  <2> QED
    BY <1>t, <1>m, <2>1, RemembersIs DEF IInv, SeenTypes
<1>k. KnownIsSpent(api[b], seen[api[b]]) /\ KnownIsSpent(api[b], round[w].known)
  BY <1>p, <1>t DEF IInv, Knowledge
\* What is known after a look, whether it found a code or not.
<1>1. ASSUME NEW r \in Rounds, Moves(w, r), returned' \in SUBSET Places,
             f = 0 \/ r.pc \notin {"asked", "polling"},
             r.pc = "polling" => r.known = IF api[b] = "temp" THEN {} ELSE ids,
             \A p \in returned' \ returned : r.pc # "polling" /\ p = <<b, f>> /\ f # 0
      PROVE  IInv'
  <2>1. OthersKept
    BY <1>1, <1>t, <1>s, MovesKeep
  <2>2. Settles /\ \A v \in Workers : round'[v] = IF v = w THEN r ELSE round[v]
    BY <1>1, <1>t, MovesSettle
  <2>3. StaysSpent(api[b], seen[api[b]]) /\ StaysSpent(api[b], round[w].known)
    BY <1>k, <2>1 DEF OthersKept
  <2>4. StaysSpent(api[b], marked)
    <3>1. f = 0 \/ ~Waits(w)'
      BY <1>1, <2>2 DEF Waits
    <3> QED
      BY <1>t, <1>u, <2>2, <3>1, MarkedIsSpent
  <2>5. StaysSpent(api[b], ids)
    BY <2>3, <2>4, KnowledgeAdds
  <2>6. StaysSpent(api[b], seen'[api[b]])
    BY <1>s, <2>3, <2>5, KnowledgeAdds
  <2>7. StaysSpent(api[b], {})
    BY DEF StaysSpent
  <2>8. Knowledge'
    BY <1>1, <1>t, <1>s, <2>5, <2>6, <2>7, KnowledgeKeeps
  <2>9. ReturnedIsKnown'
    <3>1. ~trimmed' => ~trimmed /\ \A j \in Kinds : seen[j] \subseteq seen'[j]
      BY <1>s
    <3>2. ASSUME NEW p \in returned' \ returned
          PROVE  r.pc # "polling" /\ p[1] = b /\ Fingerprint(p[1], p[2]) \in marked
      BY <1>1, <1>t, <3>2, FoundIsMarked DEF IInv
    <3>3. r.pc = "polling" /\ r.alone /\ api[b] # "temp" /\ ~trimmed' =>
            \A p \in returned : p[1] = b => Fingerprint(p[1], p[2]) \in r.known
      <4>1. r.pc = "polling" /\ r.alone => round[w].alone
        BY <1>1 DEF Moves
      <4> QED
        BY <1>1, <1>p, <3>1, <4>1 DEF IInv, ReturnedIsKnown
    <3>4. ~trimmed' => \A p \in returned' \ returned : Fingerprint(p[1], p[2]) \in seen'[api[b]]
      BY <1>s, <3>2
    <3> QED
      BY <1>1, <1>t, <3>1, <3>2, <3>3, <3>4, ReturnedKeeps
  <2> QED
    BY <2>1, <2>8, <2>9 DEF IInv, OthersKept
<1> HIDE DEF f, marked, ids
<1>2. CASE f # 0
  <2> DEFINE g == Finished(round[w], "got")
             r == [g EXCEPT !.code = <<b, f>>]
  <2>1. /\ g \in Rounds /\ g.pc = "got" /\ g.known = {} /\ g.missed = {}
        /\ g.alias = a /\ g.alone = round[w].alone
    BY <1>t, FinishedIs
  <2>2. <<b, f>> \in Places /\ f \in DOMAIN mail[b]
    <3>1. f \in DOMAIN mail[b]
      BY <1>t, <1>2, FoundIs DEF IInv, f
    <3> QED
      BY <1>t, <3>1, LetterIs DEF IInv
  <2>3. round' = [round EXCEPT ![w] = r] /\ returned' = returned \cup {<<b, f>>}
    BY <1>2 DEF Polls, f
  <2> HIDE DEF g
  <2>4. /\ r \in Rounds /\ r.pc = "got" /\ r.known = {} /\ r.missed = {}
        /\ r.alias = a /\ r.alone = round[w].alone /\ r.code = <<b, f>>
    BY <2>1, <2>2 DEF Rounds
  <2>5. CodeFits(<<b, f>>, a)
    BY <1>p, <1>2, FoundFits DEF f
  <2> HIDE DEF r
  <2>6. Moves(w, r)
    BY <1>u, <2>2, <2>3, <2>4, <2>5 DEF Moves
  <2>7. IInv'
    BY <1>1, <1>t, <1>2, <2>2, <2>3, <2>4, <2>6
  <2>8. CodeOnce
    <3>1. \A v \in Workers : round'[v] = IF v = w THEN r ELSE round[v]
      BY <1>t, <2>4, <2>6, MovesSettle
    <3>2. ~trimmed /\ round[w].alone => <<b, f>> \notin returned
      BY <1>p, <1>2, FoundIsNew DEF f
    <3> QED
      BY <2>4, <3>1, <3>2 DEF CodeOnce
  <2> QED
    BY <2>7, <2>8 DEF Kept
<1>3. CASE f = 0
  <2> DEFINE known == IF api[b] = "temp" THEN {} ELSE ids
             r == Looked(round[w], known, Readable(w))
  <2>1. known \in SUBSET Ids
    BY <1>m
  <2>2. Readable(w) \in SUBSET (1 .. MaxMail)
    <3>1. Readable(w) \subseteq DOMAIN mail[b]
      BY <1>t, FreshIsThere DEF Readable
    <3> QED
      BY <1>t, <3>1, LetterIs DEF IInv
  <2>3. round' = [round EXCEPT ![w] = r] /\ returned' = returned
    BY <1>3 DEF Polls, f, marked, ids
  <2> HIDE DEF known
  <2>4. /\ r \in Rounds /\ r.alias = a /\ r.alone = round[w].alone /\ r.code = None /\ r.missed = Readable(w)
        /\ \/ r.pc = "failed" /\ r.known = {}
           \/ /\ r.pc = "polling" /\ r.known = known /\ r.request = round[w].request
              /\ r.asked = round[w].asked /\ r.polls < MaxPolls
    BY <1>p, <1>t, <2>1, <2>2, LookedIs
  <2>5. r.missed # {} => Excused(round[w].alone, b)
    BY <1>p, <1>3, <2>4, UnfoundIsExcused DEF f
  <2> HIDE DEF r
  <2>6. Moves(w, r)
    BY <1>t, <1>u, <2>3, <2>4, <2>5 DEF Moves
  <2>7. IInv'
    BY <1>1, <1>t, <1>3, <2>3, <2>4, <2>6 DEF known
  <2>8. CodeOnce
    <3>1. \A v \in Workers : round'[v] = IF v = w THEN r ELSE round[v]
      BY <1>t, <2>4, <2>6, MovesSettle
    <3> QED
      BY <2>4, <3>1, NoNewCode
  <2> QED
    BY <2>7, <2>8 DEF Kept
<1> QED
  BY <1>2, <1>3

\* A round that goes on without a look knows no more, nor does any other.
LEMMA QuietKeeps ==
  ASSUME IInv, NEW w \in Workers, NEW r \in Rounds, Active(w), Moves(w, r),
         returned' = returned, SeenTypes', r.code \in {None, round[w].code},
         r.pc = "polling" => round[w].pc = "polling" /\ r.known = round[w].known,
         \A j \in Kinds \ {api[Box(w)]} : seen'[j] = seen[j],
         seen'[api[Box(w)]] \subseteq seen[api[Box(w)]] \cup round[w].known,
         ~trimmed' => ~trimmed /\ \A j \in Kinds : seen[j] \subseteq seen'[j]
  PROVE  Kept
<1>1. returned' \in SUBSET Places
  BY DEF IInv, Types, TypeOK
<1>2. OthersKept
  BY <1>1, MovesKeep
<1>3. api[Box(w)] \in Kinds /\ StaysSpent(api[Box(w)], seen[api[Box(w)]])
  <2>1. api[Box(w)] \in Kinds
    BY BoxIs DEF IInv
  <2> QED
    BY <1>2, <2>1 DEF IInv, Knowledge, OthersKept
<1>4. StaysSpent(api[Box(w)], round[w].known)
  <2>1. CASE round[w].pc = "polling"
    BY <1>2, <2>1 DEF IInv, Knowledge, OthersKept
  <2>2. CASE round[w].pc # "polling"
    BY <2>2 DEF IInv, RoundShape, StaysSpent
  <2> QED
    BY <2>1, <2>2
<1>5. Knowledge'
  <2>1. StaysSpent(api[Box(w)], seen'[api[Box(w)]])
    BY <1>3, <1>4, KnowledgeAdds
  <2> QED
    BY <1>4, <2>1, KnowledgeKeeps
<1>6. ReturnedIsKnown'
  <2>1. r.pc = "polling" /\ r.alone /\ api[Box(w)] # "temp" /\ ~trimmed' =>
          \A p \in returned : p[1] = Box(w) => Fingerprint(p[1], p[2]) \in r.known
    BY DEF IInv, ReturnedIsKnown, Moves
  <2> QED
    BY <2>1, ReturnedKeeps
<1>7. CodeOnce
  <2>1. \A v \in Workers : round'[v].code \in {round[v].code, None}
    BY MovesSettle
  <2> QED
    BY <2>1, NoNewCode
<1> QED
  BY <1>2, <1>5, <1>6, <1>7 DEF Kept, IInv, OthersKept

\* A look that fails takes what the round knew back to the shared set.
LEMMA PollFailsKeeps ==
  ASSUME IInv, NEW w \in Workers, PollFails(w)
  PROVE  Kept
<1>p. round[w].pc = "polling"
  BY DEF PollFails
<1>t. /\ Active(w) /\ Waits(w) /\ round[w] \in Rounds /\ api[Box(w)] \in Kinds
      /\ round[w].polls < MaxPolls /\ round[w].code = None /\ round[w].known \in SUBSET Ids
  BY <1>p, PollingIs
<1>u. UNCHANGED <<api, clock, mail, travelling, requests>> /\ returned' = returned
  BY DEF PollFails, postVars
<1>1. CASE /\ round' = [round EXCEPT ![w] = Looked(@, @.known, {})]
           /\ Remembers(api[Box(w)], round[w].known)
  <2> DEFINE r == Looked(round[w], round[w].known, {})
  <2>1. /\ r \in Rounds /\ r.alias = round[w].alias /\ r.alone = round[w].alone /\ r.code = None /\ r.missed = {}
        /\ \/ r.pc = "failed" /\ r.known = {}
           \/ /\ r.pc = "polling" /\ r.known = round[w].known /\ r.request = round[w].request
              /\ r.asked = round[w].asked /\ r.polls < MaxPolls
    <3> DEFINE q == round[w]
               known == q.known
               none == {}
    <3>1. none \in SUBSET (1 .. MaxMail) /\ none = {}
      OBVIOUS
    <3>2. q \in Rounds /\ q.pc = "polling" /\ q.polls < MaxPolls /\ known \in SUBSET Ids /\ q.code = None
      BY <1>p, <1>t
    <3>3. r = Looked(q, known, none)
      OBVIOUS
    <3> HIDE DEF q, known, none, r
    <3>4. /\ r \in Rounds /\ r.alias = q.alias /\ r.alone = q.alone /\ r.code = q.code /\ r.missed = none
          /\ \/ r.pc = "failed" /\ r.known = {}
             \/ /\ r.pc = "polling" /\ r.known = known /\ r.request = q.request
                /\ r.asked = q.asked /\ r.polls < MaxPolls
      BY <3>1, <3>2, <3>3, LookedIs
    <3> QED
      BY <3>1, <3>2, <3>4 DEF q, known
  <2>2. round' = [round EXCEPT ![w] = r]
    BY <1>1
  <2> HIDE DEF r
  <2>3. Moves(w, r)
    BY <1>t, <1>u, <2>1, <2>2 DEF Moves
  <2>4. /\ SeenTypes'
        /\ seen'[api[Box(w)]] \subseteq seen[api[Box(w)]] \cup round[w].known
        /\ \A j \in Kinds \ {api[Box(w)]} : seen'[j] = seen[j]
        /\ ~trimmed' => ~trimmed /\ seen'[api[Box(w)]] = seen[api[Box(w)]] \cup round[w].known
    BY <1>1, <1>t, RemembersIs DEF IInv, SeenTypes
  <2> QED
    BY <1>p, <1>t, <1>u, <2>1, <2>3, <2>4, QuietKeeps
<1>2. CASE /\ round' = [round EXCEPT ![w] = Finished(@, "failed")]
           /\ UNCHANGED <<seen, trimmed>>
  <2> DEFINE r == Finished(round[w], "failed")
  <2>1. /\ r \in Rounds /\ r.pc = "failed" /\ r.known = {} /\ r.missed = {} /\ r.code = None
        /\ r.alias = round[w].alias /\ r.alone = round[w].alone
    BY <1>t, FinishedIs
  <2>2. round' = [round EXCEPT ![w] = r]
    BY <1>2
  <2> HIDE DEF r
  <2>3. Moves(w, r)
    BY <1>u, <2>1, <2>2 DEF Moves
  <2>4. SeenTypes'
    BY <1>2 DEF IInv, Types, TypeOK, SeenTypes, Kinds
  <2> QED
    BY <1>t, <1>u, <1>2, <2>1, <2>3, <2>4, QuietKeeps
<1> QED
  BY <1>1, <1>2 DEF PollFails

\* A lost lease or an end takes nothing from anybody.
LEMMA LeavesKeeps ==
  ASSUME IInv, NEW w \in Workers, LosesLease(w) \/ Ends(w)
  PROVE  Kept
<1>t. /\ Active(w) /\ round[w] \in Rounds
      /\ UNCHANGED <<api, clock, mail, travelling, requests>> /\ UNCHANGED <<seen, trimmed>> /\ returned' = returned
  BY DEF LosesLease, Ends, Active, postVars, IInv, Types, TypeOK
<1>s. SeenTypes'
  BY <1>t DEF IInv, Types, TypeOK, SeenTypes, Kinds
<1>1. CASE LosesLease(w)
  <2> DEFINE r == [round[w] EXCEPT !.leased = FALSE]
  <2>1. /\ r \in Rounds /\ r.pc = round[w].pc /\ r.known = round[w].known /\ r.missed = round[w].missed
        /\ r.code = round[w].code /\ r.alias = round[w].alias /\ r.alone = round[w].alone
        /\ r.request = round[w].request /\ r.asked = round[w].asked /\ r.polls = round[w].polls
    BY <1>t DEF Rounds
  <2>2. round' = [round EXCEPT ![w] = r]
    BY <1>1 DEF LosesLease
  <2> HIDE DEF r
  <2>3. r.code # None => r.pc = "got" /\ r.code[2] \in DOMAIN mail[r.code[1]] /\ CodeFits(r.code, r.alias)
    BY <2>1 DEF IInv, RoundShape, CodeIsForAlias, CodeFits
  <2>4. r.missed # {} => Excused(round[w].alone, Box(w))
    BY <2>1 DEF IInv, OverlooksNothing, Excused
  <2>5. /\ r.pc \in {"asked", "polling"} => Waits(w) /\ r.polls < MaxPolls /\ r.code = None
        /\ r.pc # "polling" => r.known = {}
    BY <2>1 DEF IInv, RoundShape, Waits
  <2>6. r.pc # "idle"
    BY <1>t, <2>1 DEF Active
  <2>7. Moves(w, r)
    BY <1>t, <2>1, <2>2, <2>3, <2>4, <2>5, <2>6 DEF Moves
  <2> QED
    BY <1>t, <1>s, <2>1, <2>7, QuietKeeps
<1>2. CASE Ends(w)
  <2>1. /\ NoRound \in Rounds /\ NoRound.pc = "idle" /\ NoRound.known = {} /\ NoRound.missed = {}
        /\ NoRound.code = None
    BY Bounds DEF NoRound, Rounds
  <2>2. round' = [round EXCEPT ![w] = NoRound]
    BY <1>2 DEF Ends
  <2>3. Moves(w, NoRound)
    BY <1>t, <2>1, <2>2 DEF Moves
  <2> QED
    BY <1>t, <1>s, <2>1, <2>3, QuietKeeps
<1> QED
  BY <1>1, <1>2

----------------------------------------------------------------------------
(* Mail, time, and a new round *)

\* Mail stays where it is, as it is; only its headers may be completed.
MailStays ==
    /\ mail' \in [Boxes -> Seq(Letters)]
    /\ \A b \in Boxes :
        /\ Len(mail'[b]) <= MaxMail /\ DOMAIN mail[b] \subseteq DOMAIN mail'[b]
        /\ \A i \in DOMAIN mail[b] :
            /\ mail'[b][i].to = mail[b][i].to /\ mail'[b][i].request = mail[b][i].request
            /\ mail'[b][i].stamp = mail[b][i].stamp
            /\ mail'[b][i] = mail[b][i] \/ mail'[b][i].completed

\* Rounds and ids know nothing of what arrives.
LEMMA MailKeeps ==
  ASSUME IInv, MailStays, UNCHANGED <<api, clock, requests, seen, trimmed, round, returned>>,
         travelling' \subseteq travelling,
         \A b \in Boxes : \A i \in DOMAIN mail'[b] \ DOMAIN mail[b] :
           \/ \E t \in travelling : mail'[b][i].to = t[1] /\ mail'[b][i].request = t[2]
           \/ mail'[b][i].to = None /\ mail'[b][i].request = 0
  PROVE  Kept
<1>t. /\ round \in [Workers -> Rounds] /\ requests \in Nat /\ returned \in SUBSET Places
      /\ mail \in [Boxes -> Seq(Letters)]
  BY Bounds DEF IInv, Types, TypeOK
<1>w. \A w \in Workers : Active(w)' = Active(w) /\ Box(w)' = Box(w) /\ Waits(w)' = Waits(w)
  BY DEF Active, Box, Waits
<1>1. Types'
  <2>1. mail' \in [Boxes -> Seq(Letters)] /\ \A b \in Boxes : Len(mail'[b]) <= MaxMail
    BY DEF MailStays
  <2>2. \A b \in Boxes : \A i \in DOMAIN mail'[b] : mail'[b][i] \in Letters
    BY <2>1
  <2>3. travelling' \subseteq Aliases \X (1 .. MaxRequests)
    BY DEF IInv, Types, TypeOK
  <2> QED
    BY <2>1, <2>2, <2>3 DEF IInv, Types, TypeOK
<1>2. RoundShape'
  <2>1. ASSUME NEW w \in Workers, round[w].code # None
        PROVE  round[w].pc = "got" /\ round[w].code[2] \in DOMAIN mail'[round[w].code[1]]
    <3>1. round[w].code[1] \in Boxes
      BY <1>t, <2>1 DEF Rounds, Places
    <3> QED
      BY <2>1, <3>1 DEF IInv, RoundShape, MailStays
  <2> QED
    BY <1>w, <2>1 DEF IInv, RoundShape
<1>3. AloneIsAlone'
  BY <1>w DEF IInv, AloneIsAlone
<1>4. Tickets'
  <2>1. ASSUME NEW b \in Boxes, NEW i \in DOMAIN mail'[b]
        PROVE  /\ mail'[b][i].request <= requests
               /\ \A w \in Workers : Waits(w) /\ mail'[b][i].request = round[w].request =>
                    mail'[b][i].to = round[w].alias
    <3>1. CASE i \in DOMAIN mail[b]
      BY <3>1 DEF IInv, Tickets, MailStays
    <3>2. CASE i \notin DOMAIN mail[b]
      <4>1. CASE \E t \in travelling : mail'[b][i].to = t[1] /\ mail'[b][i].request = t[2]
        BY <4>1 DEF IInv, Tickets
      <4>2. CASE mail'[b][i].request = 0
        <5>1. \A w \in Workers : Waits(w) => round[w].request # 0
          BY DEF IInv, RoundShape
        <5> QED
          BY <1>t, <4>2, <5>1
      <4> QED
        BY <3>2, <4>1, <4>2
    <3> QED
      BY <3>1, <3>2
  <2> QED
    BY <1>w, <2>1 DEF IInv, Tickets
<1>5. ASSUME NEW k, NEW ids, KnownIsSpent(k, ids) PROVE StaysSpent(k, ids)
  <2> SUFFICES ASSUME NEW b \in Boxes, NEW i \in 1 .. MaxMail, api[b] = k, Distinct(b), Fingerprint(b, i) \in ids
               PROVE  /\ i \in DOMAIN mail'[b]
                      /\ \A w \in Workers :
                           Waits(w) /\ round[w].alone /\ Box(w) = b /\ mail'[b][i].request = round[w].request =>
                             Spent(w, b, i)'
    BY <1>w DEF StaysSpent, Distinct, Fingerprint
  <2>1. /\ i \in DOMAIN mail[b]
        /\ \A w \in Workers :
             Waits(w) /\ round[w].alone /\ Box(w) = b /\ mail[b][i].request = round[w].request => Spent(w, b, i)
    BY <1>5 DEF KnownIsSpent
  <2>2. \A w \in Workers : Spent(w, b, i) => Spent(w, b, i)'
    BY <2>1 DEF Spent, Slack, MailStays
  <2> QED
    BY <2>1, <2>2 DEF MailStays
<1>6. Knowledge'
  <2>1. \A k \in Kinds : StaysSpent(k, seen[k])
    BY <1>5 DEF IInv, Knowledge
  <2>2. \A v \in Workers : round[v].pc = "polling" => StaysSpent(api[Box(v)], round[v].known)
    BY <1>5 DEF IInv, Knowledge
  <2>3. \A k \in Kinds : KnownIsSpent(k, seen[k])'
    BY <2>1 DEF StaysSpent, KnownIsSpent
  <2>4. \A v \in Workers : round'[v].pc = "polling" => KnownIsSpent(api[Box(v)], round[v].known)'
    BY <1>w, <2>2 DEF StaysSpent, KnownIsSpent
  <2> QED
    BY <2>3, <2>4 DEF Knowledge
<1>7. ReturnedIsKnown'
  BY <1>w DEF IInv, ReturnedIsKnown, Fingerprint
<1>8. CodeIsForAlias'
  <2> SUFFICES ASSUME NEW w \in Workers, round[w].code # None
               PROVE  \/ Letter(round[w].code)'.to = round[w].alias
                      \/ round[w].alias \in Mains /\ Letter(round[w].code)'.shown # "exact"
                      \/ Letter(round[w].code)'.completed
    BY DEF CodeIsForAlias
  <2>1. round[w].code[1] \in Boxes /\ round[w].code[2] \in DOMAIN mail[round[w].code[1]]
    BY <1>t DEF Rounds, Places, IInv, RoundShape
  <2>2. /\ Letter(round[w].code)' = mail'[round[w].code[1]][round[w].code[2]]
        /\ Letter(round[w].code) = mail[round[w].code[1]][round[w].code[2]]
    BY DEF Letter
  <2>3. CASE Letter(round[w].code)' = Letter(round[w].code)
    BY <2>3 DEF IInv, CodeIsForAlias
  <2>4. CASE Letter(round[w].code)'.completed
    BY <2>4
  <2> QED
    BY <2>1, <2>2, <2>3, <2>4 DEF MailStays
<1>9. OverlooksNothing'
  BY <1>w DEF IInv, OverlooksNothing
<1>10. CodeOnce
  BY NoNewCode
<1> QED
  BY <1>1, <1>2, <1>3, <1>4, <1>6, <1>7, <1>8, <1>9, <1>10 DEF Kept, IInv

\* A delivery puts one message behind the others.
LEMMA DeliveryStays ==
  ASSUME IInv, NEW b \in Boxes, NEW letter \in Letters, Delivers(b, letter)
  PROVE  /\ MailStays
         /\ \A c \in Boxes : \A i \in DOMAIN mail'[c] \ DOMAIN mail[c] : mail'[c][i] = letter
<1>1. /\ mail \in [Boxes -> Seq(Letters)] /\ \A c \in Boxes : Len(mail[c]) <= MaxMail
      /\ Len(mail[b]) < MaxMail /\ mail' = [mail EXCEPT ![b] = Append(@, letter)]
  BY DEF IInv, Types, TypeOK, Delivers
<1>2. \A c \in Boxes : mail'[c] = IF c = b THEN Append(mail[b], letter) ELSE mail[c]
  BY <1>1
<1>3. /\ Append(mail[b], letter) \in Seq(Letters) /\ Len(Append(mail[b], letter)) = Len(mail[b]) + 1
      /\ \A i \in 1 .. Len(mail[b]) : Append(mail[b], letter)[i] = mail[b][i]
      /\ Append(mail[b], letter)[Len(mail[b]) + 1] = letter
  BY <1>1
<1>4. \A c \in Boxes : mail[c] \in Seq(Letters) /\ Len(mail[c]) \in Nat /\ DOMAIN mail[c] = 1 .. Len(mail[c])
  BY <1>1
<1>5. mail' \in [Boxes -> Seq(Letters)]
  BY <1>1, <1>3
<1>6. ASSUME NEW c \in Boxes
      PROVE  /\ Len(mail'[c]) <= MaxMail /\ DOMAIN mail[c] \subseteq DOMAIN mail'[c]
             /\ \A i \in DOMAIN mail[c] : mail'[c][i] = mail[c][i]
             /\ \A i \in DOMAIN mail'[c] \ DOMAIN mail[c] : mail'[c][i] = letter
  <2>1. CASE c = b
    <3>1. DOMAIN mail'[c] = 1 .. Len(mail[b]) + 1 /\ Len(mail[b]) + 1 <= MaxMail
      BY <1>1, <1>2, <1>3, <1>4, <2>1, Bounds
    <3>2. DOMAIN mail[c] \subseteq DOMAIN mail'[c]
      BY <1>4, <2>1, <3>1
    <3>3. \A i \in DOMAIN mail[c] : mail'[c][i] = mail[c][i]
      BY <1>2, <1>3, <1>4, <2>1
    <3>4. \A i \in DOMAIN mail'[c] \ DOMAIN mail[c] : i = Len(mail[b]) + 1
      BY <1>4, <2>1, <3>1
    <3>5. \A i \in DOMAIN mail'[c] \ DOMAIN mail[c] : mail'[c][i] = letter
      BY <1>2, <1>3, <2>1, <3>4
    <3>6. Len(mail'[c]) <= MaxMail
      BY <1>2, <1>3, <2>1, <3>1
    <3> QED
      BY <3>2, <3>3, <3>5, <3>6
  <2>2. CASE c # b
    BY <1>1, <1>2, <2>2
  <2> QED
    BY <2>1, <2>2
<1> QED
  BY <1>5, <1>6 DEF MailStays

\* Mail that arrives is that of its ticket, or of no round.
LEMMA ArrivesKeeps ==
  ASSUME IInv, (\E t \in travelling : Arrives(t)) \/ (\E b \in Boxes : ArrivesOther(b))
  PROVE  Kept
<1>t. clock \in 0 .. MaxTime /\ travelling \subseteq Aliases \X (1 .. MaxRequests)
  BY DEF IInv, Types, TypeOK
<1>1. ASSUME NEW t \in travelling, Arrives(t) PROVE Kept
  <2>1. t[1] \in Aliases /\ t[2] \in 1 .. MaxRequests /\ BoxOf[t[1]] \in Boxes
    BY <1>t, MailAssumption
  <2>2. PICK stamp \in Stamps, shown \in Ways(t[1]) :
          Delivers(BoxOf[t[1]], [to |-> t[1], request |-> t[2], stamp |-> stamp, shown |-> shown, completed |-> FALSE])
    BY <1>1 DEF Arrives
  <2> DEFINE letter == [to |-> t[1], request |-> t[2], stamp |-> stamp, shown |-> shown, completed |-> FALSE]
  <2>3. stamp \in 0 .. MaxTime /\ shown \in Shown
    BY <1>t, Bounds DEF Stamps, Ways, Shown
  <2>4. letter \in Letters /\ letter.to = t[1] /\ letter.request = t[2]
    BY <2>1, <2>3, Bounds DEF Letters
  <2> HIDE DEF letter
  <2>5. MailStays /\ \A c \in Boxes : \A i \in DOMAIN mail'[c] \ DOMAIN mail[c] : mail'[c][i] = letter
    BY <2>1, <2>2, <2>4, DeliveryStays DEF letter
  <2> QED
    BY <1>1, <2>4, <2>5, MailKeeps DEF Arrives
<1>2. ASSUME NEW b \in Boxes, ArrivesOther(b) PROVE Kept
  <2> DEFINE letter == [to |-> None, request |-> 0, stamp |-> clock, shown |-> "none", completed |-> FALSE]
  <2>1. letter \in Letters /\ letter.to = None /\ letter.request = 0
    BY <1>t, Bounds DEF Letters, Shown
  <2>2. Delivers(b, letter)
    BY <1>2 DEF ArrivesOther
  <2> HIDE DEF letter
  <2>3. MailStays /\ \A c \in Boxes : \A i \in DOMAIN mail'[c] \ DOMAIN mail[c] : mail'[c][i] = letter
    BY <2>1, <2>2, DeliveryStays
  <2> QED
    BY <1>2, <2>1, <2>3, MailKeeps DEF ArrivesOther
<1> QED
  BY <1>1, <1>2

\* A message whose recipient shows later counts as completed.
LEMMA CompletesHeadersKeeps ==
  ASSUME IInv, NEW b \in Boxes, NEW i \in 1 .. MaxMail, CompletesHeaders(b, i)
  PROVE  Kept
<1>1. /\ mail \in [Boxes -> Seq(Letters)] /\ \A c \in Boxes : Len(mail[c]) <= MaxMail
      /\ i \in DOMAIN mail[b]
      /\ mail' = [mail EXCEPT ![b][i] = Complete(@)]
  BY DEF IInv, Types, TypeOK, CompletesHeaders
<1> DEFINE m == Complete(mail[b][i])
<1>2. mail[b][i] \in Letters
  BY <1>1, LetterIs DEF IInv
<1>3. /\ m \in Letters /\ m.to = mail[b][i].to /\ m.request = mail[b][i].request
      /\ m.stamp = mail[b][i].stamp /\ m.completed
  BY <1>2 DEF Complete, Letters, Shown
<1>4. mail' = [mail EXCEPT ![b] = [mail[b] EXCEPT ![i] = m]]
  BY <1>1
<1> HIDE DEF m
<1>5. /\ [mail[b] EXCEPT ![i] = m] \in Seq(Letters) /\ Len([mail[b] EXCEPT ![i] = m]) = Len(mail[b])
      /\ DOMAIN [mail[b] EXCEPT ![i] = m] = DOMAIN mail[b]
  BY <1>1, <1>3
<1>6. mail' \in [Boxes -> Seq(Letters)]
  BY <1>1, <1>4, <1>5
<1>7. ASSUME NEW c \in Boxes
      PROVE  /\ Len(mail'[c]) <= MaxMail /\ DOMAIN mail'[c] = DOMAIN mail[c]
             /\ \A j \in DOMAIN mail[c] :
                  mail'[c][j] = mail[c][j] \/ (c = b /\ j = i /\ mail'[c][j] = m)
  BY <1>1, <1>4, <1>5
<1>8. MailStays
  BY <1>3, <1>6, <1>7 DEF MailStays
<1> QED
  BY <1>7, <1>8, MailKeeps DEF CompletesHeaders

\* Time spends nothing.
LEMMA TickKeeps == IInv /\ (Tick \/ UNCHANGED vars) => Kept
<1> SUFFICES ASSUME IInv, Tick \/ UNCHANGED vars PROVE Kept
  OBVIOUS
<1>1. UNCHANGED <<api, mail, travelling, requests, seen, trimmed, round, returned>>
  BY DEF Tick, vars, postVars
<1>2. clock' \in 0 .. MaxTime
  BY Bounds DEF IInv, Types, TypeOK, Tick, vars
<1>3. Types'
  BY <1>1, <1>2 DEF IInv, Types, TypeOK
<1>4. RoundShape' /\ AloneIsAlone' /\ Tickets'
  BY <1>1 DEF IInv, RoundShape, AloneIsAlone, Tickets, Active, Waits, Box
<1>5. Knowledge'
  BY <1>1 DEF IInv, Knowledge, KnownIsSpent, Distinct, Fingerprint, Spent, Slack, Waits, Box
<1>6. ReturnedIsKnown'
  BY <1>1 DEF IInv, ReturnedIsKnown, Fingerprint, Box
<1>7. CodeIsForAlias' /\ OverlooksNothing'
  BY <1>1 DEF IInv, CodeIsForAlias, OverlooksNothing, Letter, Box
<1>8. CodeOnce
  BY <1>1, NoNewCode
<1> QED
  BY <1>3, <1>4, <1>5, <1>6, <1>7, <1>8 DEF Kept, IInv

\* A new request is one that no mail answers yet; where it finds company, neither is alone.
LEMMA AsksKeeps ==
  ASSUME IInv, NEW w \in Workers, NEW a \in Aliases, Asks(w, a)
  PROVE  Kept
<1> DEFINE others == {v \in Workers : Active(v) /\ Box(v) = BoxOf[a]}
           company == others = {}
           n == [NoRound EXCEPT !.pc = "asked", !.alias = a, !.request = requests + 1,
                                !.asked = clock, !.leased = TRUE, !.alone = company]
<1>t. /\ round \in [Workers -> Rounds] /\ requests \in 0 .. MaxRequests /\ clock \in 0 .. MaxTime
      /\ travelling \subseteq Aliases \X (1 .. MaxRequests)
  BY DEF IInv, Types, TypeOK
<1>1. /\ ~Active(w) /\ requests < MaxRequests /\ (api[BoxOf[a]] = "temp" => a \in Mains)
      /\ requests' = requests + 1 /\ travelling' = travelling \cup {<<a, requests + 1>>}
      /\ UNCHANGED <<api, clock, mail, seen, trimmed, returned>>
      /\ round' = [v \in Workers |-> IF v = w THEN n
           ELSE IF v \in others THEN [round[v] EXCEPT !.alone = FALSE] ELSE round[v]]
  BY DEF Asks
<1>b. requests < MaxRequests
  BY DEF Asks
<1>2. requests + 1 \in 1 .. MaxRequests /\ requests + 1 \in 0 .. MaxRequests
  <2> HIDE DEF n, others
  <2> QED
    BY <1>t, <1>b, Bounds
<1>3. /\ n \in Rounds /\ n.pc = "asked" /\ n.alias = a /\ n.request = requests + 1 /\ n.polls = 0
      /\ n.code = None /\ n.known = {} /\ n.missed = {} /\ (n.alone => others = {})
  <2> DEFINE Asked(alone) == [NoRound EXCEPT !.pc = "asked", !.alias = a, !.request = requests + 1,
                                             !.asked = clock, !.leased = TRUE, !.alone = alone]
  <2>1. ASSUME NEW alone \in BOOLEAN
        PROVE  /\ Asked(alone) \in Rounds /\ Asked(alone).pc = "asked" /\ Asked(alone).alias = a
               /\ Asked(alone).request = requests + 1 /\ Asked(alone).polls = 0 /\ Asked(alone).code = None
               /\ Asked(alone).known = {} /\ Asked(alone).missed = {} /\ Asked(alone).alone = alone
    <3> HIDE DEF n, company, others
    <3>1. /\ Asked(alone).pc = "asked" /\ Asked(alone).alias = a
          /\ Asked(alone).request = requests + 1 /\ Asked(alone).polls = 0 /\ Asked(alone).code = None
          /\ Asked(alone).known = {} /\ Asked(alone).missed = {} /\ Asked(alone).alone = alone
      BY DEF NoRound
    <3>2. 0 \in 0 .. MaxPolls /\ {} \in SUBSET Ids /\ {} \in SUBSET (1 .. MaxMail)
      BY Bounds
    <3>3. Asked(alone) \in Rounds
      BY <1>t, <1>2, <3>2 DEF NoRound, Rounds
    <3> QED
      BY <3>1, <3>3
  <2>2. CASE others = {}
    <3>1. n = Asked(TRUE)
      BY <2>2
    <3> HIDE DEF n, Asked, others, company
    <3> QED
      BY <2>1, <2>2, <3>1
  <2>3. CASE others # {}
    <3>1. n = Asked(FALSE)
      BY <2>3
    <3> HIDE DEF n, Asked, others, company
    <3> QED
      BY <2>1, <3>1
  <2> QED
    BY <2>2, <2>3
<1> HIDE DEF n, company, others
<1>4. round'[w] = n
  BY <1>1
<1>5. ASSUME NEW v \in Workers, v # w
      PROVE  /\ round'[v] \in Rounds /\ round'[v].pc = round[v].pc /\ round'[v].alias = round[v].alias
             /\ round'[v].request = round[v].request /\ round'[v].asked = round[v].asked
             /\ round'[v].known = round[v].known /\ round'[v].polls = round[v].polls
             /\ round'[v].missed = round[v].missed /\ round'[v].code = round[v].code
             /\ round'[v].alone => round[v].alone /\ v \notin others
             /\ v \in others \/ round'[v] = round[v]
  <2>1. round'[v] = IF v \in others THEN [round[v] EXCEPT !.alone = FALSE] ELSE round[v]
    BY <1>1, <1>5
  <2>2. round[v] \in Rounds
    BY <1>t
  <2>3. CASE v \in others
    <3>1. round'[v] = [round[v] EXCEPT !.alone = FALSE]
      BY <2>1, <2>3
    <3> QED
      BY <2>2, <2>3, <3>1 DEF Rounds
  <2>4. CASE v \notin others
    BY <2>1, <2>2, <2>4
  <2> QED
    BY <2>3, <2>4
<1>6. /\ Active(w)' /\ Waits(w)' /\ Box(w)' = BoxOf[a]
      /\ \A v \in Workers \ {w} : Active(v)' = Active(v) /\ Waits(v)' = Waits(v) /\ Box(v)' = Box(v)
  BY <1>3, <1>4, <1>5 DEF Active, Waits, Box
<1>o. \A v \in Workers \ {w} : Active(v) /\ Box(v) = BoxOf[a] => v \in others
  BY DEF others
<1>7. Types'
  <2>1. round' \in [Workers -> Rounds]
    <3>1. \A v \in Workers : round'[v] \in Rounds
      BY <1>3, <1>4, <1>5
    <3>2. round' = [v \in Workers |-> round'[v]]
      BY <1>1
    <3> QED
      BY <3>1, <3>2
  <2>2. travelling' \subseteq Aliases \X (1 .. MaxRequests)
    BY <1>t, <1>1, <1>2
  <2> QED
    BY <1>1, <1>2, <2>1, <2>2 DEF IInv, Types, TypeOK
<1>8. RoundShape'
  <2> SUFFICES ASSUME NEW v \in Workers
      PROVE  /\ round'[v].pc = "idle" => round'[v] = NoRound
             /\ Active(v)' => round'[v].alias \in Aliases /\ (api'[Box(v)'] = "temp" => round'[v].alias \in Mains)
             /\ Waits(v)' => round'[v].request \in 1 .. requests' /\ round'[v].polls < MaxPolls /\ round'[v].code = None
             /\ round'[v].pc # "polling" => round'[v].known = {}
             /\ round'[v].code # None => round'[v].pc = "got" /\ round'[v].code[2] \in DOMAIN mail'[round'[v].code[1]]
    BY DEF RoundShape
  <2>1. CASE v = w
    BY <1>1, <1>2, <1>3, <1>4, <1>6, <2>1, Bounds
  <2>2. CASE v # w
    <3>1. /\ Active(v) => round[v].alias \in Aliases /\ (api[Box(v)] = "temp" => round[v].alias \in Mains)
          /\ Waits(v) => round[v].request \in 1 .. requests /\ round[v].polls < MaxPolls /\ round[v].code = None
          /\ round[v].pc # "polling" => round[v].known = {}
          /\ round[v].code # None => round[v].pc = "got" /\ round[v].code[2] \in DOMAIN mail[round[v].code[1]]
      BY DEF IInv, RoundShape
    <3>2. round'[v].pc = "idle" => round'[v] = NoRound
      <4>1. round'[v].pc = "idle" => v \notin others
        BY <1>5, <2>2 DEF others, Active
      <4> QED
        BY <1>5, <2>2, <4>1 DEF IInv, RoundShape
    <3>3. Waits(v)' => round'[v].request \in 1 .. requests'
      BY <1>t, <1>1, <1>5, <1>6, <2>2, <3>1
    <3> QED
      BY <1>1, <1>5, <1>6, <2>2, <3>1, <3>2, <3>3
  <2> QED
    BY <2>1, <2>2
<1>9. AloneIsAlone'
  <2> SUFFICES ASSUME NEW v \in Workers, NEW u \in Workers, v # u, Active(v)', Active(u)', Box(v)' = Box(u)'
               PROVE  ~round'[u].alone
    BY DEF AloneIsAlone
  <2>1. CASE u = w
    <3>1. v \in others
      BY <1>6, <1>o, <2>1
    <3> QED
      BY <1>3, <1>4, <2>1, <3>1
  <2>2. CASE v = w
    BY <1>5, <1>6, <1>o, <2>2
  <2>3. CASE u # w /\ v # w
    <3>1. ~round[u].alone
      BY <1>6, <2>3 DEF IInv, AloneIsAlone
    <3> QED
      BY <1>5, <2>3, <3>1
  <2> QED
    BY <2>1, <2>2, <2>3
<1>10. Tickets'
  <2>1. \A v \in Workers \ {w} : Waits(v) => round[v].request <= requests
    BY <1>t DEF IInv, RoundShape
  <2>2. ASSUME NEW t \in travelling'
        PROVE  /\ t[2] <= requests'
               /\ \A v \in Workers : Waits(v)' /\ t[2] = round'[v].request => t[1] = round'[v].alias
    <3>1. CASE t \in travelling
      <4>1. /\ t[2] <= requests /\ t[2] \in Nat
            /\ \A v \in Workers : Waits(v) /\ t[2] = round[v].request => t[1] = round[v].alias
        BY <1>t, <3>1 DEF IInv, Tickets
      <4>2. t[2] # requests + 1 /\ t[2] <= requests + 1
        BY <1>t, <4>1
      <4> QED
        BY <1>1, <1>3, <1>4, <1>5, <1>6, <4>1, <4>2
    <3>2. CASE t = <<a, requests + 1>>
      <4>1. t[1] = a /\ t[2] = requests + 1 /\ requests + 1 <= requests + 1
        BY <1>t, <3>2
      <4>2. \A v \in Workers \ {w} : Waits(v) => round[v].request # requests + 1
        BY <1>t, <2>1 DEF Rounds
      <4> QED
        BY <1>1, <1>3, <1>4, <1>5, <1>6, <4>1, <4>2
    <3> QED
      BY <1>1, <3>1, <3>2
  <2>3. ASSUME NEW b \in Boxes, NEW i \in DOMAIN mail[b]
        PROVE  /\ mail[b][i].request <= requests'
               /\ \A v \in Workers : Waits(v)' /\ mail[b][i].request = round'[v].request => mail[b][i].to = round'[v].alias
    <3>1. /\ mail[b][i].request <= requests /\ mail[b][i].request \in Nat
          /\ \A v \in Workers : Waits(v) /\ mail[b][i].request = round[v].request => mail[b][i].to = round[v].alias
      BY LetterIs DEF IInv, Tickets
    <3>2. mail[b][i].request # requests + 1 /\ mail[b][i].request <= requests + 1
      BY <1>t, <3>1
    <3> QED
      BY <1>1, <1>3, <1>4, <1>5, <1>6, <3>1, <3>2
  <2> QED
    BY <1>1, <2>2, <2>3 DEF Tickets
<1>11. ASSUME NEW k, NEW ids, KnownIsSpent(k, ids) PROVE StaysSpent(k, ids)
  <2> SUFFICES ASSUME NEW b \in Boxes, NEW i \in 1 .. MaxMail, api[b] = k, Distinct(b), Fingerprint(b, i) \in ids
               PROVE  /\ i \in DOMAIN mail[b]
                      /\ \A v \in Workers :
                           /\ Waits(v)' /\ round'[v].alone /\ Box(v)' = b
                           /\ mail[b][i].request = round'[v].request
                           => Spent(v, b, i)'
    BY <1>1 DEF StaysSpent, Distinct, Fingerprint
  <2>1. /\ i \in DOMAIN mail[b]
        /\ \A v \in Workers :
             Waits(v) /\ round[v].alone /\ Box(v) = b /\ mail[b][i].request = round[v].request => Spent(v, b, i)
    BY <1>11 DEF KnownIsSpent
  <2>2. mail[b][i].request # n.request
    <3>1. mail[b][i].request <= requests /\ mail[b][i].request \in Nat
      BY <2>1, LetterIs DEF IInv, Tickets
    <3> QED
      BY <1>t, <1>3, <3>1
  <2>3. \A v \in Workers \ {w} : Spent(v, b, i) => Spent(v, b, i)'
    BY <1>1, <1>5 DEF Spent, Slack
  <2> QED
    BY <1>4, <1>5, <1>6, <2>1, <2>2, <2>3
<1>12. Knowledge'
  <2>1. \A k \in Kinds : StaysSpent(k, seen[k])
    BY <1>11 DEF IInv, Knowledge
  <2>2. \A k \in Kinds : KnownIsSpent(k, seen[k])'
    BY <1>1, <2>1 DEF StaysSpent, KnownIsSpent
  <2>3. ASSUME NEW v \in Workers, round'[v].pc = "polling" PROVE KnownIsSpent(api[Box(v)], round[v].known)'
    <3>1. v # w
      BY <1>3, <1>4, <2>3
    <3>2. StaysSpent(api[Box(v)], round[v].known)
      BY <1>5, <1>11, <2>3, <3>1 DEF IInv, Knowledge
    <3>3. StaysSpent(api'[Box(v)'], round'[v].known)
      BY <1>1, <1>5, <1>6, <3>1, <3>2
    <3> QED
      BY <3>3 DEF StaysSpent, KnownIsSpent
  <2> QED
    BY <2>2, <2>3 DEF Knowledge
<1>13. ReturnedIsKnown'
  <2>1. \A b, i : Fingerprint(b, i)' = Fingerprint(b, i)
    BY <1>1 DEF Fingerprint
  <2>2. ~trimmed' => \A p \in returned' : Fingerprint(p[1], p[2])' \in seen'[api'[p[1]]]
    BY <1>1, <2>1 DEF IInv, ReturnedIsKnown
  <2>3. ASSUME ~trimmed', NEW v \in Workers, round'[v].pc = "polling", round'[v].alone, api'[Box(v)'] # "temp"
        PROVE  \A p \in returned' : p[1] = Box(v)' => Fingerprint(p[1], p[2])' \in round'[v].known
    <3>1. v # w
      BY <1>3, <1>4, <2>3
    <3> QED
      BY <1>1, <1>5, <1>6, <2>1, <2>3, <3>1 DEF IInv, ReturnedIsKnown
  <2> QED
    BY <2>2, <2>3 DEF ReturnedIsKnown
<1>14. CodeIsForAlias'
  <2> SUFFICES ASSUME NEW v \in Workers, round'[v].code # None
               PROVE  \/ Letter(round[v].code)'.to = round'[v].alias
                      \/ round'[v].alias \in Mains /\ Letter(round[v].code)'.shown # "exact"
                      \/ Letter(round[v].code)'.completed
    BY DEF CodeIsForAlias
  <2>1. v # w
    BY <1>3, <1>4
  <2>2. Letter(round[v].code)' = Letter(round[v].code)
    BY <1>1, <1>5, <2>1 DEF Letter
  <2> QED
    BY <1>5, <2>1, <2>2 DEF IInv, CodeIsForAlias
<1>15. OverlooksNothing'
  <2> SUFFICES ASSUME NEW v \in Workers, round'[v].missed # {}
               PROVE  ~round'[v].alone \/ (api[Box(v)'] = "imap" /\ \E b \in Boxes \ {Box(v)'} : api[b] = "imap")
    BY <1>1 DEF OverlooksNothing
  <2>1. v # w
    BY <1>3, <1>4
  <2> QED
    BY <1>5, <1>6, <2>1 DEF IInv, OverlooksNothing
<1>16. CodeOnce
  <2>1. \A v \in Workers : round'[v].code \in {round[v].code, None}
    BY <1>3, <1>4, <1>5
  <2> QED
    BY <2>1, NoNewCode
<1> QED
  BY <1>7, <1>8, <1>9, <1>10, <1>12, <1>13, <1>14, <1>15, <1>16 DEF Kept, IInv

----------------------------------------------------------------------------
(* The theorems *)

\* Initially mailboxes are empty and nothing is known.
LEMMA InitKeeps == Init => IInv
<1> SUFFICES ASSUME Init PROVE IInv
  OBVIOUS
<1>1. /\ mail = [b \in Boxes |-> <<>>] /\ travelling = {} /\ returned = {} /\ requests = 0 /\ clock = 0
      /\ api \in Apis /\ trimmed = FALSE
      /\ \A w \in Workers : round[w] = NoRound
      /\ \A k \in Kinds : seen[k] = {}
  BY DEF Init, Kinds
<1>2. \A w \in Workers : ~Active(w) /\ ~Waits(w) /\ round[w].code = None /\ round[w].missed = {} /\ round[w].known = {}
  BY <1>1 DEF Active, Waits, NoRound
<1>3. \A b \in Boxes : mail[b] = <<>> /\ DOMAIN mail[b] = {} /\ Len(mail[b]) = 0
  BY <1>1
<1>4. Types
  <2>1. NoRound \in Rounds
    <3>1. 0 \in 0 .. MaxRequests /\ 0 \in 0 .. MaxTime /\ 0 \in 0 .. MaxPolls
          /\ {} \in SUBSET Ids /\ {} \in SUBSET (1 .. MaxMail)
      BY Bounds
    <3> QED
      BY <3>1 DEF NoRound, Rounds
  <2>2. round \in [Workers -> Rounds]
    BY <2>1 DEF Init
  <2>3. seen \in [{"graph", "imap", "temp"} -> SUBSET Ids]
    BY DEF Init
  <2>4. \A k \in {"graph", "imap"} : Cardinality(seen[k]) <= SeenLimit
    <3>1. seen["graph"] = {} /\ seen["imap"] = {}
      BY DEF Init
    <3>2. Cardinality({}) = 0 /\ 0 <= SeenLimit
      BY FS_EmptySet, Bounds
    <3> QED
      BY <3>1, <3>2
  <2>5. mail \in [Boxes -> Seq(Letters)]
    BY <1>1
  <2>6. \A b \in Boxes : Len(mail[b]) <= MaxMail /\ \A i \in DOMAIN mail[b] : mail[b][i] \in Letters
    BY <1>3, Bounds
  <2>7. clock \in 0 .. MaxTime /\ requests \in 0 .. MaxRequests /\ DOMAIN mail = Boxes
    BY <1>1, Bounds
  <2>8. travelling \subseteq Aliases \X (1 .. MaxRequests) /\ returned \subseteq Places /\ trimmed \in BOOLEAN
    BY <1>1
  <2>9. TypeOK
    BY <1>1, <2>2, <2>3, <2>4, <2>6, <2>7, <2>8 DEF TypeOK
  <2> QED
    BY <2>5, <2>9 DEF Types
<1>5. RoundShape
  BY <1>1, <1>2 DEF RoundShape, NoRound
<1>6. AloneIsAlone /\ Tickets
  BY <1>1, <1>2, <1>3 DEF AloneIsAlone, Tickets
<1>7. Knowledge
  BY <1>1, <1>2 DEF Knowledge, KnownIsSpent, NoRound
<1>8. ReturnedIsKnown
  BY <1>1, <1>2 DEF ReturnedIsKnown, NoRound
<1>9. CodeIsForAlias /\ OverlooksNothing
  BY <1>2 DEF CodeIsForAlias, OverlooksNothing
<1> QED
  BY <1>4, <1>5, <1>6, <1>7, <1>8, <1>9 DEF IInv

\* Every step keeps the invariant, and hands out no code twice.
LEMMA NextKeeps == IInv /\ [Next]_vars => Kept
<1> SUFFICES ASSUME IInv, [Next]_vars PROVE Kept
  OBVIOUS
<1>1. ASSUME NEW w \in Workers, NEW a \in Aliases, Asks(w, a) PROVE Kept
  BY <1>1, AsksKeeps
<1>2. ASSUME NEW w \in Workers, OpensMailbox(w) PROVE Kept
  BY <1>2, OpensMailboxKeeps
<1>3. ASSUME NEW w \in Workers, Polls(w) PROVE Kept
  BY <1>3, PollsKeeps
<1>4. ASSUME NEW w \in Workers, PollFails(w) PROVE Kept
  BY <1>4, PollFailsKeeps
<1>5. ASSUME NEW w \in Workers, LosesLease(w) \/ Ends(w) PROVE Kept
  BY <1>5, LeavesKeeps
<1>6. ASSUME (\E t \in travelling : Arrives(t)) \/ (\E b \in Boxes : ArrivesOther(b)) PROVE Kept
  BY <1>6, ArrivesKeeps
<1>7. ASSUME NEW b \in Boxes, NEW i \in 1 .. MaxMail, CompletesHeaders(b, i) PROVE Kept
  BY <1>7, CompletesHeadersKeeps
<1>8. CASE Tick \/ UNCHANGED vars
  BY <1>8, TickKeeps
<1> QED
  BY <1>1, <1>2, <1>3, <1>4, <1>5, <1>6, <1>7, <1>8 DEF Next

\* The inductive invariant, from which the properties follow.
THEOREM IInvInvariant == Spec => []IInv
BY InitKeeps, NextKeeps, PTL DEF Spec, Kept

\* Mailboxes, rounds and known ids keep their shape, and the sets of known ids of
\* Graph and IMAP their limit.
THEOREM TypeCorrect == Spec => []TypeOK
BY IInvInvariant, PTL DEF IInv, Types

\* find_verification_code: the code a round takes was sent to its alias, or is one of a
\* plus address whose recipient was hidden from a round of the main address.
THEOREM CodeIsForAliasHolds == Spec => []CodeIsForAlias
BY IInvInvariant, PTL DEF IInv

\* A look that worked finds the mail that is there for a round that is alone in its
\* mailbox, whatever ids earlier rounds left behind.
THEOREM OverlooksNothingHolds == Spec => []OverlooksNothing
BY IInvInvariant, PTL DEF IInv

\* _remember_message_ids: until ids are trimmed, no code is handed to a second round
\* that is alone in its mailbox.
THEOREM CodeReturnedOnceHolds == Spec => CodeReturnedOnce
<1>1. IInv /\ [Next]_vars => [CodeOnce]_vars
  BY NextKeeps DEF Kept
<1> QED
  BY <1>1, IInvInvariant, PTL DEF Spec, CodeReturnedOnce, CodeOnce

=============================================================================
