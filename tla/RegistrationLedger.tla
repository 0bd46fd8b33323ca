--------------------------- MODULE RegistrationLedger ---------------------------
(***************************************************************************)
(* What the registration database promises its users, with the aliases,    *)
(* the leases and the worker threads left out: a registration attempt is   *)
(* opened once, is settled at most once, and an SSO identity that was      *)
(* handed to one attempt is never handed to another, even after the        *)
(* attempt's result row is erased.  AliasLease implements this.            *)
(***************************************************************************)

CONSTANTS Attempts,   \* registration attempts (rows of the registrations table)
          Identities, \* SSO identities (fingerprints of the ledger table)
          Nobody      \* the receipt of an identity nobody holds

VARIABLES outcome,    \* what became of each attempt
          receipt     \* the attempt that holds each identity

vars == <<outcome, receipt>>

Outcomes == {"unopened", "open", "success", "closed", "erased"}

TypeOK ==
  /\ outcome \in [Attempts -> Outcomes]
  /\ receipt \in [Identities -> Attempts \cup {Nobody}]

Init ==
  /\ outcome = [r \in Attempts |-> "unopened"]
  /\ receipt = [s \in Identities |-> Nobody]

----------------------------------------------------------------------------

\* Moves every attempt of S to outcome o.
Become(S, o) == outcome' = [r \in Attempts |-> IF r \in S THEN o ELSE outcome[r]]

Open(r) ==
  /\ outcome[r] = "unopened"
  /\ Become({r}, "open")
  /\ UNCHANGED receipt

\* The one step that makes an attempt a success also hands it its identity,
\* which nobody may have held before.
Succeed(r, s) ==
  /\ outcome[r] = "open"
  /\ receipt[s] = Nobody
  /\ Become({r}, "success")
  /\ receipt' = [receipt EXCEPT ![s] = r]

\* Failed, skipped or interrupted: several attempts may be given up at once.
Close(S) ==
  /\ \A r \in S : outcome[r] = "open"
  /\ Become(S, "closed")
  /\ UNCHANGED receipt

\* The operator clears result rows; the receipts stay.
Erase(S) ==
  /\ \A r \in S : outcome[r] # "unopened"
  /\ Become(S, "erased")
  /\ UNCHANGED receipt

Next ==
  \/ \E r \in Attempts : Open(r)
  \/ \E r \in Attempts, s \in Identities : Succeed(r, s)
  \/ \E S \in SUBSET Attempts : Close(S) \/ Erase(S)

Spec == Init /\ [][Next]_vars
=============================================================================
