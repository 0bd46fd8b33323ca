------------------------------- MODULE AliasLease -------------------------------
(***************************************************************************)
(* The registration core: the accounts, aliases, registrations and         *)
(* sso_identities tables of core/database.py, the transactions on them,    *)
(* and the worker threads of core/register.py and                          *)
(* core/registration/protocol_worker.py that claim an alias under a lease, *)
(* run a signup against the remote service, and commit or give up.         *)
(*                                                                         *)
(* Every transaction holds Database._write_lock, so one transaction is one *)
(* step.  Everything a worker does between two transactions is remote and  *)
(* takes arbitrarily long: leases expire, other workers claim, the operator*)
(* edits the tables and the process may die in between.                    *)
(*                                                                         *)
(* Time is abstracted to what the transactions compare: a lease is live or *)
(* has expired, and completion times are ordinals within an account.       *)
(***************************************************************************)
EXTENDS Naturals, FiniteSets

CONSTANTS
  Workers,        \* worker threads of a task (worker-1, worker-2, ...)
  Accounts,       \* ids that rows of the accounts table may take, in order
  Imported,       \* the accounts present when the run begins
  MaxIndex,       \* highest alias_index the alias budget can reach
  Ssos,           \* SSO identities the remote service may return
  MaxRegs,        \* bound: rows ever inserted into the registrations table
  MaxTasks,       \* bound: registration tasks ever started
  RetryLimits,    \* values of max_retries a task may be started with
  AliasLimits,    \* values the max_aliases_per_account setting may take
  FailureBudget,  \* Database.ALIAS_FAILURE_BUDGET
  Provider,       \* the email_provider setting: "microsoft" or "temporary"
  ChecksLease,    \* TRUE: protocol worker, FALSE: browser worker
  Hazards         \* what may happen around the workers; see HazardKinds

HazardKinds ==
  {"expiry",   \* heartbeats come too late and leases run out
   "crash",    \* the process dies and is started again
   "dberror",  \* SQLite raises inside a failure handler
   "stop",     \* the operator stops the task
   "reset", "delete", "import", "clear", "limit"} \* operator edits, by endpoint

ASSUME ConstantsAssumption ==
  /\ Accounts \subseteq Nat \ {0}
  /\ Imported \subseteq Accounts
  /\ MaxIndex \in Nat
  /\ MaxRegs \in Nat
  /\ MaxTasks \in Nat
  /\ RetryLimits \subseteq Nat \ {0}
  /\ AliasLimits \subseteq Nat \ {0}
  /\ FailureBudget \in Nat
  /\ Provider \in {"microsoft", "temporary"}
  /\ ChecksLease \in BOOLEAN
  /\ Hazards \subseteq HazardKinds
  /\ \A n \in AliasLimits \cup {1} : n + FailureBudget <= MaxIndex + 1

VARIABLES
  accounts,      \* accounts.status by id
  aliases,       \* the rows of the aliases table
  registrations, \* the rows of the registrations table
  ledger,        \* the sso_identities table
  aliasLimit,    \* the max_aliases_per_account setting
  mode,          \* the process: "down", "idle" or "running" a task
  task,          \* number of the latest task (the batch_id of its leases)
  maxRetries,    \* max_retries of that task
  stopped,       \* RegistrationState._stop_flag of that task
  worker         \* what each worker thread is doing

tables == <<accounts, aliases, registrations, ledger>>
taskVars == <<mode, task, maxRetries, stopped>>
vars == <<accounts, aliases, registrations, ledger, aliasLimit,
          mode, task, maxRetries, stopped, worker>>

----------------------------------------------------------------------------
(* The tables *)

Indexes == 0 .. MaxIndex
AliasIds == Accounts \X Indexes
RegIds == 1 .. MaxRegs

NoAlias == <<0, "none">>
NoSso == "none"
NoOwner == <<0, "none">>
NoEntry == <<0, "none">>
Owners == ((0 .. MaxTasks) \X Workers) \cup {NoOwner}

AccountStatus == {"absent", "ready", "done", "disabled", "deleted"}
AliasStatus == {"none", "ready", "processing", "used", "failed"}
Categories == {"", "sso_duplicate", "mail_fetch", "registration", "existing_account"}
RegStatus == {"none", "pending", "success", "failed", "skipped", "interrupted", "deleted"}

\* "at" is the ordinal of completed_at within the account, 0 for NULL.
AliasRow == [status : AliasStatus, retry : Nat, category : Categories,
             owner : Owners, lease : {"none", "live", "expired"},
             sso : Ssos \cup {NoSso}, at : Nat]
RegRow == [status : RegStatus, alias : AliasIds \cup {NoAlias},
           sso : Ssos \cup {NoSso}]

NoRow == [status |-> "none", retry |-> 0, category |-> "", owner |-> NoOwner,
          lease |-> "none", sso |-> NoSso, at |-> 0]
NoReg == [status |-> "none", alias |-> NoAlias, sso |-> NoSso]

\* max_aliases of every account: the setting is written through to all
\* Microsoft accounts, and a temporary mailbox always has one alias.
AliasCap == IF Provider = "microsoft" THEN aliasLimit ELSE 1

Rows(rows, a) == {i \in Indexes : rows[<<a, i>>].status # "none"}
Used(rows, a) == Cardinality({i \in Indexes : rows[<<a, i>>].status = "used"})
Total(rows, a) == Cardinality(Rows(rows, a))

\* No alias of the account is leased.
Quiet(rows, a) == \A i \in Indexes : rows[<<a, i>>].status # "processing"

\* The order in which claim_next_alias scans the aliases.
Before(x, y) == x[1] < y[1] \/ (x[1] = y[1] /\ x[2] < y[2])

----------------------------------------------------------------------------
(* Failure policy: when an account is disabled *)

Terminal(rows, a) == {i \in Indexes : rows[<<a, i>>].status \in {"used", "failed"}}

\* i comes before j in the order completed_at DESC, id DESC.
CompletedAfter(rows, a, i, j) ==
  \/ rows[<<a, i>>].at > rows[<<a, j>>].at
  \/ rows[<<a, i>>].at = rows[<<a, j>>].at /\ i > j

MailFailed(rows, a, i) ==
  rows[<<a, i>>].status = "failed" /\ rows[<<a, i>>].category = "mail_fetch"

\* The aliases of the unbroken run of mailbox failures that ends with the
\* latest completion.
LatestMailFailures(rows, a) ==
  {i \in Terminal(rows, a) : \A j \in Terminal(rows, a) :
     j = i \/ CompletedAfter(rows, a, j, i) => MailFailed(rows, a, j)}

Unusable(rows, a) ==
  /\ accounts[a] = "ready"
  /\ Quiet(rows, a)
  /\ \/ Provider # "microsoft" /\ Total(rows, a) >= 1 /\ Used(rows, a) < 1
     \/ Cardinality(LatestMailFailures(rows, a)) >= 2
     \/ Used(rows, a) < AliasCap /\ Total(rows, a) >= AliasCap + FailureBudget

\* Ordinal of a completion that happens now.
NextStamp(rows, a) == Cardinality({i \in Indexes : rows[<<a, i>>].at # 0}) + 1

Failed(row, category, stamp) ==
  [row EXCEPT !.status = "failed", !.category = category, !.owner = NoOwner,
              !.lease = "none", !.at = stamp]

\* Mutant: the ready aliases of a disabled account stay as they are.
DisableRowsNot(rows, a) == rows

\* Disabling an account fails every alias of it that is still ready.
DisableRows(rows, a) ==
  [id \in AliasIds |-> IF id[1] = a /\ rows[id].status = "ready"
                       THEN Failed(rows[id], "registration", NextStamp(rows, a))
                       ELSE rows[id]]

\* The account and alias tables after an alias of account a reached a
\* terminal failure that left the aliases as in rows.
MaybeDisable(rows, a) ==
  IF Unusable(rows, a)
  THEN accounts' = [accounts EXCEPT ![a] = "disabled"] /\ aliases' = DisableRows(rows, a)
  ELSE accounts' = accounts /\ aliases' = rows

----------------------------------------------------------------------------
(* Leases *)

Lease(row, w) == [row EXCEPT !.status = "processing", !.owner = <<task, w>>, !.lease = "live"]

Requeued(row, retries, category) ==
  [row EXCEPT !.status = "ready", !.retry = retries, !.category = category,
              !.owner = NoOwner, !.lease = "none", !.at = 0]

Expired(row) == row.status = "processing" /\ row.lease = "expired"

\* Recovery of expired leases, which opens every claim and every startup: the
\* retry count survives, the failure category does not, and the pending
\* registrations of the alias are interrupted.
RecoveredRows ==
  [id \in AliasIds |-> IF Expired(aliases[id])
                       THEN Requeued(aliases[id], aliases[id].retry, "")
                       ELSE aliases[id]]

\* Mutant: recovery forgets the registrations.
RecoveredRegsNot == registrations

RecoveredRegs ==
  [r \in RegIds |->
     IF /\ registrations[r].status = "pending"
        /\ registrations[r].alias \in AliasIds
        /\ Expired(aliases[registrations[r].alias])
     THEN [registrations[r] EXCEPT !.status = "interrupted"]
     ELSE registrations[r]]

\* Mutant: transactions do not look at the alias they are about to write.
HoldsLeaseUnchecked(w) == worker[w].alias \in AliasIds

HoldsLease(w) ==
  /\ worker[w].alias \in AliasIds
  /\ aliases[worker[w].alias].status = "processing"
  /\ aliases[worker[w].alias].owner = <<task, w>>

----------------------------------------------------------------------------
(* Workers *)

\* Where a worker thread is:
\*   off        no thread, or the thread has left its loop
\*   loop       at the head of the while loop
\*   claim      about to claim an alias
\*   provision  no alias found, asking the provider for a temporary mailbox
\*   reclaim    mailbox created, about to claim again
\*   claimed    alias leased, registration not yet created
\*   signup     registration pending, driving the remote signup
\*   sso        the signup returned an SSO identity
\*   commit     the identity looked new, about to commit
\*   failed     an exception reached the round's handler
Places == {"off", "loop", "claim", "provision", "reclaim",
           "claimed", "signup", "sso", "commit", "failed"}

InRound == {"claimed", "signup", "sso", "commit", "failed"}
HasReg == InRound \ {"claimed"}

\* Exceptions of the remote signup, by the branch that handles them.
RemoteErrors == {"mail_fetch", "registration", "existing", "environment", "permission"}
Errors == RemoteErrors \cup {"duplicate", "lease_lost", "none"}

\* "lost" is the lease_lost event that the heartbeat thread sets.
WorkerFields == [pc : Places, alias : AliasIds \cup {NoAlias}, reg : RegIds \cup {0},
                 sso : Ssos \cup {NoSso}, error : Errors, lost : BOOLEAN]

\* A round has its alias from the claim on, its registration once it is
\* created, and an identity once the signup returned.
WorkerState == {state \in WorkerFields :
                  /\ state.pc \in InRound => state.alias \in AliasIds
                  /\ state.pc \in HasReg => state.reg \in RegIds
                  /\ state.pc \in {"sso", "commit"} => state.sso \in Ssos}

At(place) == [pc |-> place, alias |-> NoAlias, reg |-> 0, sso |-> NoSso,
              error |-> "none", lost |-> FALSE]

Goto(w, place) == worker' = [worker EXCEPT ![w] = At(place)]
Advance(w, place) == worker' = [worker EXCEPT ![w].pc = place]
Raise(w, e) == worker' = [worker EXCEPT ![w] = [@ EXCEPT !.pc = "failed", !.error = e]]

\* What a protocol worker's handler sees once the lease_lost event is set.
Error(w) == IF ChecksLease /\ worker[w].lost THEN "lease_lost" ELSE worker[w].error

\* UPDATE registrations SET status=... WHERE id=...; a cleared row stays cleared.
Settle(r, status) ==
  IF registrations[r].status = "deleted" THEN registrations
  ELSE [registrations EXCEPT ![r].status = status]

TypeOK ==
  /\ accounts \in [Accounts -> AccountStatus]
  /\ aliases \in [AliasIds -> AliasRow]
  /\ registrations \in [RegIds -> RegRow]
  /\ ledger \in [Ssos -> (RegIds \X AliasIds) \cup {NoEntry}]
  /\ aliasLimit \in AliasLimits
  /\ mode \in {"down", "idle", "running"}
  /\ task \in 0 .. MaxTasks
  /\ maxRetries \in RetryLimits
  /\ stopped \in BOOLEAN
  /\ worker \in [Workers -> WorkerState]

Init ==
  /\ accounts = [a \in Accounts |-> IF a \in Imported THEN "ready" ELSE "absent"]
  /\ aliases = [id \in AliasIds |-> NoRow]
  /\ registrations = [r \in RegIds |-> NoReg]
  /\ ledger = [s \in Ssos |-> NoEntry]
  /\ aliasLimit \in AliasLimits
  /\ mode = "idle"
  /\ task = 0
  /\ maxRetries \in RetryLimits
  /\ stopped = FALSE
  /\ worker = [w \in Workers |-> At("off")]

----------------------------------------------------------------------------
(* The head of the worker loop and the claim *)

TopOfLoop(w) ==
  /\ worker[w].pc = "loop"
  /\ Goto(w, IF stopped THEN "off" ELSE "claim")
  /\ UNCHANGED <<tables, aliasLimit, taskVars>>

\* Mutant: another alias of the account may be leased.
ClaimableWhileBusy(rows, id) ==
  /\ rows[id].status = "ready"
  /\ \/ rows[id].retry < maxRetries
     \/ rows[id].retry = maxRetries /\ rows[id].category = "sso_duplicate"
  /\ accounts[id[1]] = "ready"

Claimable(rows, id) ==
  /\ rows[id].status = "ready"
  /\ \/ rows[id].retry < maxRetries
     \/ rows[id].retry = maxRetries /\ rows[id].category = "sso_duplicate"
  /\ accounts[id[1]] = "ready"
  /\ Quiet(rows, id[1])

Mintable(rows, a) ==
  /\ accounts[a] = "ready"
  /\ Quiet(rows, a)
  /\ Used(rows, a) < AliasCap
  /\ Total(rows, a) < AliasCap + FailureBudget
  /\ Provider = "microsoft" \/ Total(rows, a) = 0

\* The alias a claim mints on account a: the index after the highest one.
IsNextAlias(rows, a, i) == \A j \in Indexes : rows[<<a, j>>].status # "none" <=> j < i

\* The worker holds alias id of the recovered tables and starts a round.
Take(w, id, rows) ==
  /\ aliases' = [rows EXCEPT ![id] = Lease(rows[id], w)]
  /\ worker' = [worker EXCEPT ![w] = [At("claimed") EXCEPT !.alias = id]]

ClaimReadyAlias(w) ==
  /\ worker[w].pc \in {"claim", "reclaim"}
  /\ \E id \in AliasIds :
       /\ Claimable(RecoveredRows, id)
       /\ \A other \in AliasIds :
            Claimable(RecoveredRows, other) => other = id \/ Before(id, other)
       /\ Take(w, id, RecoveredRows)
  /\ registrations' = RecoveredRegs
  /\ UNCHANGED <<accounts, ledger, aliasLimit, taskVars>>

MintAlias(w) ==
  /\ worker[w].pc \in {"claim", "reclaim"}
  /\ \A id \in AliasIds : ~Claimable(RecoveredRows, id)
  /\ \E a \in Accounts, i \in Indexes :
       /\ Mintable(RecoveredRows, a)
       /\ \A b \in Accounts : Mintable(RecoveredRows, b) => b = a \/ a < b
       /\ IsNextAlias(RecoveredRows, a, i)
       /\ Take(w, <<a, i>>, RecoveredRows)
  /\ registrations' = RecoveredRegs
  /\ UNCHANGED <<accounts, ledger, aliasLimit, taskVars>>

\* Mutant: a worker that finds nothing looks again.
ClaimNothingYet(w) ==
  /\ worker[w].pc \in {"claim", "reclaim"}
  /\ \A id \in AliasIds : ~Claimable(RecoveredRows, id)
  /\ \A a \in Accounts : ~Mintable(RecoveredRows, a)
  /\ aliases' = RecoveredRows
  /\ registrations' = RecoveredRegs
  /\ Goto(w, "loop")
  /\ UNCHANGED <<accounts, ledger, aliasLimit, taskVars>>

\* No alias: a Microsoft worker leaves; a temporary-mailbox worker provisions
\* one, and leaves if the claim after that finds none either.
ClaimNothing(w) ==
  /\ worker[w].pc \in {"claim", "reclaim"}
  /\ \A id \in AliasIds : ~Claimable(RecoveredRows, id)
  /\ \A a \in Accounts : ~Mintable(RecoveredRows, a)
  /\ aliases' = RecoveredRows
  /\ registrations' = RecoveredRegs
  /\ Goto(w, IF worker[w].pc = "claim" /\ Provider = "temporary" THEN "provision" ELSE "off")
  /\ UNCHANGED <<accounts, ledger, aliasLimit, taskVars>>

\* The row the next INSERT INTO accounts creates.
IsNextAccount(a) == \A b \in Accounts : accounts[b] = "absent" <=> a <= b

\* Mutant: the worker leaves without the claim that follows.
ProvisionsAndLeaves(w) ==
  /\ worker[w].pc = "provision"
  /\ \E a \in Accounts : IsNextAccount(a) /\ accounts' = [accounts EXCEPT ![a] = "ready"]
  /\ Goto(w, "off")
  /\ UNCHANGED <<aliases, registrations, ledger, aliasLimit, taskVars>>

\* The providers make addresses up at random: every mailbox is a new account.
ProvisionMailbox(w) ==
  /\ worker[w].pc = "provision"
  /\ \E a \in Accounts : IsNextAccount(a) /\ accounts' = [accounts EXCEPT ![a] = "ready"]
  /\ Goto(w, "reclaim")
  /\ UNCHANGED <<aliases, registrations, ledger, aliasLimit, taskVars>>

\* EmailError: the provider refused, and the whole task is stopped.
ProvisionFails(w) ==
  /\ worker[w].pc = "provision"
  /\ stopped' = TRUE
  /\ Goto(w, "off")
  /\ UNCHANGED <<tables, aliasLimit, mode, task, maxRetries>>

----------------------------------------------------------------------------
(* One round: from the leased alias to the exception or the commit *)

\* release_alias_claim: the category and the retry count stay.
Released(w) ==
  IF HoldsLease(w)
  THEN [aliases EXCEPT ![worker[w].alias] =
          [@ EXCEPT !.status = "ready", !.owner = NoOwner, !.lease = "none"]]
  ELSE aliases

\* Mutant: ids of cleared rows are handed out again.
IsNextRegReused(r) ==
  /\ registrations[r].status \in {"none", "deleted"}
  /\ \A q \in RegIds : registrations[q].status \in {"none", "deleted"} => r <= q

IsNextReg(r) == \A q \in RegIds : registrations[q].status = "none" <=> r <= q

CreateRegistration(w) ==
  /\ worker[w].pc = "claimed"
  /\ HoldsLease(w)
  /\ ~(ChecksLease /\ worker[w].lost)
  /\ \E r \in RegIds :
       /\ IsNextReg(r)
       /\ registrations' = [registrations EXCEPT ![r] =
            [status |-> "pending", alias |-> worker[w].alias, sso |-> NoSso]]
       /\ worker' = [worker EXCEPT ![w] = [@ EXCEPT !.pc = "signup", !.reg = r]]
  /\ UNCHANGED <<accounts, aliases, ledger, aliasLimit, taskVars>>

\* Raised outside the round's own handler: the loop releases the claim.
CreateRegistrationRaises(w) ==
  /\ worker[w].pc = "claimed"
  /\ ~HoldsLease(w) \/ (ChecksLease /\ worker[w].lost)
  /\ aliases' = Released(w)
  /\ Goto(w, "loop")
  /\ UNCHANGED <<accounts, registrations, ledger, aliasLimit, taskVars>>

SignupRaises(w, e) ==
  /\ worker[w].pc = "signup"
  /\ Raise(w, e)
  /\ UNCHANGED <<tables, aliasLimit, taskVars>>

\* Mutant: the identity is lost on the way.
SignupReturnsNothing(w, s) ==
  /\ worker[w].pc = "signup"
  /\ Advance(w, "sso")
  /\ UNCHANGED <<tables, aliasLimit, taskVars>>

SignupReturns(w, s) ==
  /\ worker[w].pc = "signup"
  /\ worker' = [worker EXCEPT ![w] = [@ EXCEPT !.pc = "sso", !.sso = s]]
  /\ UNCHANGED <<tables, aliasLimit, taskVars>>

\* find_existing_sso: the ledger first, then result rows, then used aliases.
Seen(s) ==
  \/ ledger[s] # NoEntry
  \/ \E r \in RegIds : registrations[r].status = "success" /\ registrations[r].sso = s
  \/ \E id \in AliasIds : aliases[id].status = "used" /\ aliases[id].sso = s

CheckDuplicate(w) ==
  /\ worker[w].pc = "sso"
  /\ IF Seen(worker[w].sso) THEN Raise(w, "duplicate") ELSE Advance(w, "commit")
  /\ UNCHANGED <<tables, aliasLimit, taskVars>>

\* Mutant: the ledger's row is replaced.
GrantsAlways(w) == TRUE

\* The ledger lets this attempt have the identity.
Grants(w) ==
  \/ ledger[worker[w].sso] = NoEntry
  \/ ledger[worker[w].sso] = <<worker[w].reg, worker[w].alias>>

\* The accounts after a success that left the aliases of a as in rows.
Completed(rows, a) ==
  IF Used(rows, a) >= AliasCap THEN [accounts EXCEPT ![a] = "done"] ELSE accounts

CommitSuccess(w) ==
  /\ worker[w].pc = "commit"
  /\ ~(ChecksLease /\ worker[w].lost)
  /\ HoldsLease(w)
  /\ Grants(w)
  /\ registrations[worker[w].reg].status # "deleted"
  /\ LET id == worker[w].alias
         s == worker[w].sso
         rows == [aliases EXCEPT ![id] =
                    [@ EXCEPT !.status = "used", !.category = "", !.sso = s,
                              !.owner = NoOwner, !.lease = "none",
                              !.at = NextStamp(aliases, id[1])]]
     IN /\ aliases' = rows
        /\ registrations' = [registrations EXCEPT ![worker[w].reg] =
                               [@ EXCEPT !.status = "success", !.sso = s]]
        /\ ledger' = [ledger EXCEPT ![s] = <<worker[w].reg, id>>]
        /\ accounts' = Completed(rows, id[1])
  /\ Goto(w, "loop")
  /\ UNCHANGED <<aliasLimit, taskVars>>

\* The transaction rolls back: lease lost, identity taken meanwhile, or the
\* result row was cleared and the ledger's NOT NULL email cannot be filled.
CommitRaises(w) ==
  /\ worker[w].pc = "commit"
  /\ \/ ChecksLease /\ worker[w].lost /\ Raise(w, "lease_lost")
     \/ ~HoldsLease(w) /\ Raise(w, "registration")
     \/ HoldsLease(w) /\ ~Grants(w) /\ Raise(w, "duplicate")
     \/ /\ HoldsLease(w) /\ Grants(w)
        /\ registrations[worker[w].reg].status = "deleted"
        /\ Raise(w, "registration")
  /\ UNCHANGED <<tables, aliasLimit, taskVars>>

----------------------------------------------------------------------------
(* The round's exception handler, by branch *)

\* The heartbeat reported the loss: nothing is written.
HandleLeaseLost(w) ==
  /\ worker[w].pc = "failed"
  /\ Error(w) = "lease_lost"
  /\ Goto(w, "loop")
  /\ UNCHANGED <<tables, aliasLimit, taskVars>>

\* An environment block or xAI's 403: abort_registration_attempt puts the
\* alias back with its retry count, and the whole task is stopped.
HandleAbort(w) ==
  /\ worker[w].pc = "failed"
  /\ Error(w) \in {"environment", "permission"}
  /\ registrations' = Settle(worker[w].reg, "failed")
  /\ LET id == worker[w].alias
     IN aliases' = IF HoldsLease(w)
                   THEN [aliases EXCEPT ![id] = Requeued(@, @.retry, "")]
                   ELSE aliases
  /\ stopped' = TRUE
  /\ Goto(w, "loop")
  /\ UNCHANGED <<accounts, ledger, aliasLimit, mode, task, maxRetries>>

\* The alias of worker w fails for good.
FailAlias(w, retries, category) ==
  LET id == worker[w].alias
      row == [aliases[id] EXCEPT !.retry = retries]
  IN MaybeDisable([aliases EXCEPT ![id] =
                     Failed(row, category, NextStamp(aliases, id[1]))], id[1])

\* skip_existing_account_attempt: failed for good, without a retry.
HandleExisting(w) ==
  /\ worker[w].pc = "failed"
  /\ Error(w) = "existing"
  /\ registrations' = Settle(worker[w].reg, "skipped")
  /\ IF HoldsLease(w)
     THEN FailAlias(w, aliases[worker[w].alias].retry, "existing_account")
     ELSE UNCHANGED <<accounts, aliases>>
  /\ Goto(w, "loop")
  /\ UNCHANGED <<ledger, aliasLimit, taskVars>>

\* finish_registration_attempt with the given retry limit.
FinishAttempt(w, limit, category) ==
  LET id == worker[w].alias
      retries == aliases[id].retry + 1
  IN /\ registrations' = Settle(worker[w].reg, "failed")
     /\ IF ~HoldsLease(w) THEN UNCHANGED <<accounts, aliases>>
        ELSE IF retries >= limit THEN FailAlias(w, retries, category)
        ELSE /\ aliases' = [aliases EXCEPT ![id] =
                  Requeued(@, retries, IF category = "sso_duplicate" THEN category ELSE "")]
             /\ accounts' = accounts

\* A stale browser identity is worth one retry beyond the limit.
HandleDuplicate(w) ==
  /\ worker[w].pc = "failed"
  /\ Error(w) = "duplicate"
  /\ FinishAttempt(w, maxRetries + 1, "sso_duplicate")
  /\ Goto(w, "loop")
  /\ UNCHANGED <<ledger, aliasLimit, taskVars>>

HandleFailure(w) ==
  /\ worker[w].pc = "failed"
  /\ Error(w) \in {"mail_fetch", "registration"}
  /\ FinishAttempt(w, maxRetries, Error(w))
  /\ Goto(w, "loop")
  /\ UNCHANGED <<ledger, aliasLimit, taskVars>>

\* SQLite raises inside the handler: the transaction rolls back and the loop
\* releases the claim, leaving the registration as it is.
HandlerRaises(w) ==
  /\ "dberror" \in Hazards
  /\ worker[w].pc = "failed"
  /\ Error(w) # "lease_lost"
  /\ aliases' = Released(w)
  /\ Goto(w, "loop")
  /\ UNCHANGED <<accounts, registrations, ledger, aliasLimit, taskVars>>

\* The lease thread of a round: renew, or report that the lease is gone.
Heartbeat(w) ==
  /\ worker[w].pc \in InRound
  /\ IF HoldsLease(w)
     THEN /\ aliases' = [aliases EXCEPT ![worker[w].alias].lease = "live"]
          /\ worker' = worker
     ELSE /\ worker' = [worker EXCEPT ![w].lost = TRUE]
          /\ aliases' = aliases
  /\ UNCHANGED <<accounts, registrations, ledger, aliasLimit, taskVars>>

----------------------------------------------------------------------------
(* The task, the process and time *)

StartTask ==
  /\ mode = "idle"
  /\ task < MaxTasks
  /\ mode' = "running"
  /\ task' = task + 1
  /\ maxRetries' \in RetryLimits
  /\ stopped' = FALSE
  /\ worker' = [w \in Workers |-> At("loop")]
  /\ UNCHANGED <<tables, aliasLimit>>

StopTask ==
  /\ "stop" \in Hazards
  /\ mode = "running"
  /\ stopped' = TRUE
  /\ UNCHANGED <<tables, aliasLimit, mode, task, maxRetries, worker>>

\* run() has joined every worker thread.
EndTask ==
  /\ mode = "running"
  /\ \A w \in Workers : worker[w].pc = "off"
  /\ mode' = "idle"
  /\ UNCHANGED <<tables, aliasLimit, task, maxRetries, stopped, worker>>

\* A lease nobody renews in time. After a crash nobody renews any.
LeaseRunsOut(id) ==
  /\ "expiry" \in Hazards \/ aliases[id].owner[1] # task \/ mode # "running"
  /\ aliases[id].status = "processing"
  /\ aliases[id].lease = "live"
  /\ aliases' = [aliases EXCEPT ![id].lease = "expired"]
  /\ UNCHANGED <<accounts, registrations, ledger, aliasLimit, taskVars, worker>>

Crash ==
  /\ "crash" \in Hazards
  /\ mode # "down"
  /\ mode' = "down"
  /\ stopped' = FALSE
  /\ worker' = [w \in Workers |-> At("off")]
  /\ UNCHANGED <<tables, aliasLimit, task, maxRetries>>

\* Mutant: an account that just used its limit up is taken to have one left.
SyncedOffByOne(cap) ==
  [a \in Accounts |-> IF accounts[a] \in {"ready", "done"}
                      THEN IF Used(aliases, a) > cap THEN "done" ELSE "ready"
                      ELSE accounts[a]]

\* Account states that follow from the alias limit, disabled ones excepted.
SyncedAccounts(cap) ==
  [a \in Accounts |-> IF accounts[a] \in {"ready", "done"}
                      THEN IF Used(aliases, a) >= cap THEN "done" ELSE "ready"
                      ELSE accounts[a]]

\* Mutant: the status is not looked at.
StaleOfAnyStatus(cutoff) == {r \in RegIds : r <= cutoff /\ RecoveredRegs[r].status # "none"}

\* The registrations recover_stale gives up: still pending, and created before
\* its cutoff (those with the smallest ids).
Stale(cutoff) == {r \in RegIds : r <= cutoff /\ RecoveredRegs[r].status = "pending"}

\* Their aliases are put back, unless they reached a terminal status.
Revived(stale) ==
  [id \in AliasIds |->
     IF /\ \E r \in stale : registrations[r].alias = id
        /\ RecoveredRows[id].status \notin {"used", "failed"}
     THEN Requeued(RecoveredRows[id], RecoveredRows[id].retry, "")
     ELSE RecoveredRows[id]]

\* Startup: init_database, then recover_stale.
Boot ==
  /\ mode = "down"
  /\ mode' = "idle"
  /\ accounts' = SyncedAccounts(AliasCap)
  /\ \E cutoff \in 0 .. MaxRegs :
       /\ aliases' = Revived(Stale(cutoff))
       /\ registrations' = [r \in RegIds |->
            IF r \in Stale(cutoff) THEN [RecoveredRegs[r] EXCEPT !.status = "interrupted"]
            ELSE RecoveredRegs[r]]
  /\ UNCHANGED <<ledger, aliasLimit, task, maxRetries, stopped, worker>>

----------------------------------------------------------------------------
(* Operator edits, possible whenever the process is up *)

\* reset_account: every alias ready again, leased ones too; the lease columns
\* of a leased alias keep their values.
ResetAccount(a) ==
  /\ "reset" \in Hazards
  /\ mode # "down"
  /\ accounts[a] \notin {"absent", "deleted"}
  /\ accounts' = [accounts EXCEPT ![a] = "ready"]
  /\ aliases' = [id \in AliasIds |->
       IF id[1] = a /\ aliases[id].status # "none"
       THEN [aliases[id] EXCEPT !.status = "ready", !.sso = NoSso, !.category = "",
                                !.retry = 0, !.at = 0]
       ELSE aliases[id]]
  /\ UNCHANGED <<registrations, ledger, aliasLimit, taskVars, worker>>

\* The aliases go with the account; registrations keep a NULL alias_id.
DeleteAccount(a) ==
  /\ "delete" \in Hazards
  /\ mode # "down"
  /\ accounts[a] \notin {"absent", "deleted"}
  /\ accounts' = [accounts EXCEPT ![a] = "deleted"]
  /\ aliases' = [id \in AliasIds |-> IF id[1] = a THEN NoRow ELSE aliases[id]]
  /\ registrations' = [r \in RegIds |->
       IF registrations[r].alias \in AliasIds /\ registrations[r].alias[1] = a
       THEN [registrations[r] EXCEPT !.alias = NoAlias] ELSE registrations[r]]
  /\ UNCHANGED <<ledger, aliasLimit, taskVars, worker>>

\* upsert_account: a new row, or an existing account made ready again.
ImportAccount(a) ==
  /\ "import" \in Hazards
  /\ mode # "down"
  /\ Provider = "microsoft"
  /\ IsNextAccount(a) \/ accounts[a] \in {"done", "disabled"}
  /\ accounts' = [accounts EXCEPT ![a] = "ready"]
  /\ UNCHANGED <<aliases, registrations, ledger, aliasLimit, taskVars, worker>>

\* Mutant: the ledger's rows go with the results.
ClearResultsAndLedger ==
  /\ "clear" \in Hazards
  /\ mode # "down"
  /\ \E S \in SUBSET {r \in RegIds : registrations[r].status = "success"} :
       /\ S # {}
       /\ registrations' = [r \in RegIds |->
            IF r \in S THEN [NoReg EXCEPT !.status = "deleted"] ELSE registrations[r]]
       /\ ledger' = [s \in Ssos |-> IF ledger[s][1] \in S THEN NoEntry ELSE ledger[s]]
  /\ UNCHANGED <<accounts, aliases, aliasLimit, taskVars, worker>>

\* One result row, all SSO results, or all rows with a password (every row).
ClearResults ==
  /\ "clear" \in Hazards
  /\ mode # "down"
  /\ LET results == {r \in RegIds : registrations[r].status = "success"}
         rows == {r \in RegIds : registrations[r].status # "none"}
     IN \E S \in {{r} : r \in results} \cup {results, rows} :
          /\ S # {}
          /\ registrations' = [r \in RegIds |->
               IF r \in S THEN [NoReg EXCEPT !.status = "deleted"] ELSE registrations[r]]
  /\ UNCHANGED <<accounts, aliases, ledger, aliasLimit, taskVars, worker>>

SetAliasLimit(n) ==
  /\ "limit" \in Hazards
  /\ mode # "down"
  /\ Provider = "microsoft"
  /\ aliasLimit' = n
  /\ accounts' = SyncedAccounts(n)
  /\ UNCHANGED <<aliases, registrations, ledger, taskVars, worker>>

----------------------------------------------------------------------------

Round(w) ==
  \/ CreateRegistration(w) \/ CreateRegistrationRaises(w)
  \/ \E e \in RemoteErrors : SignupRaises(w, e)
  \/ \E s \in Ssos : SignupReturns(w, s)
  \/ CheckDuplicate(w) \/ CommitSuccess(w) \/ CommitRaises(w)
  \/ HandleLeaseLost(w) \/ HandleAbort(w) \/ HandleExisting(w)
  \/ HandleDuplicate(w) \/ HandleFailure(w) \/ HandlerRaises(w)

WorkerStep(w) ==
  \/ TopOfLoop(w) \/ ClaimReadyAlias(w) \/ MintAlias(w) \/ ClaimNothing(w)
  \/ ProvisionMailbox(w) \/ ProvisionFails(w) \/ Round(w)

Environment ==
  \/ StartTask \/ StopTask \/ EndTask \/ Crash \/ Boot
  \/ \E id \in AliasIds : LeaseRunsOut(id)

OperatorEdit ==
  \/ \E a \in Accounts : ResetAccount(a) \/ DeleteAccount(a) \/ ImportAccount(a)
  \/ \E n \in AliasLimits : SetAliasLimit(n)
  \/ ClearResults

Next ==
  \/ \E w \in Workers : WorkerStep(w) \/ Heartbeat(w)
  \/ Environment
  \/ OperatorEdit

Spec == Init /\ [][Next]_vars

\* A worker thread keeps running as long as its process does, remote calls
\* have timeouts, and run() returns once it has joined the workers.
Fairness == WF_vars(EndTask) /\ \A w \in Workers : WF_vars(WorkerStep(w))

FairSpec == Spec /\ Fairness

----------------------------------------------------------------------------
(* Safety *)

\* At most one alias of an account is leased at a time, whatever expires, is
\* reset, or is recovered (claim_next_alias and idx_aliases_active_account):
\* two workers never legitimately poll one mailbox.
OneLeasePerAccount ==
  \A a \in Accounts, i, j \in Indexes :
    aliases[<<a, i>>].status = "processing" /\ aliases[<<a, j>>].status = "processing" => i = j

\* A worker that holds its lease in a round works on a registration that is
\* still open or was cleared by the operator: nobody interrupts or closes the
\* registration of a live lease, so success never overwrites another outcome.
LeasedRoundIsOpen ==
  \A w \in Workers :
    worker[w].pc \in HasReg /\ HoldsLease(w)
      => registrations[worker[w].reg].status \in {"pending", "deleted"}

\* A round has its registration to itself and works on it before it succeeds:
\* create_registration hands out a fresh row, and the row leaves the round with
\* the commit, so no handler that runs late can reach a success.
RoundOwnsRegistration ==
  /\ \A w \in Workers :
       worker[w].pc \in HasReg =>
         registrations[worker[w].reg].status \notin {"none", "success"}
  /\ \A v, w \in Workers :
       worker[v].pc \in HasReg /\ worker[w].pc \in HasReg /\ worker[v].reg = worker[w].reg
         => v = w

\* No SSO identity is recorded twice, on registrations or on aliases, even
\* though find_existing_sso reads without a lock long before the commit.
IdentityRecordedOnce ==
  /\ \A r, q \in RegIds :
       /\ registrations[r].status = "success"
       /\ registrations[q].status = "success"
       /\ registrations[r].sso = registrations[q].sso
       => r = q
  /\ \A x, y \in AliasIds :
       /\ aliases[x].status = "used"
       /\ aliases[y].status = "used"
       /\ aliases[x].sso = aliases[y].sso
       => x = y

\* Every success and every used alias is backed by the ledger row that names
\* it: the ledger outlives cleared results, so an identity stays known.
LedgerBacksRecords ==
  /\ \A r \in RegIds :
       registrations[r].status = "success" =>
         /\ registrations[r].sso \in Ssos
         /\ ledger[registrations[r].sso] \in {r} \X AliasIds
  /\ \A id \in AliasIds :
       aliases[id].status = "used" =>
         /\ aliases[id].sso \in Ssos
         /\ ledger[aliases[id].sso] \in RegIds \X {id}

\* A disabled account has nothing left to run: no alias of it is leased when
\* it is disabled, and none becomes ready or leased afterwards.
DisabledAccountIsQuiet ==
  \A a \in Accounts, i \in Indexes :
    accounts[a] = "disabled" => aliases[<<a, i>>].status \notin {"ready", "processing"}

\* A worker that runs late never leaves an alias behind on an account the
\* operator deleted meanwhile.
NoOrphanAlias ==
  \A a \in Accounts, i \in Indexes :
    accounts[a] \in {"absent", "deleted"} => aliases[<<a, i>>].status = "none"

\* While the operator neither imports accounts nor moves the limit, an account
\* never yields more registrations than its limit, is done exactly when it reached
\* it, and never has more than ALIAS_FAILURE_BUDGET aliases beyond it.
WithinAliasBudget ==
  \A a \in Accounts :
    /\ Used(aliases, a) <= AliasCap
    /\ accounts[a] = "done" <=> Used(aliases, a) = AliasCap
    /\ Total(aliases, a) <= AliasCap + FailureBudget

\* While the operator neither resets nor deletes accounts, a pending registration
\* always has someone who will settle it: the worker whose round it is, or the
\* recovery of its alias's lease.
PendingHasOwner ==
  \A r \in RegIds :
    registrations[r].status = "pending" =>
      \/ \E w \in Workers : worker[w].pc \in HasReg /\ worker[w].reg = r
      \/ /\ registrations[r].alias \in AliasIds
         /\ aliases[registrations[r].alias].status = "processing"

\* When every worker has left and nobody asked them to stop, nothing claimable
\* is left: a worker that finds no alias leaves for good, although another
\* worker may still put its own alias back for a retry.
NothingLeftBehind ==
  mode = "running" /\ ~stopped /\ (\A w \in Workers : worker[w].pc = "off") =>
    /\ \A id \in AliasIds : ~Claimable(aliases, id)
    /\ \A a \in Accounts : ~Mintable(aliases, a)

\* Work is accounted for: a live lease means an open round, an open round means
\* somebody to close it, no account exceeds its limit or its budget, and nobody
\* leaves while there is something to claim.
WorkIsAccounted == LeasedRoundIsOpen /\ PendingHasOwner /\ WithinAliasBudget /\ NothingLeftBehind

\* The operator's edits meet running rounds: a round keeps its registration to
\* itself, and a disabled account stays quiet.
EditsAreSafe == RoundOwnsRegistration /\ DisabledAccountIsQuiet

----------------------------------------------------------------------------
(* Action properties *)

\* A used alias stays used with the same identity: a late loser of the lease,
\* a recovery or a startup never takes it back. Only the operator does.
UsedAliasStays ==
  \A id \in AliasIds : aliases[id].status = "used" =>
    \/ aliases'[id].status = "used" /\ aliases'[id].sso = aliases[id].sso
    \/ ResetAccount(id[1]) \/ DeleteAccount(id[1])

\* A success is final: no failure handler, skip, recovery or startup rewrites
\* it, whoever runs late. It can only be cleared.
SuccessIsFinal ==
  \A r \in RegIds : registrations[r].status = "success" =>
    \/ registrations'[r].status = "deleted"
    \/ registrations'[r].status = "success" /\ registrations'[r].sso = registrations[r].sso

\* A round that ends because of the environment costs the alias nothing, and
\* an expired lease neither: the retry count only grows in a failure handler
\* of the lease's holder.
RetryIsConsumedByItsHolder ==
  \A id \in AliasIds : aliases'[id].retry > aliases[id].retry =>
    \E w \in Workers :
      /\ worker[w].alias = id
      /\ HoldsLease(w)
      /\ HandleDuplicate(w) \/ HandleFailure(w)

\* Who lost the lease does no harm: neither to a used alias nor to the retries
\* of one that is being retried.
LateHolderIsHarmless == [][UsedAliasStays /\ RetryIsConsumedByItsHolder]_vars

\* The account is done if its limit is used up, and only then, unless disabled.
FollowsLimit(a) ==
  accounts[a] \in {"ready", "done"} => (accounts[a] = "done" <=> Used(aliases, a) >= AliasCap)

\* Accounts follow the alias limit: whether it is moved under running rounds,
\* a late commit arrives or an account is reset, no account is done short of its
\* limit or keeps offering aliases beyond it. Only importing it again does that.
AccountsFollowLimit ==
  [][\A a \in Accounts : FollowsLimit(a) => FollowsLimit(a)' \/ ImportAccount(a)]_vars

\* What was recorded survives: crashes, startup recovery and failing handlers
\* take back no success and no used alias, and neither mint aliases beyond
\* the budget nor leave one on a deleted account.
RecordsSurvive ==
  [][SuccessIsFinal /\ UsedAliasStays /\ WithinAliasBudget' /\ NoOrphanAlias']_vars

----------------------------------------------------------------------------
(* Liveness *)

\* A task ends by itself: whatever the remote service answers, every worker
\* runs out of aliases after finitely many rounds.
TaskEnds == mode = "running" ~> mode # "running"

\* A leased alias does not stay leased.
LeaseIsReleased ==
  \A id \in AliasIds : aliases[id].status = "processing" ~> aliases[id].status # "processing"

\* A task that is left alone drains: it ends, and gives back what it leased.
TaskDrains == TaskEnds /\ LeaseIsReleased

----------------------------------------------------------------------------
(* The abstract ledger this module implements *)

Promise(status) ==
  CASE status = "none" -> "unopened"
    [] status = "pending" -> "open"
    [] status = "success" -> "success"
    [] status = "deleted" -> "erased"
    [] OTHER -> "closed"

Ledger == INSTANCE RegistrationLedger WITH
  Attempts <- RegIds,
  Identities <- Ssos,
  Nobody <- 0,
  outcome <- [r \in RegIds |-> Promise(registrations[r].status)],
  receipt <- [s \in Ssos |-> ledger[s][1]]

\* The tables implement the promise of RegistrationLedger: an attempt succeeds
\* at most once, in the same step in which it receives a fresh identity.
LedgerSpec == Ledger!Spec
=============================================================================
