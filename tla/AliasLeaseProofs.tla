--------------------------- MODULE AliasLeaseProofs ---------------------------
(***************************************************************************)
(* Safety of AliasLease for every number of workers, accounts, identities  *)
(* and tasks.  Most steps are calm: they lease no alias, record no         *)
(* identity and leave the ledger alone.  What is left are the claims and   *)
(* the success commit, and the invariants of the tables come down to       *)
(* those.  What a round may still do rests on the registration it owns     *)
(* (RoundInv), from which the refinement of RegistrationLedger and the     *)
(* properties of operator edits and late losers follow.  The budget of an  *)
(* account (BudgetInv) and the account of all work (AccountedInv) come     *)
(* last and need the invariants before them.                               *)
(***************************************************************************)
EXTENDS AliasLeaseTypes

----------------------------------------------------------------------------
(* Calm steps: all but the claims and the success commit *)

\* rows leases no alias and makes no alias used that was not.
CalmRows(rows) ==
  \A id \in AliasIds :
    /\ rows[id].status = "processing" => aliases[id].status = "processing"
    /\ rows[id].status = "used" => aliases[id].status = "used" /\ rows[id].sso = aliases[id].sso

\* regs makes no registration a success that was not.
CalmRegs(regs) ==
  \A r \in RegIds :
    regs[r].status = "success" =>
      registrations[r].status = "success" /\ regs[r].sso = registrations[r].sso

Calm == CalmRows(aliases') /\ CalmRegs(registrations') /\ ledger' = ledger

\* Leaving the tables alone is calm.
LEMMA UnchangedIsCalm == CalmRows(aliases) /\ CalmRegs(registrations)
  BY DEF CalmRows, CalmRegs

\* Overwriting one row with one that is ready or failed is calm.
LEMMA OverwriteIsCalm ==
  ASSUME NEW rows, NEW id \in AliasIds, rows[id].status \in {"ready", "failed"},
         \A other \in AliasIds \ {id} : rows[other] = aliases[other]
  PROVE CalmRows(rows)
  BY DEF CalmRows

\* An alias that is put back is ready, whatever it was.
LEMMA RequeuedIsReady ==
  ASSUME NEW row \in AliasRow, NEW n \in Nat, NEW c \in Categories PROVE Requeued(row, n, c).status = "ready"
  BY DEF Requeued, AliasRow

\* An alias that is failed is failed, whatever it was.
LEMMA FailedIsFailed ==
  ASSUME NEW row \in AliasRow, NEW n \in Nat, NEW c \in Categories PROVE Failed(row, c, n).status = "failed"
  BY DEF Failed, AliasRow

\* Recovering expired leases is calm: it readies aliases and interrupts registrations.
LEMMA RecoveryIsCalm ==
  ASSUME TypeOK PROVE CalmRows(RecoveredRows) /\ CalmRegs(RecoveredRegs)
<1>1. \A id \in AliasIds : aliases[id] \in AliasRow
  BY DEF TypeOK
<1>2. \A id \in AliasIds : Requeued(aliases[id], aliases[id].retry, "").status = "ready"
  <2>1. \A id \in AliasIds : aliases[id].retry \in Nat
    BY <1>1 DEF AliasRow
  <2> QED
    BY <1>1, <2>1, RequeuedIsReady DEF Categories
<1>3. CalmRows(RecoveredRows)
  BY <1>2 DEF CalmRows, RecoveredRows
<1>4. \A r \in RegIds : registrations[r] \in RegRow
  BY DEF TypeOK
<1>5. \A r \in RegIds : [registrations[r] EXCEPT !.status = "interrupted"].status = "interrupted"
  BY <1>4 DEF RegRow
<1>6. CalmRegs(RecoveredRegs)
  BY <1>5 DEF CalmRegs, RecoveredRegs
<1> QED
  BY <1>3, <1>6

\* Disabling an account is calm: it only fails aliases.
LEMMA MaybeDisableIsCalm ==
  ASSUME NEW rows \in [AliasIds -> AliasRow], NEW a, CalmRows(rows), MaybeDisable(rows, a)
  PROVE CalmRows(aliases')
<1>1. \A id \in AliasIds : Failed(rows[id], "registration", NextStamp(rows, a)).status = "failed"
  BY FailedIsFailed, StampIsNat DEF Categories
<1>2. CalmRows(DisableRows(rows, a))
  BY <1>1 DEF CalmRows, DisableRows
<1> QED
  BY <1>2 DEF MaybeDisable

\* Failing an alias, with the disabling of its account that may follow, is calm.
LEMMA FailAliasIsCalm ==
  ASSUME TypeOK, NEW w \in Workers, HoldsLease(w), NEW n \in Nat, NEW c \in Categories,
         FailAlias(w, n, c)
  PROVE CalmRows(aliases')
<1> DEFINE id == worker[w].alias
           row == [aliases[id] EXCEPT !.retry = n]
           failed == Failed(row, c, NextStamp(aliases, id[1]))
           rows == [aliases EXCEPT ![id] = failed]
<1>1. id \in AliasIds
  BY DEF HoldsLease
<1>2. row \in AliasRow
  BY <1>1 DEF TypeOK, AliasRow
<1>3. failed \in AliasRow /\ failed.status = "failed"
  <2>1. failed \in AliasRow
    BY <1>2, FailedIsRow, StampIsNat
  <2>2. failed.status = "failed"
    BY <1>2, FailedIsFailed, StampIsNat
  <2> QED
    BY <2>1, <2>2
<1>4. rows \in [AliasIds -> AliasRow]
  BY <1>1, <1>3 DEF TypeOK
<1>6. rows[id] = failed /\ \A other \in AliasIds \ {id} : rows[other] = aliases[other]
  BY <1>1 DEF TypeOK
<1>7. CalmRows(rows)
  BY <1>1, <1>3, <1>6, OverwriteIsCalm
<1>5. MaybeDisable(rows, id[1])
  BY DEF FailAlias
<1> QED
  BY <1>4, <1>5, <1>7, MaybeDisableIsCalm

\* Giving a claim back is calm.
LEMMA ReleaseIsCalm ==
  ASSUME TypeOK, NEW w \in Workers PROVE CalmRows(Released(w))
<1>1. CASE HoldsLease(w)
  <2> DEFINE row == [aliases[worker[w].alias] EXCEPT
                       !.status = "ready", !.owner = NoOwner, !.lease = "none"]
  <2>1. worker[w].alias \in AliasIds /\ aliases[worker[w].alias] \in AliasRow
    BY <1>1 DEF HoldsLease, TypeOK
  <2>2. row.status = "ready"
    BY <2>1 DEF AliasRow
  <2> QED
    <3>1. Released(w) = [aliases EXCEPT ![worker[w].alias] = row]
      BY <1>1 DEF Released
    <3>2. Released(w)[worker[w].alias] = row
      BY <2>1, <3>1 DEF TypeOK
    <3>3. \A other \in AliasIds \ {worker[w].alias} : Released(w)[other] = aliases[other]
      BY <2>1, <3>1 DEF TypeOK
    <3> QED
      BY <2>1, <2>2, <3>2, <3>3, OverwriteIsCalm
<1> QED
  BY <1>1, UnchangedIsCalm DEF Released

\* Closing a registration with any outcome but success is calm.
LEMMA SettleIsCalm ==
  ASSUME TypeOK, NEW r \in RegIds, NEW status \in RegStatus \ {"success"}
  PROVE CalmRegs(Settle(r, status))
<1>1. registrations[r] \in RegRow
  BY DEF TypeOK
<1>2. [registrations[r] EXCEPT !.status = status].status = status
  BY <1>1 DEF RegRow
<1> QED
  BY <1>2 DEF CalmRegs, Settle, TypeOK

\* finish_registration_attempt is calm, on its retry branch and on its terminal one.
LEMMA FinishAttemptIsCalm ==
  ASSUME TypeOK, NEW w \in Workers, worker[w].pc = "failed", NEW limit, NEW c \in Categories,
         FinishAttempt(w, limit, c)
  PROVE CalmRows(aliases') /\ CalmRegs(registrations')
<1> DEFINE id == worker[w].alias
           n == aliases[id].retry + 1
<1>0. CalmRegs(registrations')
  <2>1. worker[w].reg \in RegIds
    BY DEF TypeOK, WorkerState, HasReg, InRound
  <2> QED
    BY <2>1, SettleIsCalm DEF FinishAttempt, RegStatus
<1>1. CASE ~HoldsLease(w)
  BY <1>0, <1>1, UnchangedIsCalm DEF FinishAttempt
<1>2. CASE HoldsLease(w)
  <2>1. id \in AliasIds /\ aliases[id] \in AliasRow /\ n \in Nat
    BY <1>2 DEF HoldsLease, TypeOK, AliasRow
  <2>2. CASE n >= limit
    BY <1>0, <1>2, <2>1, <2>2, FailAliasIsCalm DEF FinishAttempt
  <2>3. CASE ~(n >= limit)
    <3> DEFINE row == Requeued(aliases[id], n, IF c = "sso_duplicate" THEN c ELSE "")
    <3>1. row.status = "ready"
      BY <2>1, RequeuedIsReady DEF Categories
    <3>2. aliases' = [aliases EXCEPT ![id] = row]
      BY <1>2, <2>3 DEF FinishAttempt
    <3> QED
      <4>1. aliases'[id] = row /\ \A other \in AliasIds \ {id} : aliases'[other] = aliases[other]
        BY <2>1, <3>2 DEF TypeOK
      <4> QED
        BY <1>0, <2>1, <3>1, <4>1, OverwriteIsCalm
  <2> QED
    BY <2>2, <2>3
<1> QED
  BY <1>1, <1>2

\* Every step of a round up to the commit, and every branch of its handler, is calm.
LEMMA RoundIsCalm ==
  ASSUME TypeOK, NEW w \in Workers, Round(w), ~CommitSuccess(w)
  PROVE Calm
<1> DEFINE id == worker[w].alias
<1>r. worker[w].pc = "failed" => id \in AliasIds /\ worker[w].reg \in RegIds
  BY DEF TypeOK, WorkerState, InRound, HasReg
<1>1. CASE CreateRegistration(w)
  <2>1. PICK r \in RegIds :
          registrations' = [registrations EXCEPT ![r] =
            [status |-> "pending", alias |-> id, sso |-> NoSso]]
    BY <1>1 DEF CreateRegistration
  <2>2. CalmRegs(registrations')
    BY <2>1 DEF CalmRegs, TypeOK
  <2> QED
    BY <1>1, <2>2, UnchangedIsCalm DEF CreateRegistration, Calm
<1>2. CASE CreateRegistrationRaises(w)
  BY <1>2, ReleaseIsCalm, UnchangedIsCalm DEF CreateRegistrationRaises, Calm
<1>3. CASE UNCHANGED tables
  BY <1>3, UnchangedIsCalm DEF tables, Calm
<1>4. CASE HandleAbort(w)
  <2>1. CalmRegs(registrations')
    BY <1>4, <1>r, SettleIsCalm DEF HandleAbort, RegStatus
  <2>2. aliases[id] \in AliasRow /\ aliases[id].retry \in Nat
    BY <1>4, <1>r DEF HandleAbort, TypeOK, AliasRow
  <2>3. CASE HoldsLease(w)
    <3>1. Requeued(aliases[id], aliases[id].retry, "").status = "ready"
      BY <2>2, RequeuedIsReady DEF Categories
    <3>2. /\ aliases'[id].status = "ready"
          /\ \A other \in AliasIds \ {id} : aliases'[other] = aliases[other]
      BY <1>4, <1>r, <2>3, <3>1 DEF HandleAbort, TypeOK
    <3>3. CalmRows(aliases')
      BY <1>4, <1>r, <3>2, OverwriteIsCalm DEF HandleAbort
    <3> QED
      BY <1>4, <2>1, <3>3 DEF HandleAbort, Calm
  <2>4. CASE ~HoldsLease(w)
    BY <1>4, <2>1, <2>4, UnchangedIsCalm DEF HandleAbort, Calm
  <2> QED
    BY <2>3, <2>4
<1>5. CASE HandleExisting(w)
  <2>1. CalmRegs(registrations')
    BY <1>5, <1>r, SettleIsCalm DEF HandleExisting, RegStatus
  <2>2. aliases[id].retry \in Nat
    BY <1>5, <1>r DEF HandleExisting, TypeOK, AliasRow
  <2>3. CalmRows(aliases')
    BY <1>5, <2>2, FailAliasIsCalm, UnchangedIsCalm DEF HandleExisting, Categories
  <2> QED
    BY <1>5, <2>1, <2>3 DEF HandleExisting, Calm
<1>6. CASE HandleDuplicate(w)
  BY <1>6, FinishAttemptIsCalm DEF HandleDuplicate, Categories, Calm
<1>7. CASE HandleFailure(w)
  BY <1>7, FinishAttemptIsCalm DEF HandleFailure, Categories, Calm
<1>8. CASE HandlerRaises(w)
  BY <1>8, ReleaseIsCalm, UnchangedIsCalm DEF HandlerRaises, Calm
<1> QED
  BY <1>1, <1>2, <1>3, <1>4, <1>5, <1>6, <1>7, <1>8 DEF Round, SignupRaises, SignupReturns,
     CheckDuplicate, CommitRaises, HandleLeaseLost

\* So is everything around the workers: the task, time, crashes, startup and the operator.
LEMMA SurroundingsAreCalm ==
  ASSUME TypeOK,
         \/ Environment
         \/ OperatorEdit
         \/ \E w \in Workers : Heartbeat(w) \/ TopOfLoop(w) \/ ClaimNothing(w)
                                 \/ ProvisionMailbox(w) \/ ProvisionFails(w)
         \/ UNCHANGED vars
  PROVE Calm
<1>1. CASE UNCHANGED tables
  BY <1>1, UnchangedIsCalm DEF tables, Calm
<1>2. ASSUME NEW w \in Workers, Heartbeat(w) PROVE Calm
  <2>1. CalmRows(aliases')
    <3>1. CASE HoldsLease(w)
      <4>1. worker[w].alias \in AliasIds /\ aliases[worker[w].alias] \in AliasRow
        BY <3>1 DEF HoldsLease, TypeOK
      <4>2. [aliases[worker[w].alias] EXCEPT !.lease = "live"].status = "processing"
        BY <3>1, <4>1 DEF HoldsLease, AliasRow
      <4> QED
        BY <1>2, <3>1, <4>1, <4>2 DEF Heartbeat, CalmRows, TypeOK, HoldsLease
    <3> QED
      BY <1>2, <3>1, UnchangedIsCalm DEF Heartbeat
  <2> QED
    BY <1>2, <2>1, UnchangedIsCalm DEF Heartbeat, Calm
<1>3. ASSUME NEW w \in Workers, ClaimNothing(w) \/ ProvisionMailbox(w) PROVE Calm
  BY <1>3, RecoveryIsCalm, UnchangedIsCalm DEF ClaimNothing, ProvisionMailbox, Calm
<1>4. ASSUME NEW id \in AliasIds, LeaseRunsOut(id) PROVE Calm
  <2>1. aliases[id] \in AliasRow
    BY DEF TypeOK
  <2>2. [aliases[id] EXCEPT !.lease = "expired"].status = "processing"
    BY <1>4, <2>1 DEF LeaseRunsOut, AliasRow
  <2>3. CalmRows(aliases')
    BY <1>4, <2>1, <2>2 DEF LeaseRunsOut, CalmRows, TypeOK
  <2> QED
    BY <1>4, <2>3, UnchangedIsCalm DEF LeaseRunsOut, Calm
<1>5. CASE Boot
  <2>1. \A id \in AliasIds : RecoveredRows[id] \in AliasRow
    BY RecoveredTypes
  <2>2. \A id \in AliasIds : RecoveredRows[id].retry \in Nat
    BY <2>1 DEF AliasRow
  <2>3. \A id \in AliasIds :
          Requeued(RecoveredRows[id], RecoveredRows[id].retry, "").status = "ready"
    BY <2>1, <2>2, RequeuedIsReady DEF Categories
  <2>4. \A id \in AliasIds : aliases'[id] = RecoveredRows[id] \/ aliases'[id].status = "ready"
    BY <1>5, <2>3 DEF Boot, Revived
  <2>5. \A r \in RegIds : RecoveredRegs[r] \in RegRow
    BY RecoveredTypes
  <2>6. \A r \in RegIds : [RecoveredRegs[r] EXCEPT !.status = "interrupted"].status = "interrupted"
    BY <2>5 DEF RegRow
  <2>7. \A r \in RegIds : \/ registrations'[r] = RecoveredRegs[r]
                          \/ registrations'[r].status = "interrupted"
    BY <1>5, <2>6 DEF Boot
  <2>8. CalmRows(aliases') /\ CalmRegs(registrations')
    BY <2>4, <2>7, RecoveryIsCalm DEF CalmRows, CalmRegs
  <2> QED
    BY <1>5, <2>8 DEF Boot, Calm
<1>6. ASSUME NEW a \in Accounts, ResetAccount(a) PROVE Calm
  <2>1. \A id \in AliasIds : aliases[id] \in AliasRow
    BY DEF TypeOK
  <2>2. \A id \in AliasIds :
          [aliases[id] EXCEPT !.status = "ready", !.sso = NoSso, !.category = "",
                              !.retry = 0, !.at = 0].status = "ready"
    BY <2>1 DEF AliasRow
  <2>3. CalmRows(aliases')
    BY <1>6, <2>2 DEF ResetAccount, CalmRows
  <2> QED
    BY <1>6, <2>3, UnchangedIsCalm DEF ResetAccount, Calm
<1>7. ASSUME NEW a \in Accounts, DeleteAccount(a) PROVE Calm
  <2>1. CalmRows(aliases')
    BY <1>7 DEF DeleteAccount, CalmRows, NoRow
  <2>2. \A r \in RegIds : registrations[r] \in RegRow
    BY DEF TypeOK
  <2>3. \A r \in RegIds :
          /\ [registrations[r] EXCEPT !.alias = NoAlias].status = registrations[r].status
          /\ [registrations[r] EXCEPT !.alias = NoAlias].sso = registrations[r].sso
    BY <2>2 DEF RegRow
  <2>4. CalmRegs(registrations')
    BY <1>7, <2>3 DEF DeleteAccount, CalmRegs
  <2> QED
    BY <1>7, <2>1, <2>4 DEF DeleteAccount, Calm
<1>8. ASSUME \/ \E a \in Accounts : ImportAccount(a)
             \/ \E n \in AliasLimits : SetAliasLimit(n)
      PROVE Calm
  BY <1>8, UnchangedIsCalm DEF ImportAccount, SetAliasLimit, Calm
<1>9. CASE ClearResults
  <2>1. \A r \in RegIds : registrations'[r] = registrations[r] \/ registrations'[r].status = "deleted"
    BY <1>9 DEF ClearResults, NoReg
  <2>2. CalmRegs(registrations')
    BY <2>1 DEF CalmRegs
  <2> QED
    BY <1>9, <2>2, UnchangedIsCalm DEF ClearResults, Calm
<1>10. ASSUME StartTask \/ StopTask \/ EndTask \/ Crash PROVE Calm
  BY <1>1, <1>10 DEF StartTask, StopTask, EndTask, Crash
<1>11. ASSUME NEW w \in Workers, TopOfLoop(w) \/ ProvisionFails(w) PROVE Calm
  BY <1>1, <1>11 DEF TopOfLoop, ProvisionFails
<1>12. CASE UNCHANGED vars
  BY <1>1, <1>12 DEF vars, tables
<1> QED
  BY <1>2, <1>3, <1>4, <1>5, <1>6, <1>7, <1>8, <1>9, <1>10, <1>11, <1>12
     DEF Environment, OperatorEdit

----------------------------------------------------------------------------
(* The two steps that are not calm *)

\* A claim leases exactly one alias, ready or new, of a ready account that had
\* none leased once the expired leases were recovered.
LEMMA ClaimLeasesOne ==
  ASSUME TypeOK, NEW w \in Workers, ClaimReadyAlias(w) \/ MintAlias(w)
  PROVE /\ registrations' = RecoveredRegs
        /\ ledger' = ledger
        /\ UNCHANGED accounts
        /\ worker'[w].pc = "claimed"
        /\ \E id \in AliasIds :
             /\ accounts[id[1]] = "ready"
             /\ Quiet(RecoveredRows, id[1])
             /\ \/ ClaimReadyAlias(w) /\ RecoveredRows[id].status = "ready"
                \/ MintAlias(w) /\ Mintable(RecoveredRows, id[1]) /\ RecoveredRows[id].status = "none"
             /\ worker'[w].alias = id
             /\ aliases'[id].status = "processing"
             /\ aliases'[id].owner = <<task, w>>
             /\ aliases'[id].retry = RecoveredRows[id].retry
             /\ \A other \in AliasIds \ {id} : aliases'[other] = RecoveredRows[other]
<1>1. \E id \in AliasIds :
        /\ accounts[id[1]] = "ready"
        /\ Quiet(RecoveredRows, id[1])
        /\ \/ ClaimReadyAlias(w) /\ RecoveredRows[id].status = "ready"
           \/ MintAlias(w) /\ Mintable(RecoveredRows, id[1]) /\ RecoveredRows[id].status = "none"
        /\ Take(w, id, RecoveredRows)
  <2>1. CASE ClaimReadyAlias(w)
    BY <2>1 DEF ClaimReadyAlias, Claimable
  <2>2. CASE MintAlias(w)
    <3>1. PICK a \in Accounts, i \in Indexes :
            /\ Mintable(RecoveredRows, a)
            /\ IsNextAlias(RecoveredRows, a, i)
            /\ Take(w, <<a, i>>, RecoveredRows)
      BY <2>2 DEF MintAlias
    <3>2. <<a, i>> \in AliasIds /\ <<a, i>>[1] = a
      BY DEF AliasIds
    <3>3. ~(i < i)
      BY ConstantsAssumption DEF Indexes
    <3>4. RecoveredRows[<<a, i>>].status = "none"
      BY <3>1, <3>3 DEF IsNextAlias
    <3> QED
      BY <2>2, <3>1, <3>2, <3>4 DEF Mintable
  <2> QED
    BY <2>1, <2>2
<1>2. PICK id \in AliasIds :
        /\ accounts[id[1]] = "ready"
        /\ Quiet(RecoveredRows, id[1])
        /\ \/ ClaimReadyAlias(w) /\ RecoveredRows[id].status = "ready"
           \/ MintAlias(w) /\ Mintable(RecoveredRows, id[1]) /\ RecoveredRows[id].status = "none"
        /\ Take(w, id, RecoveredRows)
  BY <1>1
<1>3. RecoveredRows \in [AliasIds -> AliasRow] /\ RecoveredRows[id] \in AliasRow
  BY RecoveredTypes
<1>4. /\ Lease(RecoveredRows[id], w).status = "processing"
      /\ Lease(RecoveredRows[id], w).owner = <<task, w>>
      /\ Lease(RecoveredRows[id], w).retry = RecoveredRows[id].retry
  BY <1>3 DEF Lease, AliasRow
<1>5. aliases' = [RecoveredRows EXCEPT ![id] = Lease(RecoveredRows[id], w)]
  BY <1>2 DEF Take
<1>6. /\ aliases'[id] = Lease(RecoveredRows[id], w)
      /\ \A other \in AliasIds \ {id} : aliases'[other] = RecoveredRows[other]
  BY <1>3, <1>5
<1>7. registrations' = RecoveredRegs /\ ledger' = ledger /\ UNCHANGED accounts
  BY DEF ClaimReadyAlias, MintAlias
<1>8. worker'[w].pc = "claimed" /\ worker'[w].alias = id
  BY <1>2 DEF Take, At, TypeOK
<1> QED
  BY <1>2, <1>4, <1>6, <1>7, <1>8

\* A commit records one identity, at one registration, one alias and one entry
\* of the ledger, and only if the ledger does not give it to another attempt.
LEMMA CommitRecordsOne ==
  ASSUME TypeOK, NEW w \in Workers, CommitSuccess(w)
  PROVE \E id \in AliasIds, r \in RegIds, s \in Ssos :
          /\ id = worker[w].alias /\ r = worker[w].reg /\ s = worker[w].sso
          /\ HoldsLease(w)
          /\ worker'[w].pc = "loop"
          /\ accounts' = Completed(aliases', id[1])
          /\ aliases'[id].retry = aliases[id].retry
          /\ ledger[s] = NoEntry \/ ledger[s] = <<r, id>>
          /\ ledger' = [ledger EXCEPT ![s] = <<r, id>>]
          /\ aliases'[id].status = "used" /\ aliases'[id].sso = s
          /\ \A other \in AliasIds \ {id} : aliases'[other] = aliases[other]
          /\ registrations'[r].status = "success" /\ registrations'[r].sso = s
          /\ registrations'[r].alias = registrations[r].alias
          /\ registrations[r].status # "deleted"
          /\ \A q \in RegIds \ {r} : registrations'[q] = registrations[q]
<1> DEFINE id == worker[w].alias
           r == worker[w].reg
           s == worker[w].sso
           n == NextStamp(aliases, id[1])
           row == [aliases[id] EXCEPT !.status = "used", !.category = "", !.sso = s,
                                      !.owner = NoOwner, !.lease = "none", !.at = n]
           reg == [registrations[r] EXCEPT !.status = "success", !.sso = s]
<1>1. id \in AliasIds /\ r \in RegIds /\ s \in Ssos
  BY DEF CommitSuccess, TypeOK, WorkerState, InRound, HasReg
<1>2. aliases[id] \in AliasRow /\ registrations[r] \in RegRow
  BY <1>1 DEF TypeOK
<1>3. row.status = "used" /\ row.sso = s /\ row.retry = aliases[id].retry
  BY <1>2 DEF AliasRow
<1>4. reg.status = "success" /\ reg.sso = s /\ reg.alias = registrations[r].alias
  BY <1>2 DEF RegRow
<1>5. /\ aliases' = [aliases EXCEPT ![id] = row]
      /\ registrations' = [registrations EXCEPT ![r] = reg]
      /\ ledger' = [ledger EXCEPT ![s] = <<r, id>>]
      /\ ledger[s] = NoEntry \/ ledger[s] = <<r, id>>
      /\ HoldsLease(w)
      /\ registrations[r].status # "deleted"
      /\ accounts' = Completed(aliases', id[1])
  BY DEF CommitSuccess, Grants
<1>6. /\ aliases'[id] = row
      /\ \A other \in AliasIds \ {id} : aliases'[other] = aliases[other]
  BY <1>1, <1>5 DEF TypeOK
<1>7. /\ registrations'[r] = reg
      /\ \A q \in RegIds \ {r} : registrations'[q] = registrations[q]
  BY <1>1, <1>5 DEF TypeOK
<1>8. /\ aliases'[id].status = "used" /\ aliases'[id].sso = s
      /\ aliases'[id].retry = aliases[id].retry
      /\ registrations'[r].status = "success" /\ registrations'[r].sso = s
      /\ registrations'[r].alias = registrations[r].alias
  BY <1>3, <1>4, <1>6, <1>7
<1>9. id = worker[w].alias /\ r = worker[w].reg /\ s = worker[w].sso
  OBVIOUS
<1>10. worker'[w].pc = "loop"
  BY DEF CommitSuccess, Goto, At, TypeOK
<1> HIDE DEF id, r, s, n, row, reg
<1> QED
  BY <1>1, <1>5, <1>6, <1>7, <1>8, <1>9, <1>10

\* Every step is a claim, a commit, or calm.
LEMMA StepKinds ==
  ASSUME TypeOK, [Next]_vars
  PROVE \/ Calm
        \/ \E w \in Workers : ClaimReadyAlias(w) \/ MintAlias(w)
        \/ \E w \in Workers : CommitSuccess(w)
<1>1. ASSUME NEW w \in Workers, Round(w), ~CommitSuccess(w) PROVE Calm
  BY <1>1, RoundIsCalm
<1> QED
  BY <1>1, SurroundingsAreCalm DEF Next, WorkerStep

----------------------------------------------------------------------------
(* One lease per account *)

\* Claims lease on quiet accounts only, and calm steps lease nothing, so leases stay exclusive.
LEMMA NextKeepsOneLease ==
  TypeOK /\ OneLeasePerAccount /\ [Next]_vars => OneLeasePerAccount'
<1> SUFFICES ASSUME TypeOK, OneLeasePerAccount, [Next]_vars,
                    NEW a \in Accounts, NEW i \in Indexes, NEW j \in Indexes,
                    aliases'[<<a, i>>].status = "processing",
                    aliases'[<<a, j>>].status = "processing"
             PROVE i = j
  BY DEF OneLeasePerAccount
<1>0. <<a, i>> \in AliasIds /\ <<a, j>> \in AliasIds
  BY DEF AliasIds
<1>1. CASE Calm
  BY <1>0, <1>1 DEF Calm, CalmRows, OneLeasePerAccount
<1>2. ASSUME NEW w \in Workers, ClaimReadyAlias(w) \/ MintAlias(w) PROVE i = j
  <2>1. PICK id \in AliasIds :
          /\ Quiet(RecoveredRows, id[1])
          /\ \A other \in AliasIds \ {id} : aliases'[other] = RecoveredRows[other]
    BY <1>2, ClaimLeasesOne
  <2>2. CalmRows(RecoveredRows)
    BY RecoveryIsCalm
  <2>3. CASE id[1] = a
    <3>1. \A k \in Indexes : <<a, k>> # id => aliases'[<<a, k>>].status # "processing"
      BY <2>1, <2>3 DEF Quiet, AliasIds
    <3>2. <<a, i>> = id /\ <<a, j>> = id
      BY <3>1
    <3> QED
      BY <3>2
  <2>4. CASE id[1] # a
    <3>1. <<a, i>> # id /\ <<a, j>> # id
      BY <2>4
    <3>2. /\ RecoveredRows[<<a, i>>].status = "processing"
          /\ RecoveredRows[<<a, j>>].status = "processing"
      BY <1>0, <2>1, <3>1
    <3> QED
      BY <1>0, <2>2, <3>2 DEF CalmRows, OneLeasePerAccount
  <2> QED
    BY <2>3, <2>4
<1>3. ASSUME NEW w \in Workers, CommitSuccess(w) PROVE i = j
  <2>1. PICK id \in AliasIds :
          /\ aliases'[id].status = "used"
          /\ \A other \in AliasIds \ {id} : aliases'[other] = aliases[other]
    BY <1>3, CommitRecordsOne
  <2>2. aliases[<<a, i>>].status = "processing" /\ aliases[<<a, j>>].status = "processing"
    BY <1>0, <2>1
  <2> QED
    BY <2>2 DEF OneLeasePerAccount
<1> QED
  BY <1>1, <1>2, <1>3, StepKinds

\* claim_next_alias never leases two aliases of one account, with any number of
\* workers, expired leases, restarts and operator edits.
THEOREM OneLease == Spec => []OneLeasePerAccount
<1>1. Init => OneLeasePerAccount
  <2> SUFFICES ASSUME Init PROVE OneLeasePerAccount
    OBVIOUS
  <2>1. \A id \in AliasIds : aliases[id].status = "none"
    BY DEF Init, NoRow
  <2> QED
    BY <2>1 DEF OneLeasePerAccount, AliasIds
<1> QED
  BY <1>1, TypeCorrect, NextKeepsOneLease, PTL DEF Spec

----------------------------------------------------------------------------
(* Identities *)

\* The commit writes the ledger row it needs, and calm steps record nothing, so records stay backed.
LEMMA NextKeepsLedger ==
  TypeOK /\ LedgerBacksRecords /\ [Next]_vars => LedgerBacksRecords'
<1> SUFFICES ASSUME TypeOK, LedgerBacksRecords, [Next]_vars PROVE LedgerBacksRecords'
  OBVIOUS
<1>1. CASE Calm
  BY <1>1 DEF Calm, CalmRows, CalmRegs, LedgerBacksRecords
<1>2. ASSUME NEW w \in Workers, ClaimReadyAlias(w) \/ MintAlias(w) PROVE LedgerBacksRecords'
  <2>1. /\ registrations' = RecoveredRegs
        /\ ledger' = ledger
        /\ \E id \in AliasIds :
             /\ aliases'[id].status = "processing"
             /\ \A other \in AliasIds \ {id} : aliases'[other] = RecoveredRows[other]
    BY <1>2, ClaimLeasesOne
  <2>2. CalmRows(RecoveredRows) /\ CalmRegs(RecoveredRegs)
    BY RecoveryIsCalm
  <2> QED
    BY <2>1, <2>2 DEF CalmRows, CalmRegs, LedgerBacksRecords
<1>3. ASSUME NEW w \in Workers, CommitSuccess(w) PROVE LedgerBacksRecords'
  <2>1. PICK id \in AliasIds, r \in RegIds, s \in Ssos :
          /\ ledger[s] = NoEntry \/ ledger[s] = <<r, id>>
          /\ ledger' = [ledger EXCEPT ![s] = <<r, id>>]
          /\ aliases'[id].status = "used" /\ aliases'[id].sso = s
          /\ \A other \in AliasIds \ {id} : aliases'[other] = aliases[other]
          /\ registrations'[r].status = "success" /\ registrations'[r].sso = s
          /\ \A q \in RegIds \ {r} : registrations'[q] = registrations[q]
    BY <1>3, CommitRecordsOne
  <2>2. ledger'[s] = <<r, id>> /\ \A t \in Ssos \ {s} : ledger'[t] = ledger[t]
    BY <2>1 DEF TypeOK
  <2>3. NoEntry[1] \notin RegIds
    BY DEF NoEntry, RegIds
  <2>4. ASSUME NEW q \in RegIds, registrations'[q].status = "success"
        PROVE registrations'[q].sso \in Ssos /\ ledger'[registrations'[q].sso] \in {q} \X AliasIds
    <3>1. CASE q = r
      BY <2>1, <2>2, <3>1
    <3>2. CASE q # r
      <4>1. registrations[q].sso \in Ssos /\ ledger[registrations[q].sso] \in {q} \X AliasIds
        BY <2>1, <2>4, <3>2 DEF LedgerBacksRecords
      <4>2. registrations[q].sso # s
        BY <2>1, <2>3, <3>2, <4>1
      <4> QED
        BY <2>1, <2>2, <3>2, <4>1, <4>2
    <3> QED
      BY <3>1, <3>2
  <2>5. ASSUME NEW x \in AliasIds, aliases'[x].status = "used"
        PROVE aliases'[x].sso \in Ssos /\ ledger'[aliases'[x].sso] \in RegIds \X {x}
    <3>1. CASE x = id
      BY <2>1, <2>2, <3>1
    <3>2. CASE x # id
      <4>1. aliases[x].sso \in Ssos /\ ledger[aliases[x].sso] \in RegIds \X {x}
        BY <2>1, <2>5, <3>2 DEF LedgerBacksRecords
      <4>2. aliases[x].sso # s
        BY <2>1, <2>3, <3>2, <4>1
      <4> QED
        BY <2>1, <2>2, <3>2, <4>1, <4>2
    <3> QED
      BY <3>1, <3>2
  <2> QED
    BY <2>4, <2>5 DEF LedgerBacksRecords
<1> QED
  BY <1>1, <1>2, <1>3, StepKinds

\* Whatever is cleared, reset or run late, the ledger names the registration and
\* the alias of every recorded identity.
THEOREM LedgerBacks == Spec => []LedgerBacksRecords
<1>1. Init => LedgerBacksRecords
  <2> SUFFICES ASSUME Init PROVE LedgerBacksRecords
    OBVIOUS
  <2>1. \A id \in AliasIds : aliases[id].status = "none"
    BY DEF Init, NoRow
  <2>2. \A r \in RegIds : registrations[r].status = "none"
    BY DEF Init, NoReg
  <2> QED
    BY <2>1, <2>2 DEF LedgerBacksRecords
<1> QED
  BY <1>1, TypeCorrect, NextKeepsLedger, PTL DEF Spec

\* No SSO identity is recorded on two registrations or on two aliases, although
\* find_existing_sso runs long before complete_registration_success.
THEOREM RecordedOnce == Spec => []IdentityRecordedOnce
<1>1. LedgerBacksRecords => IdentityRecordedOnce
  <2> SUFFICES ASSUME LedgerBacksRecords PROVE IdentityRecordedOnce
    OBVIOUS
  <2>1. ASSUME NEW r \in RegIds, NEW q \in RegIds,
               registrations[r].status = "success", registrations[q].status = "success",
               registrations[r].sso = registrations[q].sso
        PROVE r = q
    BY <2>1 DEF LedgerBacksRecords
  <2>2. ASSUME NEW x \in AliasIds, NEW y \in AliasIds,
               aliases[x].status = "used", aliases[y].status = "used",
               aliases[x].sso = aliases[y].sso
        PROVE x = y
    BY <2>2 DEF LedgerBacksRecords
  <2> QED
    BY <2>1, <2>2 DEF IdentityRecordedOnce
<1> QED
  BY <1>1, LedgerBacks, PTL

----------------------------------------------------------------------------
(* What a step does to the registrations and to the rounds that own them *)

\* The round of worker w goes on with its alias and its registration.
Continues(w) ==
  /\ worker[w].pc \in HasReg
  /\ worker'[w].reg = worker[w].reg
  /\ worker'[w].alias = worker[w].alias

\* The registrations stay as they are, but lose the aliases they name when the
\* account is deleted.
Stays ==
  \A r \in RegIds :
    /\ registrations'[r].status = registrations[r].status
    /\ registrations'[r].sso = registrations[r].sso
    /\ \/ registrations'[r].alias = registrations[r].alias
       \/ registrations'[r].alias = NoAlias /\ "delete" \in Hazards

\* A claim recovers the expired leases, whether it finds an alias or not.
Recovers == \E w \in Workers : ClaimReadyAlias(w) \/ MintAlias(w) \/ ClaimNothing(w)

\* Some pending registrations are interrupted: those of expired leases, or any
\* when the process starts.
Interrupts ==
  \A r \in RegIds :
    \/ registrations'[r] = registrations[r]
    \/ /\ registrations[r].status = "pending"
       /\ registrations'[r].status = "interrupted"
       /\ registrations'[r].alias = registrations[r].alias
       /\ \/ mode = "down"
          \/ /\ Recovers
             /\ registrations[r].alias \in AliasIds
             /\ Expired(aliases[registrations[r].alias])

\* The handler of worker w closes the registration of its round.
Settles(w) ==
  /\ worker[w].pc = "failed"
  /\ worker'[w].pc = "loop"
  /\ \A r \in RegIds :
       \/ registrations'[r] = registrations[r]
       \/ /\ r = worker[w].reg
          /\ registrations[r].status # "deleted"
          /\ registrations'[r].status \in {"failed", "skipped"}
          /\ registrations'[r].alias = registrations[r].alias

\* The operator clears some results.
Erases ==
  \A r \in RegIds :
    \/ registrations'[r] = registrations[r]
    \/ registrations[r].status # "none" /\ registrations'[r] = [NoReg EXCEPT !.status = "deleted"]

\* A round keeps its alias and registration until it ends.
LEMMA RoundsContinue ==
  ASSUME TypeOK, [Next]_vars, NEW w \in Workers, worker'[w].pc \in HasReg
  PROVE Continues(w) \/ CreateRegistration(w)
<1>g. ASSUME NEW v \in Workers, NEW place \in Places \ HasReg, Goto(v, place) PROVE Continues(w)
  <2>1. worker'[v].pc = place /\ (v # w => worker'[w] = worker[w])
    BY <1>g DEF Goto, At, TypeOK
  <2> QED
    BY <1>g, <2>1 DEF Continues
<1>u. CASE worker' = worker
  BY <1>u DEF Continues
<1>r. ASSUME NEW v \in Workers, NEW e, Raise(v, e), worker[v].pc \in HasReg PROVE Continues(w)
  <2>1. worker[v] \in WorkerFields
    BY DEF TypeOK, WorkerState
  <2> QED
    BY <1>r, <2>1 DEF Raise, Continues, TypeOK, WorkerFields
<1>t. ASSUME NEW v \in Workers, NEW id, NEW rows, Take(v, id, rows) PROVE Continues(w)
  <2>1. worker'[v].pc = "claimed" /\ (v # w => worker'[w] = worker[w])
    BY <1>t DEF Take, At, TypeOK
  <2> QED
    BY <2>1 DEF Continues, HasReg
<1>1. ASSUME NEW v \in Workers, WorkerStep(v), ~Round(v) PROVE Continues(w)
  <2>1. CASE ClaimReadyAlias(v) \/ MintAlias(v)
    BY <1>t, <2>1 DEF ClaimReadyAlias, MintAlias
  <2>2. CASE TopOfLoop(v) \/ ClaimNothing(v) \/ ProvisionMailbox(v) \/ ProvisionFails(v)
    BY <1>g, <2>2 DEF TopOfLoop, ClaimNothing, ProvisionMailbox, ProvisionFails, Places, HasReg, InRound
  <2> QED
    BY <1>1, <2>1, <2>2 DEF WorkerStep
<1>2. ASSUME NEW v \in Workers, Round(v) PROVE Continues(w) \/ CreateRegistration(w)
  <2>f. worker[v] \in WorkerFields
    BY DEF TypeOK, WorkerState
  <2>1. CASE CreateRegistration(v)
    BY <2>1, <2>f DEF CreateRegistration, Continues, TypeOK, WorkerFields
  <2>2. CASE \E e \in RemoteErrors : SignupRaises(v, e)
    BY <2>2, <1>r DEF SignupRaises, HasReg, InRound
  <2>3. CASE \E s \in Ssos : SignupReturns(v, s)
    BY <2>3, <2>f DEF SignupReturns, Continues, TypeOK, WorkerFields, HasReg, InRound
  <2>4. CASE CheckDuplicate(v)
    <3>1. CASE Advance(v, "commit")
      BY <2>4, <3>1, <2>f DEF CheckDuplicate, Advance, Continues, TypeOK, WorkerFields, HasReg, InRound
    <3> QED
      BY <2>4, <3>1, <1>r DEF CheckDuplicate, HasReg, InRound
  <2>5. CASE CommitRaises(v)
    BY <2>5, <1>r DEF CommitRaises, HasReg, InRound
  <2>6. CASE Goto(v, "loop")
    BY <2>6, <1>g DEF Places, HasReg, InRound
  <2> QED
    BY <1>2, <2>1, <2>2, <2>3, <2>4, <2>5, <2>6 DEF Round, CommitSuccess, CreateRegistrationRaises,
       HandleLeaseLost, HandleAbort, HandleExisting, HandleDuplicate, HandleFailure, HandlerRaises
<1>3. ASSUME NEW v \in Workers, Heartbeat(v) PROVE Continues(w)
  <2>f. worker[v] \in WorkerFields
    BY DEF TypeOK, WorkerState
  <2> QED
    BY <1>3, <1>u, <2>f DEF Heartbeat, Continues, TypeOK, WorkerFields
<1>4. CASE StartTask \/ Crash
  BY <1>4 DEF StartTask, Crash, At, HasReg, InRound
<1>5. CASE Environment /\ ~StartTask /\ ~Crash
  BY <1>5, <1>u DEF Environment, StopTask, EndTask, Boot, LeaseRunsOut
<1>6. CASE OperatorEdit
  BY <1>6, <1>u DEF OperatorEdit, ResetAccount, DeleteAccount, ImportAccount, SetAliasLimit, ClearResults
<1> QED
  BY <1>1, <1>2, <1>3, <1>4, <1>5, <1>6, <1>u DEF Next, vars

\* Closing a registration settles it.
LEMMA SettleSettles ==
  ASSUME TypeOK, NEW w \in Workers, NEW status \in {"failed", "skipped"},
         worker[w].pc = "failed", Goto(w, "loop"), registrations' = Settle(worker[w].reg, status)
  PROVE Settles(w)
<1>1. worker'[w].pc = "loop"
  BY DEF Goto, At, TypeOK
<1>2. worker[w].reg \in RegIds
  BY DEF TypeOK, WorkerState, HasReg, InRound
<1>3. registrations[worker[w].reg] \in RegRow
  BY <1>2 DEF TypeOK
<1>4. /\ [registrations[worker[w].reg] EXCEPT !.status = status].status = status
      /\ [registrations[worker[w].reg] EXCEPT !.status = status].alias = registrations[worker[w].reg].alias
  BY <1>3 DEF RegRow
<1> QED
  BY <1>1, <1>2, <1>4 DEF Settles, Settle, TypeOK

\* Recovery interrupts the registrations of expired leases.
LEMMA RecoveryInterrupts ==
  ASSUME TypeOK, Recovers, registrations' = RecoveredRegs PROVE Interrupts
<1>1. \A r \in RegIds : registrations[r] \in RegRow
  BY DEF TypeOK
<1>2. \A r \in RegIds :
        /\ [registrations[r] EXCEPT !.status = "interrupted"].status = "interrupted"
        /\ [registrations[r] EXCEPT !.status = "interrupted"].alias = registrations[r].alias
  BY <1>1 DEF RegRow
<1> QED
  BY <1>2 DEF Interrupts, RecoveredRegs

\* So does startup, which also gives up what is older than its cutoff.
LEMMA BootInterrupts ==
  ASSUME TypeOK, Boot PROVE Interrupts
<1>1. \A r \in RegIds : registrations[r] \in RegRow /\ RecoveredRegs[r] \in RegRow
  BY RecoveredTypes DEF TypeOK
<1>2. \A r \in RegIds :
        /\ [registrations[r] EXCEPT !.status = "interrupted"].status = "interrupted"
        /\ [registrations[r] EXCEPT !.status = "interrupted"].alias = registrations[r].alias
        /\ [RecoveredRegs[r] EXCEPT !.status = "interrupted"].status = "interrupted"
        /\ [RecoveredRegs[r] EXCEPT !.status = "interrupted"].alias = RecoveredRegs[r].alias
  BY <1>1 DEF RegRow
<1>3. \A r \in RegIds :
        \/ RecoveredRegs[r] = registrations[r]
        \/ /\ registrations[r].status = "pending"
           /\ RecoveredRegs[r].status = "interrupted"
           /\ RecoveredRegs[r].alias = registrations[r].alias
  BY <1>2 DEF RecoveredRegs
<1>4. PICK cutoff \in 0 .. MaxRegs :
        registrations' = [r \in RegIds |->
          IF r \in Stale(cutoff) THEN [RecoveredRegs[r] EXCEPT !.status = "interrupted"]
          ELSE RecoveredRegs[r]]
  BY DEF Boot
<1>5. ASSUME NEW r \in RegIds, registrations'[r] # registrations[r]
      PROVE /\ registrations[r].status = "pending"
            /\ registrations'[r].status = "interrupted"
            /\ registrations'[r].alias = registrations[r].alias
  <2>1. CASE r \in Stale(cutoff)
    <3>1. RecoveredRegs[r].status = "pending"
      BY <2>1 DEF Stale
    <3>2. registrations'[r] = [RecoveredRegs[r] EXCEPT !.status = "interrupted"]
      BY <1>4, <2>1
    <3>3. RecoveredRegs[r] = registrations[r]
      BY <1>3, <3>1
    <3> QED
      BY <1>2, <3>1, <3>2, <3>3
  <2>2. CASE r \notin Stale(cutoff)
    BY <1>3, <1>4, <1>5, <2>2
  <2> QED
    BY <2>1, <2>2
<1>6. mode = "down"
  BY DEF Boot
<1> QED
  BY <1>5, <1>6 DEF Interrupts

\* What a step may do to the registrations, whatever its action.
LEMMA RegistrationKinds ==
  ASSUME TypeOK, [Next]_vars
  PROVE \/ /\ ledger' = ledger
           /\ Stays \/ Interrupts \/ Erases \/ (\E w \in Workers : Settles(w))
        \/ \E w \in Workers : CreateRegistration(w) \/ CommitSuccess(w)
<1>s. registrations' = registrations => Stays
  BY DEF Stays
<1>1. ASSUME NEW w \in Workers, WorkerStep(w), ~CreateRegistration(w), ~CommitSuccess(w)
      PROVE /\ ledger' = ledger
            /\ Stays \/ Interrupts \/ (\E v \in Workers : Settles(v))
  <2>1. CASE ClaimReadyAlias(w) \/ MintAlias(w) \/ ClaimNothing(w)
    BY <2>1, RecoveryInterrupts DEF ClaimReadyAlias, MintAlias, ClaimNothing, Recovers
  <2>2. CASE TopOfLoop(w) \/ ProvisionMailbox(w) \/ ProvisionFails(w)
    BY <2>2, <1>s DEF TopOfLoop, ProvisionMailbox, ProvisionFails, tables
  <2>3. CASE Round(w)
    <3>1. CASE HandleAbort(w)
      BY <3>1, SettleSettles DEF HandleAbort
    <3>2. CASE HandleExisting(w)
      BY <3>2, SettleSettles DEF HandleExisting
    <3>3. CASE HandleDuplicate(w) \/ HandleFailure(w)
      BY <3>3, SettleSettles DEF HandleDuplicate, HandleFailure, FinishAttempt
    <3>4. CASE UNCHANGED <<registrations, ledger>>
      BY <3>4, <1>s
    <3> QED
      BY <1>1, <2>3, <3>1, <3>2, <3>3, <3>4 DEF Round, CreateRegistrationRaises, SignupRaises, SignupReturns,
         CheckDuplicate, CommitRaises, HandleLeaseLost, HandlerRaises, tables
  <2> QED
    BY <1>1, <2>1, <2>2, <2>3 DEF WorkerStep
<1>2. CASE UNCHANGED <<registrations, ledger>>
  BY <1>2, <1>s
<1>3. CASE Boot
  BY <1>3, BootInterrupts DEF Boot
<1>4. ASSUME NEW a \in Accounts, DeleteAccount(a) PROVE Stays /\ ledger' = ledger
  <2>1. \A r \in RegIds : registrations[r] \in RegRow
    BY DEF TypeOK
  <2>2. \A r \in RegIds :
          /\ [registrations[r] EXCEPT !.alias = NoAlias].status = registrations[r].status
          /\ [registrations[r] EXCEPT !.alias = NoAlias].sso = registrations[r].sso
          /\ [registrations[r] EXCEPT !.alias = NoAlias].alias = NoAlias
    BY <2>1 DEF RegRow
  <2> QED
    BY <1>4, <2>2 DEF DeleteAccount, Stays
<1>5. CASE ClearResults
  BY <1>5 DEF ClearResults, Erases
<1>6. ASSUME NEW w \in Workers, Heartbeat(w) PROVE UNCHANGED <<registrations, ledger>>
  BY <1>6 DEF Heartbeat
<1>7. CASE Environment /\ ~Boot
  BY <1>2, <1>7 DEF Environment, StartTask, StopTask, EndTask, Crash, LeaseRunsOut, tables
<1>8. CASE OperatorEdit
  BY <1>2, <1>4, <1>5, <1>8 DEF OperatorEdit, ResetAccount, ImportAccount, SetAliasLimit
<1> QED
  BY <1>1, <1>2, <1>3, <1>6, <1>7, <1>8 DEF Next, vars

----------------------------------------------------------------------------
(* What a step does to an alias row *)

\* A row that is overwritten in the course of a round, a recovery or a failure:
\* a used one stays used, a settled one is not reopened, and no lease is given.
Keeps(old, new) ==
  /\ old.status = "used" => new.status = "used" /\ new.sso = old.sso
  /\ new.status = "used" => old.status = "used"
  /\ new.status = "none" <=> old.status = "none"
  /\ new.status = "ready" => old.status \in {"ready", "processing"}
  /\ new.status = "processing" => old.status = "processing" /\ new.owner = old.owner

KeepsRows(rows) == \A id \in AliasIds : Keeps(aliases[id], rows[id])

\* No alias consumes a retry.
KeepsRetries(rows) == \A id \in AliasIds : rows[id].retry <= aliases[id].retry

\* A registration names an alias that exists.
AliasesExist ==
  \A r \in RegIds :
    registrations[r].alias \in AliasIds => aliases[registrations[r].alias].status # "none"

\* Retry counts are numbers.
LEMMA RetryIsNat ==
  ASSUME TypeOK, NEW id \in AliasIds PROVE aliases[id] \in AliasRow /\ aliases[id].retry \in Nat
  BY DEF TypeOK, AliasRow

\* Leaving the rows alone keeps them.
LEMMA UnchangedKeeps == TypeOK => KeepsRows(aliases) /\ KeepsRetries(aliases)
  BY RetryIsNat DEF KeepsRows, Keeps, KeepsRetries

\* An alias that is put back is ready with the retries given, whatever it was.
LEMMA RequeuedFields ==
  ASSUME NEW row \in AliasRow, NEW n \in Nat, NEW c \in Categories
  PROVE Requeued(row, n, c).status = "ready" /\ Requeued(row, n, c).retry = n
  BY DEF Requeued, AliasRow

\* An alias that is failed is failed and keeps its retries.
LEMMA FailedFields ==
  ASSUME NEW row \in AliasRow, NEW n \in Nat, NEW c \in Categories
  PROVE Failed(row, c, n).status = "failed" /\ Failed(row, c, n).retry = row.retry
  BY DEF Failed, AliasRow

\* Recovery puts the expired leases back and nothing else.
LEMMA RecoveryKeeps ==
  ASSUME TypeOK
  PROVE /\ KeepsRows(RecoveredRows)
        /\ \A id \in AliasIds :
             /\ RecoveredRows[id].retry = aliases[id].retry
             /\ RecoveredRows[id].status = "processing" => ~Expired(aliases[id])
             /\ ~Expired(aliases[id]) => RecoveredRows[id] = aliases[id]
<1>1. \A id \in AliasIds :
        /\ Requeued(aliases[id], aliases[id].retry, "").status = "ready"
        /\ Requeued(aliases[id], aliases[id].retry, "").retry = aliases[id].retry
  BY RetryIsNat, RequeuedFields DEF Categories
<1> QED
  BY <1>1 DEF KeepsRows, Keeps, RecoveredRows, Expired

\* Putting back or failing a leased row keeps the rows.
LEMMA OverwriteKeeps ==
  ASSUME TypeOK, NEW w \in Workers, HoldsLease(w), NEW rows,
         rows[worker[w].alias].status \in {"ready", "failed"},
         \A other \in AliasIds \ {worker[w].alias} : rows[other] = aliases[other]
  PROVE KeepsRows(rows)
  BY DEF KeepsRows, Keeps, HoldsLease

\* Disabling an account keeps the rows, and happens to a ready account that is
\* left with nothing to run.
LEMMA MaybeDisableKeeps ==
  ASSUME TypeOK, NEW rows \in [AliasIds -> AliasRow], NEW a \in Accounts,
         KeepsRows(rows), MaybeDisable(rows, a)
  PROVE /\ KeepsRows(aliases')
        /\ \A id \in AliasIds : aliases'[id].retry = rows[id].retry
        /\ \/ accounts' = accounts
           \/ /\ accounts[a] = "ready"
              /\ accounts' = [accounts EXCEPT ![a] = "disabled"]
              /\ \A i \in Indexes : aliases'[<<a, i>>].status \notin {"ready", "processing"}
<1>1. \A id \in AliasIds :
        /\ Failed(rows[id], "registration", NextStamp(rows, a)).status = "failed"
        /\ Failed(rows[id], "registration", NextStamp(rows, a)).retry = rows[id].retry
  BY FailedFields, StampIsNat DEF Categories
<1>2. KeepsRows(DisableRows(rows, a))
  BY <1>1 DEF KeepsRows, Keeps, DisableRows
<1>3. \A id \in AliasIds : DisableRows(rows, a)[id].retry = rows[id].retry
  BY <1>1 DEF DisableRows
<1>4. ASSUME Unusable(rows, a), NEW i \in Indexes
      PROVE DisableRows(rows, a)[<<a, i>>].status \notin {"ready", "processing"}
  <2>1. <<a, i>> \in AliasIds /\ <<a, i>>[1] = a
    BY DEF AliasIds
  <2>2. rows[<<a, i>>].status # "processing"
    BY <1>4 DEF Unusable, Quiet
  <2> QED
    BY <1>1, <2>1, <2>2 DEF DisableRows
<1>5. CASE Unusable(rows, a)
  BY <1>2, <1>3, <1>4, <1>5 DEF MaybeDisable, Unusable
<1>6. CASE ~Unusable(rows, a)
  BY <1>6 DEF MaybeDisable
<1> QED
  BY <1>5, <1>6

\* Failing a leased alias, and disabling its account, keeps the rows.
LEMMA FailAliasKeeps ==
  ASSUME TypeOK, NEW w \in Workers, HoldsLease(w), NEW n \in Nat, NEW c \in Categories,
         FailAlias(w, n, c)
  PROVE /\ KeepsRows(aliases')
        /\ aliases'[worker[w].alias].retry = n
        /\ \A other \in AliasIds \ {worker[w].alias} : aliases'[other].retry = aliases[other].retry
        /\ \/ accounts' = accounts
           \/ /\ accounts[worker[w].alias[1]] = "ready"
              /\ accounts' = [accounts EXCEPT ![worker[w].alias[1]] = "disabled"]
              /\ \A i \in Indexes :
                   aliases'[<<worker[w].alias[1], i>>].status \notin {"ready", "processing"}
<1> DEFINE id == worker[w].alias
           row == [aliases[id] EXCEPT !.retry = n]
           failed == Failed(row, c, NextStamp(aliases, id[1]))
           rows == [aliases EXCEPT ![id] = failed]
<1>1. id \in AliasIds /\ id[1] \in Accounts
  BY DEF HoldsLease, AliasIds
<1>2. row \in AliasRow /\ row.retry = n
  BY <1>1 DEF TypeOK, AliasRow
<1>3. failed \in AliasRow
  BY <1>2, FailedIsRow, StampIsNat
<1>4. failed.status = "failed" /\ failed.retry = n
  BY <1>2, FailedFields, StampIsNat
<1>5. rows \in [AliasIds -> AliasRow]
  BY <1>1, <1>3 DEF TypeOK
<1>6. rows[id] = failed /\ \A other \in AliasIds \ {id} : rows[other] = aliases[other]
  BY <1>1 DEF TypeOK
<1>7. MaybeDisable(rows, id[1])
  BY DEF FailAlias
<1> HIDE DEF rows, failed, row
<1>8. KeepsRows(rows)
  BY <1>4, <1>6, OverwriteKeeps
<1>9. /\ KeepsRows(aliases')
      /\ \A other \in AliasIds : aliases'[other].retry = rows[other].retry
      /\ \/ accounts' = accounts
         \/ /\ accounts[id[1]] = "ready"
            /\ accounts' = [accounts EXCEPT ![id[1]] = "disabled"]
            /\ \A i \in Indexes : aliases'[<<id[1], i>>].status \notin {"ready", "processing"}
  BY <1>1, <1>5, <1>7, <1>8, MaybeDisableKeeps
<1> QED
  BY <1>1, <1>4, <1>6, <1>9

\* So does giving a claim back.
LEMMA ReleaseKeeps ==
  ASSUME TypeOK, NEW w \in Workers
  PROVE KeepsRows(Released(w)) /\ KeepsRetries(Released(w))
<1>1. CASE HoldsLease(w)
  <2> DEFINE row == [aliases[worker[w].alias] EXCEPT
                       !.status = "ready", !.owner = NoOwner, !.lease = "none"]
  <2>1. worker[w].alias \in AliasIds /\ aliases[worker[w].alias] \in AliasRow
    BY <1>1 DEF HoldsLease, TypeOK
  <2>2. row.status = "ready" /\ row.retry = aliases[worker[w].alias].retry
    BY <2>1 DEF AliasRow
  <2>3. Released(w) = [aliases EXCEPT ![worker[w].alias] = row]
    BY <1>1 DEF Released
  <2>4. /\ Released(w)[worker[w].alias] = row
        /\ \A other \in AliasIds \ {worker[w].alias} : Released(w)[other] = aliases[other]
    BY <2>1, <2>3 DEF TypeOK
  <2> HIDE DEF row
  <2>5. KeepsRows(Released(w))
    BY <1>1, <2>2, <2>4, OverwriteKeeps
  <2> QED
    BY <2>2, <2>4, <2>5, RetryIsNat DEF KeepsRetries
<1> QED
  BY <1>1, UnchangedKeeps DEF Released

\* What becomes of an account: nothing, it is disabled with nothing left to run,
\* it is new or imported again, or its status is computed from its used aliases.
AccountMoves(a) ==
  \/ accounts'[a] = accounts[a]
  \/ /\ accounts[a] = "ready"
     /\ accounts'[a] = "disabled"
     /\ \A i \in Indexes : aliases'[<<a, i>>].status \notin {"ready", "processing"}
  \/ /\ accounts'[a] = "ready"
     /\ accounts[a] = "absent" \/ "import" \in Hazards
  \/ accounts'[a] = SyncedAccounts(AliasCap')[a]

\* Closing a failed attempt keeps the rows: it puts the alias back or fails it.
LEMMA FinishAttemptKeeps ==
  ASSUME TypeOK, NEW w \in Workers, NEW limit, NEW c \in Categories,
         FinishAttempt(w, limit, c)
  PROVE /\ KeepsRows(aliases')
        /\ \A id \in AliasIds : aliases'[id].retry > aliases[id].retry =>
             HoldsLease(w) /\ id = worker[w].alias
        /\ \A a \in Accounts : AccountMoves(a)
<1> DEFINE id == worker[w].alias
           n == aliases[id].retry + 1
<1>n. \A x \in AliasIds : ~(aliases[x].retry > aliases[x].retry)
  BY RetryIsNat
<1>1. CASE ~HoldsLease(w)
  BY <1>1, <1>n, UnchangedKeeps DEF FinishAttempt, AccountMoves
<1>2. CASE HoldsLease(w)
  <2>1. id \in AliasIds /\ aliases[id] \in AliasRow /\ n \in Nat /\ id[1] \in Accounts
    BY <1>2 DEF HoldsLease, TypeOK, AliasRow, AliasIds
  <2>2. CASE n >= limit
    <3>1. FailAlias(w, n, c)
      BY <1>2, <2>2 DEF FinishAttempt
    <3> HIDE DEF n
    <3>2. \A a \in Accounts : AccountMoves(a)
      BY <1>2, <2>1, <3>1, FailAliasKeeps DEF AccountMoves, TypeOK
    <3>3. /\ KeepsRows(aliases')
          /\ \A other \in AliasIds \ {worker[w].alias} : aliases'[other].retry = aliases[other].retry
      BY <1>2, <2>1, <3>1, FailAliasKeeps
    <3> QED
      BY <1>2, <1>n, <3>2, <3>3
  <2>3. CASE ~(n >= limit)
    <3> DEFINE row == Requeued(aliases[id], n, IF c = "sso_duplicate" THEN c ELSE "")
    <3>1. row.status = "ready"
      BY <2>1, RequeuedFields DEF Categories
    <3>2. aliases' = [aliases EXCEPT ![id] = row] /\ accounts' = accounts
      BY <1>2, <2>3 DEF FinishAttempt
    <3>3. aliases'[id] = row /\ \A other \in AliasIds \ {id} : aliases'[other] = aliases[other]
      BY <2>1, <3>2 DEF TypeOK
    <3> HIDE DEF row
    <3>4. KeepsRows(aliases')
      BY <1>2, <3>1, <3>3, OverwriteKeeps
    <3> QED
      BY <1>2, <1>n, <3>2, <3>3, <3>4 DEF AccountMoves
  <2> QED
    BY <2>2, <2>3
<1> QED
  BY <1>1, <1>2

\* Alias id pays for a failed attempt of the worker that holds it.
Consumes(id) ==
  \E w \in Workers :
    /\ worker[w].alias = id
    /\ HoldsLease(w)
    /\ HandleDuplicate(w) \/ HandleFailure(w)

RetriesAreConsumed ==
  \A id \in AliasIds : aliases'[id].retry > aliases[id].retry => Consumes(id)

\* A step that gives no lease, records nothing and is no edit by the operator.
Tame ==
  /\ KeepsRows(aliases')
  /\ RetriesAreConsumed
  /\ \A a \in Accounts : AccountMoves(a)

\* Retries that do not grow are not consumed.
LEMMA KeptRetries ==
  ASSUME TypeOK, KeepsRetries(aliases') , aliases' \in [AliasIds -> AliasRow]
  PROVE RetriesAreConsumed
<1>1. \A id \in AliasIds : aliases[id].retry \in Nat /\ aliases'[id].retry \in Nat
  BY RetryIsNat DEF AliasRow
<1> QED
  BY <1>1 DEF KeepsRetries, RetriesAreConsumed

\* Leaving accounts and aliases alone is tame.
LEMMA UnchangedIsTame ==
  ASSUME TypeOK, UNCHANGED <<accounts, aliases>> PROVE Tame
  BY UnchangedKeeps, RetryIsNat DEF Tame, AccountMoves, RetriesAreConsumed

\* Every step of a round up to the commit, and every branch of its handler, is tame.
LEMMA RoundIsTame ==
  ASSUME TypeOK, NEW w \in Workers, Round(w), ~CommitSuccess(w)
  PROVE Tame
<1> DEFINE id == worker[w].alias
<1>r. worker[w].pc = "failed" => id \in AliasIds
  BY DEF TypeOK, WorkerState, InRound, HasReg
<1>n. \A x \in AliasIds : ~(aliases[x].retry > aliases[x].retry)
  BY RetryIsNat
<1>1. CASE UNCHANGED <<accounts, aliases>>
  BY <1>1, UnchangedIsTame
<1>2. CASE CreateRegistrationRaises(w) \/ HandlerRaises(w)
  <2>1. aliases' = Released(w) /\ accounts' = accounts
    BY <1>2 DEF CreateRegistrationRaises, HandlerRaises
  <2>2. RetriesAreConsumed
    BY <2>1, ReleaseKeeps, ReleasedType, KeptRetries
  <2> QED
    BY <2>1, <2>2, ReleaseKeeps DEF Tame, AccountMoves
<1>3. CASE HandleAbort(w) /\ HoldsLease(w)
  <2> DEFINE row == Requeued(aliases[id], aliases[id].retry, "")
  <2>1. row.status = "ready" /\ row.retry = aliases[id].retry
    BY <1>3, <1>r, RetryIsNat, RequeuedFields DEF HandleAbort, Categories
  <2>2. aliases' = [aliases EXCEPT ![id] = row] /\ accounts' = accounts
    BY <1>3 DEF HandleAbort
  <2>3. aliases'[id] = row /\ \A other \in AliasIds \ {id} : aliases'[other] = aliases[other]
    BY <1>3, <1>r, <2>2 DEF HandleAbort, TypeOK
  <2> HIDE DEF row
  <2>4. KeepsRows(aliases')
    BY <1>3, <2>1, <2>3, OverwriteKeeps
  <2>5. RetriesAreConsumed
    BY <1>n, <2>1, <2>3 DEF RetriesAreConsumed
  <2> QED
    BY <2>2, <2>4, <2>5 DEF Tame, AccountMoves
<1>4. CASE HandleExisting(w) /\ HoldsLease(w)
  <2>1. id \in AliasIds /\ id[1] \in Accounts /\ aliases[id].retry \in Nat
    BY <1>4, <1>r, RetryIsNat DEF HandleExisting, AliasIds
  <2>2. FailAlias(w, aliases[id].retry, "existing_account")
    BY <1>4 DEF HandleExisting
  <2>3. /\ KeepsRows(aliases')
        /\ \A other \in AliasIds : aliases'[other].retry = aliases[other].retry
        /\ \/ accounts' = accounts
           \/ /\ accounts[id[1]] = "ready"
              /\ accounts' = [accounts EXCEPT ![id[1]] = "disabled"]
              /\ \A i \in Indexes : aliases'[<<id[1], i>>].status \notin {"ready", "processing"}
    BY <1>4, <2>1, <2>2, FailAliasKeeps DEF Categories
  <2>4. RetriesAreConsumed
    BY <1>n, <2>3 DEF RetriesAreConsumed
  <2>5. \A a \in Accounts : AccountMoves(a)
    BY <2>1, <2>3 DEF AccountMoves, TypeOK
  <2> QED
    BY <2>3, <2>4, <2>5 DEF Tame
<1>5. CASE HandleDuplicate(w) \/ HandleFailure(w)
  <2>1. \/ FinishAttempt(w, maxRetries + 1, "sso_duplicate")
        \/ FinishAttempt(w, maxRetries, "mail_fetch")
        \/ FinishAttempt(w, maxRetries, "registration")
    BY <1>5 DEF HandleDuplicate, HandleFailure
  <2>2. /\ KeepsRows(aliases')
        /\ \A x \in AliasIds : aliases'[x].retry > aliases[x].retry =>
             HoldsLease(w) /\ x = worker[w].alias
        /\ \A a \in Accounts : AccountMoves(a)
    BY <2>1, FinishAttemptKeeps DEF Categories
  <2>3. RetriesAreConsumed
    BY <1>5, <2>2 DEF RetriesAreConsumed, Consumes
  <2> QED
    BY <2>2, <2>3 DEF Tame
<1> QED
  BY <1>1, <1>2, <1>3, <1>4, <1>5 DEF Round, CreateRegistration, SignupRaises, SignupReturns,
     CheckDuplicate, CommitRaises, HandleLeaseLost, HandleAbort, HandleExisting, tables

\* Startup is tame: an alias that is put back exists and has not ended.
LEMMA BootIsTame ==
  ASSUME TypeOK, AliasesExist, Boot
  PROVE Tame
<1>1. PICK cutoff \in 0 .. MaxRegs : aliases' = Revived(Stale(cutoff))
  BY DEF Boot
<1>2. \A id \in AliasIds : RecoveredRows[id] \in AliasRow /\ RecoveredRows[id].retry \in Nat
  BY RecoveredTypes DEF AliasRow
<1>3. \A id \in AliasIds :
        /\ Requeued(RecoveredRows[id], RecoveredRows[id].retry, "").status = "ready"
        /\ Requeued(RecoveredRows[id], RecoveredRows[id].retry, "").retry = RecoveredRows[id].retry
  BY <1>2, RequeuedFields DEF Categories
<1>4. ASSUME NEW id \in AliasIds
      PROVE Keeps(aliases[id], aliases'[id]) /\ aliases'[id].retry = aliases[id].retry
  <2>1. Keeps(aliases[id], RecoveredRows[id]) /\ RecoveredRows[id].retry = aliases[id].retry
    BY RecoveryKeeps DEF KeepsRows
  <2>2. CASE aliases'[id] = RecoveredRows[id]
    BY <2>1, <2>2
  <2>3. CASE aliases'[id] # RecoveredRows[id]
    <3>1. /\ aliases'[id] = Requeued(RecoveredRows[id], RecoveredRows[id].retry, "")
          /\ RecoveredRows[id].status \notin {"used", "failed"}
          /\ \E r \in RegIds : registrations[r].alias = id
      BY <1>1, <2>3 DEF Revived, Stale
    <3>2. aliases[id].status # "none"
      BY <3>1 DEF AliasesExist
    <3>3. aliases[id].status \in {"ready", "processing"}
      <4>1. aliases[id].status \in AliasStatus /\ RecoveredRows[id].status \in AliasStatus
        BY <1>2, RetryIsNat DEF AliasRow
      <4>2. RecoveredRows[id].status \in {"ready", "processing"}
        BY <2>1, <3>1, <3>2, <4>1 DEF Keeps, AliasStatus
      <4> QED
        BY <2>1, <4>2 DEF Keeps
    <3> QED
      BY <1>3, <2>1, <3>1, <3>3 DEF Keeps
  <2> QED
    BY <2>2, <2>3
<1>5. RetriesAreConsumed
  BY <1>4, RetryIsNat DEF RetriesAreConsumed
<1>6. \A a \in Accounts : AccountMoves(a)
  BY DEF Boot, AccountMoves, AliasCap
<1> QED
  BY <1>4, <1>5, <1>6 DEF Tame, KeepsRows

\* What a step may do to the aliases, whatever its action.
LEMMA AliasKinds ==
  ASSUME TypeOK, AliasesExist, [Next]_vars
  PROVE \/ Tame
        \/ \E w \in Workers : ClaimReadyAlias(w) \/ MintAlias(w) \/ CommitSuccess(w)
        \/ \E a \in Accounts : ResetAccount(a) \/ DeleteAccount(a)
<1>1. accounts' = accounts /\ aliases' = aliases => Tame
  BY UnchangedIsTame
<1>2. ASSUME NEW w \in Workers, ClaimNothing(w) PROVE Tame
  <2>1. aliases' = RecoveredRows /\ accounts' = accounts
    BY <1>2 DEF ClaimNothing
  <2>2. RetriesAreConsumed
    BY <2>1, RecoveryKeeps, RetryIsNat DEF RetriesAreConsumed
  <2> QED
    BY <2>1, <2>2, RecoveryKeeps DEF Tame, AccountMoves
<1>3. ASSUME NEW w \in Workers, ProvisionMailbox(w) PROVE Tame
  <2>0. PICK a \in Accounts : IsNextAccount(a) /\ accounts' = [accounts EXCEPT ![a] = "ready"]
    BY <1>3 DEF ProvisionMailbox
  <2>1. accounts' = [accounts EXCEPT ![a] = "ready"]
    BY <2>0
  <2>2. aliases' = aliases
    BY <1>3 DEF ProvisionMailbox
  <2>3. \A b \in Accounts : AccountMoves(b)
    <3>1. accounts[a] = "absent"
      <4>1. a <= a
        BY ConstantsAssumption
      <4> QED
        BY <1>3, <2>0, <4>1 DEF IsNextAccount
    <3> QED
      BY <2>1, <3>1 DEF AccountMoves, TypeOK
  <2>4. RetriesAreConsumed
    BY <2>2, RetryIsNat DEF RetriesAreConsumed
  <2> QED
    BY <2>2, <2>3, <2>4, UnchangedKeeps DEF Tame
<1>4. ASSUME NEW w \in Workers, Heartbeat(w) PROVE Tame
  <2>1. CASE HoldsLease(w)
    <3> DEFINE id == worker[w].alias
               row == [aliases[id] EXCEPT !.lease = "live"]
    <3>1. id \in AliasIds /\ aliases[id] \in AliasRow
      BY <2>1 DEF HoldsLease, TypeOK
    <3>2. row.status = aliases[id].status /\ row.owner = aliases[id].owner
            /\ row.retry = aliases[id].retry /\ row.sso = aliases[id].sso
      BY <3>1 DEF AliasRow
    <3>3. aliases' = [aliases EXCEPT ![id] = row] /\ accounts' = accounts
      BY <1>4, <2>1 DEF Heartbeat
    <3>4. aliases'[id] = row /\ \A other \in AliasIds \ {id} : aliases'[other] = aliases[other]
      BY <3>1, <3>3 DEF TypeOK
    <3> HIDE DEF row
    <3> QED
      BY <3>2, <3>3, <3>4, RetryIsNat DEF Tame, KeepsRows, Keeps, RetriesAreConsumed, AccountMoves
  <2>2. CASE ~HoldsLease(w)
    BY <1>1, <1>4, <2>2 DEF Heartbeat
  <2> QED
    BY <2>1, <2>2
<1>5. ASSUME NEW id \in AliasIds, LeaseRunsOut(id) PROVE Tame
  <2> DEFINE row == [aliases[id] EXCEPT !.lease = "expired"]
  <2>1. aliases[id] \in AliasRow
    BY DEF TypeOK
  <2>2. row.status = aliases[id].status /\ row.owner = aliases[id].owner
          /\ row.retry = aliases[id].retry /\ row.sso = aliases[id].sso
    BY <2>1 DEF AliasRow
  <2>3. aliases' = [aliases EXCEPT ![id] = row] /\ accounts' = accounts
    BY <1>5 DEF LeaseRunsOut
  <2>4. aliases'[id] = row /\ \A other \in AliasIds \ {id} : aliases'[other] = aliases[other]
    BY <2>3 DEF TypeOK
  <2> HIDE DEF row
  <2> QED
    BY <2>2, <2>3, <2>4, RetryIsNat DEF Tame, KeepsRows, Keeps, RetriesAreConsumed, AccountMoves
<1>6. ASSUME NEW a \in Accounts, ImportAccount(a) PROVE Tame
  <2>1. \A b \in Accounts : AccountMoves(b)
    BY <1>6 DEF ImportAccount, AccountMoves, TypeOK
  <2>2. aliases' = aliases
    BY <1>6 DEF ImportAccount
  <2>3. RetriesAreConsumed
    BY <2>2, RetryIsNat DEF RetriesAreConsumed
  <2> QED
    BY <2>1, <2>2, <2>3, UnchangedKeeps DEF Tame
<1>7. ASSUME NEW n \in AliasLimits, SetAliasLimit(n) PROVE Tame
  <2>1. \A b \in Accounts : AccountMoves(b)
    BY <1>7 DEF SetAliasLimit, SyncedAccounts, AliasCap, AccountMoves
  <2>2. aliases' = aliases
    BY <1>7 DEF SetAliasLimit
  <2>3. RetriesAreConsumed
    BY <2>2, RetryIsNat DEF RetriesAreConsumed
  <2> QED
    BY <2>1, <2>2, <2>3, UnchangedKeeps DEF Tame
<1>8. ASSUME NEW w \in Workers, TopOfLoop(w) \/ ProvisionFails(w) PROVE Tame
  BY <1>1, <1>8 DEF TopOfLoop, ProvisionFails, tables
<1>9. CASE StartTask \/ StopTask \/ EndTask \/ Crash \/ ClearResults \/ UNCHANGED vars
  BY <1>1, <1>9 DEF StartTask, StopTask, EndTask, Crash, ClearResults, vars, tables
<1> QED
  BY <1>2, <1>3, <1>4, <1>5, <1>6, <1>7, <1>8, <1>9, BootIsTame, RoundIsTame
     DEF Next, WorkerStep, Environment, OperatorEdit

----------------------------------------------------------------------------
(* The invariant of the rounds *)

\* No thread runs while the process is down.
DownIsOff == mode = "down" => \A w \in Workers : worker[w].pc = "off"

\* The registration of a round names the alias of the round, unless the account
\* was deleted or the result cleared meanwhile.
RoundNamesItsAlias ==
  \A w \in Workers : worker[w].pc \in HasReg =>
    \/ registrations[worker[w].reg].status = "deleted"
    \/ registrations[worker[w].reg].alias \in {worker[w].alias, NoAlias}

\* The ledger names registrations that succeeded, also when they were cleared since.
LedgerNamesSuccesses ==
  \A s \in Ssos :
    ledger[s] # NoEntry => registrations[ledger[s][1]].status \in {"success", "deleted"}

RoundInv ==
  /\ TypeOK
  /\ AliasesExist
  /\ DownIsOff
  /\ RoundOwnsRegistration
  /\ RoundNamesItsAlias
  /\ LeasedRoundIsOpen
  /\ LedgerNamesSuccesses
  /\ DisabledAccountIsQuiet

\* No account has id 0.
LEMMA NoAliasIsNone == NoAlias \notin AliasIds
  BY ConstantsAssumption DEF NoAlias, AliasIds

\* A created registration is new, and names the leased alias of its round.
LEMMA CreatedIsNew ==
  ASSUME TypeOK, NEW w \in Workers, CreateRegistration(w)
  PROVE /\ HoldsLease(w)
        /\ worker[w].pc = "claimed"
        /\ UNCHANGED <<accounts, aliases, ledger, task>>
        /\ worker'[w].reg \in RegIds
        /\ worker'[w].alias = worker[w].alias
        /\ \A v \in Workers \ {w} : worker'[v] = worker[v]
        /\ registrations[worker'[w].reg].status = "none"
        /\ registrations'[worker'[w].reg] =
             [status |-> "pending", alias |-> worker[w].alias, sso |-> NoSso]
        /\ \A q \in RegIds \ {worker'[w].reg} : registrations'[q] = registrations[q]
<1>1. PICK r \in RegIds :
        /\ IsNextReg(r)
        /\ registrations' = [registrations EXCEPT ![r] =
             [status |-> "pending", alias |-> worker[w].alias, sso |-> NoSso]]
        /\ worker' = [worker EXCEPT ![w] = [@ EXCEPT !.pc = "signup", !.reg = r]]
  BY DEF CreateRegistration
<1>2. worker[w] \in WorkerFields
  BY DEF TypeOK, WorkerState
<1>3. worker'[w].reg = r /\ worker'[w].alias = worker[w].alias
  BY <1>1, <1>2 DEF TypeOK, WorkerFields
<1>4. r <= r
  BY DEF RegIds
<1>5. registrations[r].status = "none"
  BY <1>1, <1>4 DEF IsNextReg
<1>6. \A v \in Workers \ {w} : worker'[v] = worker[v]
  BY <1>1 DEF TypeOK
<1> QED
  BY <1>1, <1>3, <1>5, <1>6 DEF CreateRegistration, TypeOK, taskVars

\* While a round runs, no other task starts.
LEMMA RoundKeepsTask ==
  ASSUME TypeOK, [Next]_vars, NEW w \in Workers, worker'[w].pc \in InRound
  PROVE task' = task
<1>1. CASE StartTask
  BY <1>1 DEF StartTask, At, InRound
<1>2. CASE UNCHANGED task
  BY <1>2
<1>3. ASSUME NEW v \in Workers, WorkerStep(v) PROVE UNCHANGED task
  BY <1>3 DEF WorkerStep, Round, TopOfLoop, ClaimReadyAlias, MintAlias, ClaimNothing, ProvisionMailbox,
     ProvisionFails, CreateRegistration, CreateRegistrationRaises, SignupRaises, SignupReturns,
     CheckDuplicate, CommitSuccess, CommitRaises, HandleLeaseLost, HandleAbort, HandleExisting,
     HandleDuplicate, HandleFailure, HandlerRaises, taskVars
<1> QED
  BY <1>1, <1>2, <1>3 DEF Next, Heartbeat, Environment, StopTask, EndTask, Crash, Boot, LeaseRunsOut,
     OperatorEdit, ResetAccount, DeleteAccount, ImportAccount, SetAliasLimit, ClearResults, taskVars, vars

\* A round that holds a lease after a step held it before, and recovery did not
\* find it expired.
LEMMA LeaseIsKept ==
  ASSUME TypeOK, AliasesExist, [Next]_vars, NEW w \in Workers,
         worker[w].pc \in InRound, worker'[w].pc \in InRound,
         worker'[w].alias = worker[w].alias, HoldsLease(w)'
  PROVE HoldsLease(w) /\ (Recovers => ~Expired(aliases[worker[w].alias]))
<1> DEFINE id == worker[w].alias
<1>1. /\ id \in AliasIds
      /\ aliases'[id].status = "processing"
      /\ aliases'[id].owner = <<task, w>>
  BY RoundKeepsTask DEF HoldsLease
<1>2. ASSUME aliases[id].status = "processing", aliases[id].owner = <<task, w>>
      PROVE HoldsLease(w)
  BY <1>1, <1>2 DEF HoldsLease
<1>3. ASSUME NEW v \in Workers, ClaimReadyAlias(v) \/ MintAlias(v)
      PROVE HoldsLease(w) /\ ~Expired(aliases[id])
  <2>1. PICK x \in AliasIds :
          /\ worker'[v].pc = "claimed"
          /\ aliases'[x].owner = <<task, v>>
          /\ \A other \in AliasIds \ {x} : aliases'[other] = RecoveredRows[other]
    BY <1>3, ClaimLeasesOne
  <2>2. v # w
    BY <1>3 DEF ClaimReadyAlias, MintAlias, InRound
  <2>3. x # id
    BY <1>1, <2>1, <2>2
  <2>4. RecoveredRows[id].status = "processing" /\ RecoveredRows[id].owner = <<task, w>>
    BY <1>1, <2>1, <2>3
  <2>5. ~Expired(aliases[id]) /\ RecoveredRows[id] = aliases[id]
    BY <1>1, <2>4, RecoveryKeeps
  <2> QED
    BY <1>2, <2>4, <2>5
<1>4. ASSUME NEW v \in Workers, ClaimNothing(v)
      PROVE HoldsLease(w) /\ ~Expired(aliases[id])
  <2>1. aliases' = RecoveredRows
    BY <1>4 DEF ClaimNothing
  <2>2. ~Expired(aliases[id]) /\ RecoveredRows[id] = aliases[id]
    BY <1>1, <2>1, RecoveryKeeps
  <2> QED
    BY <1>1, <1>2, <2>1, <2>2
<1>5. CASE ~Recovers
  <2>1. CASE Tame
    BY <1>1, <1>2, <1>5, <2>1 DEF Tame, KeepsRows, Keeps
  <2>2. ASSUME NEW v \in Workers, CommitSuccess(v) PROVE HoldsLease(w)
    <3>1. PICK x \in AliasIds :
            /\ aliases'[x].status = "used"
            /\ \A other \in AliasIds \ {x} : aliases'[other] = aliases[other]
      BY <2>2, CommitRecordsOne
    <3> QED
      BY <1>1, <1>2, <3>1
  <2>3. ASSUME NEW a \in Accounts, ResetAccount(a) PROVE HoldsLease(w)
    <3>1. \A x \in AliasIds : aliases[x] \in AliasRow
      BY DEF TypeOK
    <3>2. \A x \in AliasIds :
            [aliases[x] EXCEPT !.status = "ready", !.sso = NoSso, !.category = "",
                               !.retry = 0, !.at = 0].status = "ready"
      BY <3>1 DEF AliasRow
    <3>3. aliases'[id] = aliases[id]
      BY <1>1, <2>3, <3>2 DEF ResetAccount
    <3> QED
      BY <1>1, <1>2, <3>3
  <2>4. ASSUME NEW a \in Accounts, DeleteAccount(a) PROVE HoldsLease(w)
    BY <1>1, <1>2, <2>4 DEF DeleteAccount, NoRow
  <2> QED
    BY <1>5, <2>1, <2>2, <2>3, <2>4, AliasKinds DEF Recovers
<1> QED
  BY <1>3, <1>4, <1>5 DEF Recovers

\* A registration names the alias it was created with, or none any more.
LEMMA NamesAreKept ==
  ASSUME TypeOK, [Next]_vars, NEW r \in RegIds, registrations'[r].alias \in AliasIds
  PROVE \/ registrations[r].alias = registrations'[r].alias
        \/ \E w \in Workers :
             /\ CreateRegistration(w)
             /\ r = worker'[w].reg
             /\ registrations'[r].alias = worker[w].alias
<1>1. CASE Stays \/ Interrupts \/ \E w \in Workers : Settles(w)
  BY <1>1, NoAliasIsNone DEF Stays, Interrupts, Settles
<1>2. CASE Erases
  <2>1. [NoReg EXCEPT !.status = "deleted"].alias = NoAlias
    BY DEF NoReg
  <2> QED
    BY <1>2, <2>1, NoAliasIsNone DEF Erases
<1>3. ASSUME NEW w \in Workers, CommitSuccess(w)
      PROVE registrations[r].alias = registrations'[r].alias
  <2>1. PICK q \in RegIds :
          /\ registrations'[q].alias = registrations[q].alias
          /\ \A other \in RegIds \ {q} : registrations'[other] = registrations[other]
    BY <1>3, CommitRecordsOne
  <2> QED
    BY <2>1
<1>4. ASSUME NEW w \in Workers, CreateRegistration(w)
      PROVE \/ registrations[r].alias = registrations'[r].alias
            \/ r = worker'[w].reg /\ registrations'[r].alias = worker[w].alias
  <2>1. CASE r = worker'[w].reg
    <3>1. registrations'[r] = [status |-> "pending", alias |-> worker[w].alias, sso |-> NoSso]
      BY <1>4, <2>1, CreatedIsNew
    <3> QED
      BY <2>1, <3>1
  <2>2. CASE r # worker'[w].reg
    BY <1>4, <2>2, CreatedIsNew
  <2> QED
    BY <2>1, <2>2
<1> QED
  BY <1>1, <1>2, <1>3, <1>4, RegistrationKinds

\* No row that a registration names is removed.
LEMMA NextKeepsAliasesExist ==
  ASSUME TypeOK, AliasesExist, [Next]_vars PROVE AliasesExist'
<1> SUFFICES ASSUME NEW r \in RegIds, registrations'[r].alias \in AliasIds
             PROVE aliases'[registrations'[r].alias].status # "none"
  BY DEF AliasesExist
<1> DEFINE id == registrations'[r].alias
<1>1. ASSUME NEW w \in Workers, CreateRegistration(w), id = worker[w].alias
      PROVE aliases'[id].status # "none"
  BY <1>1, CreatedIsNew DEF HoldsLease
<1>2. CASE registrations[r].alias = id
  <2>0. aliases[id].status # "none"
    BY <1>2 DEF AliasesExist
  <2>1. CASE Tame
    BY <2>0, <2>1 DEF Tame, KeepsRows, Keeps
  <2>2. ASSUME NEW w \in Workers, ClaimReadyAlias(w) \/ MintAlias(w)
        PROVE aliases'[id].status # "none"
    <3>1. \E x \in AliasIds :
            /\ aliases'[x].status = "processing"
            /\ \A other \in AliasIds \ {x} : aliases'[other] = RecoveredRows[other]
      BY <2>2, ClaimLeasesOne
    <3> QED
      BY <2>0, <3>1, RecoveryKeeps DEF KeepsRows, Keeps
  <2>3. ASSUME NEW w \in Workers, CommitSuccess(w) PROVE aliases'[id].status # "none"
    <3>1. \E x \in AliasIds :
            /\ aliases'[x].status = "used"
            /\ \A other \in AliasIds \ {x} : aliases'[other] = aliases[other]
      BY <2>3, CommitRecordsOne
    <3> QED
      BY <2>0, <3>1
  <2>4. ASSUME NEW a \in Accounts, ResetAccount(a) PROVE aliases'[id].status # "none"
    <3>1. aliases[id] \in AliasRow
      BY DEF TypeOK
    <3>2. [aliases[id] EXCEPT !.status = "ready", !.sso = NoSso, !.category = "",
                              !.retry = 0, !.at = 0].status = "ready"
      BY <3>1 DEF AliasRow
    <3> QED
      BY <2>0, <2>4, <3>2 DEF ResetAccount
  <2>5. ASSUME NEW a \in Accounts, DeleteAccount(a) PROVE aliases'[id].status # "none"
    <3>1. registrations[r] \in RegRow
      BY DEF TypeOK
    <3>2. [registrations[r] EXCEPT !.alias = NoAlias].alias = NoAlias
      BY <3>1 DEF RegRow
    <3>3. id[1] # a
      BY <1>2, <2>5, <3>2, NoAliasIsNone DEF DeleteAccount
    <3> QED
      BY <2>0, <2>5, <3>3 DEF DeleteAccount
  <2> QED
    BY <2>1, <2>2, <2>3, <2>4, <2>5, AliasKinds
<1> QED
  BY <1>1, <1>2, NamesAreKept

\* Only a crash stops the process, and it takes every thread with it.
LEMMA NextKeepsDownIsOff ==
  ASSUME TypeOK, DownIsOff, [Next]_vars PROVE DownIsOff'
<1> SUFFICES ASSUME mode' = "down", NEW w \in Workers PROVE worker'[w].pc = "off"
  BY DEF DownIsOff
<1>1. CASE Crash
  BY <1>1 DEF Crash, At
<1>2. ASSUME NEW v \in Workers, WorkerStep(v) \/ Heartbeat(v) PROVE worker[v].pc # "off" /\ mode' = mode
  BY <1>2 DEF WorkerStep, Round, TopOfLoop, ClaimReadyAlias, MintAlias, ClaimNothing, ProvisionMailbox,
     ProvisionFails, CreateRegistration, CreateRegistrationRaises, SignupRaises, SignupReturns,
     CheckDuplicate, CommitSuccess, CommitRaises, HandleLeaseLost, HandleAbort, HandleExisting,
     HandleDuplicate, HandleFailure, HandlerRaises, taskVars, Heartbeat, InRound
<1>3. CASE StartTask \/ EndTask \/ Boot
  BY <1>3 DEF StartTask, EndTask, Boot
<1>4. CASE UNCHANGED <<mode, worker>>
  BY <1>4 DEF DownIsOff
<1> QED
  BY <1>1, <1>2, <1>3, <1>4 DEF DownIsOff, Next, Environment, StopTask, LeaseRunsOut, OperatorEdit,
     ResetAccount, DeleteAccount, ImportAccount, SetAliasLimit, ClearResults, taskVars, vars

\* A new registration goes to one round, and the handler or the commit that
\* closes it ends the round.
LEMMA NextKeepsOwnership ==
  ASSUME TypeOK, RoundOwnsRegistration, [Next]_vars PROVE RoundOwnsRegistration'
<1>1. ASSUME NEW w \in Workers, worker'[w].pc \in HasReg
      PROVE /\ worker'[w].reg \in RegIds
            /\ registrations'[worker'[w].reg].status \notin {"none", "success"}
  <2>1. CASE CreateRegistration(w)
    <3>1. /\ worker'[w].reg \in RegIds
          /\ registrations'[worker'[w].reg] =
               [status |-> "pending", alias |-> worker[w].alias, sso |-> NoSso]
      BY <2>1, CreatedIsNew
    <3> QED
      BY <3>1
  <2>2. CASE Continues(w)
    <3> DEFINE r == worker[w].reg
    <3>1. /\ r \in RegIds
          /\ worker'[w].reg = r
          /\ registrations[r].status \notin {"none", "success"}
      BY <2>2 DEF Continues, RoundOwnsRegistration, TypeOK, WorkerState
    <3>2. CASE Stays \/ Interrupts \/ Erases \/ \E v \in Workers : Settles(v)
      <4>1. [NoReg EXCEPT !.status = "deleted"].status = "deleted"
        BY DEF NoReg
      <4> QED
        BY <3>1, <3>2, <4>1 DEF Stays, Interrupts, Settles, Erases
    <3>3. ASSUME NEW v \in Workers, CreateRegistration(v)
          PROVE registrations'[r].status \notin {"none", "success"}
      <4>1. registrations[worker'[v].reg].status = "none"
        BY <3>3, CreatedIsNew
      <4>2. worker'[v].reg # r
        BY <3>1, <4>1
      <4> QED
        BY <3>1, <3>3, <4>2, CreatedIsNew
    <3>4. ASSUME NEW v \in Workers, CommitSuccess(v)
          PROVE registrations'[r].status \notin {"none", "success"}
      <4>1. /\ worker'[v].pc = "loop"
            /\ \A q \in RegIds \ {worker[v].reg} : registrations'[q] = registrations[q]
        BY <3>4, CommitRecordsOne
      <4>2. worker[v].pc \in HasReg /\ v # w
        BY <1>1, <3>4, <4>1 DEF CommitSuccess, HasReg, InRound
      <4>3. worker[v].reg # r
        BY <2>2, <4>2 DEF RoundOwnsRegistration, Continues
      <4> QED
        BY <3>1, <4>1, <4>3
    <3> QED
      BY <3>1, <3>2, <3>3, <3>4, RegistrationKinds
  <2> QED
    BY <1>1, <2>1, <2>2, RoundsContinue
<1>2. ASSUME NEW v \in Workers, NEW w \in Workers, worker'[v].pc \in HasReg, worker'[w].pc \in HasReg,
             worker'[v].reg = worker'[w].reg
      PROVE v = w
  <2>1. CASE Continues(v) /\ Continues(w)
    BY <1>2, <2>1 DEF Continues, RoundOwnsRegistration
  <2>2. ASSUME NEW x \in Workers, NEW y \in Workers, CreateRegistration(x), y # x, worker'[y].pc \in HasReg
        PROVE worker'[x].reg # worker'[y].reg
    <3>1. registrations[worker'[x].reg].status = "none" /\ worker'[y] = worker[y]
      BY <2>2, CreatedIsNew
    <3> QED
      BY <2>2, <3>1 DEF RoundOwnsRegistration
  <2> QED
    BY <1>2, <2>1, <2>2, RoundsContinue
<1> QED
  BY <1>1, <1>2 DEF RoundOwnsRegistration

\* The registration of a round that goes on changes in four ways only: it loses
\* its alias, it is interrupted, it is cleared, or it stays as it is.
LEMMA RoundsRegistration ==
  ASSUME TypeOK, RoundOwnsRegistration, [Next]_vars, NEW w \in Workers,
         worker'[w].pc \in HasReg, Continues(w)
  PROVE Stays \/ Interrupts \/ Erases \/ registrations'[worker[w].reg] = registrations[worker[w].reg]
<1> DEFINE r == worker[w].reg
<1>1. r \in RegIds /\ registrations[r].status \notin {"none", "success"}
  BY DEF Continues, RoundOwnsRegistration, TypeOK, WorkerState
<1>2. ASSUME NEW v \in Workers, Settles(v) PROVE registrations'[r] = registrations[r]
  <2>1. v # w /\ worker[v].pc \in HasReg
    BY <1>2 DEF Settles, HasReg, InRound
  <2>2. worker[v].reg # r
    BY <2>1 DEF RoundOwnsRegistration, Continues
  <2> QED
    BY <1>1, <1>2, <2>2 DEF Settles
<1>3. ASSUME NEW v \in Workers, CreateRegistration(v) PROVE registrations'[r] = registrations[r]
  BY <1>1, <1>3, CreatedIsNew
<1>4. ASSUME NEW v \in Workers, CommitSuccess(v) PROVE registrations'[r] = registrations[r]
  <2>1. /\ worker'[v].pc = "loop"
        /\ \A q \in RegIds \ {worker[v].reg} : registrations'[q] = registrations[q]
    BY <1>4, CommitRecordsOne
  <2>2. v # w /\ worker[v].pc \in HasReg
    BY <1>4, <2>1 DEF CommitSuccess, HasReg, InRound
  <2>3. worker[v].reg # r
    BY <2>2 DEF RoundOwnsRegistration, Continues
  <2> QED
    BY <1>1, <2>1, <2>3
<1> QED
  BY <1>2, <1>3, <1>4, RegistrationKinds

\* A registration is created for the alias of its round and keeps it.
LEMMA NextKeepsNames ==
  ASSUME TypeOK, RoundOwnsRegistration, RoundNamesItsAlias, [Next]_vars PROVE RoundNamesItsAlias'
<1> SUFFICES ASSUME NEW w \in Workers, worker'[w].pc \in HasReg
             PROVE \/ registrations'[worker'[w].reg].status = "deleted"
                   \/ registrations'[worker'[w].reg].alias \in {worker'[w].alias, NoAlias}
  BY DEF RoundNamesItsAlias
<1>1. CASE CreateRegistration(w)
  <2>1. /\ worker'[w].alias = worker[w].alias
        /\ registrations'[worker'[w].reg] =
             [status |-> "pending", alias |-> worker[w].alias, sso |-> NoSso]
    BY <1>1, CreatedIsNew
  <2> QED
    BY <2>1
<1>2. CASE Continues(w)
  <2> DEFINE r == worker[w].reg
  <2>1. /\ r \in RegIds
        /\ worker'[w].reg = r
        /\ worker'[w].alias = worker[w].alias
        /\ registrations[r].status = "deleted" \/ registrations[r].alias \in {worker[w].alias, NoAlias}
    BY <1>2 DEF Continues, TypeOK, WorkerState, RoundNamesItsAlias
  <2>2. \/ registrations'[r] = registrations[r]
        \/ registrations'[r].status = "deleted"
        \/ /\ registrations[r].status # "deleted"
           /\ registrations'[r].alias = registrations[r].alias
        \/ /\ registrations'[r].status = registrations[r].status
           /\ registrations'[r].alias \in {registrations[r].alias, NoAlias}
    <3>1. [NoReg EXCEPT !.status = "deleted"].status = "deleted"
      BY DEF NoReg
    <3> QED
      BY <1>2, <2>1, <3>1, RoundsRegistration DEF Stays, Interrupts, Erases
  <2> QED
    BY <2>1, <2>2
<1> QED
  BY <1>1, <1>2, RoundsContinue

\* Recovery interrupts the registrations of expired leases only, and a lease
\* that is still held had not expired.
LEMMA NextKeepsLeasedOpen ==
  ASSUME RoundInv, [Next]_vars PROVE LeasedRoundIsOpen'
<1> SUFFICES ASSUME NEW w \in Workers, worker'[w].pc \in HasReg, HoldsLease(w)'
             PROVE registrations'[worker'[w].reg].status \in {"pending", "deleted"}
  BY DEF LeasedRoundIsOpen
<1>1. CASE CreateRegistration(w)
  <2>1. registrations'[worker'[w].reg] =
          [status |-> "pending", alias |-> worker[w].alias, sso |-> NoSso]
    BY <1>1, CreatedIsNew DEF RoundInv
  <2> QED
    BY <2>1
<1>2. CASE Continues(w)
  <2> DEFINE r == worker[w].reg
  <2>1. HoldsLease(w) /\ (Recovers => ~Expired(aliases[worker[w].alias]))
    BY <1>2, LeaseIsKept DEF RoundInv, Continues, HasReg
  <2>2. /\ r \in RegIds
        /\ worker'[w].reg = r
        /\ registrations[r].status \in {"pending", "deleted"}
        /\ mode # "down"
    BY <1>2, <2>1 DEF RoundInv, Continues, LeasedRoundIsOpen, TypeOK, WorkerState, DownIsOff, HasReg, InRound
  <2>3. CASE Interrupts
    <3>1. ASSUME registrations'[r] # registrations[r] PROVE FALSE
      <4>1. /\ Recovers
            /\ registrations[r].status = "pending"
            /\ registrations[r].alias \in AliasIds
            /\ Expired(aliases[registrations[r].alias])
        BY <2>2, <2>3, <3>1 DEF Interrupts
      <4>2. registrations[r].alias = worker[w].alias
        BY <1>2, <4>1, NoAliasIsNone DEF RoundInv, RoundNamesItsAlias, Continues
      <4> QED
        BY <2>1, <4>1, <4>2
    <3> QED
      BY <2>2, <3>1
  <2>4. CASE Stays \/ Erases \/ registrations'[r] = registrations[r]
    <3>1. [NoReg EXCEPT !.status = "deleted"].status = "deleted"
      BY DEF NoReg
    <3> QED
      BY <2>2, <2>4, <3>1 DEF Stays, Erases
  <2> QED
    BY <1>2, <2>3, <2>4, RoundsRegistration DEF RoundInv
<1> QED
  BY <1>1, <1>2, RoundsContinue DEF RoundInv

\* Nothing reopens a registration that the ledger names.
LEMMA NextKeepsLedgerNames ==
  ASSUME TypeOK, RoundOwnsRegistration, LedgerNamesSuccesses, [Next]_vars PROVE LedgerNamesSuccesses'
<1> SUFFICES ASSUME NEW s \in Ssos, ledger'[s] # NoEntry
             PROVE registrations'[ledger'[s][1]].status \in {"success", "deleted"}
  BY DEF LedgerNamesSuccesses
<1> DEFINE r == ledger[s][1]
<1>0. ledger[s] # NoEntry => r \in RegIds /\ registrations[r].status \in {"success", "deleted"}
  BY DEF LedgerNamesSuccesses, TypeOK
<1>1. CASE ledger' = ledger /\ (Stays \/ Interrupts \/ Erases)
  <2>1. [NoReg EXCEPT !.status = "deleted"].status = "deleted"
    BY DEF NoReg
  <2> QED
    BY <1>0, <1>1, <2>1 DEF Stays, Interrupts, Erases
<1>2. ASSUME NEW w \in Workers, ledger' = ledger, Settles(w)
      PROVE registrations'[ledger'[s][1]].status \in {"success", "deleted"}
  <2>1. registrations[worker[w].reg].status # "success"
    BY <1>2 DEF Settles, RoundOwnsRegistration, HasReg, InRound
  <2> QED
    BY <1>0, <1>2, <2>1 DEF Settles
<1>3. ASSUME NEW w \in Workers, CreateRegistration(w)
      PROVE registrations'[ledger'[s][1]].status \in {"success", "deleted"}
  BY <1>0, <1>3, CreatedIsNew
<1>4. ASSUME NEW w \in Workers, CommitSuccess(w)
      PROVE registrations'[ledger'[s][1]].status \in {"success", "deleted"}
  <2>1. PICK id \in AliasIds, q \in RegIds, t \in Ssos :
          /\ ledger' = [ledger EXCEPT ![t] = <<q, id>>]
          /\ registrations'[q].status = "success"
          /\ \A p \in RegIds \ {q} : registrations'[p] = registrations[p]
    BY <1>4, CommitRecordsOne
  <2>2. CASE s = t
    BY <2>1, <2>2 DEF TypeOK
  <2>3. CASE s # t
    BY <1>0, <2>1, <2>3 DEF TypeOK
  <2> QED
    BY <2>2, <2>3
<1> QED
  BY <1>1, <1>2, <1>3, <1>4, RegistrationKinds

\* An account is disabled when no alias of it is leased, its ready aliases fail
\* with it, and nothing reopens an alias of an account that is not ready.
LEMMA NextKeepsDisabledQuiet ==
  ASSUME TypeOK, AliasesExist, DisabledAccountIsQuiet, [Next]_vars PROVE DisabledAccountIsQuiet'
<1> SUFFICES ASSUME NEW a \in Accounts, NEW i \in Indexes, accounts'[a] = "disabled"
             PROVE aliases'[<<a, i>>].status \notin {"ready", "processing"}
  BY DEF DisabledAccountIsQuiet
<1> DEFINE id == <<a, i>>
<1>0. id \in AliasIds /\ id[1] = a
  BY DEF AliasIds
<1> HIDE DEF id
<1>q. accounts[a] = "disabled" => aliases[id].status \notin {"ready", "processing"}
  BY DEF DisabledAccountIsQuiet, id
<1>1. CASE Tame
  <2>1. CASE accounts[a] = "disabled"
    BY <1>0, <1>1, <1>q, <2>1 DEF Tame, KeepsRows, Keeps, id
  <2>2. CASE accounts[a] # "disabled"
    BY <1>1, <2>2 DEF Tame, AccountMoves, SyncedAccounts
  <2> QED
    BY <2>1, <2>2
<1>2. ASSUME NEW w \in Workers, ClaimReadyAlias(w) \/ MintAlias(w)
      PROVE aliases'[id].status \notin {"ready", "processing"}
  <2>1. PICK x \in AliasIds :
          /\ accounts[x[1]] = "ready"
          /\ \A other \in AliasIds \ {x} : aliases'[other] = RecoveredRows[other]
    BY <1>2, ClaimLeasesOne
  <2>2. accounts' = accounts
    BY <1>2, ClaimLeasesOne
  <2>3. x # id
    BY <1>0, <2>1, <2>2
  <2> QED
    BY <1>0, <1>q, <2>1, <2>2, <2>3, RecoveryKeeps DEF KeepsRows, Keeps
<1>3. ASSUME NEW w \in Workers, CommitSuccess(w)
      PROVE aliases'[id].status \notin {"ready", "processing"}
  <2>1. PICK x \in AliasIds :
          /\ aliases'[x].status = "used"
          /\ accounts' = Completed(aliases', x[1])
          /\ \A other \in AliasIds \ {x} : aliases'[other] = aliases[other]
    BY <1>3, CommitRecordsOne
  <2>2. accounts[a] = "disabled"
    BY <2>1 DEF Completed, TypeOK
  <2> QED
    BY <1>0, <1>q, <2>1, <2>2
<1>4. ASSUME NEW b \in Accounts, ResetAccount(b)
      PROVE aliases'[id].status \notin {"ready", "processing"}
  <2>1. a # b /\ accounts[a] = "disabled"
    BY <1>4 DEF ResetAccount, TypeOK
  <2> QED
    BY <1>0, <1>4, <1>q, <2>1 DEF ResetAccount
<1>5. ASSUME NEW b \in Accounts, DeleteAccount(b)
      PROVE aliases'[id].status \notin {"ready", "processing"}
  <2>1. accounts[a] = "disabled"
    BY <1>5 DEF DeleteAccount, TypeOK
  <2> QED
    BY <1>0, <1>5, <1>q, <2>1 DEF DeleteAccount, NoRow
<1> QED
  BY <1>1, <1>2, <1>3, <1>4, <1>5, AliasKinds DEF id

\* The invariant holds at the start and is kept by every step.
LEMMA InitRoundInv == Init => RoundInv
<1> SUFFICES ASSUME Init PROVE RoundInv
  OBVIOUS
<1>1. /\ \A id \in AliasIds : aliases[id].status = "none"
      /\ \A r \in RegIds : registrations[r].alias = NoAlias
      /\ \A w \in Workers : worker[w].pc = "off"
      /\ \A s \in Ssos : ledger[s] = NoEntry
  BY DEF Init, NoRow, NoReg, At
<1>2. AliasesExist
  BY <1>1, NoAliasIsNone DEF AliasesExist
<1>3. DisabledAccountIsQuiet
  BY <1>1 DEF DisabledAccountIsQuiet, AliasIds
<1> QED
  BY <1>1, <1>2, <1>3, InitTypes DEF RoundInv, DownIsOff, RoundOwnsRegistration, RoundNamesItsAlias,
     LeasedRoundIsOpen, LedgerNamesSuccesses, HasReg, InRound

\* The invariant of the rounds is inductive.
LEMMA NextKeepsRoundInv == RoundInv /\ [Next]_vars => RoundInv'
<1> SUFFICES ASSUME RoundInv, [Next]_vars PROVE RoundInv'
  OBVIOUS
<1>1. TypeOK' /\ AliasesExist' /\ DownIsOff'
  BY NextKeepsTypes, NextKeepsAliasesExist, NextKeepsDownIsOff DEF RoundInv
<1>2. RoundOwnsRegistration' /\ RoundNamesItsAlias' /\ LeasedRoundIsOpen'
  BY NextKeepsOwnership, NextKeepsNames, NextKeepsLeasedOpen DEF RoundInv
<1>3. LedgerNamesSuccesses' /\ DisabledAccountIsQuiet'
  BY NextKeepsLedgerNames, NextKeepsDisabledQuiet DEF RoundInv
<1> QED
  BY <1>1, <1>2, <1>3 DEF RoundInv

\* Every round owns a pending registration of its alias, as long as its lease lives.
THEOREM RoundInvariance == Spec => []RoundInv
  BY InitRoundInv, NextKeepsRoundInv, PTL DEF Spec

\* Whatever expires, is reset, cleared or recovered, a live lease means an open registration.
THEOREM LeasedRounds == Spec => []LeasedRoundIsOpen
<1>1. RoundInv => LeasedRoundIsOpen
  BY DEF RoundInv
<1> QED
  BY <1>1, RoundInvariance, PTL

\* The operator's edits disturb neither a round's registration nor a disabled account.
THEOREM EditsAreSafeHolds == Spec => []EditsAreSafe
<1>1. RoundInv => EditsAreSafe
  BY DEF RoundInv, EditsAreSafe
<1> QED
  BY <1>1, RoundInvariance, PTL

----------------------------------------------------------------------------
(* The tables implement the abstract ledger *)

\* What each status of a registration means to the abstract ledger.
LEMMA PromiseValues ==
  /\ Promise("none") = "unopened"
  /\ Promise("pending") = "open"
  /\ Promise("success") = "success"
  /\ Promise("deleted") = "erased"
  /\ \A status \in {"failed", "skipped", "interrupted"} : Promise(status) = "closed"
  BY DEF Promise

\* A step that gives the registrations of S outcome o and leaves the others alone.
LEMMA BecomesOutcome ==
  ASSUME NEW S \in SUBSET RegIds, NEW o,
         \A r \in S : Promise(registrations'[r].status) = o,
         \A r \in RegIds \ S : Promise(registrations'[r].status) = Promise(registrations[r].status)
  PROVE Ledger!Become(S, o)
<1>1. \A r \in RegIds : Promise(registrations'[r].status) =
        IF r \in S THEN o ELSE [q \in RegIds |-> Promise(registrations[q].status)][r]
  OBVIOUS
<1> QED
  BY <1>1, Zenon DEF Ledger!Become

\* The tables start as the empty ledger.
LEMMA InitIsLedgerInit == Init => Ledger!Init
<1> SUFFICES ASSUME Init PROVE Ledger!Init
  OBVIOUS
<1>1. \A r \in RegIds : Promise(registrations[r].status) = "unopened"
  BY PromiseValues DEF Init, NoReg
<1>2. \A s \in Ssos : ledger[s][1] = 0
  BY DEF Init, NoEntry
<1> QED
  BY <1>1, <1>2, Zenon DEF Ledger!Init

\* Interruptions and handlers close attempts that were open, and no others.
LEMMA ClosingCloses ==
  ASSUME RoundInv, ledger' = ledger, Interrupts \/ \E w \in Workers : Settles(w)
  PROVE Ledger!Next
<1> DEFINE S == {r \in RegIds : registrations'[r] # registrations[r] /\ registrations[r].status = "pending"}
<1>1. ASSUME NEW r \in RegIds, registrations'[r] # registrations[r]
      PROVE /\ registrations'[r].status \in {"failed", "skipped", "interrupted"}
            /\ registrations[r].status \in {"pending", "failed", "skipped", "interrupted"}
  <2>1. CASE Interrupts
    BY <1>1, <2>1 DEF Interrupts
  <2>2. ASSUME NEW w \in Workers, Settles(w)
        PROVE /\ registrations'[r].status \in {"failed", "skipped", "interrupted"}
              /\ registrations[r].status \in {"pending", "failed", "skipped", "interrupted"}
    <3>1. r = worker[w].reg /\ registrations[r].status # "deleted"
            /\ registrations'[r].status \in {"failed", "skipped"}
      BY <1>1, <2>2 DEF Settles
    <3>2. registrations[r].status \notin {"none", "success"}
      BY <2>2, <3>1 DEF Settles, RoundInv, RoundOwnsRegistration, HasReg, InRound
    <3>3. registrations[r].status \in RegStatus
      BY DEF RoundInv, TypeOK, RegRow
    <3> QED
      BY <3>1, <3>2, <3>3 DEF RegStatus
  <2> QED
    BY <2>1, <2>2
<1>2. \A r \in S : Promise(registrations'[r].status) = "closed" /\ Promise(registrations[r].status) = "open"
  BY <1>1, PromiseValues
<1>3. ASSUME NEW r \in RegIds \ S
      PROVE Promise(registrations'[r].status) = Promise(registrations[r].status)
  <2>1. CASE registrations'[r] = registrations[r]
    BY <2>1
  <2>2. CASE registrations'[r] # registrations[r]
    BY <1>1, <2>2, PromiseValues
  <2> QED
    BY <2>1, <2>2
<1>4. S \in SUBSET RegIds
  OBVIOUS
<1> HIDE DEF S
<1>5. Ledger!Become(S, "closed")
  BY <1>2, <1>3, <1>4, BecomesOutcome
<1>6. \A r \in S : [q \in RegIds |-> Promise(registrations[q].status)][r] = "open"
  BY <1>2, <1>4
<1>7. Ledger!Close(S)
  BY <1>5, <1>6 DEF Ledger!Close
<1> QED
  BY <1>4, <1>7 DEF Ledger!Next

\* Clearing results erases attempts that were opened.
LEMMA ClearingErases ==
  ASSUME ledger' = ledger, Erases PROVE Ledger!Next
<1> DEFINE S == {r \in RegIds : registrations'[r] # registrations[r]}
<1>0. [NoReg EXCEPT !.status = "deleted"].status = "deleted"
  BY DEF NoReg
<1>1. \A r \in S : Promise(registrations'[r].status) = "erased"
  BY <1>0, PromiseValues DEF Erases
<1>2. \A r \in S : Promise(registrations[r].status) # "unopened"
  <2> SUFFICES ASSUME NEW r \in S PROVE Promise(registrations[r].status) # "unopened"
    OBVIOUS
  <2>1. registrations[r].status # "none"
    BY DEF Erases
  <2> QED
    BY <2>1 DEF Promise
<1>3. \A r \in RegIds \ S : Promise(registrations'[r].status) = Promise(registrations[r].status)
  OBVIOUS
<1>4. S \in SUBSET RegIds
  OBVIOUS
<1> HIDE DEF S
<1>5. Ledger!Become(S, "erased")
  BY <1>1, <1>3, <1>4, BecomesOutcome
<1>6. \A r \in S : [q \in RegIds |-> Promise(registrations[q].status)][r] # "unopened"
  BY <1>2, <1>4
<1>7. Ledger!Erase(S)
  BY <1>5, <1>6 DEF Ledger!Erase
<1> QED
  BY <1>4, <1>7 DEF Ledger!Next

\* A new registration opens an attempt.
LEMMA CreationOpens ==
  ASSUME TypeOK, NEW w \in Workers, CreateRegistration(w) PROVE Ledger!Next
<1> DEFINE r == worker'[w].reg
<1>1. /\ r \in RegIds
      /\ registrations[r].status = "none"
      /\ registrations'[r] = [status |-> "pending", alias |-> worker[w].alias, sso |-> NoSso]
      /\ \A q \in RegIds \ {r} : registrations'[q] = registrations[q]
      /\ ledger' = ledger
  BY CreatedIsNew
<1> HIDE DEF r
<1>2. Promise(registrations'[r].status) = "open"
  BY <1>1, PromiseValues
<1>3. Ledger!Become({r}, "open")
  BY <1>1, <1>2, BecomesOutcome
<1>4. [q \in RegIds |-> Promise(registrations[q].status)][r] = "unopened"
  BY <1>1, PromiseValues
<1>5. Ledger!Open(r)
  BY <1>1, <1>3, <1>4 DEF Ledger!Open
<1> QED
  BY <1>1, <1>5 DEF Ledger!Next

\* The commit makes an open attempt a success with an identity nobody held.
LEMMA CommitSucceeds ==
  ASSUME RoundInv, NEW w \in Workers, CommitSuccess(w) PROVE Ledger!Next
<1>1. PICK id \in AliasIds, r \in RegIds, s \in Ssos :
        /\ r = worker[w].reg
        /\ HoldsLease(w)
        /\ ledger[s] = NoEntry \/ ledger[s] = <<r, id>>
        /\ ledger' = [ledger EXCEPT ![s] = <<r, id>>]
        /\ registrations'[r].status = "success"
        /\ registrations[r].status # "deleted"
        /\ \A q \in RegIds \ {r} : registrations'[q] = registrations[q]
  BY CommitRecordsOne DEF RoundInv
<1>2. worker[w].pc \in HasReg
  BY DEF CommitSuccess, HasReg, InRound
<1>3. registrations[r].status = "pending"
  BY <1>1, <1>2 DEF RoundInv, LeasedRoundIsOpen
<1>4. ledger[s] = NoEntry
  <2>1. ledger[s] # NoEntry => registrations[ledger[s][1]].status \in {"success", "deleted"}
    BY DEF RoundInv, LedgerNamesSuccesses
  <2> QED
    BY <1>1, <1>3, <2>1
<1>5. Ledger!Become({r}, "success")
  BY <1>1, BecomesOutcome, PromiseValues
<1>6. [q \in RegIds |-> Promise(registrations[q].status)][r] = "open"
  BY <1>3, PromiseValues
<1>7. [t \in Ssos |-> ledger[t][1]][s] = 0
  BY <1>4 DEF NoEntry
<1>8. [t \in Ssos |-> ledger'[t][1]] = [[t \in Ssos |-> ledger[t][1]] EXCEPT ![s] = r]
  <2>1. \A t \in Ssos : ledger'[t][1] = IF t = s THEN r ELSE ledger[t][1]
    BY <1>1 DEF RoundInv, TypeOK
  <2> QED
    BY <2>1
<1>9. Ledger!Succeed(r, s)
  BY <1>5, <1>6, <1>7, <1>8 DEF Ledger!Succeed
<1> QED
  BY <1>9 DEF Ledger!Next

\* Every step of the tables is a step of the ledger or leaves it alone.
LEMMA NextIsLedgerNext == RoundInv /\ [Next]_vars => [Ledger!Next]_(Ledger!vars)
<1> SUFFICES ASSUME RoundInv, [Next]_vars PROVE [Ledger!Next]_(Ledger!vars)
  OBVIOUS
<1>1. CASE ledger' = ledger /\ Stays
  <2>1. \A r \in RegIds : Promise(registrations'[r].status) = Promise(registrations[r].status)
    BY <1>1 DEF Stays
  <2>2. [r \in RegIds |-> Promise(registrations'[r].status)] = [r \in RegIds |-> Promise(registrations[r].status)]
    BY <2>1
  <2> QED
    BY <1>1, <2>2 DEF Ledger!vars
<1> QED
  BY <1>1, RegistrationKinds, ClosingCloses, ClearingErases, CreationOpens, CommitSucceeds DEF RoundInv

\* The registrations and the ledger table implement RegistrationLedger: an attempt
\* is opened once, settled at most once, and gets an identity nobody ever held.
THEOREM ImplementsLedger == Spec => LedgerSpec
<1>1. Spec => []RoundInv
  BY RoundInvariance
<1> QED
  BY <1>1, InitIsLedgerInit, NextIsLedgerNext, PTL DEF Spec, LedgerSpec, Ledger!Spec

----------------------------------------------------------------------------
(* Late holders, and what was recorded *)

\* The rows that no edit resets or deletes are kept; the claimed one was ready
\* or new, the committed one was leased.
LEMMA UsedStays ==
  ASSUME RoundInv, [Next]_vars PROVE UsedAliasStays
<1> SUFFICES ASSUME NEW id \in AliasIds, aliases[id].status = "used"
             PROVE \/ aliases'[id].status = "used" /\ aliases'[id].sso = aliases[id].sso
                   \/ ResetAccount(id[1]) \/ DeleteAccount(id[1])
  BY DEF UsedAliasStays
<1>1. CASE Tame
  BY <1>1 DEF Tame, KeepsRows, Keeps
<1>2. ASSUME NEW w \in Workers, ClaimReadyAlias(w) \/ MintAlias(w)
      PROVE aliases'[id].status = "used" /\ aliases'[id].sso = aliases[id].sso
  <2>1. PICK x \in AliasIds :
          /\ RecoveredRows[x].status \in {"ready", "none"}
          /\ \A other \in AliasIds \ {x} : aliases'[other] = RecoveredRows[other]
    BY <1>2, ClaimLeasesOne DEF RoundInv
  <2>2. RecoveredRows[id].status = "used" /\ RecoveredRows[id].sso = aliases[id].sso
    BY RecoveryKeeps DEF KeepsRows, Keeps, RoundInv
  <2> QED
    BY <2>1, <2>2
<1>3. ASSUME NEW w \in Workers, CommitSuccess(w)
      PROVE aliases'[id].status = "used" /\ aliases'[id].sso = aliases[id].sso
  <2>1. PICK x \in AliasIds :
          /\ x = worker[w].alias
          /\ HoldsLease(w)
          /\ \A other \in AliasIds \ {x} : aliases'[other] = aliases[other]
    BY <1>3, CommitRecordsOne DEF RoundInv
  <2> QED
    BY <2>1 DEF HoldsLease
<1>4. ASSUME NEW a \in Accounts, id[1] # a, ResetAccount(a) \/ DeleteAccount(a)
      PROVE aliases'[id] = aliases[id]
  BY <1>4 DEF ResetAccount, DeleteAccount
<1> QED
  BY <1>1, <1>2, <1>3, <1>4, AliasKinds DEF RoundInv

\* Only the handler of a round that holds its lease consumes a retry.
LEMMA RetryIsConsumed ==
  ASSUME RoundInv, [Next]_vars PROVE RetryIsConsumedByItsHolder
<1>0. \A id \in AliasIds :
        /\ aliases[id] \in AliasRow /\ aliases[id].retry \in Nat
        /\ ~(aliases[id].retry > aliases[id].retry)
  BY RetryIsNat DEF RoundInv
<1>1. CASE Tame
  BY <1>1 DEF Tame, RetriesAreConsumed, Consumes, RetryIsConsumedByItsHolder
<1>2. CASE \A id \in AliasIds : ~(aliases'[id].retry > aliases[id].retry)
  BY <1>2 DEF RetryIsConsumedByItsHolder
<1>3. ASSUME NEW w \in Workers, ClaimReadyAlias(w) \/ MintAlias(w)
      PROVE \A id \in AliasIds : aliases'[id].retry = aliases[id].retry
  <2>1. PICK x \in AliasIds :
          /\ aliases'[x].retry = RecoveredRows[x].retry
          /\ \A other \in AliasIds \ {x} : aliases'[other] = RecoveredRows[other]
    BY <1>3, ClaimLeasesOne DEF RoundInv
  <2>2. \A id \in AliasIds : RecoveredRows[id].retry = aliases[id].retry
    BY RecoveryKeeps DEF RoundInv
  <2> QED
    BY <2>1, <2>2
<1>4. ASSUME NEW w \in Workers, CommitSuccess(w)
      PROVE \A id \in AliasIds : aliases'[id].retry = aliases[id].retry
  <2>1. PICK x \in AliasIds :
          /\ aliases'[x].retry = aliases[x].retry
          /\ \A other \in AliasIds \ {x} : aliases'[other] = aliases[other]
    BY <1>4, CommitRecordsOne DEF RoundInv
  <2> QED
    BY <2>1
<1>5. ASSUME NEW a \in Accounts, ResetAccount(a) \/ DeleteAccount(a)
      PROVE \A id \in AliasIds : aliases'[id].retry \in {0, aliases[id].retry}
  <2>1. \A id \in AliasIds :
          [aliases[id] EXCEPT !.status = "ready", !.sso = NoSso, !.category = "",
                              !.retry = 0, !.at = 0].retry = 0
    BY <1>0 DEF AliasRow
  <2>2. CASE ResetAccount(a)
    BY <2>1, <2>2 DEF ResetAccount
  <2>3. CASE DeleteAccount(a)
    BY <2>3 DEF DeleteAccount, NoRow
  <2> QED
    BY <1>5, <2>2, <2>3
<1>6. \A id \in AliasIds : ~(0 > aliases[id].retry)
  BY <1>0
<1> QED
  <2>1. ASSUME \A id \in AliasIds : aliases'[id].retry \in {0, aliases[id].retry}
        PROVE RetryIsConsumedByItsHolder
    BY <1>0, <1>2, <1>6, <2>1
  <2> QED
    BY <1>1, <1>3, <1>4, <1>5, <2>1, AliasKinds DEF RoundInv

\* Whoever lost a lease and acts late leaves used aliases and retry counts alone,
\* with any number of workers, restarts and edits.
THEOREM LateHolders == Spec => LateHolderIsHarmless
<1>1. RoundInv /\ [Next]_vars => [UsedAliasStays /\ RetryIsConsumedByItsHolder]_vars
  BY UsedStays, RetryIsConsumed
<1> QED
  BY <1>1, RoundInvariance, PTL DEF Spec, LateHolderIsHarmless

\* A handler that closes a registration is in the round that owns it, and such a
\* registration has not succeeded.
LEMMA SuccessStays ==
  ASSUME RoundInv, [Next]_vars PROVE SuccessIsFinal
<1> SUFFICES ASSUME NEW r \in RegIds, registrations[r].status = "success"
             PROVE \/ registrations'[r].status = "deleted"
                   \/ registrations'[r].status = "success" /\ registrations'[r].sso = registrations[r].sso
  BY DEF SuccessIsFinal
<1>1. CASE Stays \/ Interrupts \/ Erases
  <2>1. [NoReg EXCEPT !.status = "deleted"].status = "deleted"
    BY DEF NoReg
  <2> QED
    BY <1>1, <2>1 DEF Stays, Interrupts, Erases
<1>2. ASSUME NEW w \in Workers, Settles(w) PROVE registrations'[r] = registrations[r]
  <2>1. registrations[worker[w].reg].status # "success"
    BY <1>2 DEF Settles, RoundInv, RoundOwnsRegistration, HasReg, InRound
  <2> QED
    BY <1>2, <2>1 DEF Settles
<1>3. ASSUME NEW w \in Workers, CreateRegistration(w) PROVE registrations'[r] = registrations[r]
  BY <1>3, CreatedIsNew DEF RoundInv
<1>4. ASSUME NEW w \in Workers, CommitSuccess(w) PROVE registrations'[r] = registrations[r]
  <2>1. \A q \in RegIds \ {worker[w].reg} : registrations'[q] = registrations[q]
    BY <1>4, CommitRecordsOne DEF RoundInv
  <2>2. registrations[worker[w].reg].status # "success"
    BY <1>4 DEF CommitSuccess, RoundInv, RoundOwnsRegistration, HasReg, InRound
  <2> QED
    BY <2>1, <2>2
<1> QED
  BY <1>1, <1>2, <1>3, <1>4, RegistrationKinds DEF RoundInv

----------------------------------------------------------------------------
(* Accounts, their leases and their budget *)

\* The operator may neither import accounts nor move the alias limit.
LimitIsFixed == Hazards \cap {"import", "limit"} = {}

\* Leases exist on ready accounts only.
LeasedIsReady ==
  \A a \in Accounts, i \in Indexes :
    aliases[<<a, i>>].status = "processing" => accounts[a] = "ready"

BudgetInv ==
  /\ RoundInv
  /\ OneLeasePerAccount
  /\ NoOrphanAlias
  /\ LeasedIsReady
  /\ WithinAliasBudget

\* The alias limit of an account is a positive number, and moves by the operator's hand only.
LEMMA CapIsFixed ==
  ASSUME TypeOK PROVE /\ AliasCap \in Nat \ {0}
                      /\ LimitIsFixed /\ [Next]_vars => AliasCap' = AliasCap
<1>1. AliasCap \in Nat \ {0}
  BY ConstantsAssumption DEF AliasCap, TypeOK
<1>2. ASSUME LimitIsFixed, [Next]_vars PROVE aliasLimit' = aliasLimit
  <2>1. ASSUME NEW w \in Workers, WorkerStep(w) \/ Heartbeat(w) PROVE aliasLimit' = aliasLimit
    BY <2>1 DEF WorkerStep, Round, TopOfLoop, ClaimReadyAlias, MintAlias, ClaimNothing, ProvisionMailbox,
       ProvisionFails, CreateRegistration, CreateRegistrationRaises, SignupRaises, SignupReturns,
       CheckDuplicate, CommitSuccess, CommitRaises, HandleLeaseLost, HandleAbort, HandleExisting,
       HandleDuplicate, HandleFailure, HandlerRaises, Heartbeat
  <2> QED
    BY <1>2, <2>1 DEF Next, Environment, StartTask, StopTask, EndTask, Crash, Boot, LeaseRunsOut, LimitIsFixed,
       OperatorEdit, ResetAccount, DeleteAccount, ImportAccount, SetAliasLimit, ClearResults, vars
<1> QED
  BY <1>1, <1>2 DEF AliasCap

\* The counts of an account are numbers, equal when the same aliases are counted.
LEMMA CountsAreNat ==
  ASSUME NEW rows, NEW a PROVE Used(rows, a) \in Nat /\ Total(rows, a) \in Nat
<1>1. /\ IsFiniteSet({i \in Indexes : rows[<<a, i>>].status = "used"})
      /\ IsFiniteSet({i \in Indexes : rows[<<a, i>>].status # "none"})
  BY IndexesFinite, FS_Subset
<1> QED
  BY <1>1, FS_CardinalityType DEF Used, Total, Rows

\* Aliases of an account are counted by their status alone.
LEMMA CountsAgree ==
  ASSUME NEW rows, NEW others, NEW a
  PROVE /\ (\A i \in Indexes : rows[<<a, i>>].status = "used" <=> others[<<a, i>>].status = "used")
             => Used(rows, a) = Used(others, a)
        /\ (\A i \in Indexes : rows[<<a, i>>].status # "none" <=> others[<<a, i>>].status # "none")
             => Total(rows, a) = Total(others, a)
<1>1. ASSUME \A i \in Indexes : rows[<<a, i>>].status = "used" <=> others[<<a, i>>].status = "used"
      PROVE {i \in Indexes : rows[<<a, i>>].status = "used"} = {i \in Indexes : others[<<a, i>>].status = "used"}
  BY <1>1
<1>2. ASSUME \A i \in Indexes : rows[<<a, i>>].status # "none" <=> others[<<a, i>>].status # "none"
      PROVE {i \in Indexes : rows[<<a, i>>].status # "none"} = {i \in Indexes : others[<<a, i>>].status # "none"}
  BY <1>2
<1> QED
  BY <1>1, <1>2 DEF Used, Total, Rows

\* One more alias is counted.
LEMMA CountsOneMore ==
  ASSUME NEW rows, NEW others, NEW a, NEW k \in Indexes,
         \A i \in Indexes \ {k} : rows[<<a, i>>] = others[<<a, i>>]
  PROVE /\ rows[<<a, k>>].status = "used" /\ others[<<a, k>>].status # "used"
             => Used(rows, a) = Used(others, a) + 1
        /\ rows[<<a, k>>].status # "none" /\ others[<<a, k>>].status = "none"
             => Total(rows, a) = Total(others, a) + 1
<1>1. ASSUME rows[<<a, k>>].status = "used", others[<<a, k>>].status # "used"
      PROVE Used(rows, a) = Used(others, a) + 1
  <2> DEFINE S == {i \in Indexes : others[<<a, i>>].status = "used"}
             T == {i \in Indexes : rows[<<a, i>>].status = "used"}
  <2>1. T = S \cup {k} /\ k \notin S
    BY <1>1
  <2>2. IsFiniteSet(S)
    BY IndexesFinite, FS_Subset
  <2> HIDE DEF S, T
  <2>3. Cardinality(T) = Cardinality(S) + 1
    BY <2>1, <2>2, FS_AddElement
  <2> QED
    BY <2>3 DEF Used, S, T
<1>2. ASSUME rows[<<a, k>>].status # "none", others[<<a, k>>].status = "none"
      PROVE Total(rows, a) = Total(others, a) + 1
  <2> DEFINE S == {i \in Indexes : others[<<a, i>>].status # "none"}
             T == {i \in Indexes : rows[<<a, i>>].status # "none"}
  <2>1. T = S \cup {k} /\ k \notin S
    BY <1>2
  <2>2. IsFiniteSet(S)
    BY IndexesFinite, FS_Subset
  <2> HIDE DEF S, T
  <2>3. Cardinality(T) = Cardinality(S) + 1
    BY <2>1, <2>2, FS_AddElement
  <2> QED
    BY <2>3 DEF Total, Rows, S, T
<1> QED
  BY <1>1, <1>2

\* An account without used aliases, or without any, counts none.
LEMMA CountsNone ==
  ASSUME NEW rows, NEW a
  PROVE /\ (\A i \in Indexes : rows[<<a, i>>].status # "used") => Used(rows, a) = 0
        /\ (\A i \in Indexes : rows[<<a, i>>].status = "none") => Total(rows, a) = 0
<1>1. ASSUME \A i \in Indexes : rows[<<a, i>>].status # "used" PROVE Used(rows, a) = 0
  <2>1. {i \in Indexes : rows[<<a, i>>].status = "used"} = {}
    BY <1>1
  <2> QED
    BY <2>1, FS_EmptySet DEF Used
<1>2. ASSUME \A i \in Indexes : rows[<<a, i>>].status = "none" PROVE Total(rows, a) = 0
  <2>1. {i \in Indexes : rows[<<a, i>>].status # "none"} = {}
    BY <1>2
  <2> QED
    BY <2>1, FS_EmptySet DEF Total, Rows
<1> QED
  BY <1>1, <1>2

\* Rows that are kept are counted as before.
LEMMA KeptCounts ==
  ASSUME NEW rows, KeepsRows(rows), NEW a \in Accounts
  PROVE Used(rows, a) = Used(aliases, a) /\ Total(rows, a) = Total(aliases, a)
<1>1. \A i \in Indexes : Keeps(aliases[<<a, i>>], rows[<<a, i>>])
  BY DEF KeepsRows, AliasIds
<1> QED
  BY <1>1, CountsAgree DEF Keeps

\* What the two steps that are neither tame nor an edit do to an account's aliases:
\* both concern one alias of a ready account and keep the others.
LEMMA ClaimOnAccount ==
  ASSUME TypeOK, NEW w \in Workers, ClaimReadyAlias(w) \/ MintAlias(w)
  PROVE /\ accounts' = accounts
        /\ \E b \in Accounts, k \in Indexes :
             /\ accounts[b] = "ready"
             /\ aliases'[<<b, k>>].status = "processing"
             /\ \/ RecoveredRows[<<b, k>>].status = "ready"
                \/ RecoveredRows[<<b, k>>].status = "none" /\ Mintable(RecoveredRows, b)
             /\ \A a \in Accounts, i \in Indexes :
                  <<a, i>> # <<b, k>> => aliases'[<<a, i>>] = RecoveredRows[<<a, i>>]
<1>1. PICK x \in AliasIds :
        /\ accounts[x[1]] = "ready"
        /\ aliases'[x].status = "processing"
        /\ \/ RecoveredRows[x].status = "ready"
           \/ RecoveredRows[x].status = "none" /\ Mintable(RecoveredRows, x[1])
        /\ \A other \in AliasIds \ {x} : aliases'[other] = RecoveredRows[other]
  BY ClaimLeasesOne
<1>2. PICK b \in Accounts, k \in Indexes : x = <<b, k>>
  BY DEF AliasIds
<1>3. \A a \in Accounts, i \in Indexes : <<a, i>> \in AliasIds
  BY DEF AliasIds
<1>4. accounts' = accounts
  BY ClaimLeasesOne
<1>5. x[1] = b
  BY <1>2
<1> QED
  BY <1>1, <1>2, <1>3, <1>4, <1>5

\* A success commit uses the one alias its round has leased, of a ready account.
LEMMA CommitOnAccount ==
  ASSUME BudgetInv, NEW w \in Workers, CommitSuccess(w)
  PROVE \E b \in Accounts, k \in Indexes :
          /\ accounts[b] = "ready"
          /\ accounts' = Completed(aliases', b)
          /\ aliases[<<b, k>>].status = "processing"
          /\ aliases'[<<b, k>>].status = "used"
          /\ \A a \in Accounts, i \in Indexes :
               <<a, i>> # <<b, k>> => aliases'[<<a, i>>] = aliases[<<a, i>>]
<1>1. PICK x \in AliasIds :
        /\ x = worker[w].alias
        /\ HoldsLease(w)
        /\ accounts' = Completed(aliases', x[1])
        /\ aliases'[x].status = "used"
        /\ \A other \in AliasIds \ {x} : aliases'[other] = aliases[other]
  BY CommitRecordsOne DEF BudgetInv, RoundInv
<1>2. PICK b \in Accounts, k \in Indexes : x = <<b, k>>
  BY DEF AliasIds
<1>3. x[1] = b /\ aliases[x].status = "processing"
  BY <1>1, <1>2 DEF HoldsLease
<1>4. accounts[b] = "ready"
  BY <1>2, <1>3 DEF BudgetInv, LeasedIsReady
<1>5. \A a \in Accounts, i \in Indexes : <<a, i>> \in AliasIds
  BY DEF AliasIds
<1> QED
  BY <1>1, <1>2, <1>3, <1>4, <1>5

\* The operator's edits of one account leave the others alone.
LEMMA EditsOnAccount ==
  ASSUME TypeOK, NEW b \in Accounts, ResetAccount(b) \/ DeleteAccount(b), NEW a \in Accounts
  PROVE /\ a # b => accounts'[a] = accounts[a] /\ \A i \in Indexes : aliases'[<<a, i>>] = aliases[<<a, i>>]
        /\ a = b => \/ /\ DeleteAccount(b)
                       /\ accounts'[a] = "deleted"
                       /\ \A i \in Indexes : aliases'[<<a, i>>].status = "none"
                    \/ /\ ResetAccount(b)
                       /\ accounts[a] \notin {"absent", "deleted"}
                       /\ accounts'[a] = "ready"
                       /\ \A i \in Indexes :
                            /\ aliases'[<<a, i>>].status \notin {"used", "processing"}
                            /\ aliases'[<<a, i>>].status = "none" <=> aliases[<<a, i>>].status = "none"
<1>1. \A i \in Indexes : <<a, i>> \in AliasIds /\ <<a, i>>[1] = a
  BY DEF AliasIds
<1>2. CASE DeleteAccount(b)
  BY <1>1, <1>2 DEF DeleteAccount, TypeOK, NoRow
<1>3. CASE ResetAccount(b)
  <2>1. \A id \in AliasIds : aliases[id] \in AliasRow
    BY DEF TypeOK
  <2>2. \A id \in AliasIds :
          [aliases[id] EXCEPT !.status = "ready", !.sso = NoSso, !.category = "",
                              !.retry = 0, !.at = 0].status = "ready"
    BY <2>1 DEF AliasRow
  <2>3. accounts' = [accounts EXCEPT ![b] = "ready"] /\ accounts[b] \notin {"absent", "deleted"}
    BY <1>3 DEF ResetAccount
  <2>4. \A i \in Indexes :
          IF a = b /\ aliases[<<a, i>>].status # "none"
          THEN aliases'[<<a, i>>].status = "ready"
          ELSE aliases'[<<a, i>>] = aliases[<<a, i>>]
    BY <1>1, <1>3, <2>2 DEF ResetAccount
  <2> QED
    BY <1>3, <2>3, <2>4 DEF TypeOK
<1> QED
  BY <1>2, <1>3

\* No late round, no startup and no failing handler brings an alias back to an
\* account that was deleted.
LEMMA NextKeepsNoOrphan ==
  ASSUME BudgetInv, [Next]_vars PROVE NoOrphanAlias'
<1> SUFFICES ASSUME NEW a \in Accounts, NEW i \in Indexes, accounts'[a] \in {"absent", "deleted"}
             PROVE aliases'[<<a, i>>].status = "none"
  BY DEF NoOrphanAlias
<1>0. <<a, i>> \in AliasIds
  BY DEF AliasIds
<1>q. accounts[a] \in {"absent", "deleted"} => aliases[<<a, i>>].status = "none"
  BY DEF BudgetInv, NoOrphanAlias
<1>1. CASE Tame
  <2>1. accounts[a] \in {"absent", "deleted"}
    BY <1>1 DEF Tame, AccountMoves, SyncedAccounts
  <2> QED
    BY <1>0, <1>1, <1>q, <2>1 DEF Tame, KeepsRows, Keeps
<1>2. ASSUME NEW w \in Workers, ClaimReadyAlias(w) \/ MintAlias(w) PROVE aliases'[<<a, i>>].status = "none"
  <2>1. /\ accounts' = accounts
        /\ \E b \in Accounts, k \in Indexes :
             /\ accounts[b] = "ready"
             /\ <<a, i>> # <<b, k>> => aliases'[<<a, i>>] = RecoveredRows[<<a, i>>]
    BY <1>2, ClaimOnAccount DEF BudgetInv, RoundInv
  <2>2. aliases'[<<a, i>>] = RecoveredRows[<<a, i>>] /\ aliases[<<a, i>>].status = "none"
    BY <1>q, <2>1
  <2>3. Keeps(aliases[<<a, i>>], RecoveredRows[<<a, i>>])
    BY <1>0, RecoveryKeeps DEF KeepsRows, BudgetInv, RoundInv
  <2> QED
    BY <2>2, <2>3 DEF Keeps
<1>3. ASSUME NEW w \in Workers, CommitSuccess(w) PROVE aliases'[<<a, i>>].status = "none"
  <2>1. PICK b \in Accounts, k \in Indexes :
          /\ accounts[b] = "ready"
          /\ accounts' = Completed(aliases', b)
          /\ <<a, i>> # <<b, k>> => aliases'[<<a, i>>] = aliases[<<a, i>>]
    BY <1>3, CommitOnAccount
  <2>2. a # b /\ accounts'[a] = accounts[a]
    BY <2>1 DEF Completed, BudgetInv, RoundInv, TypeOK
  <2> QED
    BY <1>q, <2>1, <2>2
<1>4. ASSUME NEW b \in Accounts, ResetAccount(b) \/ DeleteAccount(b) PROVE aliases'[<<a, i>>].status = "none"
  BY <1>4, <1>q, EditsOnAccount DEF BudgetInv, RoundInv
<1> QED
  BY <1>1, <1>2, <1>3, <1>4, AliasKinds DEF BudgetInv, RoundInv

\* A status computed from the counts is the one the account has.
LEMMA SyncedIsSame ==
  ASSUME BudgetInv, NEW a \in Accounts PROVE SyncedAccounts(AliasCap)[a] = accounts[a]
<1>1. /\ AliasCap \in Nat /\ Used(aliases, a) \in Nat
      /\ Used(aliases, a) <= AliasCap
      /\ accounts[a] = "done" <=> Used(aliases, a) = AliasCap
  BY CapIsFixed, CountsAreNat DEF BudgetInv, RoundInv, WithinAliasBudget
<1> QED
  BY <1>1 DEF SyncedAccounts

\* A leased alias is the only one of its account, so the commit that completes
\* the account and the failure that disables it leave no lease behind.
LEMMA NextKeepsLeasedReady ==
  ASSUME BudgetInv, LimitIsFixed, [Next]_vars PROVE LeasedIsReady'
<1> SUFFICES ASSUME NEW a \in Accounts, NEW i \in Indexes, aliases'[<<a, i>>].status = "processing"
             PROVE accounts'[a] = "ready"
  BY DEF LeasedIsReady
<1>0. <<a, i>> \in AliasIds
  BY DEF AliasIds
<1>q. aliases[<<a, i>>].status = "processing" => accounts[a] = "ready"
  BY DEF BudgetInv, LeasedIsReady
<1>1. CASE Tame
  <2>1. accounts[a] = "ready"
    BY <1>0, <1>1, <1>q DEF Tame, KeepsRows, Keeps
  <2>2. SyncedAccounts(AliasCap')[a] = accounts[a]
    BY CapIsFixed, SyncedIsSame DEF BudgetInv, RoundInv
  <2> QED
    BY <1>1, <2>1, <2>2 DEF Tame, AccountMoves
<1>2. ASSUME NEW w \in Workers, ClaimReadyAlias(w) \/ MintAlias(w) PROVE accounts'[a] = "ready"
  <2>1. /\ accounts' = accounts
        /\ \E b \in Accounts, k \in Indexes :
             /\ accounts[b] = "ready"
             /\ <<a, i>> # <<b, k>> => aliases'[<<a, i>>] = RecoveredRows[<<a, i>>]
    BY <1>2, ClaimOnAccount DEF BudgetInv, RoundInv
  <2>2. Keeps(aliases[<<a, i>>], RecoveredRows[<<a, i>>])
    BY <1>0, RecoveryKeeps DEF KeepsRows, BudgetInv, RoundInv
  <2> QED
    BY <1>q, <2>1, <2>2 DEF Keeps
<1>3. ASSUME NEW w \in Workers, CommitSuccess(w) PROVE accounts'[a] = "ready"
  <2>1. PICK b \in Accounts, k \in Indexes :
          /\ accounts' = Completed(aliases', b)
          /\ aliases[<<b, k>>].status = "processing"
          /\ aliases'[<<b, k>>].status = "used"
          /\ <<a, i>> # <<b, k>> => aliases'[<<a, i>>] = aliases[<<a, i>>]
    BY <1>3, CommitOnAccount
  <2>2. aliases[<<a, i>>].status = "processing" /\ <<a, i>> # <<b, k>>
    BY <2>1
  <2>3. a # b
    BY <2>1, <2>2 DEF BudgetInv, OneLeasePerAccount
  <2> QED
    BY <1>q, <2>1, <2>2, <2>3 DEF Completed, BudgetInv, RoundInv, TypeOK
<1>4. ASSUME NEW b \in Accounts, ResetAccount(b) \/ DeleteAccount(b) PROVE accounts'[a] = "ready"
  BY <1>4, <1>q, EditsOnAccount DEF BudgetInv, RoundInv
<1> QED
  BY <1>1, <1>2, <1>3, <1>4, AliasKinds DEF BudgetInv, RoundInv

\* A commit counts one more used alias on an account below its limit, a claim
\* mints one more alias on an account below its budget, and no other step counts.
LEMMA NextKeepsBudget ==
  ASSUME BudgetInv, LimitIsFixed, [Next]_vars PROVE WithinAliasBudget'
<1> SUFFICES ASSUME NEW a \in Accounts
             PROVE /\ Used(aliases', a) <= AliasCap
                   /\ accounts'[a] = "done" <=> Used(aliases', a) = AliasCap
                   /\ Total(aliases', a) <= AliasCap + FailureBudget
  BY CapIsFixed DEF WithinAliasBudget, Used, Total, Rows, BudgetInv, RoundInv
<1>n. /\ AliasCap \in Nat \ {0} /\ FailureBudget \in Nat
      /\ Used(aliases, a) \in Nat /\ Total(aliases, a) \in Nat
  BY ConstantsAssumption, CapIsFixed, CountsAreNat DEF BudgetInv, RoundInv
<1>q. /\ Used(aliases, a) <= AliasCap
      /\ accounts[a] = "done" <=> Used(aliases, a) = AliasCap
      /\ Total(aliases, a) <= AliasCap + FailureBudget
  BY DEF BudgetInv, WithinAliasBudget
<1>1. CASE Tame
  <2>1. Used(aliases', a) = Used(aliases, a) /\ Total(aliases', a) = Total(aliases, a)
    BY <1>1, KeptCounts DEF Tame
  <2>2. SyncedAccounts(AliasCap')[a] = accounts[a]
    BY CapIsFixed, SyncedIsSame DEF BudgetInv, RoundInv
  <2>3. accounts'[a] = "done" <=> accounts[a] = "done"
    <3>1. "import" \notin Hazards
      BY DEF LimitIsFixed
    <3> QED
      BY <1>1, <2>2, <3>1 DEF Tame, AccountMoves
  <2> QED
    BY <1>q, <2>1, <2>3
<1>2. ASSUME NEW w \in Workers, ClaimReadyAlias(w) \/ MintAlias(w)
      PROVE /\ Used(aliases', a) = Used(aliases, a)
            /\ accounts' = accounts
            /\ Total(aliases', a) <= AliasCap + FailureBudget
  <2>1. accounts' = accounts
    BY <1>2, ClaimOnAccount DEF BudgetInv, RoundInv
  <2>2. PICK b \in Accounts, k \in Indexes :
          /\ aliases'[<<b, k>>].status = "processing"
          /\ \/ RecoveredRows[<<b, k>>].status = "ready"
             \/ RecoveredRows[<<b, k>>].status = "none" /\ Mintable(RecoveredRows, b)
          /\ \A c \in Accounts, i \in Indexes :
               <<c, i>> # <<b, k>> => aliases'[<<c, i>>] = RecoveredRows[<<c, i>>]
    BY <1>2, ClaimOnAccount DEF BudgetInv, RoundInv
  <2>3. Used(RecoveredRows, a) = Used(aliases, a) /\ Total(RecoveredRows, a) = Total(aliases, a)
    BY RecoveryKeeps, KeptCounts DEF BudgetInv, RoundInv
  <2>4. Used(aliases', a) = Used(RecoveredRows, a)
    <3>1. \A i \in Indexes : aliases'[<<a, i>>].status = "used" <=> RecoveredRows[<<a, i>>].status = "used"
      BY <2>2
    <3> QED
      BY <3>1, CountsAgree
  <2>5. Total(aliases', a) <= AliasCap + FailureBudget
    <3>1. CASE a = b /\ RecoveredRows[<<b, k>>].status = "none"
      <4>1. \A i \in Indexes \ {k} : aliases'[<<a, i>>] = RecoveredRows[<<a, i>>]
        BY <2>2, <3>1
      <4>2. Total(aliases', a) = Total(RecoveredRows, a) + 1
        BY <2>2, <3>1, <4>1, CountsOneMore
      <4>3. Total(RecoveredRows, a) < AliasCap + FailureBudget
        BY <2>2, <3>1 DEF Mintable
      <4> QED
        BY <1>n, <2>3, <4>2, <4>3
    <3>2. CASE ~(a = b /\ RecoveredRows[<<b, k>>].status = "none")
      <4>1. \A i \in Indexes : aliases'[<<a, i>>].status # "none" <=> RecoveredRows[<<a, i>>].status # "none"
        BY <2>2, <3>2
      <4> QED
        BY <1>q, <2>3, <4>1, CountsAgree
    <3> QED
      BY <3>1, <3>2
  <2> QED
    BY <2>1, <2>3, <2>4, <2>5
<1>3. ASSUME NEW w \in Workers, CommitSuccess(w)
      PROVE /\ Used(aliases', a) <= AliasCap
            /\ accounts'[a] = "done" <=> Used(aliases', a) = AliasCap
            /\ Total(aliases', a) = Total(aliases, a)
  <2>1. PICK b \in Accounts, k \in Indexes :
          /\ accounts[b] = "ready"
          /\ accounts' = Completed(aliases', b)
          /\ aliases[<<b, k>>].status = "processing"
          /\ aliases'[<<b, k>>].status = "used"
          /\ \A c \in Accounts, i \in Indexes :
               <<c, i>> # <<b, k>> => aliases'[<<c, i>>] = aliases[<<c, i>>]
    BY <1>3, CommitOnAccount
  <2>2. Total(aliases', a) = Total(aliases, a)
    <3>1. \A i \in Indexes : aliases'[<<a, i>>].status # "none" <=> aliases[<<a, i>>].status # "none"
      BY <2>1
    <3> QED
      BY <3>1, CountsAgree
  <2>3. CASE a = b
    <3>1. \A i \in Indexes \ {k} : aliases'[<<a, i>>] = aliases[<<a, i>>]
      BY <2>1, <2>3
    <3>2. Used(aliases', a) = Used(aliases, a) + 1
      BY <2>1, <2>3, <3>1, CountsOneMore
    <3>3. Used(aliases, a) < AliasCap
      BY <1>n, <1>q, <2>1, <2>3
    <3>4. accounts'[a] = "done" <=> Used(aliases', a) >= AliasCap
      BY <2>1, <2>3 DEF Completed, BudgetInv, RoundInv, TypeOK
    <3> QED
      BY <1>n, <2>2, <3>2, <3>3, <3>4
  <2>4. CASE a # b
    <3>1. \A i \in Indexes : aliases'[<<a, i>>].status = "used" <=> aliases[<<a, i>>].status = "used"
      BY <2>1, <2>4
    <3>2. Used(aliases', a) = Used(aliases, a)
      BY <3>1, CountsAgree
    <3>3. accounts'[a] = accounts[a]
      BY <2>1, <2>4 DEF Completed, BudgetInv, RoundInv, TypeOK
    <3> QED
      BY <1>q, <2>2, <3>2, <3>3
  <2> QED
    BY <2>3, <2>4
<1>4. ASSUME NEW b \in Accounts, ResetAccount(b) \/ DeleteAccount(b)
      PROVE /\ Used(aliases', a) <= AliasCap
            /\ accounts'[a] = "done" <=> Used(aliases', a) = AliasCap
            /\ Total(aliases', a) <= AliasCap + FailureBudget
  <2>1. CASE a # b
    <3>1. accounts'[a] = accounts[a] /\ \A i \in Indexes : aliases'[<<a, i>>] = aliases[<<a, i>>]
      BY <1>4, <2>1, EditsOnAccount DEF BudgetInv, RoundInv
    <3>2. Used(aliases', a) = Used(aliases, a) /\ Total(aliases', a) = Total(aliases, a)
      BY <3>1, CountsAgree
    <3> QED
      BY <1>q, <3>1, <3>2
  <2>2. CASE a = b
    <3>1. /\ accounts'[a] \in {"ready", "deleted"}
          /\ \A i \in Indexes : aliases'[<<a, i>>].status # "used"
          /\ \/ \A i \in Indexes : aliases'[<<a, i>>].status = "none"
             \/ \A i \in Indexes : aliases'[<<a, i>>].status # "none" <=> aliases[<<a, i>>].status # "none"
      BY <1>4, <2>2, EditsOnAccount DEF BudgetInv, RoundInv
    <3>2. Used(aliases', a) = 0 /\ Total(aliases', a) \in {0, Total(aliases, a)}
      BY <3>1, CountsAgree, CountsNone
    <3> QED
      BY <1>n, <1>q, <3>1, <3>2
  <2> QED
    BY <2>1, <2>2
<1> QED
  BY <1>1, <1>2, <1>3, <1>4, <1>q, AliasKinds DEF BudgetInv, RoundInv

\* Initially nothing is used.
LEMMA InitBudgetInv == Init => BudgetInv
<1> SUFFICES ASSUME Init PROVE BudgetInv
  OBVIOUS
<1>1. \A a \in Accounts, i \in Indexes : aliases[<<a, i>>].status = "none"
  BY DEF Init, NoRow, AliasIds
<1>2. RoundInv
  BY InitRoundInv
<1>3. WithinAliasBudget
  <2>1. \A a \in Accounts : Used(aliases, a) = 0 /\ Total(aliases, a) = 0
    BY <1>1, CountsNone
  <2>2. AliasCap \in Nat \ {0} /\ FailureBudget \in Nat
    BY <1>2, CapIsFixed, ConstantsAssumption DEF RoundInv
  <2>3. \A a \in Accounts : accounts[a] # "done"
    BY DEF Init
  <2> QED
    BY <2>1, <2>2, <2>3 DEF WithinAliasBudget
<1> QED
  BY <1>1, <1>2, <1>3 DEF BudgetInv, OneLeasePerAccount, NoOrphanAlias, LeasedIsReady

\* The budget invariant is inductive where the limit is fixed.
LEMMA NextKeepsBudgetInv ==
  ASSUME LimitIsFixed PROVE BudgetInv /\ [Next]_vars => BudgetInv'
<1> SUFFICES ASSUME BudgetInv, [Next]_vars PROVE BudgetInv'
  OBVIOUS
<1>1. RoundInv' /\ OneLeasePerAccount'
  BY NextKeepsRoundInv, NextKeepsOneLease DEF BudgetInv, RoundInv
<1>2. NoOrphanAlias' /\ LeasedIsReady' /\ WithinAliasBudget'
  BY NextKeepsNoOrphan, NextKeepsLeasedReady, NextKeepsBudget
<1> QED
  BY <1>1, <1>2 DEF BudgetInv

\* complete_alias_success, claim_next_alias: where nothing is imported and the limit is
\* not changed, no account has more used aliases than its limit.
THEOREM BudgetInvariance ==
  ASSUME LimitIsFixed PROVE Spec => []BudgetInv
  BY InitBudgetInv, NextKeepsBudgetInv, PTL DEF Spec

\* Crashes, recovery, failing handlers, resets and deletions take back no success
\* and no used alias, exceed no budget and leave no orphan.
THEOREM RecordsSurviveHolds ==
  ASSUME LimitIsFixed PROVE Spec => RecordsSurvive
<1>1. /\ BudgetInv /\ BudgetInv' /\ [Next]_vars
      => [SuccessIsFinal /\ UsedAliasStays /\ WithinAliasBudget' /\ NoOrphanAlias']_vars
  BY SuccessStays, UsedStays DEF BudgetInv
<1> QED
  BY <1>1, BudgetInvariance, PTL DEF Spec, RecordsSurvive

----------------------------------------------------------------------------
(* Work is accounted for *)

\* The operator clears results at most, and no handler fails.
NoEditsNoErrors == Hazards \cap {"dberror", "reset", "delete", "import", "limit"} = {}

Pending(r) == registrations[r].status = "pending"

\* A pending registration names a leased alias.
PendingIsLeased ==
  \A r \in RegIds :
    Pending(r) =>
      /\ registrations[r].alias \in AliasIds
      /\ aliases[registrations[r].alias].status = "processing"

\* An alias has one pending registration at most, the one of the round that
\* leased it; before that round creates it, it has none.
PendingIsTheRounds ==
  /\ \A r, q \in RegIds :
       Pending(r) /\ Pending(q) /\ registrations[r].alias = registrations[q].alias => r = q
  /\ \A w \in Workers, r \in RegIds :
       HoldsLease(w) /\ Pending(r) /\ registrations[r].alias = worker[w].alias =>
         /\ worker[w].pc # "claimed"
         /\ worker[w].pc \in HasReg => r = worker[w].reg

AccountedInv ==
  /\ BudgetInv
  /\ PendingIsLeased
  /\ PendingIsTheRounds
  /\ NothingLeftBehind

\* A registration is pending because it was, or because it was just created.
LEMMA PendingIsOldOrNew ==
  ASSUME NoEditsNoErrors, TypeOK, [Next]_vars, NEW r \in RegIds, registrations'[r].status = "pending"
  PROVE \/ Pending(r) /\ registrations'[r].alias = registrations[r].alias
        \/ \E w \in Workers :
             /\ CreateRegistration(w)
             /\ r = worker'[w].reg
             /\ registrations'[r].alias = worker[w].alias
<1>1. CASE Stays \/ Interrupts \/ \E w \in Workers : Settles(w)
  BY <1>1 DEF Stays, Interrupts, Settles, Pending, NoEditsNoErrors
<1>2. CASE Erases
  <2>1. [NoReg EXCEPT !.status = "deleted"].status = "deleted"
    BY DEF NoReg
  <2> QED
    BY <1>2, <2>1 DEF Erases, Pending
<1>3. ASSUME NEW w \in Workers, CommitSuccess(w)
      PROVE Pending(r) /\ registrations'[r].alias = registrations[r].alias
  <2>1. PICK q \in RegIds :
          /\ registrations'[q].status = "success"
          /\ \A other \in RegIds \ {q} : registrations'[other] = registrations[other]
    BY <1>3, CommitRecordsOne
  <2> QED
    BY <2>1 DEF Pending
<1>4. ASSUME NEW w \in Workers, CreateRegistration(w)
      PROVE \/ Pending(r) /\ registrations'[r].alias = registrations[r].alias
            \/ r = worker'[w].reg /\ registrations'[r].alias = worker[w].alias
  <2>1. CASE r = worker'[w].reg
    <3>1. registrations'[r] = [status |-> "pending", alias |-> worker[w].alias, sso |-> NoSso]
      BY <1>4, <2>1, CreatedIsNew
    <3> QED
      BY <2>1, <3>1
  <2>2. CASE r # worker'[w].reg
    BY <1>4, <2>2, CreatedIsNew DEF Pending
  <2> QED
    BY <2>1, <2>2
<1> QED
  BY <1>1, <1>2, <1>3, <1>4, RegistrationKinds

\* The registration that a handler or a commit closes is not pending afterwards.
LEMMA SettledIsClosed ==
  ASSUME TypeOK, NEW r \in RegIds, NEW status \in {"failed", "skipped"},
         registrations' = Settle(r, status)
  PROVE registrations'[r].status # "pending"
<1>1. registrations[r] \in RegRow
  BY DEF TypeOK
<1>2. [registrations[r] EXCEPT !.status = status].status = status
  BY <1>1 DEF RegRow
<1> QED
  BY <1>2 DEF Settle, TypeOK

\* Nobody gives back the alias of a registration that stays pending: the round
\* that holds the lease closes its own one, and recovery closes those of expired leases.
LEMMA NextKeepsPendingLeased ==
  ASSUME NoEditsNoErrors, AccountedInv, [Next]_vars PROVE PendingIsLeased'
<1> SUFFICES ASSUME NEW r \in RegIds, registrations'[r].status = "pending"
             PROVE /\ registrations'[r].alias \in AliasIds
                   /\ aliases'[registrations'[r].alias].status = "processing"
  BY DEF PendingIsLeased, Pending
<1>t. TypeOK /\ RoundInv /\ PendingIsLeased /\ PendingIsTheRounds
  BY DEF AccountedInv, BudgetInv, RoundInv
<1>1. ASSUME NEW w \in Workers, CreateRegistration(w), registrations'[r].alias = worker[w].alias
      PROVE /\ registrations'[r].alias \in AliasIds
            /\ aliases'[registrations'[r].alias].status = "processing"
  BY <1>1, <1>t, CreatedIsNew DEF HoldsLease
<1>2. CASE Pending(r) /\ registrations'[r].alias = registrations[r].alias
  <2> DEFINE id == registrations[r].alias
  <2>0. id \in AliasIds /\ aliases[id].status = "processing"
    BY <1>2, <1>t DEF PendingIsLeased
  <2> HIDE DEF id
  <2>h. ASSUME NEW w \in Workers, HoldsLease(w), worker[w].alias = id, worker[w].pc \in InRound
        PROVE worker[w].pc \in HasReg /\ worker[w].reg = r /\ worker[w].reg \in RegIds
    <3>1. worker[w].pc # "claimed" /\ (worker[w].pc \in HasReg => r = worker[w].reg)
      BY <1>2, <1>t, <2>h DEF PendingIsTheRounds, id
    <3> QED
      BY <2>h, <3>1 DEF HasReg
  <2>r. registrations' = RecoveredRegs => ~Expired(aliases[id])
    <3>1. registrations[r] \in RegRow
      BY <1>t DEF TypeOK
    <3>2. [registrations[r] EXCEPT !.status = "interrupted"].status = "interrupted"
      BY <3>1 DEF RegRow
    <3> QED
      BY <1>2, <2>0, <3>2 DEF RecoveredRegs, Pending, id
  <2>k. registrations' = RecoveredRegs => RecoveredRows[id] = aliases[id]
    BY <1>t, <2>0, <2>r, RecoveryKeeps
  <2>1. ASSUME NEW w \in Workers, ClaimReadyAlias(w) \/ MintAlias(w) PROVE aliases'[id].status = "processing"
    <3>1. /\ registrations' = RecoveredRegs
          /\ \E x \in AliasIds :
               /\ aliases'[x].status = "processing"
               /\ \A other \in AliasIds \ {x} : aliases'[other] = RecoveredRows[other]
      BY <1>t, <2>1, ClaimLeasesOne
    <3> QED
      BY <2>0, <2>k, <3>1
  <2>2. ASSUME NEW w \in Workers, ClaimNothing(w) PROVE aliases'[id].status = "processing"
    BY <2>0, <2>2, <2>k DEF ClaimNothing
  <2>3. ASSUME NEW w \in Workers, CommitSuccess(w) PROVE aliases'[id].status = "processing"
    <3>1. PICK x \in AliasIds, q \in RegIds :
            /\ x = worker[w].alias /\ q = worker[w].reg
            /\ HoldsLease(w)
            /\ registrations'[q].status = "success"
            /\ \A other \in AliasIds \ {x} : aliases'[other] = aliases[other]
      BY <1>t, <2>3, CommitRecordsOne
    <3>2. worker[w].pc \in InRound
      BY <2>3 DEF CommitSuccess, InRound
    <3>3. x # id
      BY <2>h, <3>1, <3>2
    <3> QED
      BY <2>0, <3>1, <3>3
  <2>4. ASSUME NEW w \in Workers, CreateRegistrationRaises(w) PROVE aliases'[id].status = "processing"
    <3>1. worker[w].pc = "claimed" /\ aliases' = Released(w)
      BY <2>4 DEF CreateRegistrationRaises
    <3>2. HoldsLease(w) => worker[w].alias # id
      BY <2>h, <3>1 DEF InRound, HasReg
    <3>3. aliases'[id] = aliases[id]
      BY <1>t, <2>0, <3>1, <3>2 DEF Released, TypeOK
    <3> QED
      BY <2>0, <3>3
  <2>5. ASSUME NEW w \in Workers, worker[w].pc = "failed",
               registrations' = Settle(worker[w].reg, "failed") \/ registrations' = Settle(worker[w].reg, "skipped")
        PROVE HoldsLease(w) => worker[w].alias # id
    <3>1. ASSUME HoldsLease(w), worker[w].alias = id PROVE FALSE
      <4>1. worker[w].reg = r
        BY <2>5, <2>h, <3>1 DEF InRound
      <4> QED
        BY <1>t, <2>5, <4>1, SettledIsClosed
    <3> QED
      BY <3>1
  <2>6. ASSUME NEW w \in Workers, HandleAbort(w) PROVE aliases'[id].status = "processing"
    <3>1. HoldsLease(w) => worker[w].alias # id
      BY <2>5, <2>6 DEF HandleAbort
    <3>2. aliases'[id] = aliases[id]
      BY <1>t, <2>0, <2>6, <3>1 DEF HandleAbort, TypeOK
    <3> QED
      BY <2>0, <3>2
  <2>7. ASSUME NEW w \in Workers, HoldsLease(w), worker[w].alias # id, NEW n, NEW c, FailAlias(w, n, c)
        PROVE aliases'[id] = aliases[id]
    <3> DEFINE rows == [aliases EXCEPT ![worker[w].alias] =
                          Failed([aliases[worker[w].alias] EXCEPT !.retry = n], c,
                                 NextStamp(aliases, worker[w].alias[1]))]
    <3>1. rows[id] = aliases[id]
      BY <1>t, <2>0, <2>7 DEF TypeOK
    <3>2. MaybeDisable(rows, worker[w].alias[1])
      BY <2>7 DEF FailAlias
    <3> HIDE DEF rows
    <3> QED
      BY <2>0, <3>1, <3>2 DEF MaybeDisable, DisableRows
  <2>8. ASSUME NEW w \in Workers, HandleExisting(w) \/ HandleDuplicate(w) \/ HandleFailure(w)
        PROVE aliases'[id].status = "processing"
    <3>1. HoldsLease(w) => worker[w].alias # id
      BY <2>5, <2>8 DEF HandleExisting, HandleDuplicate, HandleFailure, FinishAttempt
    <3>2. aliases' = aliases => aliases'[id].status = "processing"
      BY <2>0
    <3>3. ASSUME NEW row, HoldsLease(w), aliases' = [aliases EXCEPT ![worker[w].alias] = row]
          PROVE aliases'[id].status = "processing"
      BY <1>t, <2>0, <3>1, <3>3 DEF TypeOK
    <3>4. ASSUME NEW n, NEW c, HoldsLease(w), FailAlias(w, n, c) PROVE aliases'[id].status = "processing"
      BY <2>0, <2>7, <3>1, <3>4
    <3>5. ASSUME NEW limit, NEW c, FinishAttempt(w, limit, c) PROVE aliases'[id].status = "processing"
      <4>1. CASE ~HoldsLease(w)
        BY <3>2, <3>5, <4>1 DEF FinishAttempt
      <4>2. CASE HoldsLease(w) /\ aliases[worker[w].alias].retry + 1 >= limit
        BY <3>4, <3>5, <4>2 DEF FinishAttempt
      <4>3. CASE HoldsLease(w) /\ ~(aliases[worker[w].alias].retry + 1 >= limit)
        BY <3>3, <3>5, <4>3 DEF FinishAttempt
      <4> QED
        BY <4>1, <4>2, <4>3
    <3>6. CASE HandleExisting(w)
      <4>1. CASE ~HoldsLease(w)
        BY <3>2, <3>6, <4>1 DEF HandleExisting
      <4>2. CASE HoldsLease(w)
        BY <3>4, <3>6, <4>2 DEF HandleExisting
      <4> QED
        BY <4>1, <4>2
    <3>7. HandleDuplicate(w) => aliases'[id].status = "processing"
      BY <3>5 DEF HandleDuplicate
    <3>8. HandleFailure(w) => aliases'[id].status = "processing"
      BY <3>5 DEF HandleFailure
    <3> QED
      BY <2>8, <3>6, <3>7, <3>8
  <2>9. ASSUME Boot PROVE aliases'[id].status = "processing"
    <3>1. PICK cutoff \in 0 .. MaxRegs :
            /\ aliases' = Revived(Stale(cutoff))
            /\ registrations' = [q \in RegIds |->
                 IF q \in Stale(cutoff) THEN [RecoveredRegs[q] EXCEPT !.status = "interrupted"]
                 ELSE RecoveredRegs[q]]
      BY <2>9 DEF Boot
    <3>2. \A q \in RegIds : registrations[q] \in RegRow /\ RecoveredRegs[q] \in RegRow
      BY <1>t, RecoveredTypes DEF TypeOK
    <3>3. \A q \in RegIds :
            /\ [registrations[q] EXCEPT !.status = "interrupted"].status = "interrupted"
            /\ [RecoveredRegs[q] EXCEPT !.status = "interrupted"].status = "interrupted"
      BY <3>2 DEF RegRow
    <3>4. r \notin Stale(cutoff) /\ registrations'[r] = RecoveredRegs[r]
      BY <3>1, <3>3
    <3>5. ~Expired(aliases[id])
      BY <1>2, <2>0, <3>3, <3>4 DEF RecoveredRegs, Pending, id
    <3>6. RecoveredRows[id] = aliases[id]
      BY <1>t, <2>0, <3>5, RecoveryKeeps
    <3>7. ASSUME NEW q \in Stale(cutoff), registrations[q].alias = id PROVE FALSE
      <4>1. q \in RegIds /\ Pending(q)
        BY <3>3 DEF Stale, RecoveredRegs, Pending
      <4>2. q = r
        BY <1>2, <1>t, <3>7, <4>1 DEF PendingIsTheRounds, id
      <4> QED
        BY <3>4, <3>7, <4>2
    <3>8. aliases'[id] = RecoveredRows[id]
      BY <2>0, <3>1, <3>7 DEF Revived
    <3> QED
      BY <2>0, <3>6, <3>8
  <2>10. ASSUME NEW w \in Workers, Heartbeat(w) PROVE aliases'[id].status = "processing"
    <3>1. \A x \in AliasIds : aliases[x] \in AliasRow
      BY <1>t DEF TypeOK
    <3>2. \A x \in AliasIds : [aliases[x] EXCEPT !.lease = "live"].status = aliases[x].status
      BY <3>1 DEF AliasRow
    <3> QED
      BY <1>t, <2>0, <2>10, <3>2 DEF Heartbeat, TypeOK
  <2>11. ASSUME NEW x \in AliasIds, LeaseRunsOut(x) PROVE aliases'[id].status = "processing"
    <3>1. aliases[x] \in AliasRow
      BY <1>t DEF TypeOK
    <3>2. [aliases[x] EXCEPT !.lease = "expired"].status = aliases[x].status
      BY <3>1 DEF AliasRow
    <3> QED
      BY <1>t, <2>0, <2>11, <3>2 DEF LeaseRunsOut, TypeOK
  <2>12. aliases' = aliases => aliases'[id].status = "processing"
    BY <2>0
  <2>13. ASSUME NEW w \in Workers, Round(w) PROVE aliases'[id].status = "processing"
    <3>1. ~HandlerRaises(w)
      BY DEF HandlerRaises, NoEditsNoErrors
    <3>2. CreateRegistration(w) \/ CheckDuplicate(w) \/ CommitRaises(w) \/ HandleLeaseLost(w)
          => aliases' = aliases
      BY DEF CreateRegistration, CheckDuplicate, CommitRaises, HandleLeaseLost, tables
    <3>3. \A e, s : SignupRaises(w, e) \/ SignupReturns(w, s) => aliases' = aliases
      BY DEF SignupRaises, SignupReturns, tables
    <3> QED
      BY <2>3, <2>4, <2>6, <2>8, <2>12, <2>13, <3>1, <3>2, <3>3 DEF Round
  <2>14. ASSUME NEW w \in Workers, WorkerStep(w) PROVE aliases'[id].status = "processing"
    <3>1. TopOfLoop(w) \/ ProvisionMailbox(w) \/ ProvisionFails(w) => aliases' = aliases
      BY DEF TopOfLoop, ProvisionMailbox, ProvisionFails, tables
    <3> QED
      BY <2>1, <2>2, <2>12, <2>13, <2>14, <3>1 DEF WorkerStep
  <2>15. ASSUME Environment PROVE aliases'[id].status = "processing"
    <3>1. StartTask \/ StopTask \/ EndTask \/ Crash => aliases' = aliases
      BY DEF StartTask, StopTask, EndTask, Crash, tables
    <3> QED
      BY <2>9, <2>11, <2>12, <2>15, <3>1 DEF Environment
  <2>16. ASSUME OperatorEdit PROVE aliases'[id].status = "processing"
    <3>1. \A a : ~ResetAccount(a) /\ ~DeleteAccount(a) /\ ~ImportAccount(a) /\ ~SetAliasLimit(a)
      BY DEF ResetAccount, DeleteAccount, ImportAccount, SetAliasLimit, NoEditsNoErrors
    <3>2. ClearResults => aliases' = aliases
      BY DEF ClearResults
    <3> QED
      BY <2>12, <2>16, <3>1, <3>2 DEF OperatorEdit
  <2>17. aliases'[id].status = "processing"
    BY <2>10, <2>12, <2>14, <2>15, <2>16 DEF Next, vars
  <2> QED
    BY <1>2, <2>0, <2>17 DEF id
<1> QED
  BY <1>1, <1>2, <1>t, PendingIsOldOrNew
\* A round that is about to create its registration just claimed its alias, or
\* still holds the place it had.
LEMMA RoundsBegin ==
  ASSUME TypeOK, [Next]_vars, NEW w \in Workers, worker'[w].pc = "claimed"
  PROVE \/ worker[w].pc = "claimed" /\ worker'[w].alias = worker[w].alias
        \/ ClaimReadyAlias(w) \/ MintAlias(w)
<1> DEFINE Same == worker[w].pc = "claimed" /\ worker'[w].alias = worker[w].alias
<1>f. \A v \in Workers : worker[v] \in WorkerFields
  BY DEF TypeOK, WorkerState
<1>o. ASSUME NEW v \in Workers, worker'[v].pc # "claimed", \A u \in Workers \ {v} : worker'[u] = worker[u]
      PROVE Same
  BY <1>o
<1>u. worker' = worker => Same
  OBVIOUS
<1>g. ASSUME NEW v \in Workers, NEW place \in Places \ {"claimed"}, Goto(v, place) PROVE Same
  BY <1>g, <1>o DEF Goto, At, TypeOK
<1>r. ASSUME NEW v \in Workers, NEW e, Raise(v, e) PROVE Same
  BY <1>r, <1>f, <1>o DEF Raise, TypeOK, WorkerFields
<1>1. ASSUME NEW v \in Workers, WorkerStep(v), ~Round(v) PROVE Same \/ ClaimReadyAlias(w) \/ MintAlias(w)
  <2>1. CASE ClaimReadyAlias(v) \/ MintAlias(v)
    <3>1. \A u \in Workers \ {v} : worker'[u] = worker[u]
      BY <2>1 DEF ClaimReadyAlias, MintAlias, Take, TypeOK
    <3> QED
      BY <2>1, <3>1
  <2>2. CASE TopOfLoop(v) \/ ClaimNothing(v) \/ ProvisionMailbox(v) \/ ProvisionFails(v)
    BY <1>g, <2>2 DEF TopOfLoop, ClaimNothing, ProvisionMailbox, ProvisionFails, Places
  <2> QED
    BY <1>1, <2>1, <2>2 DEF WorkerStep
<1>2. ASSUME NEW v \in Workers, Round(v) PROVE Same
  <2>1. CASE CreateRegistration(v)
    BY <2>1, <1>f, <1>o DEF CreateRegistration, TypeOK, WorkerFields
  <2>2. CASE \E e \in RemoteErrors : SignupRaises(v, e)
    BY <2>2, <1>r DEF SignupRaises
  <2>3. CASE \E s \in Ssos : SignupReturns(v, s)
    BY <2>3, <1>f, <1>o DEF SignupReturns, TypeOK, WorkerFields
  <2>4. CASE CheckDuplicate(v)
    <3>1. CASE Advance(v, "commit")
      BY <3>1, <1>f, <1>o DEF Advance, TypeOK, WorkerFields
    <3> QED
      BY <2>4, <3>1, <1>r DEF CheckDuplicate
  <2>5. CASE CommitRaises(v)
    BY <2>5, <1>r DEF CommitRaises
  <2>6. CASE Goto(v, "loop")
    BY <2>6, <1>g DEF Places
  <2> QED
    BY <1>2, <2>1, <2>2, <2>3, <2>4, <2>5, <2>6 DEF Round, CommitSuccess, CreateRegistrationRaises,
       HandleLeaseLost, HandleAbort, HandleExisting, HandleDuplicate, HandleFailure, HandlerRaises
<1>3. ASSUME NEW v \in Workers, Heartbeat(v) PROVE Same
  BY <1>3, <1>u, <1>f DEF Heartbeat, TypeOK, WorkerFields
<1>4. CASE StartTask \/ Crash
  BY <1>4 DEF StartTask, Crash, At
<1>5. CASE Environment /\ ~StartTask /\ ~Crash
  BY <1>5, <1>u DEF Environment, StopTask, EndTask, Boot, LeaseRunsOut
<1>6. CASE OperatorEdit
  BY <1>6, <1>u DEF OperatorEdit, ResetAccount, DeleteAccount, ImportAccount, SetAliasLimit, ClearResults
<1> QED
  BY <1>1, <1>2, <1>3, <1>4, <1>5, <1>6, <1>u DEF Next, vars

\* A registration that was pending already has no part in a round that just begins,
\* and is the one of any other round that holds its alias.
LEMMA OldPendingIsTheRounds ==
  ASSUME AccountedInv, [Next]_vars, NEW w \in Workers, NEW r \in RegIds,
         Pending(r), registrations'[r].status = "pending",
         registrations'[r].alias = registrations[r].alias,
         HoldsLease(w)', registrations'[r].alias = worker'[w].alias
  PROVE /\ worker'[w].pc # "claimed"
        /\ worker'[w].pc \in HasReg => r = worker'[w].reg
<1>t. TypeOK /\ AliasesExist /\ PendingIsLeased /\ PendingIsTheRounds
  BY DEF AccountedInv, BudgetInv, RoundInv
<1>l. registrations[r].alias \in AliasIds /\ aliases[registrations[r].alias].status = "processing"
  BY <1>t DEF PendingIsLeased
<1>1. ASSUME worker'[w].pc = "claimed" PROVE FALSE
  <2>1. CASE worker[w].pc = "claimed" /\ worker'[w].alias = worker[w].alias
    <3>1. HoldsLease(w)
      BY <1>t, <1>1, <2>1, LeaseIsKept DEF InRound
    <3> QED
      BY <1>t, <2>1, <3>1 DEF PendingIsTheRounds
  <2>2. CASE ClaimReadyAlias(w) \/ MintAlias(w)
    <3>1. PICK id \in AliasIds :
            /\ registrations' = RecoveredRegs
            /\ RecoveredRows[id].status \in {"ready", "none"}
            /\ worker'[w].alias = id
      BY <1>t, <2>2, ClaimLeasesOne
    <3>2. Expired(aliases[id])
      BY <1>l, <1>t, <3>1, RecoveryKeeps
    <3>3. registrations[r] \in RegRow
      BY <1>t DEF TypeOK
    <3>4. [registrations[r] EXCEPT !.status = "interrupted"].status = "interrupted"
      BY <3>3 DEF RegRow
    <3>5. registrations'[r].status = "interrupted"
      BY <1>l, <3>1, <3>2, <3>4 DEF RecoveredRegs, Pending
    <3> QED
      BY <3>5
  <2> QED
    BY <1>t, <1>1, <2>1, <2>2, RoundsBegin
<1>2. ASSUME worker'[w].pc \in HasReg PROVE r = worker'[w].reg
  <2>1. CASE Continues(w)
    <3>1. HoldsLease(w)
      BY <1>t, <1>2, <2>1, LeaseIsKept DEF Continues, HasReg
    <3> QED
      BY <1>t, <2>1, <3>1 DEF PendingIsTheRounds, Continues
  <2>2. CASE CreateRegistration(w)
    <3>1. HoldsLease(w) /\ worker[w].pc = "claimed" /\ worker'[w].alias = worker[w].alias
      BY <1>t, <2>2, CreatedIsNew
    <3> QED
      BY <1>t, <3>1 DEF PendingIsTheRounds
  <2> QED
    BY <1>t, <1>2, <2>1, <2>2, RoundsContinue
<1> QED
  BY <1>1, <1>2

\* An alias keeps to one pending registration, the one of the round that leased it.
LEMMA NextKeepsPendingRounds ==
  ASSUME NoEditsNoErrors, AccountedInv, [Next]_vars PROVE PendingIsTheRounds'
<1>t. TypeOK /\ PendingIsTheRounds
  BY DEF AccountedInv, BudgetInv, RoundInv
<1> DEFINE Old(r) == Pending(r) /\ registrations'[r].alias = registrations[r].alias
           New(r, v) == /\ CreateRegistration(v)
                        /\ r = worker'[v].reg
                        /\ registrations'[r].alias = worker[v].alias
<1>k. ASSUME NEW r \in RegIds, registrations'[r].status = "pending"
      PROVE Old(r) \/ \E v \in Workers : New(r, v)
  BY <1>k, <1>t, PendingIsOldOrNew DEF AccountedInv
<1>n. ASSUME NEW v \in Workers, CreateRegistration(v)
      PROVE /\ HoldsLease(v) /\ worker[v].pc = "claimed"
            /\ aliases' = aliases /\ task' = task
            /\ worker'[v].alias = worker[v].alias
            /\ \A u \in Workers \ {v} : worker'[u] = worker[u]
  BY <1>t, <1>n, CreatedIsNew
<1>s. ASSUME NEW v \in Workers, CreateRegistration(v) PROVE worker'[v].pc = "signup"
  <2>1. worker[v] \in WorkerFields
    BY <1>t DEF TypeOK, WorkerState
  <2> QED
    BY <1>t, <1>s, <2>1 DEF CreateRegistration, TypeOK, WorkerFields
<1>1. ASSUME NEW r \in RegIds, NEW q \in RegIds,
             registrations'[r].status = "pending", registrations'[q].status = "pending",
             registrations'[r].alias = registrations'[q].alias
      PROVE r = q
  <2>1. CASE Old(r) /\ Old(q)
    BY <1>t, <1>1, <2>1 DEF PendingIsTheRounds
  <2>2. ASSUME NEW v \in Workers, NEW x \in RegIds, NEW y \in RegIds, New(x, v), Old(y),
               registrations'[x].alias = registrations'[y].alias
        PROVE FALSE
    <3>1. HoldsLease(v) /\ worker[v].pc = "claimed"
      BY <1>n, <2>2
    <3> QED
      BY <1>t, <2>2, <3>1 DEF PendingIsTheRounds
  <2>3. ASSUME NEW u \in Workers, NEW v \in Workers, New(r, u), New(q, v) PROVE r = q
    <3>1. u = v
      BY <1>n, <1>s, <2>3
    <3> QED
      BY <2>3, <3>1
  <2> HIDE DEF Old, New
  <2> QED
    BY <1>1, <1>k, <2>1, <2>2, <2>3
<1>2. ASSUME NEW w \in Workers, NEW r \in RegIds, HoldsLease(w)', registrations'[r].status = "pending",
             registrations'[r].alias = worker'[w].alias
      PROVE /\ worker'[w].pc # "claimed"
            /\ worker'[w].pc \in HasReg => r = worker'[w].reg
  <2>1. CASE Old(r)
    BY <1>2, <2>1, OldPendingIsTheRounds
  <2>2. ASSUME NEW v \in Workers, New(r, v)
        PROVE /\ worker'[w].pc # "claimed"
              /\ worker'[w].pc \in HasReg => r = worker'[w].reg
    <3>1. CASE v = w
      BY <1>s, <2>2, <3>1
    <3>2. CASE v # w
      <4>1. worker'[w] = worker[w] /\ aliases' = aliases /\ task' = task /\ HoldsLease(v)
        BY <1>n, <2>2, <3>2
      <4>2. worker[w].alias = worker[v].alias
        BY <1>2, <2>2, <4>1
      <4>3. aliases[worker[v].alias].owner = <<task, w>> /\ aliases[worker[v].alias].owner = <<task, v>>
        BY <1>2, <4>1, <4>2 DEF HoldsLease
      <4> QED
        BY <3>2, <4>3
    <3> QED
      BY <3>1, <3>2
  <2> HIDE DEF Old, New
  <2> QED
    BY <1>2, <1>k, <2>1, <2>2
<1> QED
  BY <1>1, <1>2 DEF PendingIsTheRounds, Pending
\* Nobody leaves while something can be claimed: the last worker to leave found
\* nothing, and nothing but a claim or a handler changes what can be claimed.
LEMMA NextKeepsNothingLeft ==
  ASSUME NoEditsNoErrors, Workers # {}, TypeOK, NothingLeftBehind, [Next]_vars PROVE NothingLeftBehind'
<1> SUFFICES ASSUME mode' = "running", ~stopped', \A w \in Workers : worker'[w].pc = "off"
             PROVE /\ \A id \in AliasIds : ~Claimable(aliases, id)'
                   /\ \A a \in Accounts : ~Mintable(aliases, a)'
  BY DEF NothingLeftBehind
<1> DEFINE Done == /\ \A id \in AliasIds : ~Claimable(aliases, id)'
                   /\ \A a \in Accounts : ~Mintable(aliases, a)'
<1>f. \A w \in Workers : worker[w] \in WorkerFields
  BY DEF TypeOK, WorkerState
<1>g. ASSUME NEW w \in Workers, NEW place, Goto(w, place) PROVE place = "off"
  BY <1>g DEF Goto, At, TypeOK
<1>s. ASSUME mode = "running", ~stopped, \A w \in Workers : worker[w].pc = "off",
             accounts' = accounts, aliasLimit' = aliasLimit, maxRetries' = maxRetries, aliases' = aliases
      PROVE Done
  BY <1>s DEF NothingLeftBehind, Claimable, Mintable, Quiet, Used, Total, Rows, AliasCap
<1>1. ASSUME NEW w \in Workers, ClaimNothing(w) PROVE Done
  <2>1. /\ aliases' = RecoveredRows /\ accounts' = accounts
        /\ aliasLimit' = aliasLimit /\ maxRetries' = maxRetries
        /\ \A id \in AliasIds : ~Claimable(RecoveredRows, id)
        /\ \A a \in Accounts : ~Mintable(RecoveredRows, a)
    BY <1>1 DEF ClaimNothing, taskVars
  <2> QED
    BY <2>1 DEF Claimable, Mintable, Quiet, Used, Total, Rows, AliasCap
<1>2. ASSUME NEW w \in Workers, Round(w) PROVE FALSE
  <2>1. ASSUME CreateRegistration(w) PROVE FALSE
    <3>1. PICK r : worker' = [worker EXCEPT ![w] = [@ EXCEPT !.pc = "signup", !.reg = r]]
      BY <2>1 DEF CreateRegistration
    <3>2. worker'[w].pc = "signup"
      BY <1>f, <3>1 DEF TypeOK, WorkerFields
    <3> QED
      BY <3>2
  <2>2. ASSUME NEW e, Raise(w, e) PROVE FALSE
    <3>1. worker'[w].pc = "failed"
      BY <1>f, <2>2 DEF Raise, TypeOK, WorkerFields
    <3> QED
      BY <3>1
  <2>3. \A s : ~SignupReturns(w, s)
    BY <1>f DEF SignupReturns, TypeOK, WorkerFields
  <2>4. ~Advance(w, "commit") /\ ~Goto(w, "loop")
    BY <1>f, <1>g DEF Advance, TypeOK, WorkerFields
  <2> QED
    BY <1>2, <2>1, <2>2, <2>3, <2>4 DEF Round, CommitSuccess, CreateRegistrationRaises, SignupRaises,
       CheckDuplicate, CommitRaises, HandleLeaseLost, HandleAbort, HandleExisting, HandleDuplicate,
       HandleFailure, HandlerRaises
<1>3. ASSUME NEW w \in Workers, WorkerStep(w) PROVE Done
  <2>1. ~ClaimReadyAlias(w) /\ ~MintAlias(w)
    <3>1. ASSUME NEW id, NEW rows, Take(w, id, rows) PROVE FALSE
      BY <3>1 DEF Take, At, TypeOK
    <3> QED
      BY <3>1 DEF ClaimReadyAlias, MintAlias
  <2>2. ~TopOfLoop(w) /\ ~ProvisionMailbox(w) /\ ~ProvisionFails(w)
    <3>1. ~TopOfLoop(w)
      BY <1>g DEF TopOfLoop, taskVars
    <3>2. ~ProvisionMailbox(w) /\ ~ProvisionFails(w)
      BY <1>g DEF ProvisionMailbox, ProvisionFails
    <3> QED
      BY <3>1, <3>2
  <2> HIDE DEF Done
  <2> QED
    BY <1>1, <1>2, <1>3, <2>1, <2>2 DEF WorkerStep
<1>4. ASSUME NEW w \in Workers, Heartbeat(w) PROVE Done
  <2>1. worker'[w].pc = worker[w].pc
    BY <1>4, <1>f DEF Heartbeat, TypeOK, WorkerFields
  <2> QED
    BY <1>4, <2>1 DEF Heartbeat, InRound
<1>5. ASSUME Environment PROVE Done
  <2>1. ~StartTask
    BY DEF StartTask, At
  <2>2. ~StopTask /\ ~EndTask /\ ~Crash /\ ~Boot
    BY DEF StopTask, EndTask, Crash, Boot
  <2>3. ASSUME NEW x \in AliasIds, LeaseRunsOut(x) PROVE Done
    <3>1. \A id \in AliasIds : aliases[id] \in AliasRow
      BY DEF TypeOK
    <3>2. \A id \in AliasIds :
            /\ aliases'[id].status = aliases[id].status
            /\ aliases'[id].retry = aliases[id].retry
            /\ aliases'[id].category = aliases[id].category
      BY <2>3, <3>1 DEF LeaseRunsOut, TypeOK, AliasRow
    <3>3. /\ accounts' = accounts /\ aliasLimit' = aliasLimit /\ maxRetries' = maxRetries
          /\ mode = "running" /\ ~stopped /\ \A w \in Workers : worker[w].pc = "off"
      BY <2>3 DEF LeaseRunsOut, taskVars
    <3>4. \A a \in Accounts, i \in Indexes : <<a, i>> \in AliasIds
      BY DEF AliasIds
    <3>5. \A id \in AliasIds : id[1] \in Accounts
      BY DEF AliasIds
    <3>6. \A a \in Accounts : /\ Used(aliases, a)' = Used(aliases, a)
                            /\ Total(aliases, a)' = Total(aliases, a)
                            /\ Quiet(aliases, a)' = Quiet(aliases, a)
      BY <3>2, <3>4 DEF Used, Total, Rows, Quiet
    <3>7. AliasCap' = AliasCap
      BY <3>3 DEF AliasCap
    <3>8. (\A id \in AliasIds : ~Claimable(aliases, id)) /\ (\A a \in Accounts : ~Mintable(aliases, a))
      BY <3>3 DEF NothingLeftBehind
    <3>9. \A a \in Accounts : ~Mintable(aliases, a)'
      BY <3>3, <3>6, <3>7, <3>8 DEF Mintable
    <3>10. \A id \in AliasIds : ~Claimable(aliases, id)'
      BY <3>2, <3>3, <3>5, <3>6, <3>8 DEF Claimable
    <3> QED
      BY <3>9, <3>10
  <2> HIDE DEF Done
  <2> QED
    BY <1>5, <2>1, <2>2, <2>3 DEF Environment
<1>6. ASSUME OperatorEdit PROVE Done
  <2>1. \A a : ~ResetAccount(a) /\ ~DeleteAccount(a) /\ ~ImportAccount(a) /\ ~SetAliasLimit(a)
    BY DEF ResetAccount, DeleteAccount, ImportAccount, SetAliasLimit, NoEditsNoErrors
  <2>2. ClearResults => Done
    BY <1>s DEF ClearResults, taskVars
  <2> HIDE DEF Done
  <2> QED
    BY <1>6, <2>1, <2>2 DEF OperatorEdit
<1>7. UNCHANGED vars => Done
  BY <1>s DEF vars
<1> HIDE DEF Done
<1>8. Done
  BY <1>3, <1>4, <1>5, <1>6, <1>7 DEF Next
<1> QED
  BY <1>8 DEF Done

\* Initially nothing is open.
LEMMA InitAccountedInv == Init => AccountedInv
<1> SUFFICES ASSUME Init PROVE AccountedInv
  OBVIOUS
<1>1. BudgetInv
  BY InitBudgetInv
<1>2. \A r \in RegIds : ~Pending(r)
  BY DEF Init, NoReg, Pending
<1>3. mode # "running"
  BY DEF Init
<1> QED
  BY <1>1, <1>2, <1>3 DEF AccountedInv, PendingIsLeased, PendingIsTheRounds, NothingLeftBehind

\* Every step of a task that is left alone keeps its work accounted for.
LEMMA NextKeepsAccountedInv ==
  ASSUME NoEditsNoErrors, Workers # {} PROVE AccountedInv /\ [Next]_vars => AccountedInv'
<1> SUFFICES ASSUME AccountedInv, [Next]_vars PROVE AccountedInv'
  OBVIOUS
<1>1. BudgetInv'
  BY NextKeepsBudgetInv DEF AccountedInv, NoEditsNoErrors, LimitIsFixed
<1>2. PendingIsLeased' /\ PendingIsTheRounds'
  BY NextKeepsPendingLeased, NextKeepsPendingRounds
<1>3. NothingLeftBehind'
  BY NextKeepsNothingLeft DEF AccountedInv, BudgetInv, RoundInv
<1> QED
  BY <1>1, <1>2, <1>3 DEF AccountedInv

\* While the operator clears results at most and no handler fails: whatever expires,
\* crashes, is stopped or recovered, a live lease has an open round, an open round has
\* somebody to close it, no account exceeds its budget, and nobody leaves work behind.
THEOREM WorkIsAccountedHolds ==
  ASSUME NoEditsNoErrors, Workers # {} PROVE Spec => []WorkIsAccounted
<1>1. Spec => []AccountedInv
  BY InitAccountedInv, NextKeepsAccountedInv, PTL DEF Spec
<1>2. AccountedInv => WorkIsAccounted
  BY DEF AccountedInv, BudgetInv, RoundInv, WorkIsAccounted, PendingHasOwner, PendingIsLeased, Pending
<1> QED
  BY <1>1, <1>2, PTL
=============================================================================
