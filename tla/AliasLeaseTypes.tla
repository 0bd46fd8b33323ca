---------------------------- MODULE AliasLeaseTypes ----------------------------
(***************************************************************************)
(* Type correctness of AliasLease, for every number of workers, accounts,  *)
(* identities and tasks, and the types of its operators on table rows.     *)
(***************************************************************************)
EXTENDS AliasLease, FiniteSetTheorems, TLAPS

----------------------------------------------------------------------------
(* Types of the operators on rows *)

\* An account has finitely many alias indexes.
LEMMA IndexesFinite == IsFiniteSet(Indexes)
  BY ConstantsAssumption, FS_Interval DEF Indexes

\* The ordinal of a completion is a natural number.
LEMMA StampIsNat ==
  ASSUME NEW rows, NEW a PROVE NextStamp(rows, a) \in Nat
<1> DEFINE S == {i \in Indexes : rows[<<a, i>>].at # 0}
<1>1. IsFiniteSet(S)
  BY IndexesFinite, FS_Subset
<1>2. Cardinality(S) \in Nat
  BY <1>1, FS_CardinalityType
<1> QED
  BY <1>2 DEF NextStamp

\* Taking a lease, releasing it and putting an alias back keep a row a row.
LEMMA RequeuedIsRow ==
  ASSUME NEW row \in AliasRow, NEW n \in Nat, NEW c \in Categories
  PROVE Requeued(row, n, c) \in AliasRow
  BY DEF Requeued, AliasRow, Owners, AliasStatus

\* Failing an alias keeps its row a row.
LEMMA FailedIsRow ==
  ASSUME NEW row \in AliasRow, NEW c \in Categories, NEW n \in Nat
  PROVE Failed(row, c, n) \in AliasRow
  BY DEF Failed, AliasRow, Owners, AliasStatus

\* Leasing an alias keeps its row a row.
LEMMA LeaseIsRow ==
  ASSUME NEW row \in AliasRow, NEW w \in Workers, task \in 0 .. MaxTasks
  PROVE Lease(row, w) \in AliasRow
  BY DEF Lease, AliasRow, Owners, AliasStatus

\* Recovering expired leases keeps the tables well typed.
LEMMA RecoveredTypes ==
  ASSUME TypeOK
  PROVE /\ RecoveredRows \in [AliasIds -> AliasRow]
        /\ RecoveredRegs \in [RegIds -> RegRow]
<1>1. \A id \in AliasIds : aliases[id] \in AliasRow /\ aliases[id].retry \in Nat
  BY DEF TypeOK, AliasRow
<1>2. RecoveredRows \in [AliasIds -> AliasRow]
  BY <1>1, RequeuedIsRow DEF RecoveredRows, Categories
<1>3. RecoveredRegs \in [RegIds -> RegRow]
  BY DEF RecoveredRegs, TypeOK, RegRow, RegStatus
<1> QED
  BY <1>2, <1>3

\* So does disabling an account.
LEMMA MaybeDisableTypes ==
  ASSUME TypeOK, NEW rows \in [AliasIds -> AliasRow], NEW a, MaybeDisable(rows, a)
  PROVE /\ accounts' \in [Accounts -> AccountStatus]
        /\ aliases' \in [AliasIds -> AliasRow]
<1>1. DisableRows(rows, a) \in [AliasIds -> AliasRow]
  <2>1. \A id \in AliasIds : Failed(rows[id], "registration", NextStamp(rows, a)) \in AliasRow
    BY FailedIsRow, StampIsNat DEF Categories
  <2> QED
    BY <2>1 DEF DisableRows
<1> QED
  BY <1>1 DEF MaybeDisable, TypeOK, AccountStatus

\* So does failing an alias and what may follow for its account.
LEMMA FailAliasTypes ==
  ASSUME TypeOK, NEW w \in Workers, HoldsLease(w), NEW n \in Nat, NEW c \in Categories,
         FailAlias(w, n, c)
  PROVE /\ accounts' \in [Accounts -> AccountStatus]
        /\ aliases' \in [AliasIds -> AliasRow]
<1> DEFINE id == worker[w].alias
           row == [aliases[id] EXCEPT !.retry = n]
           rows == [aliases EXCEPT ![id] = Failed(row, c, NextStamp(aliases, id[1]))]
<1>1. id \in AliasIds
  BY DEF HoldsLease
<1>2. row \in AliasRow
  BY <1>1 DEF TypeOK, AliasRow
<1>3. rows \in [AliasIds -> AliasRow]
  BY <1>1, <1>2, FailedIsRow, StampIsNat DEF TypeOK
<1>4. MaybeDisable(rows, id[1])
  BY DEF FailAlias
<1> QED
  BY <1>3, <1>4, MaybeDisableTypes

\* So does the end of a failed attempt, on its retry branch and on its terminal one.
LEMMA FinishAttemptTypes ==
  ASSUME TypeOK, NEW w \in Workers, NEW limit, NEW c \in Categories, FinishAttempt(w, limit, c)
  PROVE /\ accounts' \in [Accounts -> AccountStatus]
        /\ aliases' \in [AliasIds -> AliasRow]
<1> DEFINE id == worker[w].alias
           n == aliases[id].retry + 1
<1>1. CASE ~HoldsLease(w)
  BY <1>1 DEF FinishAttempt, TypeOK
<1>2. CASE HoldsLease(w)
  <2>1. id \in AliasIds /\ aliases[id] \in AliasRow /\ n \in Nat
    BY <1>2 DEF HoldsLease, TypeOK, AliasRow
  <2>2. CASE n >= limit
    BY <1>2, <2>1, <2>2, FailAliasTypes DEF FinishAttempt
  <2>3. CASE ~(n >= limit)
    <3>1. Requeued(aliases[id], n, IF c = "sso_duplicate" THEN c ELSE "") \in AliasRow
      BY <2>1, RequeuedIsRow DEF Categories
    <3> QED
      BY <1>2, <2>1, <2>3, <3>1 DEF FinishAttempt, TypeOK
  <2> QED
    BY <2>2, <2>3
<1> QED
  BY <1>1, <1>2

\* So does closing a registration.
LEMMA SettleType ==
  ASSUME TypeOK, NEW r \in RegIds, NEW status \in RegStatus
  PROVE Settle(r, status) \in [RegIds -> RegRow]
  BY DEF Settle, TypeOK, RegRow

\* So does giving a claim back.
LEMMA ReleasedType ==
  ASSUME TypeOK, NEW w \in Workers PROVE Released(w) \in [AliasIds -> AliasRow]
<1>1. CASE HoldsLease(w)
  <2> DEFINE row == aliases[worker[w].alias]
  <2>1. worker[w].alias \in AliasIds /\ row \in AliasRow
    BY <1>1 DEF HoldsLease, TypeOK
  <2>2. [row EXCEPT !.status = "ready", !.owner = NoOwner, !.lease = "none"] \in AliasRow
    BY <2>1 DEF AliasRow, AliasStatus, Owners
  <2> QED
    BY <1>1, <2>1, <2>2 DEF Released, TypeOK
<1> QED
  BY <1>1 DEF Released, TypeOK

\* Where a worker may be sent.
LEMMA GotoType ==
  ASSUME TypeOK, NEW w \in Workers, NEW place \in Places \ InRound, Goto(w, place)
  PROVE worker' \in [Workers -> WorkerState]
<1>1. At(place) \in WorkerState
  BY DEF At, WorkerState, WorkerFields, InRound, HasReg, Errors
<1> QED
  BY <1>1 DEF Goto, TypeOK

\* A worker whose round raises keeps its alias and registration.
LEMMA RaiseType ==
  ASSUME TypeOK, NEW w \in Workers, NEW e \in Errors, worker[w].pc \in HasReg, Raise(w, e)
  PROVE worker' \in [Workers -> WorkerState]
<1>1. worker[w] \in WorkerState
  BY DEF TypeOK
<1>2. [worker[w] EXCEPT !.pc = "failed", !.error = e] \in WorkerState
  BY <1>1 DEF WorkerState, WorkerFields, Places, InRound, HasReg
<1> QED
  BY <1>2 DEF Raise, TypeOK

\* Taking a lease keeps the alias table and the worker well typed.
LEMMA TakeTypes ==
  ASSUME TypeOK, NEW w \in Workers, NEW id \in AliasIds, NEW rows \in [AliasIds -> AliasRow],
         Take(w, id, rows)
  PROVE /\ aliases' \in [AliasIds -> AliasRow]
        /\ worker' \in [Workers -> WorkerState]
<1>1. Lease(rows[id], w) \in AliasRow
  BY LeaseIsRow DEF TypeOK
<1>2. [At("claimed") EXCEPT !.alias = id] \in WorkerState
  BY DEF At, WorkerState, WorkerFields, InRound, HasReg, Places, Errors
<1> QED
  BY <1>1, <1>2 DEF Take, TypeOK

----------------------------------------------------------------------------
(* Type correctness *)

\* The database starts well typed.
LEMMA InitTypes == Init => TypeOK
<1> SUFFICES ASSUME Init PROVE TypeOK
  OBVIOUS
<1>1. NoRow \in AliasRow
  BY DEF AliasRow, NoRow, AliasStatus, Categories, Owners
<1>2. NoReg \in RegRow
  BY DEF RegRow, NoReg, RegStatus
<1>3. At("off") \in WorkerState
  BY DEF WorkerState, WorkerFields, InRound, HasReg, At, Places, Errors
<1>4. task \in 0 .. MaxTasks
  BY ConstantsAssumption DEF Init
<1> QED
  BY <1>1, <1>2, <1>3, <1>4 DEF Init, TypeOK, AccountStatus

\* The steps from the head of the loop to the claim keep the types.
LEMMA ClaimKeepsTypes ==
  ASSUME TypeOK, NEW w \in Workers,
         TopOfLoop(w) \/ ClaimReadyAlias(w) \/ MintAlias(w) \/ ClaimNothing(w)
           \/ ProvisionMailbox(w) \/ ProvisionFails(w)
  PROVE TypeOK'
<1>1. CASE TopOfLoop(w)
  <2>1. worker' \in [Workers -> WorkerState]
    BY <1>1, GotoType DEF TopOfLoop, Places, InRound
  <2> QED
    BY <1>1, <2>1 DEF TopOfLoop, TypeOK, tables, taskVars
<1>2. CASE ClaimReadyAlias(w)
  BY <1>2, RecoveredTypes, TakeTypes DEF ClaimReadyAlias, TypeOK, taskVars
<1>3. CASE MintAlias(w)
  <2>1. PICK a \in Accounts, i \in Indexes : Take(w, <<a, i>>, RecoveredRows)
    BY <1>3 DEF MintAlias
  <2>2. <<a, i>> \in AliasIds
    BY DEF AliasIds
  <2> QED
    BY <1>3, <2>1, <2>2, RecoveredTypes, TakeTypes DEF MintAlias, TypeOK, taskVars
<1>4. CASE ClaimNothing(w)
  <2>1. worker' \in [Workers -> WorkerState]
    BY <1>4, GotoType DEF ClaimNothing, Places, InRound
  <2> QED
    BY <1>4, <2>1, RecoveredTypes DEF ClaimNothing, TypeOK, taskVars
<1>5. CASE ProvisionMailbox(w)
  <2>1. worker' \in [Workers -> WorkerState]
    BY <1>5, GotoType DEF ProvisionMailbox, Places, InRound
  <2> QED
    BY <1>5, <2>1 DEF ProvisionMailbox, TypeOK, taskVars, AccountStatus
<1>6. CASE ProvisionFails(w)
  <2>1. worker' \in [Workers -> WorkerState]
    BY <1>6, GotoType DEF ProvisionFails, Places, InRound
  <2> QED
    BY <1>6, <2>1 DEF ProvisionFails, TypeOK, tables
<1> QED
  BY <1>1, <1>2, <1>3, <1>4, <1>5, <1>6

\* The steps of a round and of its handler keep the types.
LEMMA RoundKeepsTypes ==
  ASSUME TypeOK, NEW w \in Workers, Round(w)
  PROVE TypeOK'
<1> DEFINE id == worker[w].alias
<1>w. worker[w] \in WorkerState
  BY DEF TypeOK
<1>g. Goto(w, "loop") => worker' \in [Workers -> WorkerState]
  BY GotoType DEF Places, InRound
<1>1. CASE CreateRegistration(w)
  <2>1. PICK r \in RegIds :
          /\ registrations' = [registrations EXCEPT ![r] =
               [status |-> "pending", alias |-> id, sso |-> NoSso]]
          /\ worker' = [worker EXCEPT ![w] = [@ EXCEPT !.pc = "signup", !.reg = r]]
    BY <1>1 DEF CreateRegistration
  <2>2. id \in AliasIds
    BY <1>1 DEF CreateRegistration, HoldsLease
  <2>3. [status |-> "pending", alias |-> id, sso |-> NoSso] \in RegRow
    BY <2>2 DEF RegRow, RegStatus
  <2>4. [worker[w] EXCEPT !.pc = "signup", !.reg = r] \in WorkerState
    BY <1>w, <2>2 DEF WorkerState, WorkerFields, Places, InRound, HasReg
  <2> QED
    BY <1>1, <2>1, <2>3, <2>4 DEF CreateRegistration, TypeOK, taskVars
<1>2. CASE CreateRegistrationRaises(w)
  BY <1>2, <1>g, ReleasedType DEF CreateRegistrationRaises, TypeOK, taskVars
<1>3. ASSUME NEW e \in RemoteErrors, SignupRaises(w, e) PROVE TypeOK'
  <2>1. worker' \in [Workers -> WorkerState]
    BY <1>3, RaiseType DEF SignupRaises, Errors, InRound, HasReg
  <2> QED
    BY <1>3, <2>1 DEF SignupRaises, TypeOK, tables, taskVars
<1>4. ASSUME NEW s \in Ssos, SignupReturns(w, s) PROVE TypeOK'
  <2>1. [worker[w] EXCEPT !.pc = "sso", !.sso = s] \in WorkerState
    BY <1>4, <1>w DEF SignupReturns, WorkerState, WorkerFields, Places, InRound, HasReg
  <2> QED
    BY <1>4, <2>1 DEF SignupReturns, TypeOK, tables, taskVars
<1>5. CASE CheckDuplicate(w)
  <2>1. [worker[w] EXCEPT !.pc = "commit"] \in WorkerState
    BY <1>5, <1>w DEF CheckDuplicate, WorkerState, WorkerFields, Places, InRound, HasReg
  <2>2. Advance(w, "commit") => worker' \in [Workers -> WorkerState]
    BY <2>1 DEF Advance, TypeOK
  <2>3. worker' \in [Workers -> WorkerState]
    BY <1>5, <2>2, RaiseType DEF CheckDuplicate, Errors, InRound, HasReg
  <2> QED
    BY <1>5, <2>3 DEF CheckDuplicate, TypeOK, tables, taskVars
<1>6. CASE CommitRaises(w)
  <2>1. worker' \in [Workers -> WorkerState]
    BY <1>6, RaiseType DEF CommitRaises, Errors, RemoteErrors, InRound, HasReg
  <2> QED
    BY <1>6, <2>1 DEF CommitRaises, TypeOK, tables, taskVars
<1>7. CASE HandleLeaseLost(w)
  BY <1>7, <1>g DEF HandleLeaseLost, TypeOK, tables, taskVars
<1>8. CASE CommitSuccess(w)
  <2> DEFINE s == worker[w].sso
             reg == worker[w].reg
             row == [aliases[id] EXCEPT !.status = "used", !.category = "", !.sso = s,
                       !.owner = NoOwner, !.lease = "none",
                       !.at = NextStamp(aliases, id[1])]
  <2>1. id \in AliasIds /\ reg \in RegIds /\ s \in Ssos
    BY <1>8, <1>w DEF CommitSuccess, WorkerState, InRound, HasReg
  <2>2. aliases[id] \in AliasRow
    BY <2>1 DEF TypeOK
  <2>3. row \in AliasRow
    BY <2>1, <2>2, StampIsNat DEF AliasRow, AliasStatus, Categories, Owners
  <2>4. aliases' \in [AliasIds -> AliasRow]
    BY <1>8, <2>3 DEF CommitSuccess, TypeOK
  <2>5. [registrations[reg] EXCEPT !.status = "success", !.sso = s] \in RegRow
    <3>1. registrations[reg] \in RegRow
      BY <2>1 DEF TypeOK
    <3> QED
      BY <2>1, <3>1 DEF RegRow, RegStatus
  <2>6. registrations' \in [RegIds -> RegRow]
    BY <1>8, <2>5 DEF CommitSuccess, TypeOK
  <2>7. ledger' \in [Ssos -> (RegIds \X AliasIds) \cup {NoEntry}]
    BY <1>8, <2>1 DEF CommitSuccess, TypeOK
  <2>8. accounts' \in [Accounts -> AccountStatus]
    BY <1>8 DEF CommitSuccess, Completed, TypeOK, AccountStatus
  <2> QED
    BY <1>8, <1>g, <2>4, <2>6, <2>7, <2>8 DEF CommitSuccess, TypeOK, taskVars
<1>r. worker[w].pc = "failed" => id \in AliasIds /\ worker[w].reg \in RegIds
  BY <1>w DEF WorkerState, InRound, HasReg
<1>9. CASE HandleAbort(w)
  <2>1. Settle(worker[w].reg, "failed") \in [RegIds -> RegRow]
    BY <1>9, <1>r, SettleType DEF HandleAbort, RegStatus
  <2>2. aliases[id] \in AliasRow /\ aliases[id].retry \in Nat
    BY <1>9, <1>r DEF HandleAbort, TypeOK, AliasRow
  <2>3. Requeued(aliases[id], aliases[id].retry, "") \in AliasRow
    BY <2>2, RequeuedIsRow DEF Categories
  <2> QED
    BY <1>9, <1>g, <2>1, <2>3 DEF HandleAbort, TypeOK
<1>10. CASE HandleExisting(w)
  <2>1. Settle(worker[w].reg, "skipped") \in [RegIds -> RegRow]
    BY <1>10, <1>r, SettleType DEF HandleExisting, RegStatus
  <2>2. aliases[id].retry \in Nat
    BY <1>10, <1>r DEF HandleExisting, TypeOK, AliasRow
  <2>3. accounts' \in [Accounts -> AccountStatus] /\ aliases' \in [AliasIds -> AliasRow]
    BY <1>10, <2>2, FailAliasTypes DEF HandleExisting, TypeOK, Categories
  <2> QED
    BY <1>10, <1>g, <2>1, <2>3 DEF HandleExisting, TypeOK, taskVars
<1>11. ASSUME NEW limit, NEW c \in Categories, FinishAttempt(w, limit, c), Goto(w, "loop"),
              UNCHANGED <<ledger, aliasLimit, taskVars>>, worker[w].pc = "failed"
       PROVE TypeOK'
  <2>1. registrations' = Settle(worker[w].reg, "failed")
    BY <1>11 DEF FinishAttempt
  <2>2. registrations' \in [RegIds -> RegRow]
    BY <1>11, <1>r, <2>1, SettleType DEF RegStatus
  <2> QED
    BY <1>11, <1>g, <2>2, FinishAttemptTypes DEF TypeOK, taskVars
<1>12. CASE HandleDuplicate(w)
  BY <1>11, <1>12 DEF HandleDuplicate, Categories
<1>13. CASE HandleFailure(w)
  BY <1>11, <1>13 DEF HandleFailure, Categories
<1>14. CASE HandlerRaises(w)
  BY <1>14, <1>g, ReleasedType DEF HandlerRaises, TypeOK, taskVars
<1> QED
  BY <1>1, <1>2, <1>3, <1>4, <1>5, <1>6, <1>7, <1>8, <1>9, <1>10, <1>12, <1>13, <1>14 DEF Round

\* A heartbeat changes one field of a lease or of a worker.
LEMMA HeartbeatKeepsTypes ==
  ASSUME TypeOK, NEW w \in Workers, Heartbeat(w)
  PROVE TypeOK'
<1> DEFINE id == worker[w].alias
<1>1. CASE HoldsLease(w)
  <2>1. id \in AliasIds /\ aliases[id] \in AliasRow
    BY <1>1 DEF HoldsLease, TypeOK
  <2>2. [aliases[id] EXCEPT !.lease = "live"] \in AliasRow
    BY <2>1 DEF AliasRow
  <2> QED
    BY <1>1, <2>1, <2>2 DEF Heartbeat, TypeOK, taskVars
<1>2. CASE ~HoldsLease(w)
  <2>1. worker[w] \in WorkerState
    BY DEF TypeOK
  <2>2. [worker[w] EXCEPT !.lost = TRUE] \in WorkerState
    BY <2>1 DEF WorkerState, WorkerFields, InRound, HasReg
  <2> QED
    BY <1>2, <2>2 DEF Heartbeat, TypeOK, taskVars
<1> QED
  BY <1>1, <1>2

\* The status computed at startup is an account status.
LEMMA SyncedType ==
  ASSUME TypeOK, NEW cap PROVE SyncedAccounts(cap) \in [Accounts -> AccountStatus]
  BY DEF SyncedAccounts, TypeOK, AccountStatus

\* Startup recovery keeps the types.
LEMMA BootKeepsTypes ==
  ASSUME TypeOK, Boot
  PROVE TypeOK'
<1> DEFINE regs(cutoff) == [r \in RegIds |->
             IF r \in Stale(cutoff) THEN [RecoveredRegs[r] EXCEPT !.status = "interrupted"]
             ELSE RecoveredRegs[r]]
<1>1. PICK cutoff \in 0 .. MaxRegs : registrations' = regs(cutoff) /\ aliases' = Revived(Stale(cutoff))
  BY DEF Boot
<1>2. \A r \in RegIds : RecoveredRegs[r] \in RegRow
  BY RecoveredTypes
<1>3. \A r \in RegIds : [RecoveredRegs[r] EXCEPT !.status = "interrupted"] \in RegRow
  BY <1>2 DEF RegRow, RegStatus
<1>4. regs(cutoff) \in [RegIds -> RegRow]
  BY <1>2, <1>3
<1>5. \A id \in AliasIds : RecoveredRows[id] \in AliasRow
  BY RecoveredTypes
<1>6. \A id \in AliasIds : RecoveredRows[id].retry \in Nat
  BY <1>5 DEF AliasRow
<1>7. \A id \in AliasIds : Requeued(RecoveredRows[id], RecoveredRows[id].retry, "") \in AliasRow
  BY <1>5, <1>6, RequeuedIsRow DEF Categories
<1>8. Revived(Stale(cutoff)) \in [AliasIds -> AliasRow]
  BY <1>5, <1>7 DEF Revived
<1>9. registrations' \in [RegIds -> RegRow] /\ aliases' \in [AliasIds -> AliasRow]
  BY <1>1, <1>4, <1>8
<1> HIDE DEF regs
<1> QED
  BY <1>9, SyncedType DEF Boot, TypeOK

\* Tasks, time and crashes keep the types.
LEMMA EnvironmentKeepsTypes ==
  ASSUME TypeOK, Environment
  PROVE TypeOK'
<1>o. \A w \in Workers : At("off") \in WorkerState /\ At("loop") \in WorkerState
  BY DEF WorkerState, WorkerFields, InRound, HasReg, At, Places, Errors
<1>1. CASE StartTask
  <2>1. task' \in 0 .. MaxTasks
    BY <1>1, ConstantsAssumption DEF StartTask, TypeOK
  <2> QED
    BY <1>1, <1>o, <2>1 DEF StartTask, TypeOK, tables
<1>2. CASE StopTask
  BY <1>2 DEF StopTask, TypeOK, tables
<1>3. CASE EndTask
  BY <1>3 DEF EndTask, TypeOK, tables
<1>4. CASE Crash
  BY <1>4, <1>o DEF Crash, TypeOK, tables
<1>5. ASSUME NEW id \in AliasIds, LeaseRunsOut(id) PROVE TypeOK'
  <2>1. aliases[id] \in AliasRow
    BY DEF TypeOK
  <2>2. [aliases[id] EXCEPT !.lease = "expired"] \in AliasRow
    BY <2>1 DEF AliasRow
  <2> QED
    BY <1>5, <2>2 DEF LeaseRunsOut, TypeOK, taskVars
<1> QED
  BY <1>1, <1>2, <1>3, <1>4, <1>5, BootKeepsTypes DEF Environment

\* The operator's edits keep the types.
LEMMA OperatorKeepsTypes ==
  ASSUME TypeOK, OperatorEdit
  PROVE TypeOK'
<1>1. ASSUME NEW a \in Accounts, ResetAccount(a) PROVE TypeOK'
  <2>1. \A id \in AliasIds : aliases[id] \in AliasRow
    BY DEF TypeOK
  <2>2. \A id \in AliasIds :
          [aliases[id] EXCEPT !.status = "ready", !.sso = NoSso, !.category = "",
                              !.retry = 0, !.at = 0] \in AliasRow
    BY <2>1 DEF AliasRow, AliasStatus, Categories
  <2>3. aliases' \in [AliasIds -> AliasRow]
    BY <1>1, <2>1, <2>2 DEF ResetAccount
  <2> QED
    BY <1>1, <2>3 DEF ResetAccount, TypeOK, taskVars, AccountStatus
<1>2. ASSUME NEW a \in Accounts, DeleteAccount(a) PROVE TypeOK'
  <2>1. NoRow \in AliasRow
    BY DEF AliasRow, NoRow, AliasStatus, Categories, Owners
  <2>2. aliases' \in [AliasIds -> AliasRow]
    BY <1>2, <2>1 DEF DeleteAccount, TypeOK
  <2>3. \A r \in RegIds : registrations[r] \in RegRow
    BY DEF TypeOK
  <2>4. \A r \in RegIds : [registrations[r] EXCEPT !.alias = NoAlias] \in RegRow
    BY <2>3 DEF RegRow
  <2>5. registrations' \in [RegIds -> RegRow]
    BY <1>2, <2>3, <2>4 DEF DeleteAccount
  <2> QED
    BY <1>2, <2>2, <2>5 DEF DeleteAccount, TypeOK, taskVars, AccountStatus
<1>3. ASSUME NEW a \in Accounts, ImportAccount(a) PROVE TypeOK'
  BY <1>3 DEF ImportAccount, TypeOK, taskVars, AccountStatus
<1>4. ASSUME NEW n \in AliasLimits, SetAliasLimit(n) PROVE TypeOK'
  BY <1>4, SyncedType DEF SetAliasLimit, TypeOK, taskVars
<1>5. CASE ClearResults
  <2>1. [NoReg EXCEPT !.status = "deleted"] \in RegRow
    BY DEF NoReg, RegRow, RegStatus
  <2>2. registrations' \in [RegIds -> RegRow]
    BY <1>5, <2>1 DEF ClearResults, TypeOK
  <2> QED
    BY <1>5, <2>2 DEF ClearResults, TypeOK, taskVars
<1> QED
  BY <1>1, <1>2, <1>3, <1>4, <1>5 DEF OperatorEdit

\* Every step keeps the types.
LEMMA NextKeepsTypes == TypeOK /\ [Next]_vars => TypeOK'
<1> SUFFICES ASSUME TypeOK, [Next]_vars PROVE TypeOK'
  OBVIOUS
<1>1. ASSUME NEW w \in Workers, WorkerStep(w) PROVE TypeOK'
  BY <1>1, ClaimKeepsTypes, RoundKeepsTypes DEF WorkerStep
<1>2. CASE UNCHANGED vars
  BY <1>2 DEF vars, TypeOK
<1> QED
  BY <1>1, <1>2, HeartbeatKeepsTypes, EnvironmentKeepsTypes, OperatorKeepsTypes DEF Next

\* Every table row, lease, ledger entry and worker record keeps its type.
THEOREM TypeCorrect == Spec => []TypeOK
  BY InitTypes, NextKeepsTypes, PTL DEF Spec
=============================================================================
