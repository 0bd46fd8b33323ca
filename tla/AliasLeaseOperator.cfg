\* Accounts imported and reset, results cleared and the alias limit changed under
\* running workers.
CONSTANTS
  Workers = {w1, w2}
  Accounts = {1}
  Imported = {}
  MaxIndex = 1
  Ssos = {s1}
  MaxRegs = 3
  MaxTasks = 1
  RetryLimits = {1}
  AliasLimits = {1, 2}
  FailureBudget = 0
  Provider = "microsoft"
  ChecksLease = TRUE
  Hazards = {"reset", "clear", "limit", "import"}
SYMMETRY Interchangeable
SPECIFICATION Spec
INVARIANTS
  OneLeasePerAccount
  LedgerBacksRecords
  EditsAreSafe
PROPERTIES
  LedgerSpec
  AccountsFollowLimit
\* The task may have ended for good.
CHECK_DEADLOCK FALSE
