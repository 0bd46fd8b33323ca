\* Two protocol workers, one account, leases that run out under a live worker, and
\* process deaths.
CONSTANTS
  Workers = {w1, w2}
  Accounts = {1}
  Imported = {1}
  MaxIndex = 2
  Ssos = {s1, s2}
  MaxRegs = 4
  MaxTasks = 2
  RetryLimits = {1}
  AliasLimits = {2}
  FailureBudget = 1
  Provider = "microsoft"
  ChecksLease = TRUE
  Hazards = {"expiry", "crash"}
SYMMETRY Interchangeable
SPECIFICATION Spec
INVARIANTS
  TypeOK
  WorkIsAccounted
PROPERTIES
  LateHolderIsHarmless
\* The task may have ended for good.
CHECK_DEADLOCK FALSE
