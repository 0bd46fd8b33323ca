\* Liveness: no expiry, no operator.
CONSTANTS
  Workers = {w1, w2}
  Accounts = {1}
  Imported = {1}
  MaxIndex = 2
  Ssos = {s1, s2}
  MaxRegs = 9
  MaxTasks = 1
  RetryLimits = {2}
  AliasLimits = {2}
  FailureBudget = 1
  Provider = "microsoft"
  ChecksLease = TRUE
  Hazards = {}
SPECIFICATION FairSpec
PROPERTIES
  TaskDrains
\* The task may have ended for good.
CHECK_DEADLOCK FALSE
