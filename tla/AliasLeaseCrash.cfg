\* Two browser workers on temporary mailboxes, which are provisioned between two claims;
\* crashes and restarts, SQLite errors in handlers, deleted accounts, stops.
CONSTANTS
  Workers = {w1, w2}
  Accounts = {1, 2}
  Imported = {}
  MaxIndex = 0
  Ssos = {s1, s2}
  MaxRegs = 3
  MaxTasks = 2
  RetryLimits = {2}
  AliasLimits = {1}
  FailureBudget = 0
  Provider = "temporary"
  ChecksLease = FALSE
  Hazards = {"crash", "dberror", "delete", "stop"}
SYMMETRY Interchangeable
SPECIFICATION Spec
INVARIANTS
  IdentityRecordedOnce
  NothingLeftBehind
PROPERTIES
  RecordsSurvive
\* The task may have ended for good.
CHECK_DEADLOCK FALSE
