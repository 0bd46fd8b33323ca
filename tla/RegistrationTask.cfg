\* Two workers and no target or one round; failing starts, bad requests, errors
\* of SQLite, and two request threads that pause, resume and stop in any order.
CONSTANTS
  Workers = {w1, w2}
  Callers = {c1, c2}
  Targets = {0, 1}
  MaxCompleted = 2
  Interval = TRUE
  Hazards = {"pause", "dberror", "boot", "badrequest"}
SPECIFICATION FairSpec
INVARIANTS
  CapacityRespected
  SlotsAreHeld
  TargetIsReached
  OneTaskAtATime
PROPERTIES
  StopEndsTask
\* With a leaked start lock and no task there is nothing left to do.
CHECK_DEADLOCK FALSE
