\* One registration and everything that may go wrong between its commit and the last
\* retry, under each choice of backends.
CONSTANTS
  Regs = {1}
  Setups <- EitherEngine
  Limit = 1
  RetryDelay = 1
  Interval = 1
  StaleUpload = 2
  Hopeless = {}
  MaxFailures = 1
  MaxCrashes = 1
  Hazards = {"dberror", "delete"}
SPECIFICATION FairSpec
INVARIANTS
  DeliveryAccounted
  OverlapNeedsDelay
  ClaimIsHeld
PROPERTIES
  SettledIsFinal
  SuccessArrives
