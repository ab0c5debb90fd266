CONSTANTS
  Captures = {"c1"}
  Loads = {"l1"}
  CaptureOf <- OneLoad
  Services = {"s"}
  ServiceOf <- OneService
  Environments = {"staging"}
  EnvironmentOf <- OnePlace
  Roots = {"r1", "r2"}
  RootOf <- MovedRoot
  NoRoot = NoRoot
  MaxEpoch = 2
  Digests = {"d1"}
  Sessions = {"x", "y"}
  MaxAttempts = 2
  MaxLeases = 2
  MaxQueued = 2
  BatchSize = 1
  None = None
SPECIFICATION FairSpec
INVARIANTS
  WithinLimits
  ClaimIsNeverBlocked
  SuccessHasItsReceipt
PROPERTIES
  SupersededOnlyCancelled
  ImplementsReceipts
  AdmittedJobsSettle
CHECK_DEADLOCK FALSE
