CONSTANTS
  NoJob = NoJob
  Jobs <- SmallJobs
  Services = {"s1"}
  Repositories = {"r1"}
  Configs = {"c1"}
  ServiceOf <- SmallServiceOf
  RepositoryOf <- SmallRepositories
  SubjectOf <- SmallSubjectOf
  ProviderSubjects = {"pr"}
  FingerprintOf <- SmallFingerprints
  PrerequisitesOf <- SmallPrerequisites
  Policies <- PreviewPolicies
  DefaultPolicy <- PreviewDefault
  MaxAttempts = 2
  LeaseTicks = 2
  RetryBase = 1
  RetryMax = 2
  MaxClaimBatch = 2
  Sessions = {x}
  None = None
  JobNotices = {"m", "n"}
  Consumers = {y, z}
  MaxDeliveries = 2
  ClaimLimit = 1
  Clients = {t1, t2}
  JobRows <- SomeRows
  Operations <- SomeOperations
  Null = "null"
  Places = 1
  Place <- SomePlace
SPECIFICATION Hosted
INVARIANTS
  NoWaitCycle
  ActsUnderItsLocks
PROPERTIES
  CancellationTakesEffect
  EveryJobEnds
  RequiredIsObserved
  NoticesAreSettled
  EveryCallEnds
CHECK_DEADLOCK FALSE
