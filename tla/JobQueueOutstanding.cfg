CONSTANTS
  NoJob = NoJob
  Jobs <- SmallJobs
  Services = {"s1"}
  Repositories = {"r1"}
  Configs = {"c1"}
  ServiceOf <- SmallServiceOf
  RepositoryOf <- SmallRepositories
  SubjectOf <- SmallSubjectOf
  ProviderSubjects = {"pr"}
  FingerprintOf <- SmallFingerprints
  PrerequisitesOf <- SmallPrerequisites
  Policies <- PreviewPolicies
  DefaultPolicy <- PreviewDefault
  MaxAttempts = 2
  LeaseTicks = 1
  RetryBase = 1
  RetryMax = 1
  MaxClaimBatch = 2
SPECIFICATION Spec
INVARIANTS
  OutstandingWorkCanBeCancelled
CHECK_DEADLOCK FALSE
