CONSTANTS
  NoJob = NoJob
  Jobs <- ScopeJobs
  Services = {"s1", "s2", "s3"}
  Repositories = {"r1", "r2"}
  Configs = {"c1"}
  ServiceOf <- ScopeServiceOf
  RepositoryOf <- ScopeRepositories
  SubjectOf <- ScopeSubjectOf
  ProviderSubjects = {"x1", "x2", "y", "z"}
  FingerprintOf <- ScopeFingerprints
  PrerequisitesOf <- ScopePrerequisites
  Policies <- ScopePolicies
  DefaultPolicy <- ScopeDefault
  MaxAttempts = 1
  LeaseTicks = 1
  RetryBase = 1
  RetryMax = 1
  MaxClaimBatch = 3
SPECIFICATION Spec
PROPERTIES
  CapacityRespected
