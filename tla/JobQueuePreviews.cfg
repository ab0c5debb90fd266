CONSTANTS
  NoJob = NoJob
  Jobs <- PreviewJobs
  Services = {"s1", "s2"}
  Repositories = {"r1"}
  Configs = {"c1", "c2"}
  ServiceOf <- PreviewServiceOf
  RepositoryOf <- PreviewRepositories
  SubjectOf <- PreviewSubjectOf
  ProviderSubjects = {"pr", "rec"}
  FingerprintOf <- PreviewFingerprints
  PrerequisitesOf <- PreviewPrerequisites
  Policies <- PreviewPolicies
  DefaultPolicy <- PreviewDefault
  MaxAttempts = 2
  LeaseTicks = 2
  RetryBase = 1
  RetryMax = 1
  MaxClaimBatch = 2
SPECIFICATION Spec
INVARIANTS
  RowsAreSound
  DependenciesHold
  StoppedWorkStaysStopped
  OnlyKnownWorkIsWanted
PROPERTIES
  LateAnswersChangeNothing
  FollowsLifecycle
