CONSTANTS
  Endpoints = {"a", "b", "c"}
  Schemas = {"S", "T"}
  Evidence = {"v", "w"}
  Files = {"x", "y", "."}
  NoEndpoint = "service"
  Snapshots <- SomeGraphs
  Inputs <- SomeInputs
  Families <- SomeFamilies
  Conditions <- SomeConditions
  Heads = {h1}
  Configs = {c1, c2}
  MaxChanges = 3
  MaxPreviews = 3
  MaxScans = 2
  Absent = Absent
  Activations <- SomeActivations
  Policies <- SomePolicies
  Batches <- SomeBatches
  Corpora <- SomeCorpora
  MaxVersion = 2
  MaxTime = 2
  MaxRevision = 2
  MaxImports = 2
  WindowEnds = {1}
  MaxImporting = 1
  Limits = {1, 2}
  Requests = {1, 2}
  MaxInspected = 3
  MaxServices = 2
  MaxSize = 2
  ServiceLimit = 2
  Principals = {"x", "y"}
  Services = {"s", "t"}
  Inference <- SomeInference
  NoProvider = "none"
  Contracts <- SomeContracts
  Outputs <- SomeOutputs
  Selections = {{"a", "b"}}
  MaxServed = 2
  MaxContextChanges = 1
  MaxCalls = 1
  MaxHistory = 2
  MaxReviews = 2
  MaxGroups = 4
  Seekers = {"x"}
  MaxAsked = 1
  CacheEntries = 2
  MaxClears = 1
  Contents <- SomeContents
  Analyzers = {"tree", "document"}
  DocumentAnalyzers = {"document"}
  Document = "b"
  LeasedJobs <- SomeJobs
  Associations <- SomeAssociations
  MaxPromotions = 1
  Writers = {w1, w2}
  Readers = {u}
  Scopes = {"A", "B"}
  Ingestions <- SomeIngestions
  Promotions <- SomePromotions
  MaxPromoted = 2
  MaxPolicyChanges = 1
  JobNotices = {}
  Consumers = {}
  MaxDeliveries = 1
  ClaimLimit = 1
  Registrations <- SomeRegistrations
  Events <- SomeEvents
  Dispositions = {"scheduled", "ignored_stale"}
  Administrators = {"a", "b"}
  AdminEvidence <- SomeEvidence
  MaxActivations = 4
  MaxRedelivered = 1
SPECIFICATION ServicesSpec
INVARIANTS
  PlanIsFaithful
  ExecutionIsFaithful
  DifferencesAreSound
  PullRequestIsFollowed
  PresenceIsSound
  SearchIsHonest
  AnswersAreGrounded
  CatalogIsHonest
  LedgerIsKept
PROPERTY PullRequestMovesForward
CHECK_DEADLOCK FALSE
