CONSTANTS
  Artifacts = {"a1", "a2"}
  Revisions = {"r1", "r2"}
  RevisionOf <- OneEach
  MaxChange = 1
  ServingAt <- Rollout
  ServingEvents <- SomeEvents
  AttemptEvents <- AllAttempts
  MaxEpoch = 2
  AuthorityOf <- OneAuthority
  Sessions = {x, y}
  MaxAttempts = 2
  Bounds <- SomeBounds
  None = None
  Snapshots <- SomeSnapshots
  Publishable <- Strict
  MaxPointer = 2
  MaxVersion = 2
  BoundsOf <- BoundsByKey
SPECIFICATION PublicationsSpec
INVARIANTS
  RecordsAgree
  EvidenceNotIgnored
  RequestSurvives
  ReadersAreServed
PROPERTIES
  NothingIsUndone
SYMMETRY Twin
CHECK_DEADLOCK FALSE
