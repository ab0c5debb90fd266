CONSTANTS
  Revisions = {r1,r2}
  Configs = {c1,c2,c3}
  Intended = {c1,c2}
  EventOrders = {TRUE,FALSE}
  ScanOrders = {TRUE,FALSE}
  MaxChanges = 2
  MaxAnalyses = 2
  MaxScans = 2
SPECIFICATION Spec
INVARIANTS
  CheckpointAgrees
  OnlyCurrentWorkRuns
  EvidenceIsTrue
SYMMETRY RevisionSymmetry
CHECK_DEADLOCK FALSE
