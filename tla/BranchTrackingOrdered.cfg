CONSTANTS
  Revisions = {r1,r2}
  Configs = {c1}
  Intended = {c1}
  EventOrders = {TRUE}
  ScanOrders = {TRUE}
  MaxChanges = 2
  MaxAnalyses = 4
  MaxScans = 2
SPECIFICATION FairSpec
INVARIANTS
  NoUpdateIsUndone
PROPERTIES
  CheckpointCatchesUp
CHECK_DEADLOCK FALSE
