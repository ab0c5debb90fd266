CONSTANTS
  Revisions = {r1,r2}
  Configs = {c1}
  Intended = {c1}
  EventOrders = {TRUE}
  ScanOrders = {TRUE}
  MaxChanges = 3
  MaxAnalyses = 3
  MaxScans = 1
SPECIFICATION Spec
INVARIANTS
  UnchangedTargetMayReuse
CHECK_DEADLOCK FALSE
