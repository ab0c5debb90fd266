CONSTANTS
  Revisions = {r1,r2}
  Configs = {c1,c2}
  Intended = {c1}
  EventOrders = {TRUE}
  ScanOrders = {TRUE}
  MaxChanges = 1
  MaxAnalyses = 1
  MaxScans = 1
SPECIFICATION Spec
INVARIANTS
  ActivationIsNeverBlocked
CHECK_DEADLOCK FALSE
