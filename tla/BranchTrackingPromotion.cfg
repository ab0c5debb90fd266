CONSTANTS
  Revisions = {r1,r2}
  Configs = {c1,c2}
  Intended = {c1,c2}
  EventOrders = {TRUE}
  ScanOrders = {TRUE}
  MaxChanges = 1
  MaxAnalyses = 2
  MaxScans = 1
SPECIFICATION Spec
INVARIANTS
  EligibleAnalysisIsPublished
CHECK_DEADLOCK FALSE
