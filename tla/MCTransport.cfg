CONSTANTS
  Scenarios = {"race", "crash", "baselines", "settle", "late", "restart", "lossy", "deltas", "views", "rounds", "spread"}
  Parked = Parked  None = None  s1 = s1  o1 = o1  n1 = n1
  Pages = {1, 2}  MaxBooxEdits = 1  MaxSupernoteEdits = 1  MaxExports = 3
  MaxCrashes = 0  MaxDrops = 0  Sequential = FALSE
SPECIFICATION SuiteSpec
CHECK_DEADLOCK FALSE
INVARIANTS HandoffKeepsInk ConversionFaithful
PROPERTIES TransportSound NoInkLost UploadsFaithful SpreadFaithful
