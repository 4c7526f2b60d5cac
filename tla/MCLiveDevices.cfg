CONSTANTS
  Scenarios = {"folder", "handoff", "install", "baselines", "settle", "cache", "saves", "faults", "record"}
  Parked = Parked  None = None  p1 = p1  p2 = p2
  Views = {v1, v2}  Candidate = v2  PageLists = {both, one}  Represented = both
  Revisions = {1, 2}  Hashes = {h1, h2}
SPECIFICATION SuiteSpec
CHECK_DEADLOCK FALSE
INVARIANTS ReloadAccepts ActivationJustified
PROPERTIES EditsConverge WorkFinishes EvidenceStands
