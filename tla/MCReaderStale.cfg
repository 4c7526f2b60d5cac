CONSTANTS
  Scenarios = {"swap"}
  Parked = Parked  None = None
  c1 = c1  c2 = c2  p1 = p1  p2 = p2  d1 = d1  d2 = d2  m1 = m1  m2 = m2
  b1 = b1  b2 = b2  k1 = k1  k2 = k2  whole = whole  part = part
  Profiles <- KnownProfiles  Sent = {2, 4, 12}  Screen = whole  Regions = {whole, part}  Intervals = {0, 2, 3}
SPECIFICATION SuiteSpec
CHECK_DEADLOCK FALSE
INVARIANTS StaleInkKept
