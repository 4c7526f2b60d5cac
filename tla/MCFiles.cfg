CONSTANTS
  Scenarios = {"journal", "install", "agreed", "failing", "rival", "unixPaths", "windowsPaths"}
  Parked = Parked  None = None  absent = absent  torn = torn
  e0 = e0  j1 = j1  j2 = j2  p1 = p1  p2 = p2
  MaxEdits = 2  MaxViews = 2  MaxCrashes = 1  MaxErrors = 1
SPECIFICATION SuiteSpec
CHECK_DEADLOCK FALSE
INVARIANTS EditPreserved RolesKeepApart
PROPERTIES AtomicJournal OnlyKnownContentRetired PublishedPairs
