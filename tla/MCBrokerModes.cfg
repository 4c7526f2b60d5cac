CONSTANTS
  Scenarios = {"serial", "pipelined", "supersede", "register"}
  Parked = Parked  None = None  s1 = s1  a1 = a1  a2 = a2
  Workers = {w1, w2}  Names = {a, b}
  MaxUploads = 2  MaxCrashes = 1  MaxExpiries = 0
SPECIFICATION SuiteSpec
SYMMETRY StrokeSymmetry
CHECK_DEADLOCK FALSE
INVARIANTS AnsweredIsRegistered
PROPERTIES DecisionsHold FirstNameStays
