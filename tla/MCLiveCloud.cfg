CONSTANTS
  Scenarios = {"outbox", "services", "service", "drive"}
  Parked = Parked  None = None  w1 = w1  w2 = w2  g1 = g1  a = a  b = b
  reg = reg  sup = sup  res = res
  original_pdf = original_pdf  view = view  manifest = manifest  marker = marker
SPECIFICATION Spec
CHECK_DEADLOCK FALSE
PROPERTIES CommitsEnd DriveArrives
