CONSTANTS
  None = None
  s1 = s1  s3 = s3
  Strokes = {s1, s3}
  PageOf <- PageOfStroke
  BooxKind = "manifest"
  Pipelined = TRUE
  Retries = {1}
  MaxUploads = 3
SPECIFICATION Spec
CHECK_DEADLOCK FALSE
INVARIANTS NothingLost NoRevisionSkipped
PROPERTIES MergesAsAnalysed UnseenInkStands
