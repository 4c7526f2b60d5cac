CONSTANTS
  reg = reg  sup = sup  res = res  edit = edit
  original = original  view = view  manifest = manifest  marker = marker  incoming = incoming
  None = None
  w1 = w1  w2 = w2
  Workers = {w1, w2}
  Events = {reg, sup, res, edit}
  Registration = reg
  Paths = {original, view, marker, incoming}
  Tracked <- MCTracked
  ObjWrites <- MCOneSided
  RelWrites <- MCRelWrites
  EditOf <- MCEditOf
  MaxFaults = 1
SYMMETRY WorkerSymmetry
SPECIFICATION Spec
INVARIANTS TypeOK ViewsBeforeState NoPrematureMarker NoDuplicateUpload RecoverablePayloads EditsNeverOverwritten
PROPERTY ImplementsCanonicalLog
