CONSTANTS
  reg = reg
  sup = sup
  res = res
  edit = edit
  original = original
  view = view
  manifest = manifest
  marker = marker
  incoming = incoming
  None = None
  w1 = w1
  w2 = w2
  Workers = {w1, w2}
  Events = {reg, res}
  Registration = reg
  Paths = {original, view, manifest, marker, incoming}
  Tracked <- MCTracked
  ObjWrites <- MCObjWrites
  RelWrites <- MCRelWrites
  EditOf <- MCEditOf
  MaxFaults = 2
SPECIFICATION FairSpec
PROPERTY PendingResolves
