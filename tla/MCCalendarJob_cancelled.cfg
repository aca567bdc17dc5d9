SPECIFICATION Spec
CONSTANTS
  e = e
  s = s
  o = o
  Events = {e}
  Occurrences = {}
  Master <- OfSeries
  Connector = "google_workspace"
  MaxVer = 2
  FaultKinds <- WriteFaults
  MaxFaults = 1
  NoItem = NoItem
  NoId = NoId
  NoCursor = NoCursor
INVARIANTS
  EveryCancelledRemoved
