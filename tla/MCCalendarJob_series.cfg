SPECIFICATION FairSpec
CONSTANTS
  e = e
  s = s
  o = o
  Events = {s}
  Occurrences = {o}
  Master <- OfSeries
  Connector = "google_workspace"
  MaxVer = 2
  FaultKinds <- AllFaults
  MaxFaults = 2
  NoItem = NoItem
  NoId = NoId
  NoCursor = NoCursor
INVARIANTS
  BehindCursorApplied
PROPERTIES
  UpdatesInPlace
  FailedItemReported
  ChangesArrive
