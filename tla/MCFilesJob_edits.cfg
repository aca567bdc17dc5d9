SPECIFICATION FairSpec
CONSTANTS
  a = a
  b = b
  f = f
  g = g
  Top = Top
  Folders = {a, b}
  Files = {f}
  Parent <- DeepParent
  Name <- OwnName
  Large = {f}
  Connector = "google_workspace"
  MaxVer = 2
  FaultKinds <- AllFaults
  MaxFaults = 3
  NoItem = NoItem
  NoId = NoId
  NoCursor = NoCursor
INVARIANTS
  PlacedUnlessCutOff
  BehindCursorStored
  CopiesAccounted
PROPERTIES
  DeltaUpdatesInPlace
  EditsArrive
