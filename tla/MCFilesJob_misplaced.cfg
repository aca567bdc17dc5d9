SPECIFICATION Spec
CONSTANTS
  a = a
  b = b
  f = f
  g = g
  Top = Top
  Folders = {a, b}
  Files = {f, g}
  Parent <- NestedParent
  Name <- OwnName
  Large = {}
  Connector = "google_workspace"
  MaxVer = 1
  FaultKinds <- FolderFaults
  MaxFaults = 1
  NoItem = NoItem
  NoId = NoId
  NoCursor = NoCursor
INVARIANTS
  PlacedUnderParent
