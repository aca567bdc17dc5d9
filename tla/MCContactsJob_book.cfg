SPECIFICATION FairSpec
CONSTANTS
  c1 = c1
  c2 = c2
  Contacts = {c1, c2}
  Connector = "google_workspace"
  MaxVer = 2
  FaultKinds <- AllFaults
  MaxFaults = 2
  NoContact = NoContact
  NoId = NoId
  NoCursor = NoCursor
INVARIANTS
  RowsMatchCopies
PROPERTIES
  ImplementsDeltaSync
  UpdatesInPlace
  DeltaRemovesDeleted
  ChangesArrive
