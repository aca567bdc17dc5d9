SPECIFICATION FairSpec
CONSTANTS
  m1 = m1
  m2 = m2
  inbox = inbox
  Msgs = {m1, m2}
  Folders = {inbox}
  FolderOf <- InInbox
  MaxValidity = 2
  FaultKinds <- AllFaults
  MaxFaults = 2
  NoFolder = NoFolder
  NoCursor = NoCursor
INVARIANTS
  NothingBehindCursor
PROPERTIES
  FinishedNeverReimported
  DeltaCatchesUp
