SPECIFICATION FairSpec
CONSTANTS
  Msgs = {m1, m2}
  Bulky = {m1}
  Labelled = {m1}
  Connector = "microsoft365"
  FaultKinds <- AllFaults
  MaxFaults = 3
  NoCursor = {none}
  NoMsg = NoMsg
INVARIANTS
  NothingBehindCursor
  CopiesAccounted
PROPERTIES
  FinishedNeverReimported
  ImplementsDeltaSync
  DeltaCatchesUp
