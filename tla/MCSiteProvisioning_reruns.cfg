SPECIFICATION FairSpec
CONSTANTS
  d1 = d1
  d2 = d2
  d3 = d3
  Drives = {d1, d2, d3}
  Rank <- InOrder
  Alias <- SharedAlias
  FaultKinds <- AllFaults
  MaxFaults = 4
  NoDrive = NoDrive
  NoGroup = NoGroup
INVARIANTS
  OwnLibrary
PROPERTIES
  NeverPostsAgain
  EveryDriveGetsItsSite
