SPECIFICATION FairSpec
CONSTANTS
  u1 = u1
  u2 = u2
  m1 = m1
  e1 = e1
  e2 = e2
  Users = {u1, u2}
  Items = {m1, e1, e2}
  Holds <- OwnItems
  Order <- Sequential
  Of <- Kinds
  Enabled = {"calendar", "files", "mail"}
  Supported = {"calendar", "mail"}
  Tolerant = {"calendar"}
  MaxWorkers <- Pools
  MaxTime = 1
  FaultKinds <- AllFaults
  MaxFaults = 2
  NoItem = NoItem
INVARIANTS
  NothingLeftBehind
PROPERTIES
  CommandEnds
