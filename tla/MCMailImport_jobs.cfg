SPECIFICATION FairSpec
CONSTANTS
  w1 = w1
  w2 = w2
  Workers = {w1, w2}
  Msgs = {"m", "n"}
  LabelPath <- MCLabelPath
  LabelsOf <- MCLabelsOf
  Policy = "categories"
  Mode = "mime"
  Bulky = {"n"}
  Refuses <- MCRefuses
  MaxFaults = 1
INVARIANTS
  LandsInItsFolder
  RowsTellOfFolders
  CopiesAccounted
  FailsForAReason
PROPERTIES
  DoneStays
  EveryMessageArrives
