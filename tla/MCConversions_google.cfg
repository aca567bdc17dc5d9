SPECIFICATION Spec
CHECK_DEADLOCK FALSE
CONSTANTS
  MonthLengths <- Lengths
  Years = 2
  SegmentMax = 5
  Reserved <- ReservedWords
  Forbidden <- ForbiddenNames
  LabelPath <- Path
  Events <- SomeEvents
  Edits <- SomeEdits
  Documents <- SomeDocuments
  Messages <- SomeMessages
INVARIANTS
  RepeatsAsBefore
  NamesAccepted
  LabelsPlaced
