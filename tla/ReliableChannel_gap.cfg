SPECIFICATION FairLinkSpec
CONSTANTS
  Items = {a}
  WindowSize = 2
  ReorderBufferSize = 2
  SackWidth = 1
  MaxAttempts = 2
  Piggyback = TRUE
  MaxSubmitted = 2
  MaxResumes = 1
PROPERTY ConfirmedReachesApplication
CHECK_DEADLOCK FALSE
