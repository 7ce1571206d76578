SPECIFICATION DeliveriesSpec
CONSTANTS
  Items = {a}
  WindowSize = 2
  ReorderBufferSize = 2
  SackWidth = 1
  MaxAttempts = 2
  Piggyback = TRUE
  MaxSubmitted = 3
  MaxResumes = 1
  NumRows = 2
  MaxSendAttempts = 2
  MaxSessions = 2
  MaxGiveUps = 1
  MaxReconnects = 1
  NumChunks = 3
  RunLengths = {2}
  Window = 1
  AckEvery = 1
  MaxChunkAttempts = 2
  MaxWrites = 1
  MaxMishaps = 2
  People = {1, 2, 3, 4, 5}
  Outings <- RoomOutings
  MaxGroupSize = 5
  MaxHops = 4
  RelayBudget = 1
  MaxGroupEpoch = 9
  MaxEpochAdvance = 5
  Phones = {p, q}
  AutoJoin = FALSE
  MaxSessionId = 2
  MaxQueries = 2
  MaxEpoch = 2
  MaxInFlight = 2
  MaxWatchLosses = 1
INVARIANTS
  StoredOnce
  TickIsHonest
  
  
  
  RostersAgree
  PlayerFollowsLine
PROPERTY EverythingSettles
CHECK_DEADLOCK FALSE
