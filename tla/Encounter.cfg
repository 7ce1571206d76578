SPECIFICATION EncounterSpec
CONSTANTS
  MaxDatagrams = 4
  Realtime = {2, 4}
  ReliableDepth = 1
  RealtimeDepth = 1
  WedgedTimeouts = 2
  BusyRetries = 1
  MaxSilence = 2
  MaxRssiReads = 1
  MaxStops = 1
  ServerWedgedTimeouts = 2
  HoldDepth = 1
  MaxWritten = 3
  MaxLostAcks = 2
  MaxPowerCycles = 2
  MaxRequests = 3
  MaxScanFailures = 1
  MaxFallbacks = 1
  MaxResends = 1
  InitialAckBudget = 1
  MaxResumes = 1
  MaxLosses = 1
  MaxMigrations = 1
INVARIANTS
  ConsentIsMutual
  SheetIsTimed
  SendsAreHonest
  NothingHeldIsLost
  
PROPERTIES
  OutcomeLatches
  
  FriendshipCompletes
  
CHECK_DEADLOCK FALSE
