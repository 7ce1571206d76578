SPECIFICATION FileSpec
CONSTANTS
  NumChunks = 2
  RunLengths = {2}
  Window = 1
  AckEvery = 1
  MaxChunkAttempts = 1
  MaxWrites = 1
  MaxMishaps = 1
CHECK_DEADLOCK FALSE
INVARIANT OnlyAgreedIsReceived
