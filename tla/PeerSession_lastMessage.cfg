SPECIFICATION FairSpec
CONSTANTS
  MaxHandshakeRetries = 2
  MaxLosses = 1
  MaxOutages = 0
  MaxLinks = 1
  Recognised <- Both
PROPERTY HandshakeCompletes
CHECK_DEADLOCK FALSE
