SPECIFICATION FairSpec
CONSTANTS
  MaxHandshakeRetries = 1
  MaxLosses = 1
  MaxOutages = 1
  MaxLinks = 2
  Recognised <- OnlyDialer
INVARIANT ConnectedIsWatched
PROPERTY InitiatorCompletes
CHECK_DEADLOCK FALSE
