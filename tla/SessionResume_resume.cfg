SPECIFICATION FairResumeSpec
CONSTANTS
  MaxHandshakeRetries = 0
  MaxLosses = 0
  MaxOutages = 1
  MaxLinks = 2
  MaxTries = 1
  Recognised <- OnlyDialer
INVARIANT ReconnectIsDriven
INVARIANT ChannelsRun
PROPERTY OutageIsOvercome
CHECK_DEADLOCK FALSE
