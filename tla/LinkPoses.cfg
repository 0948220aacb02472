SPECIFICATION FairSpec
CONSTANTS
  SequenceModulus = 4
  ConfiguredRate = 2
  RequestedRates <- OneRate
  MaxClients = 2
  MaxKeyframeRequests = 1
  MaxInFlight = 2
  MaxDelay = 1
  Nobody = Nobody
INVARIANTS TypeOK NewestSurvives HandshakeIsKept
PROPERTY RestartedClientIsFollowed
CHECK_DEADLOCK FALSE
