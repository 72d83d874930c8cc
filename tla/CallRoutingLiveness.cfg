CONSTANTS
  None = None
  MaxId = 1
  PeerIds = {11}
  OutboundCap = 1
  MayShutDown = TRUE
  MayPanic = FALSE
  MayWait = TRUE
SPECIFICATION FairSpec
PROPERTY CallsEnd
CHECK_DEADLOCK FALSE
