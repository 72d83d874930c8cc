SPECIFICATION ReadingSpec
CONSTANTS
  Streams = {s1}
  PeerStreams = {p1}
  MaxItems = 2
  Capacity = 1
  OutboundCap = 1
  MayShutDown = TRUE
INVARIANTS
  StreamsWhole
PROPERTY StreamsGoOn
CHECK_DEADLOCK FALSE
