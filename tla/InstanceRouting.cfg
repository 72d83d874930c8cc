SPECIFICATION BothSpec
CONSTANTS
  Clients = {c1, c2}
  PeerClients = {d1}
  Hosted = {h1, h2}
  Remote = {r1}
  OutboundCap = 1
  None = None
  k1 = k1
  k2 = k2
INVARIANTS
  InstancesAreExact
  GeneratedEndsAgree
PROPERTY DroppedIsReleased
CHECK_DEADLOCK FALSE
