SPECIFICATION BothSpec
CONSTANTS
  Calls = {c1}
  Streams = {s1}
  Unhosted = {c1}
  Hosted = {h1}
  Capacity = 1
  Own = {}
  Inbound = {}
  Opening = {}
INVARIANT HostsTrack
PROPERTY HostsSettle
CHECK_DEADLOCK FALSE
