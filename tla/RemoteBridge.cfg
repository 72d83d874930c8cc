SPECIFICATION Spec
CONSTANTS
  Own = {1, 2}
  Inbound = {2, 3}
  Opening = {3}
INVARIANT FramesFollow
PROPERTY PeersSettle
CHECK_DEADLOCK FALSE
