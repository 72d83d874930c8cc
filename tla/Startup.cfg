SPECIFICATION BothSpec
CONSTANTS
  Producers = {p1, p2}
  Subscribers = {s1, s2}
  Kinds = {"queue", "latest"}
  MaxEvents = 3
  PreStartCapacity = 2
  PublishCapacity = 2
  SubscribeCapacity = 1
  StarterModes = {TRUE, FALSE}
  None = None
  Starters = {t1, t2}
  App = "app"
  Expected = {"hosted", "expected"}
  Remotes = {"expected", "remote"}
  Others = {"other"}
  Width = 2
  Bodies = {m0, m1}
  Empty = m0
INVARIANTS
  EventsKept
  StartsWhole
  FramesKeepMeaning
PROPERTY EventsArrive
CHECK_DEADLOCK FALSE
