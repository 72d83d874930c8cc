CONSTANTS
  camA = camA
  camB = camB
  picker = picker
  s1 = s1
  s2 = s2
  f1 = f1
  front = front
  o1 = o1
  o2 = o2
  None = None
  Cameras = {camA, camB}
  Picker = picker
  Requests = {s1, s2, f1}
  HostOf <- HostOfMC
  Watched = s1
  Readers = {u1}
  Depth = 1
  MaxFrames = 3
  Backends = {"desktop", "web"}
  Sessions = {c1, c2}
  Filmed = {c1}
  Configs <- ConfigsMC
  Asked <- AskedMC
  Sizes <- SizesMC
  Thrown <- ThrownMC
  MaxStamped = 2
  Paths = {p1, p2}
  Dialogs = {d1}
  Opens = {o1, o2}
  KindsOf <- KindsOfMC
SPECIFICATION AllSpec
INVARIANTS
  TablesMatchHandles
  SessionsAreTrue
  FilesServeOwners
PROPERTY ReleasedStreamsEnd
CHECK_DEADLOCK FALSE
