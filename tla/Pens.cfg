SPECIFICATION PensSpec
CONSTANTS
  Sides = {"windows", "strokes"}
  Ids = {1, 2}
  hwnd1 = hwnd1
  hwnd2 = hwnd2
  hwnd3 = hwnd3
  NativesOf <- NativesOfMC
  Threads = {t1, t2}
  PenClients = {c1}
  Targets = {"windows", "macos", "x11", "wayland"}
  Overlap = FALSE
  MaxStates = 3
  MaxOps = 3
  pen1 = pen1
  pen2 = pen2
  Tools = {pen1, pen2}
  Buttons = {b1}
  Backends = {"xinput2", "wayland", "windows", "macos", "libinput"}
  OnePlug = TRUE
  MaxActs = 6
  Rects = {r1}
  Tasks = {}
  MaxBanners = 1
  MaxRetargets = 0
  Hide = Hide
  None = None
  MaxReadings = 1
  MaxNative = 0
  Starts = {}
  Stops = {}
  Waiters = {}
  MaxDrops = 0
  Locks = {}
INVARIANTS
  WindowsSettled
  ViewFollows
PROPERTY StrokesAreWhole
CHECK_DEADLOCK FALSE
