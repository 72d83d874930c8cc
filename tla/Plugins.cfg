SPECIFICATION AllSpec
CONSTANTS
  Rects = {r1, r2}
  Tasks = {t1, t2, t3}
  MaxBanners = 3
  MaxRetargets = 4
  Hide = Hide
  None = None
  MaxReadings = 2
  MaxNative = 1
  Starts = {a, b}
  Stops = {p}
  Waiters = {w1, w2}
  MaxDrops = 1
  Locks = {l1, l2}
INVARIANTS
  BannerServed
  SamplesAreTold
  AllOwned
PROPERTY PluginsSettle
CHECK_DEADLOCK FALSE
