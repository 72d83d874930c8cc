SPECIFICATION SharesSpec
CONSTANTS
  Calls = {c1, c2}
  Handles = {h1}
  Systems = {"windows", "windows10", "macos", "ios", "android", "linux"}
  MaxDrops = 1
  Reuse = FALSE
  None = None
  Stores = {}
  Maps = {m0}
  Empty = m0
  Targets = {"unix"}
  Platforms = {"linux"}
  MaxKeys = 0
  MaxTroubles = 0
  MaxCancels = 0
  Entries = {e1, e2}
  MaxCrashes = 1
INVARIANTS
  SharesKept
  SheetsServeCalls
PROPERTIES
  NoLateSheet
  SharesSettle
CHECK_DEADLOCK FALSE
