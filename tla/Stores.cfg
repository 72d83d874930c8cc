SPECIFICATION BothSpec
CONSTANTS
  Stores = {s1}
  Maps = {m0, m1, m2}
  Empty = m0
  Targets = {"windows", "unix"}
  Calls = {c1, c2, c3}
  Platforms = {"windows", "macos", "linux"}
  MaxKeys = 2
  MaxTroubles = 1
  MaxCancels = 1
  None = None
SYMMETRY CallsAlike
INVARIANTS
  SavedWhole
  AcknowledgedIsSaved
  VaultKeeps
  VerifiedOnly
PROPERTIES
  KeepsDurable
  ReadsAreTrue
CHECK_DEADLOCK FALSE
