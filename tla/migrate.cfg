SPECIFICATION MigrateSpec
CONSTANTS
  Account = {e1, e2}
  MAC = {m1}
  ProfileID = {p1}
  Secret = {s1}
  MaxChanges = 1
  MaxRuns = 2
  None = None
SYMMETRY AccountSymmetry
CHECK_DEADLOCK FALSE
INVARIANT QuietRunExact
INVARIANT NothingLost
INVARIANT NothingForged
INVARIANT PartialOnlyIfSpoiled
