SPECIFICATION DSpec
CONSTANTS
  Runs = {j1, j2}
  Scores = {1, 2}
  Margin = 0
  ManualFlags = {FALSE}
  MaxModelAgeDays = 0
  DriftShare = 0
  DriftThreshold = 1
  Serialized = FALSE
  MaxVersions = 2
  MaxDay = 0
  Partitions = {0}
  SeedDates = {0}
  Seeders = {s1}
  Waiting = Waiting
  Ended = Ended
  Pinned = TRUE
  Nothing = Nothing
SYMMETRY Symmetry
INVARIANTS
  StampMatchesModel
