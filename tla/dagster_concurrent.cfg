SPECIFICATION DSpec
CONSTANTS
  Runs = {j1, j2}
  Scores = {1}
  Margin = 0
  ManualFlags = {TRUE}
  MaxModelAgeDays = 0
  DriftShare = 0
  DriftThreshold = 1
  Serialized = FALSE
  MaxVersions = 2
  MaxDay = 1
  Partitions = {0, 1}
  SeedDates = {0}
  Seeders = {s1, s2}
  Waiting = Waiting
  Ended = Ended
  Pinned = FALSE
  Nothing = Nothing
SYMMETRY Symmetry
INVARIANTS
  DTypeOK
  InvalidTrainingReported
  NoneNeverServed

  
