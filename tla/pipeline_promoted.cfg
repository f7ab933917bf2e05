SPECIFICATION PSpec
CONSTANTS
  Runs = {r1, r2}
  Scores = {1, 2, 3}
  Margin = 1
  ManualFlags = {FALSE, TRUE}
  MaxModelAgeDays = 0
  DriftShare = 0
  DriftThreshold = 1
  Serialized = TRUE
  MaxVersions = 3
  MaxDay = 1
  Nothing = Nothing
SYMMETRY Symmetry
INVARIANTS
  PromotedTruth
