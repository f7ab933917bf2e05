SPECIFICATION PSpec
CONSTANTS
  Runs = {r1, r2}
  Scores = {1, 2, 3}
  Margin = 1
  ManualFlags = {FALSE, TRUE}
  MaxModelAgeDays = 0
  DriftShare = 0
  DriftThreshold = 1
  Serialized = FALSE
  MaxVersions = 2
  MaxDay = 1
  Nothing = Nothing
SYMMETRY Symmetry
INVARIANTS
  NeverUnavailable
PROPERTIES
  OwnChallenger
  RegistryRefined
