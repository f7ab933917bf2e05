SPECIFICATION Spec
CONSTANTS
  Sessions = {s1, s2}
  NoRun = NoRun
  Clicks = {"run", "seed"}
  OnePerSecond = TRUE
  Patient = FALSE
  MaxLaunches = 2
  MaxSecond = 1
SYMMETRY Symmetry
INVARIANTS
  TypeOK
  FreshNumbers
  OwnSummary
  FinishedHasSummary
  EnabledMeansIdle
