SPECIFICATION FairSpec
CONSTANTS
  Sessions = {s1}
  NoRun = NoRun
  Clicks = {"run"}
  OnePerSecond = TRUE
  Patient = TRUE
  MaxLaunches = 1
  MaxSecond = 0
PROPERTIES
  EndIsShown
