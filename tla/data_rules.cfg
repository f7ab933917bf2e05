SPECIFICATION Spec
CONSTANTS
  Null = Null
  Windows = 3
  Columns <- FourColumns
  Declared = 200
  Key = "member_id"
  Target = "buyer_stage"
  WindowTables <- TwoRowTables
  FitFrames <- WithTarget
  BatchFrames <- WithKey
  NumericSets <- AnyNumeric
  Classes = {"A", "B"}
  RowCounts = {0, 1, 2}
  MinRows = {0, 1, 2}
  Dates = {1, 2, 3, 4, 5}
  PitWindows = {0, 1, 2}
  ScoredBatches <- UpToFourRows
INVARIANTS
  JoinKeepsEntities
  ReshapedIsValid
  NoSkew
  ClassesSupported
  PitSymmetric
  LastWriteWins
