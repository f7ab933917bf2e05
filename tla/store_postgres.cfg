SPECIFICATION FairSpec
CONSTANTS
  Entities = {e1, e2}
  Loads = {w1, w2, w3}
  NoRow = NoRow
  Batches <- NonEmptyBatches
  Models = {m1, m2}
  Backend = "postgres"
  Serialized = FALSE
  Readers = {}
CHECK_DEADLOCK FALSE
INVARIANTS
  AllOrNothing
  MixReported
PROPERTIES
  NeverWiped
  LoadsEnd
