SPECIFICATION ServingSpec
CONSTANTS
  Entities = {e1, e2}
  Loads = {w1, w2}
  NoRow = NoRow
  Batches <- AnyBatch
  Models = {m1, m2}
  Backend = "sqlite"
  Serialized = FALSE
  Readers = {q}
  Servers = {api}
CHECK_DEADLOCK FALSE
SYMMETRY Symmetry
INVARIANTS
  TypeOK
  SummaryPlausible
  RefusedOnce
PROPERTIES
  AtomicSwap
  NeverWiped
  StaysFound
