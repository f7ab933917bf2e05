SPECIFICATION Spec
CONSTANTS
  Savers = {s1, s2}
  Loaders = {r1, r2}
  Inodes = {i1, i2, i3, i4, i5}
  NoFile = NoFile
  Configs = {c1, c2}
  Invalid = Invalid
  Truncated = Truncated
  Serialized = TRUE
SYMMETRY Symmetry
INVARIANTS
  TypeOK
  NeverCorrupt
  LoadsWhole
PROPERTIES
  AtomicSave
