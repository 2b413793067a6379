SPECIFICATION Spec
CONSTANTS
  p1 = p1
  p2 = p2
  k1 = k1
  k2 = k2
  Procs = {p1, p2}
  Keys = {k1, k2}
  KeyOf <- OwnKeys
  Records = {r1, r2}
  Inodes = {i1, i2, i3, i4}
  None = None
  Empty = Empty
  Torn = Torn
INVARIANTS
  TypeOK
  SaveIsAtomic
PROPERTY
  RecordSpec
