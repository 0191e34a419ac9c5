\* Blocks of one, two and four buckets.
CONSTANTS
  t1 = t1
  t2 = t2
  v1 = v1
  v2 = v2
  Thread = {t1, t2}
  Value = {v1, v2}
  Slot = {"block"}
  Node = {b1, b2, b3}
  Null = Null
  Absent = Absent
  NoCall = NoCall
  Key = {0, 1, 2, 3, 4, 5, 6}
  Cells = 2
  Items = 1
  Roles <- MCRoles
SYMMETRY Symmetric
SPECIFICATION Spec
INVARIANTS MemorySafe ItemsOwned ScanComplete
PROPERTY Linearizable
