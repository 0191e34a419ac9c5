\* A lazy insert while its key is inserted and other keys are erased.
CONSTANTS
  t1 = t1
  t2 = t2
  v1 = v1
  Thread = {t1, t2}
  Value = {v1}
  Slot = {"a", "b", "c", "start"}
  Node = {n1, n2, n3}
  Null = Null
  Absent = Absent
  NoCall = NoCall
  Key <- MCKey
  Buckets = 2
  MemoizeHash = TRUE
  Roles <- LazyRoles
SYMMETRY Symmetric
SPECIFICATION Spec
INVARIANT OneElementPerKey
CHECK_DEADLOCK FALSE
