\* Workloads in which no lazy insert meets a key that is erased and inserted again.
CONSTANTS
  t1 = t1
  t2 = t2
  v1 = v1
  Thread = {t1, t2}
  Value = {v1}
  Slot = {"a", "b", "c", "start"}
  Node = {n1, n2, n3}
  Null = Null
  Absent = Absent
  NoCall = NoCall
  Key <- MCKey
  Buckets = 2
  MemoizeHash = TRUE
  Roles <- MCRoles
SYMMETRY Symmetric
SPECIFICATION Spec
INVARIANTS MemorySafe NodesOwned ScanComplete
PROPERTY Linearizable
CHECK_DEADLOCK FALSE
