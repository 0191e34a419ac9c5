\* Threads that do not undo each other's updates and inserts.
CONSTANTS
  t1 = t1
  t2 = t2
  v1 = v1
  v2 = v2
  Thread = {t1, t2}
  Key = {0, 4}
  Value = {v1, v2}
  Node = {n1, n2, n3, n4}
  ArrayLength = 2
  ArrayPow = 1
  HashBits = 3
  Null = Null
  Array = Array
  Free = Free
  NoCall = NoCall
  Roles <- MCRoles
  MaxSize = 3
SYMMETRY Symmetric
SPECIFICATION Spec
INVARIANTS MemorySafe NodesOwned
PROPERTY Linearizable
CHECK_DEADLOCK FALSE
