SPECIFICATION Spec
CONSTANTS
  n1 = n1
  n2 = n2
  n3 = n3
  n4 = n4
  t1 = t1
  t2 = t2
  v1 = v1
  v2 = v2
  Null = Null
  NoValue = NoValue
  Slot = {"anchor", "next"}
  Thread = {t1, t2}
  Producers = {t1, t2}
  Consumers = {t1, t2}
  Running = {}
  Node = {n1, n2, n3, n4}
  Value = {v1, v2}
SYMMETRY Symmetric
INVARIANTS MemorySafe ListShape NoLeak
PROPERTY Linearizable
\* after the destructor nothing is left to do
CHECK_DEADLOCK FALSE
