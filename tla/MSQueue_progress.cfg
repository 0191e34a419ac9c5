\* p1 keeps running, p2 may stop anywhere, and so may c1, except for Drained.
SPECIFICATION FairSpec
CONSTANTS
  c1 = c1
  n1 = n1
  n2 = n2
  n3 = n3
  p1 = p1
  p2 = p2
  v1 = v1
  Null = Null
  NoValue = NoValue
  Slot = {"anchor", "next"}
  Thread = {p1, p2, c1}
  Producers = {p1, p2}
  Consumers = {c1}
  Running = {p1}
  Node = {n1, n2, n3}
  Value = {v1}
PROPERTIES LockFree Drained
\* after the destructor nothing is left to do
CHECK_DEADLOCK FALSE
