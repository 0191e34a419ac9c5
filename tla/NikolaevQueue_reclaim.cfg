\* A thread that pushes and one that pops and pushes.
CONSTANTS
  m1 = m1
  m2 = m2
  m3 = m3
  Thread = {t1, t2}
  Node <- MCNode
  Ring <- MCRing
  Cap = 1
  PopRetries = 0
  Nil = Nil
  Null = Null
  Value = {v1, v2, v3}
  NoValue = NoValue
  Pusher = {t1, t2}
  EarlyPusher = {}
  Popper = {t2}
  MaxPops = 2
  MaxHead = 2
SYMMETRY Symmetric
SPECIFICATION Spec
INVARIANTS MemorySafe
CHECK_DEADLOCK FALSE
