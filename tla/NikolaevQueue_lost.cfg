\* Two threads that push and pop, nodes of one place.
CONSTANTS
  m1 = m1
  m2 = m2
  m3 = m3
  Thread = {t1, t2}
  Node <- MCNode
  Ring <- MCRing
  Cap = 1
  PopRetries = 0
  Nil = Nil
  Null = Null
  Value = {v1, v2}
  NoValue = NoValue
  Pusher = {t1, t2}
  EarlyPusher = {}
  Popper = {t1, t2}
  MaxPops = 2
  MaxHead = 3
SYMMETRY Symmetric
SPECIFICATION Spec
INVARIANTS NothingLost
CHECK_DEADLOCK FALSE
