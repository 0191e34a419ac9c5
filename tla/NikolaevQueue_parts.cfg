\* Two threads push, nodes of one place; then one of them pushes on while the
\* other one and a third thread pop.
CONSTANTS
  m1 = m1
  m2 = m2
  m3 = m3
  Thread = {t1, t2, t3}
  Node <- MCNode
  Ring <- MCRing
  Cap = 1
  PopRetries = 0
  Nil = Nil
  Null = Null
  Value = {v1, v2}
  NoValue = NoValue
  Pusher = {t1, t2}
  EarlyPusher = {t2}
  Popper = {t2, t3}
  MaxPops = 2
  MaxHead = 3
SYMMETRY Symmetric
SPECIFICATION Spec
INVARIANTS TypeOK IndexOnce
CHECK_DEADLOCK FALSE
