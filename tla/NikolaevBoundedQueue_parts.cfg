\* Two threads, two places.
CONSTANTS
  Thread = {t1, t2}
  Ring = {"alloc", "free"}
  Cap = 2
  PopRetries = 1
  Nil = Nil
  Value = {v1, v2, v3}
  NoValue = NoValue
  Pusher = {t1, t2}
  Popper = {t1, t2}
  MaxPush = 4
  MaxPop = 3
SYMMETRY Symmetric
SPECIFICATION Spec
INVARIANTS TypeOK IndexOnce AllDestroyed
CHECK_DEADLOCK FALSE
