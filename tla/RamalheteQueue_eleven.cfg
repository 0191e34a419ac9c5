\* A number of entries that is a multiple of step_size: one thread is enough.
CONSTANTS
  m1 = m1
  m2 = m2
  m3 = m3
  Thread = {t1}
  Node <- MCNode
  EntriesPerNode = 11
  Null = Null
  Value = {v1, v2}
  NoValue = NoValue
  Spoiled = Spoiled
  Pusher = {t1}
  EarlyPusher = {}
  Popper = {t1}
  MaxPops = 3
SYMMETRY Symmetric
SPECIFICATION Spec
INVARIANT InOrder
CHECK_DEADLOCK FALSE
