\* Values that a node owns (std::unique_ptr): what its destructor deletes.
CONSTANTS
  m1 = m1
  m2 = m2
  m3 = m3
  Thread = {t1, t2, t3}
  Node <- MCNode
  EntriesPerNode = 1
  Null = Null
  Value = {v1, v2, v3}
  NoValue = NoValue
  Spoiled = Spoiled
  Pusher = {t1, t2}
  EarlyPusher = {t2}
  Popper = {t2, t3}
  MaxPops = 3
SYMMETRY Symmetric
SPECIFICATION Spec
INVARIANT TypeOK DeletedOnce
CHECK_DEADLOCK FALSE
