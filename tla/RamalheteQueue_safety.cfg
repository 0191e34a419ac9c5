\* Two threads push until the first node is full; then one of them pushes on
\* while the other one and a third thread pop.
CONSTANTS
  m1 = m1
  m2 = m2
  m3 = m3
  Thread = {t1, t2, t3}
  Node <- MCNode
  EntriesPerNode = 1
  Null = Null
  Value = {v1, v2, v3}
  NoValue = NoValue
  Spoiled = Spoiled
  Pusher = {t1, t2}
  EarlyPusher = {t2}
  Popper = {t2, t3}
  MaxPops = 3
SYMMETRY Symmetric
SPECIFICATION Spec
INVARIANTS MemorySafe NothingLost InOrder EmptyIsTrue
CHECK_DEADLOCK FALSE
