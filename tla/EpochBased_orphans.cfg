\* Three threads: one advances the epoch, one ends, one still has a guard.
CONSTANTS
  t1 = t1
  t2 = t2
  Thread = {t1, t2, t3}
  Block = {b1, b2, b3}
  Node = {n1}
  Cell = {c1}
  GuardId = {g1}
  Policies <- EndingPolicy
  MaxEpoch = 2
  Null = Null
SYMMETRY SymmetricReaders
SPECIFICATION Spec
PROPERTY DeleterWaits
CHECK_DEADLOCK FALSE
