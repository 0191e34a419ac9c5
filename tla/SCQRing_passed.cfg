\* Three threads on a ring for one index.
CONSTANTS
  Thread = {t1, t2, t3}
  Ring = {ring}
  Cap = 1
  PopRetries = 0
  Nil = Nil
  MaxHead = 5
  MaxTail = 5
SYMMETRY Symmetric
SPECIFICATION Spec
INVARIANT NothingPassed
CHECK_DEADLOCK FALSE
