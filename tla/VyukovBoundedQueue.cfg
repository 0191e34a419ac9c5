\* t1 keeps running inside its operations; t2 may stop anywhere.
SPECIFICATION FairSpec
CONSTANTS
  t1 = t1
  t2 = t2
  v1 = v1
  v2 = v2
  NoValue = NoValue
  Thread = {t1, t2}
  Running = {t1}
  Value = {v1, v2}
  Size = 2
  MaxPos = 5
INVARIANT Exclusive
PROPERTIES Linearizable Returns
\* nothing begins after MaxPos
CHECK_DEADLOCK FALSE
