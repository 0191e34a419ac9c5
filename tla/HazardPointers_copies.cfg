\* Clients that copy guards: a copy does not keep a node that was retired before.
CONSTANTS
  Thread = {t1, t2}
  Block = {b1, b2}
  Node = {n1, n2}
  Cell = {c1}
  GuardId = {g1, g2}
  K = 2
  A = 0
  B = 1
  InUse <- NodesInUse
  Null = Null
  Link = Link
SYMMETRY Symmetric
SPECIFICATION Spec
PROPERTY AllOwnersWait
CHECK_DEADLOCK FALSE
