\* Clients that move and swap guards, and clients that copy them as well.
CONSTANTS
  Thread = {t1, t2}
  Block = {b1, b2}
  Node = {n1, n2}
  Cell = {c1}
  GuardId = {g1, g2}
  K = 2
  A = 0
  B = 1
  InUse <- NodesInUse
  Null = Null
  Link = Link
SYMMETRY Symmetric
SPECIFICATION Spec
INVARIANTS RetiredOnce BlockExclusive HpsAccounted
PROPERTIES DeleterWaits Promise
CHECK_DEADLOCK FALSE
