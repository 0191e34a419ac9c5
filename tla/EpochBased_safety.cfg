\* Two threads that begin and end, under three sets of policies.
CONSTANTS
  t1 = t1
  t2 = t2
  Thread = {t1, t2}
  Block = {b1, b2}
  Node = {n1, n2}
  Cell = {c1}
  GuardId = {g1, g2}
  Policies <- MCPolicies
  MaxEpoch = 3
  Null = Null
SYMMETRY Symmetric
SPECIFICATION Spec
INVARIANTS RetiredOnce EpochsInStep
PROPERTIES DeleterWaits Promise
CHECK_DEADLOCK FALSE
