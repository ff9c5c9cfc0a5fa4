\* A rollback after an interrupted relabel.
SPECIFICATION Spec
CONSTANTS
  p1 = p1  p2 = p2  p3 = p3  f1 = f1  f2 = f2
  Policies = {p1, p2}
  NoPolicy = NoPolicy
  Files = {f1, f2}
  MaxBoots = 3
INVARIANT VarMatchesPolicy
CHECK_DEADLOCK FALSE
