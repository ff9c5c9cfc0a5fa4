\* Updates, rollbacks, failing relabels and power failures.
SPECIFICATION Spec
CONSTANTS
  p1 = p1  p2 = p2  p3 = p3  f1 = f1  f2 = f2
  Policies = {p1, p2, p3}
  NoPolicy = NoPolicy
  Files = {f1, f2}
  MaxBoots = 5
INVARIANT RepeatedBootMatches
CHECK_DEADLOCK FALSE
