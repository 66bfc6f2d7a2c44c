SPECIFICATION Spec
CONSTANTS
  Requests = {r1, r2}
  Tiers <- TwoTiers
  Horizon = 4
  Second = 2
  MaxTime = 7
  None = None
SYMMETRY RequestSymmetry
INVARIANTS
  OvershootBounded
  ServedBounded
  NothingForgotten
  AdviceIsTight
PROPERTIES
  AdviceSuffices
CHECK_DEADLOCK FALSE
