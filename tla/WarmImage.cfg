\* Two runs of the script, at once or one after the other.
SPECIFICATION Spec
CONSTANTS
  Image = {i1, i2, i3}
  NoImage = NoImage
  Run = {r1, r2}
  NoRun = NoRun
  NChecks = 2
SYMMETRY Symmetry
CHECK_DEADLOCK FALSE
INVARIANTS
  TypeOK
  PromotionIsSafe
PROPERTIES
  PromotesTested
  WarmStays
