\* One generate job that its archive may ship a cache file with.
SPECIFICATION Spec
CONSTANTS
  b = b
  g = g
  NoProject = NoProject
  NoKey = NoKey
  KindOf <- MCKindOf
  Worker = {g}
  Project = {p1}
  Key = {k1}
  MaxAge = 1
  MaxBytes = 0
CHECK_DEADLOCK FALSE
INVARIANT
  ListsWhatItProduced
