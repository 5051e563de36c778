\* A pruning and a job that begins between its listing and its evictions.
SPECIFICATION Spec
CONSTANTS
  b = b
  g = g
  NoProject = NoProject
  NoKey = NoKey
  KindOf <- MCKindOf
  Worker = {b, g}
  Project = {p1}
  Key = {k1}
  MaxAge = 1
  MaxBytes = 0
CHECK_DEADLOCK FALSE
PROPERTY
  AgeEvictsUnused
