\* A build and a generate worker on two projects.
SPECIFICATION Spec
CONSTANTS
  b = b
  g = g
  NoProject = NoProject
  NoKey = NoKey
  KindOf <- MCKindOf
  Worker = {b, g}
  Project = {p1, p2}
  Key = {k1}
  MaxAge = 1
  MaxBytes = 1
SYMMETRY Symmetry
CHECK_DEADLOCK FALSE
INVARIANTS
  TypeOK
  PartialIsABuilds
  FilesAreOwn
  GeneratedIsCached
PROPERTIES
  PruningFits
  SpaceEvictsOldest
