\* A job that ends within JOB_TTL of its submission, and one that need not.
SPECIFICATION Spec
CONSTANTS
  b1 = b1
  g1 = g1
  KindOf <- MCKindOf
  Job = {b1, g1}
  TTL = 3
  MaxTime = 4
  MaxCancels = 1
  Prompt = {g1}
CHECK_DEADLOCK FALSE
INVARIANTS
  TypeOK
  LiveDirIsKept
  RecordsExpire
  PromptKindIsKept
PROPERTY
  ArtifactOutlivesRecord
