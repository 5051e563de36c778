\* A job that waits for JOB_TTL or more in its queue.
SPECIFICATION Spec
CONSTANTS
  b1 = b1
  g1 = g1
  KindOf <- MCKindOf
  Job = {g1}
  TTL = 2
  MaxTime = 4
  MaxCancels = 1
  Prompt = {}
CHECK_DEADLOCK FALSE
INVARIANT
  KindIsKept
