\* One attempt, no fault: the host answers with a redirect.
SPECIFICATION Spec
CONSTANTS
  CallbackRetries = 1
  Faults = {}
CHECK_DEADLOCK FALSE
INVARIANT
  FailuresAreRecorded
