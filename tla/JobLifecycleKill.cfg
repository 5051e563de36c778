\* No fault at all: a container that exits just before it is killed.
SPECIFICATION Spec
CONSTANTS
  b1 = b1
  b2 = b2
  g1 = g1
  g2 = g2
  wb = wb
  wg = wg
  wx = wx
  h1 = h1
  h2 = h2
  NoJob = NoJob
  Job = {g1}
  KindOf <- MCKindOf
  Worker = {wg}
  Serves <- MCServes
  Misconfigured = {}
  WithCallback = {g1}
  Handler = {h1, h2}
  Timeout = 3
  PollInterval = 2
  Faults = {}
CHECK_DEADLOCK FALSE
INVARIANT
  CallbackTellsTerminal
