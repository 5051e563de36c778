\* Liveness of the generate queue alone: the build worker may stop at any point.
SPECIFICATION GenerateLaneSpec
CONSTANTS
  b1 = b1
  b2 = b2
  g1 = g1
  g2 = g2
  wb = wb
  wg = wg
  wx = wx
  h1 = h1
  h2 = h2
  NoJob = NoJob
  Job = {b1, g1, g2}
  KindOf <- MCKindOf
  Worker = {wb, wg}
  Serves <- MCServes
  Misconfigured = {}
  WithCallback = {}
  Handler = {}
  Timeout = 2
  PollInterval = 1
  Faults = {}
CHECK_DEADLOCK FALSE
PROPERTIES
  GenerateJobsSettle
