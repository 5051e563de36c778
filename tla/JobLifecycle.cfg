\* A job with every fault, two cancel requests at a time and a misconfigured worker.
SPECIFICATION FairSpec
CONSTANTS
  b1 = b1
  b2 = b2
  g1 = g1
  g2 = g2
  wb = wb
  wg = wg
  wx = wx
  h1 = h1
  h2 = h2
  NoJob = NoJob
  Job = {g1}
  KindOf <- MCKindOf
  Worker = {wg, wx}
  Serves <- MCServes
  Misconfigured = {wx}
  WithCallback = {g1}
  Handler = {h1, h2}
  Timeout = 3
  PollInterval = 2
  Faults = {"api", "crash", "docker", "disk"}
CHECK_DEADLOCK FALSE
INVARIANTS
  TypeOK
  ContainerStopsFirst
  ServedArtifactIsComplete
  CallbackReportsOutcome
  CancelNoticedInOnePoll
  WaitIsBounded
PROPERTIES
  OutcomeStands
  RunsAdvance
  ImplementsDelivery
  ImplementsContract
  JobsSettle
  RunsAreReported
  ContainersStop
  EarlyCancelNeverRuns
