\* Three attempts (the default) over a network that loses and delays.
SPECIFICATION FairSpec
CONSTANTS
  CallbackRetries = 3
  Faults = {"crash", "network"}
CHECK_DEADLOCK FALSE
INVARIANTS
  TypeOK
  VerdictIsEarned
PROPERTIES
  ImplementsDelivery
  CallbackSettles
