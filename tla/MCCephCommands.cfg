SPECIFICATION FairSpec
CONSTANTS
  WebSockets = TRUE
  MaxFaults = 3
INVARIANTS
  TypeOK
  CommandStartedOnce
PROPERTIES
  FitnessReached
CHECK_DEADLOCK FALSE
