SPECIFICATION FairSpec
CONSTANTS
  Replica = {r1, r2}
  NoHolder = NoHolder
  CertPaths = {"webhook", "metrics"}
  LeaderElect = TRUE
  RenewDeadline = 2
  LeaseDuration = 3
  MaxFailures = 3
INVARIANTS
  TypeOK
  OneWorker
  ServesOwnMetrics
PROPERTIES
  ActiveAgain
