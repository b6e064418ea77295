SPECIFICATION Spec
CONSTANTS
  d1 = d1
  d2 = d2
  s1 = s1
  s2 = s2
  n1 = n1
  n2 = n2
  NoCR = NoCR
  OSD = {d1, s1}
  Node = {n1}
  NodeOf <- OneNode
  OverPVC = {d1, s1}
  Spare = {s1}
  InitialPodStates = {"crash"}
  PodMoves <- StartMoves
  InitialVersions = {"4.14"}
  InitialTools <- NoSwitch
  AllowUpgrade = TRUE
  InitialRejected = {}
  Rejectable = {}
  Lagging = {}
  CR = {c1}
  Faults = {"api", "crash", "stale", "slow"}
  MaxForcedPods = 0
  MaxCount = 0
INVARIANTS
  TypeOK
  OneTrueCondition
  JobTargetsDown
  NoJobLeftBehind
PROPERTIES
  FlowRefinement
CHECK_DEADLOCK FALSE
