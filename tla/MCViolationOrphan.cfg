SPECIFICATION Spec
CONSTANTS
  d1 = d1
  d2 = d2
  s1 = s1
  s2 = s2
  n1 = n1
  n2 = n2
  NoCR = NoCR
  OSD = {d1}
  Node = {n1}
  NodeOf <- OneNode
  OverPVC = {d1}
  Spare = {}
  InitialPodStates = {"crash"}
  PodMoves <- StartMoves
  InitialVersions = {"4.14"}
  InitialTools <- NoSwitch
  AllowUpgrade = FALSE
  InitialRejected = {}
  Rejectable = {}
  Lagging = {}
  CR = {c1}
  Faults = {"crash", "slow"}
  MaxForcedPods = 1
  MaxCount = 1
INVARIANTS
  NoOrphanedOSD
CHECK_DEADLOCK FALSE
