SPECIFICATION Spec
CONSTANTS
  d1 = d1
  d2 = d2
  s1 = s1
  s2 = s2
  n1 = n1
  n2 = n2
  NoCR = NoCR
  OSD = {d1, d2, s1, s2}
  Node = {n1}
  NodeOf <- OneNode
  OverPVC = {d1, d2, s1, s2}
  Spare = {s1, s2}
  InitialPodStates = {"crash", "running"}
  PodMoves <- FailMoves
  InitialVersions = {"4.14"}
  InitialTools <- NoSwitch
  AllowUpgrade = FALSE
  InitialRejected = {d1, d2}
  Rejectable = {}
  Lagging = {}
  CR = {c1}
  Faults = {"slow"}
  MaxForcedPods = 2
  MaxCount = 0
INVARIANTS
  NoOrphanedOSD
  RestartNotOwed
  ToolsRestored
  ReplacementsUp
CHECK_DEADLOCK FALSE
SYMMETRY OSDSymmetry
