SPECIFICATION Spec
CONSTANTS
  d1 = d1
  d2 = d2
  s1 = s1
  s2 = s2
  n1 = n1
  n2 = n2
  NoCR = NoCR
  OSD = {d1, d2}
  Node = {n1}
  NodeOf <- OneNode
  OverPVC = {d1, d2}
  Spare = {}
  InitialPodStates = {"running"}
  PodMoves <- CrashMoves
  InitialVersions = {"4.14"}
  InitialTools <- NoSwitch
  AllowUpgrade = FALSE
  InitialRejected = {}
  Rejectable = {}
  Lagging = {}
  CR = {c1, c2}
  Faults = {}
  MaxForcedPods = 0
  MaxCount = 0
INVARIANTS
  RemovalConfirmed
SYMMETRY PairSymmetry
CHECK_DEADLOCK FALSE
