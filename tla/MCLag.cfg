SPECIFICATION Spec
CONSTANTS
  d1 = d1
  d2 = d2
  s1 = s1
  s2 = s2
  n1 = n1
  n2 = n2
  NoCR = NoCR
  OSD = {d1, s1}
  Node = {n1}
  NodeOf <- OneNode
  OverPVC = {d1, s1}
  Spare = {s1}
  InitialPodStates = {"crash"}
  PodMoves <- StartMoves
  InitialVersions = {"4.14"}
  InitialTools <- NoSwitch
  AllowUpgrade = FALSE
  InitialRejected = {d1}
  Rejectable = {}
  Lagging = {"Pod", "PersistentVolume", "PersistentVolumeClaim", "Job"}
  CR = {c1}
  Faults = {"slow"}
  MaxForcedPods = 0
  MaxCount = 0
INVARIANTS
  JobTargetsDown
  RemovalConfirmed
  ReplacementsUp
CHECK_DEADLOCK FALSE
