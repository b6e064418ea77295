SPECIFICATION Spec
CONSTANTS
  d1 = d1
  d2 = d2
  s1 = s1
  s2 = s2
  n1 = n1
  n2 = n2
  NoCR = NoCR
  OSD = {d1, d2}
  Node = {n1, n2}
  NodeOf <- TwoNodes
  OverPVC = {d2}
  Spare = {}
  InitialPodStates = {"pending", "init", "initerror", "initcrash"}
  PodMoves <- StartMoves
  InitialVersions = {"4.15"}
  InitialTools <- NewSwitch
  AllowUpgrade = FALSE
  InitialRejected = {}
  Rejectable = {d2}
  Lagging = {}
  CR = {c1}
  Faults = {"api", "crash", "touch", "delete", "stale", "slow"}
  MaxForcedPods = 0
  MaxCount = 0
INVARIANTS
  OneTrueCondition
  NeverDisablesUserTools
PROPERTIES
  FlowRefinement
CHECK_DEADLOCK FALSE
