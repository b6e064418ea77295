SPECIFICATION Spec
CONSTANTS
  InitContainers = 3
  Containers = 3
INVARIANTS
  StabilizeVerdict
  PodStateExact
PROPERTIES
  PodMovesAllowed
