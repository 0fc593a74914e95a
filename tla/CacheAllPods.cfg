\* The processes stay up: two of them, one key of Redis, one modification.
CONSTANTS
  p1 = p1
  p2 = p2
  Process = {p1, p2}
  Thread = {1}
  StdKey = {}
  OgcKey = {"capabilities"}
  ObjKey = {}
  Restartable = {}
  UseMemory = TRUE
  NoValue = NoValue
  MaxVersion = 1
  MaxBroadcast = 1
SPECIFICATION Spec
SYMMETRY ProcessSymmetry
INVARIANT NewValuesOnAllPods
CHECK_DEADLOCK FALSE
