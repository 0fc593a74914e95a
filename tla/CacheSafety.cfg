\* Two processes that share one key of Redis, and may restart, one modification, one broadcast.
CONSTANTS
  p1 = p1
  p2 = p2
  Process = {p1, p2}
  Thread = {1}
  StdKey = {}
  OgcKey = {"capabilities"}
  ObjKey = {}
  Restartable = {p1, p2}
  UseMemory = TRUE
  NoValue = NoValue
  MaxVersion = 1
  MaxBroadcast = 1
SPECIFICATION Spec
SYMMETRY ProcessSymmetry
INVARIANTS TypeOK CacheInv StaleOnlyByRace
CHECK_DEADLOCK FALSE
