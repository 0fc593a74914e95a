\* One process with two threads, the themes made out of capabilities that are cached too, one modification
\* and one broadcast.
CONSTANTS
  p1 = p1
  p2 = p2
  Process = {p1}
  Thread = {1, 2}
  StdKey = {"themes"}
  OgcKey = {"capabilities"}
  ObjKey = {}
  Restartable = {p1}
  UseMemory = TRUE
  NoValue = NoValue
  MaxVersion = 1
  MaxBroadcast = 1
SPECIFICATION FairSpec
PROPERTY CacheIsShared
PROPERTY InvalidationHandled
CHECK_DEADLOCK FALSE
