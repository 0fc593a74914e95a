\* Two threads, one key of the cache of areas, two modifications, two broadcasts, one failure; the OGC
\* server is created by the first modification.
CONSTANTS
  t1 = t1
  t2 = t2
  Thread = {t1, t2}
  Handler = Handler
  AreaKey = {"read"}
  NoValue = NoValue
  NoRights = NoRights
  Raised = Raised
  Failed = Failed
  Unknown = Unknown
  UnknownIn <- LinkedBySecond
  ServerVersion = 1
  MaxVersion = 2
  MaxBroadcast = 2
  MaxFailure = 1
SPECIFICATION FairSpec
INVARIANTS TypeOK PermissionsFresh RaisedOnlyByRace
PROPERTIES LayersAreShared InvalidationsCarriedOut CallsEnd
CHECK_DEADLOCK FALSE
