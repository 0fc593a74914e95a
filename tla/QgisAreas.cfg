\* One thread at a time, the OGC server is there from the beginning.
CONSTANTS
  t1 = t1
  t2 = t2
  Thread = {t1}
  Handler = Handler
  AreaKey = {"read", "write"}
  NoValue = NoValue
  NoRights = NoRights
  Raised = Raised
  Failed = Failed
  Unknown = Unknown
  UnknownIn <- AlwaysLinked
  ServerVersion = 0
  MaxVersion = 1
  MaxBroadcast = 1
  MaxFailure = 0
SPECIFICATION Spec
INVARIANT AreaInvalidated
CHECK_DEADLOCK FALSE
