\* Two requests at a time of two users, up to three features, two places.
CONSTANTS
  t1 = t1
  t2 = t2
  Role = {"anonymous", "intranet", "registered", "editor", "expert"}
  Place = {"north", "south"}
  Anonymous = "anonymous"
  Intranet = "intranet"
  Registered = "registered"
  Null = Null
  User = {"alice", "bob"}
  UserRoles <- RolesOf
  InIntranet = {"alice"}
  Thread = {t1, t2}
  LayerChoice <- Layers
  MaxId = 3
  NoRow = NoRow
SPECIFICATION Spec
SYMMETRY ThreadSymmetry
INVARIANTS TypeOK WrittenWithin WriterReads
CHECK_DEADLOCK FALSE
