\* Two requests, two codes.
CONSTANTS
  r1 = r1
  r2 = r2
  r3 = r3
  n1 = n1
  n2 = n2
  n3 = n3
  None = None
  Client = {"qgis"}
  User = {"alice"}
  Code = {n1, n2}
  Thread = {r1, r2}
SPECIFICATION Spec
SYMMETRY Symmetry
PROPERTY OnlyUsedInvalidated
CHECK_DEADLOCK FALSE
