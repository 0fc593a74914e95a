\* Two requests at a time, from eight trees; three capabilities documents.
CONSTANTS
  Theme = {"t"}
  Group = {"g1", "g2"}
  Layer = {"l"}
  a1 = a1
  a2 = a2
  Admin = {a1, a2}
  Document <- Documents
  Start <- Trees
  None = None
  MaxCopies = 3
  MaxRequests = 2
SPECIFICATION Spec
SYMMETRY Admins
INVARIANTS TypeOK TreeInv CycleOnlyUnchecked CopiesOnlyByRace
PROPERTIES ParentsOfCapabilities
CHECK_DEADLOCK FALSE
