\* The bounds of every part; one part a behaviour.
CONSTANTS
  t1 = t1
  t2 = t2
  n1 = n1
  n2 = n2
  m1 = m1
  theme1 = theme1
  theme2 = theme2
  group1 = group1
  group2 = group2
  layer1 = layer1
  layer2 = layer2
  layer3 = layer3
  anon = anon
  role1 = role1
  desktop = desktop
  u3 = u3
  ref1 = ref1
  axis = axis
  f1 = f1
  f2 = f2
  f3 = f3
  f4 = f4
  server1 = server1
  server2 = server2
  None = None
  Parts = {"schema", "account", "oidc", "search", "raster", "short", "block", "files", "filter"}
  Thread = {t1, t2}
  DataLayer = {layer1, layer2}
  Generated = {g1, g2}
  Chosen = {c1}
  Secret = {s1}
  Call = {browser}
  Tab = {tabA, tabB}
  UserName = {n1, n2}
  Mail = {m1, m2}
  Subject <- FirstSubject
  Themes = {theme1, theme2}
  Groups = {group1, group2}
  TreeLayers = {layer1, layer2, layer3}
  Children <- TwoThemes
  ItemName <- Names
  Kind <- ThreeKinds
  Roles = {anon, role1}
  Interfaces = {desktop}
  Anonymous = anon
  ExportedTo = {desktop}
  Tables <- TreeContents
  Visits <- TwoOrders
  Edited = {theme1, layer1, layer2, layer3}
  Url = {u1, u2, u3}
  Ref = {ref1, ref2}
  Shortened = {u3}
  LastSegment <- ShortReference
  Input <- TimedLayers
  Dimensions = {axis}
  File = {f1, f2, f3, f4}
  Template = {f1, f2, f4}
  NewFile = {f2}
  Removed = {}
  Moved <- OneMove
  Include = {f1, f2}
  Exclude = {}
  Extra = {}
  Managed = {f1}
  NoTouch = {}
  Unmanaged = {}
  Document <- Documents
  Rows <- AllRights
  Server = {server1, server2}
  ServerUrl <- Urls
  Lower <- LowerNames
  Local <- LocalNames
  Piece = "piece"
  MaxRequests = 2
  MaxVersion = 2
  MaxConsecutiveFailures = 2
  MaxTokens = 2
  MaxTries = 1
  MaxHits = 2
  MaxLayers = 3
  MaxTroubles = 1
SPECIFICATION PortalSpec
CONSTRAINT Bound
SYMMETRY ThreadSymmetry
INVARIANTS PortalTypeOK HeadIsDeclared FailsOnlyForOrderOrRows FailuresCounted GeneratedIsChanged
INVARIANTS MailedPasswordWorks RefreshTokenIsGood RememberedIsOneUser SearchAndThemesAgree OpenDataSets
INVARIANTS ShortUrlsResolve TimesAreServed UpgradesAreComplete CapabilitiesAreFiltered
PROPERTY DowngradeUndoes
CHECK_DEADLOCK FALSE
