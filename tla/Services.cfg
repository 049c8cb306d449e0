SPECIFICATION MCSpec
CONSTANTS
  a = a
  b = b
  a1 = a1
  s1 = s1
  h = h
  r1 = r1
  r2 = r2
  r3 = r3
  r4 = r4
  n1 = n1
  n2 = n2
  n3 = n3
  c1 = c1
  c2 = c2
  Players = {a, b}
  Paths = {a1, s1}
  UserOf <- MCUserOf
  Nobody = Nobody
  UgcMaxOps = 2
  UgcMaxPerOwner = 1
  NoStore = NoStore
  MaxFailures = 2
  Names = {k1, k2}
  Watchers = {w}
  Targets <- MCTargets
  MaxPerOwner = 1
  WatchCap = 1
  Failures = {"delete", "get"}
  MaxVersion = 2
  Sessions = {g1}
  NoPair = NoPair
  MinLooks = 2
  MaxRestarts = 1
  Order <- MCOrder
  Home = h
  Fallback <- MCFallback
  RegionOfCountry <- MCRegionOfCountry
  CountryRoutes <- MCCountryRoutes
  Named <- MCNamed
  Nodes <- MCNodes
  NodeRegion <- MCNodeRegion
  TestNodes = {n3}
  Serves <- MCServes
  NoRegion = NoRegion
  NoToken = NoToken
  NoNode = NoNode
  NoCountry = NoCountry
  Hosts = {b}
  CountryOf <- MCCountryOf
  Rooms = {g1}
  Key <- MCKey
  NoHost = NoHost
  NoTable = NoTable
  NoAnswer = NoAnswer
  MaxMoves = 1
CHECK_DEADLOCK FALSE
INVARIANTS EtagGuards ReportedOnce PlacedNearest TestersOnly
PROPERTIES CommitsImplemented ReportEarned SharedReported
