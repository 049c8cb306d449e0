SPECIFICATION Spec
CONSTANTS
  u1 = u1
  u2 = u2
  quick = quick
  friend = friend
  Users = {u1, u2}
  Configs = {quick, friend}
  FriendConfigs = {friend}
  CapacityOf <- MCCapacityOf
  Creations <- MCCreations
  Syncs <- MCSyncs
  Versions = {"", "a", "b"}
  NoVersion = ""
  VersionsOf <- MCVersionsOf
  Erasable = {u2}
  Passwords = {"", "pw"}
  NoPassword = ""
  Tickets = {t1}
  Calls = {c1, c2}
  NoUser = NoUser
  NoConfig = NoConfig
  MaxSessions = 2
  MaxSeats = 3
INVARIANTS
  MapsAgree
  OneSeatEach
  HostLeads
  OneFarmPerHost
  PoolClosesEmpty
  ListedIsJoinable
PROPERTIES
  MatchedOnce
  SeatsWithinCapacity
  SeatedWithOwnVersion
SYMMETRY MCSymmetry
CHECK_DEADLOCK FALSE
