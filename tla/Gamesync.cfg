SPECIFICATION GamesyncSpec
CONSTANTS
  u1 = u1
  u2 = u2
  farm = farm
  Users = {u1, u2}
  Configs = {farm}
  FriendConfigs = {}
  CapacityOf <- MCCapacityOf
  Creations <- MCCreations
  Syncs = {}
  Versions = {""}
  NoVersion = ""
  VersionsOf <- MCVersionsOf
  Erasable = {}
  Passwords = {""}
  NoPassword = ""
  Tickets = {}
  Calls = {}
  NoUser = NoUser
  NoConfig = NoConfig
  MaxSessions = 2
  MaxSeats = 3
  Streams = {s1, s2}
  MaxRank = 3
INVARIANTS
  RanksDistinct
  OneSessionPerPlayer
PROPERTIES
  ArrivalOrder
  HostTakesFarm
CHECK_DEADLOCK FALSE
