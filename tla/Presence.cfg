SPECIFICATION Spec
CONSTANTS
  u1 = u1
  u2 = u2
  s1 = s1
  s2 = s2
  status = status
  room = room
  Offline = Offline
  Users = {u1, u2}
  KeepAlives = {s1, s2}
  UserOf <- MCUserOf
  Updates <- MCUpdates
  FriendSets <- MCFriendSets
  Wanted <- MCWanted
  Erasable = {u1}
  MaxUpdates = 3
  MaxLists = 2
INVARIANTS
  OnlineIsHeld
  PublishedIsKept
PROPERTIES
  ViewsCatchUp
