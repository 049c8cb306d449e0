SPECIFICATION Spec
CONSTANTS
  s1 = s1
  s2 = s2
  u1 = u1
  u2 = u2
  Users = {u1, u2}
  Streams = {s1, s2}
  Friends <- MCFriends
  Receivers <- MCReceivers
  Ids = {r1}
  Opens <- MCOpens
  Erasable = {u2}
  MaxQueued = 1
  MaxRequests = 1
  MaxAged = 1
INVARIANTS
  StoreAgrees
  NeedAckKept
  AckEndsMessage
PROPERTIES
  WakesDeliver
CHECK_DEADLOCK FALSE
