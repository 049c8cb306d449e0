SPECIFICATION Spec
CONSTANTS
  Streams = {s1, s2}
  Calls = {c1}
  Named = {s1, c1}
  ActiveTTL = 6
  SweepEvery = 6
  Timeout = 1
  BaasTTL = 6
  MaxTurns = 2
INVARIANTS
  BanBites
PROPERTIES
  RefusedOnlyWhenBanned
