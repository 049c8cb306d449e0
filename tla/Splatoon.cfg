SPECIFICATION MCSpec
CONSTANTS
  a = a
  b = b
  a1 = a1
  b1 = b1
  c1 = c1
  l1 = l1
  l2 = l2
  Players = {a, b}
  Erased = a
  Writes = {w1, w2}
  Teams = {t1, t2}
  Paths = {a1, b1, c1}
  UserOf <- MCUserOf
  AttributesOf <- MCAttributesOf
  NoSave = NoSave
  NoTeam = NoTeam
  NoUser = NoUser
  NoFile = NoFile
  Failures = {"put", "delete", "remove"}
  UgcMaxOps = 1
  UgcMaxDocs = 1
  MaxWrites = 2
  MaxErasures = 2
  LobbyNames = {none}
  Listeners = {l1, l2}
  TokenOf <- MCTokenOf
  Calls = {p1, p2}
  QueueCap = 2
  LastMs = 2
  MaxSeq = 1
  Consoles = {a, b}
  Me = a
  VsPeriod = 2
  CoopPeriod = 4
  SeasonPeriod = 32
  Day = 4
  GenerateHours = 8
  RefreshAhead = 4
  MinAhead = 2
  OperatorFiles <- MCOperatorFiles
  Missing = Missing
  Unreadable = Unreadable
  Down = Down
  Epoch = 32
  MaxTime = 46
  MaxEdits = 2
CHECK_DEADLOCK FALSE
INVARIANTS ProgressKept FirstChoiceWins ErasedNotServed SameOrder ServesPresent
PROPERTIES LoginReturns BattleStarts
