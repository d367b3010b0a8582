SPECIFICATION PathSpec
CONSTANTS
  Calls = {search, query, secret, invented}
  Registered = {search, query, secret}
  Permitted = {search, query}
  NoCall = nocall
  MaxSteps = 6
  MaxToolCalls = 5
  MaxCost = 3
  MaxBill = 2
  StoredSql = 2
  SafeSlugs = {"database", "sales"}
  Database = "database"
  MaxBilled = 3
  Devices = {d1, d2}
  Named = {d1, d2}
  Online = {d1}
  MaxValues = 1
  RowCaps = {1, 2}
  Preview = 1
  Size = 6
  Overlap = 1
  Lengths = {2, 9}
  MaxBlocks = 3
  MaxSentences = 2
  Changes = {c1, c2, c3}
  FirstRow = c0
  Slugs = {"database", "sales"}
  Settable = {"settings", "enabled"}
  Bearers = {b1, b2}
  Kids = {k1, k2}
  FirstKid = k1
  Life = 1
  MaxTime = 2
  Threads = {t1, t2}
  Threshold = 2
  Recovery = 2
  Attempts = 2
  MaxCalls = 5
  LastTick = 3
  Chats = {q1, q2}
  Runs = {u1}
  Keep = 1
  Batch = 1
  LastDay = 4
  Questions = 3
  Clients = 3
INVARIANTS
  PathTypeOK
  WithinCeilings
  DenialsCounted
  EachIsOffered
  
  HintsComplete
  CutIsFlagged
  TextKept
  ChunksFit
  NothingTakenBack
  WithdrawnInTime
  GoodTokenNotRefused
  CheckpointsStay
  AnswersItsQuestion
  UncheckedOnce
PROPERTIES
  RunsOnce
  RefusesExactly
  SweptOrFull
CHECK_DEADLOCK FALSE
