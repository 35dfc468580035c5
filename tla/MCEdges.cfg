CONSTANTS
  k1 = k1
  c1 = c1
  w1 = w1
  w2 = w2
  none = none
  a1 = a1
  a2 = a2
  address = address
  origin = origin
  u1 = u1
  u2 = u2
  file = file
  i1 = i1
  i2 = i2
  b1 = b1
  account = account
  Keys = {k1}
  Channels <- OneChannel
  Processes = {w1, w2}
  Workers = {w1, w2}
  NoProcess = none
  Cooldown = 1
  StallPoints <- Anywhere
  MaxEvents = 3
  MaxClaims = 2
  MaxTime = 1
  MaxCrashes = 1
  Attempts <- TwoAttempts
  Emails <- OneAddress
  Origins <- OneOrigin
  MaxFailures = 2
  WindowTime = 2
  BlockTime = 3
  LastTime = 5
  MaxLag = 1
  Uploads <- TwoUploads
  Files <- OneFile
  Limit = 2
  BatchSize = 2
  MaxScanned = 3
  MaxAssets = 6
  Importers <- TwoImporters
  LastComment = 2
  Publications <- OneJob
  MaxRecords = 2
  LastInstant = 3
  CommitLag = 1
  Zones <- SomeZones
  DayLength = 2
  MonthDays = 1
  AnaAccounts <- OneAccount
  GrainLength <- ShortGrains
  StaleAfter = 1
  HealthRows = 3
  Readings = {0, 2}
  MaxSyncs = 3
  AnaLastTime = 2
SPECIFICATION EdgesSpec
SYMMETRY Alike
INVARIANTS
  CooldownKept
  EnoughFailuresBlock
  AssetsHaveTheirFiles
  PagesShowEverything
  NoIntentLost
  ReportIsSound
  NumbersAreRead
PROPERTIES
  LeaseProtects
  FailuresKeepBlocks
CHECK_DEADLOCK FALSE
