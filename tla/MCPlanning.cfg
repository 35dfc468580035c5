CONSTANTS
  c1 = c1
  c2 = c2
  page = page
  person = person
  r1 = r1
  r2 = r2
  d1 = d1
  Items <- TwoItems
  ProductItems <- NoItem
  Accounts <- AllAccounts
  ManualAccounts <- ByHandOnly
  QueueSlots <- SomeSlots
  MaxVersion = 1
  MaxSlot = 3
  Modes <- LiveOnly
  MaxQueries = 0
  Window = 1
  Requests <- TwoRequests
  Writers <- OneWriter
  Drafts <- OneDraft
  UsageLimit = 1
  MaxBeyond = 1
  MaxFacts = 2
  MaxEdits = 2
  MaxStrategies = 2
  TimZones <- BothZones
  DayQuarters = 4
  WeekDays = 2
  ScanReach = 2
  Horizon = 2
  QueueRules <- TwoRules
  TimLast = 3
SPECIFICATION PlanningSpec
SYMMETRY AnyItem
INVARIANTS
  SlotsApart
  UsageWithinLimit
  LabelsTellTheTruth
  TimesMeanWhatTheySay
PROPERTIES
  LiveContentIsConfirmed
