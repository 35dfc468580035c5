CONSTANTS
  c1 = c1
  page = page
  person = person
  Items <- OneItem
  ProductItems <- OneItem
  Accounts <- AllAccounts
  ManualAccounts <- ByHandOnly
  QueueSlots <- FirstSlot
  MaxVersion = 2
  MaxSlot = 1
  Modes <- AllModes
  MaxQueries = 2
  Window = 1
SPECIFICATION Spec
PROPERTIES
  ReviewIsAwaited
