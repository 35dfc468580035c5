CONSTANTS
  c1 = c1
  page = page
  person = person
  p1 = p1
  p2 = p2
  profile = profile
  f1 = f1
  Items <- OneItem
  ProductItems <- OneItem
  Accounts <- AllAccounts
  ManualAccounts <- ByHandOnly
  QueueSlots <- FirstSlot
  MaxVersion = 2
  MaxSlot = 1
  Modes <- AllModes
  MaxQueries = 2
  Window = 1
  Principals <- TwoPrincipals
  NoPrincipal = NoPrincipal
  Pages <- OnePage
  Profiles <- OneProfile
  Flows <- OneFlow
  MaxReads = 1
  MaxRows = 3
SPECIFICATION PublishingSpec
SYMMETRY AnyPrincipal
INVARIANTS
  QueuedIsReady
  ItemAgreesWithJob
  ManualTaskMatches
  ManualResultRecordable
  ActiveJobKeepsAccount
  SecretsGoTogether
PROPERTIES
  SentAsApproved
  OutcomeIsFinal
