CONSTANTS
  k1 = k1
  c1 = c1
  c2 = c2
  w1 = w1
  p1 = p1
  none = none
  Keys = {k1}
  Channels <- TwoChannels
  Processes = {w1, p1}
  Workers = {w1}
  NoProcess = none
  Cooldown = 1
  StallPoints <- Nowhere
  MaxEvents = 1
  MaxClaims = 3
  MaxTime = 1
  MaxCrashes = 2
  Providers <- BothProviders
  MaxAssets = 2
  PollMaxAttempts = 2
  MaxReads = 3
SPECIFICATION DeliveriesSpec
INVARIANTS
  OneSenderAtATime
  ResentAfterCrashOnly
  NoCertaintyWithPost
  OnePostPerCall
  ToldIdIsKept
  InstagramIsConfirmed
PROPERTIES
  EveryDeliverySettles
  PublishReturns
CHECK_DEADLOCK FALSE
