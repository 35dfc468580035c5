CONSTANTS
  Providers <- OnlyFacebook
  MaxAssets = 3
  PollMaxAttempts = 2
  MaxReads = 2
SPECIFICATION AdaSpec
INVARIANTS
  PublishedIsConfirmed
CHECK_DEADLOCK FALSE
