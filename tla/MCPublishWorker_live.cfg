CONSTANTS
  j1 = j1
  w1 = w1
  w2 = w2
  t1 = t1
  t2 = t2
  t3 = t3
  t4 = t4
  t5 = t5
  t6 = t6
  NoToken = NoToken
  Jobs <- MCJobs
  Workers <- MCWorkers
  Tokens <- MCTokens
  MaxAttempts = 2
  StallPoints <- NoPauses
  MaxCrashes = 1
  Modes <- LiveOnly
SPECIFICATION FairSpec
PROPERTIES
  EveryLeaseEnds
  QueueDrains
