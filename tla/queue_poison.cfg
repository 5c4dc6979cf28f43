SPECIFICATION FairSpec
CONSTANTS
  w1 = w1  w2 = w2  i1 = i1  i2 = i2  c1 = c1  c2 = c2
  Workers = {w1}
  Instances = {i1}
  Channels = {c1}
  NumJobs = 1
  BatchLimit = 1
  Window = 3
  MaxBackoff = 2
  StuckAfter = 2
  MaxDelivery = 1
  AttemptCap = 1
  MaxOverdue = 1
  MaxFaults = 0
  MaxRetries = 0
  Poison = {1}
PROPERTY PoisonIsBounded
