SPECIFICATION FairSpec
CONSTANTS
  w1 = w1  w2 = w2  i1 = i1  i2 = i2  c1 = c1  c2 = c2
  Workers = {w1}
  Instances = {i1}
  Channels = {c1}
  NumJobs = 2
  BatchLimit = 2
  Window = 3
  MaxBackoff = 2
  StuckAfter = 2
  MaxDelivery = 2
  AttemptCap = 1
  MaxOverdue = 1
  MaxFaults = 1
  MaxRetries = 1
  Poison = {}
INVARIANTS TypeOK HistoryIsHonest
PROPERTIES AllClearIsLast SuccessIsFinal JobsSettle
