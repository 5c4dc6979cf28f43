SPECIFICATION Spec
CONSTANTS
  w1 = w1  w2 = w2  i1 = i1  i2 = i2  c1 = c1  c2 = c2
  Workers = {w1, w2}
  Instances = {i1}
  Channels = {c1}
  NumJobs = 3
  BatchLimit = 2
  Window = 1
  MaxBackoff = 2
  StuckAfter = 2
  MaxDelivery = 1
  AttemptCap = 2
  MaxOverdue = 0
  MaxFaults = 1
  MaxRetries = 0
  Poison = {3}
SYMMETRY WorkerSymmetry
INVARIANTS ExclusiveDelivery SweepSparesLive
PROPERTIES SuccessIsFinal AttemptsCounted ImplementsOutbox
