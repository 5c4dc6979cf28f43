SPECIFICATION FairSpec
CONSTANTS
  a = a  f = f  g = g
  Checks = {a}
  LoopOf <- OneLoop
  Folded = {}
  Manual = {}
  Recurring = {}
  Explicit = {a}
  Profiled = {}
  Editable = {}
  Scopes <- OrgScope
  Cancels = TRUE
  NumInst = 1
  MaxFaults = 0
PROPERTY NobodyLeftUntold
