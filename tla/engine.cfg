SPECIFICATION Spec
CONSTANTS
  a = a  f = f  g = g
  Checks = {a}
  LoopOf <- OneLoop
  Folded = {}
  Manual = {}
  Recurring = {}
  Explicit = {}
  Profiled = {a}
  Editable = {a}
  Scopes <- OrgScope
  Cancels = TRUE
  NumInst = 2
  MaxFaults = 1
INVARIANTS TypeOK OneOpenPerCheck WatermarkMeansSent
PROPERTIES AckSilences ImplementsBoard
