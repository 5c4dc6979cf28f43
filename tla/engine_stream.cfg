SPECIFICATION FairSpec
CONSTANTS
  a = a  f = f  g = g
  Checks = {f, g}
  LoopOf <- OneLoop
  Folded = {f, g}
  Manual = {}
  Recurring = {}
  Explicit = {f}
  Profiled = {}
  Editable = {}
  Scopes <- NoScope
  Cancels = FALSE
  NumInst = 2
  MaxFaults = 1
PROPERTIES StreamGetsPaged
