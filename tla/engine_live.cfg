SPECIFICATION FairSpec
CONSTANTS
  a = a  f = f  g = g
  Checks = {a, f}
  LoopOf <- OneLoop
  Folded = {f}
  Manual = {a}
  Recurring = {a}
  Explicit = {a}
  Profiled = {f}
  Editable = {a}
  Scopes <- OrgScope
  Cancels = FALSE
  NumInst = 1
  MaxFaults = 1
INVARIANTS StickyHeld RenotifyIsPaced RecoveryAnnounced
PROPERTIES NobodyLeftUntold OverdueGetsPaged
