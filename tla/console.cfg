SPECIFICATION ConsoleSpec
CONSTANTS
  Texts = {t1, t2}
  Facets = {w1, w2}
  Text0 = t1
  Facet0 = w1
  DeepLink = TRUE
  LastPage = 2
  Filters = {f0, f1}
  NoFilters = f0
  SavedIds = {}
  SavedFilter = f1
  NewIds = {n1}
  DraftIds = {d1}
  NoId = none
  LinkView = none
  LinkFilters = f0
  MaxCalls = 2
  MaxRail = 2
  Panels <- ConsolePanels
  Keys = {k1, k2}
  Key0 = k1
  MaxWrites = 2
  MaxKeyedWrites = 1
  MaxReads = 2
  Users = {u1, u2}
  Admin = u1
  Orgs = {o1, o2}
  None = none
INVARIANTS
  LogsTypeOK FirstPageIsCurrent NoPageTwice
  SearchTypeOK RailNeverEmpty
  PanelTypeOK SettledOnKey NoGhosts
  GateTypeOK OutUnpinned
PROPERTIES
  ImplementsFreshView
  StandingTextIsShown LoadingEnds
  StandingFiltersAreSearched SavingEnds
  FlagsAreLowered
  GateSettles SignOutEnds
CHECK_DEADLOCK FALSE
