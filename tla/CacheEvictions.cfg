CONSTANTS
  t1 = t1  t2 = t2
  c1 = c1  c2 = c2  c3 = c3  c4 = c4  c5 = c5
  ta = ta  tb = tb  tc = tc
  None = None  Shared = Shared
  Thread = {t1, t2}
  Tenant = {ta, tb, tc}
  Config = {c1, c2, c3, c4, c5}
  MaxEntries = 2
  Ttl = 2
  RefreshInterval = 1
  ProviderInterval = 1
  Faults = {"load", "report", "raise"}
  Changing = {ta}
  MaxTime = 2
  MaxVersion = 2
  MaxCalls = 4
SPECIFICATION Spec
SYMMETRY Symmetry
INVARIANTS
  TypeOK
  OwnSettingsWithinTtl
  ProvidersFollowEntries
  OrderIsRecency
  StatsAddUp
PROPERTIES
  NeverGoesBack
CHECK_DEADLOCK FALSE
