CONSTANTS
  t1 = t1
  c1 = c1  c2 = c2
  ta = ta  raw = raw
  None = None  Shared = Shared
  Thread = {t1}
  Tenant = {ta}
  Config = {c1, c2}
  MaxEntries = 2
  Ttl = 6
  RefreshInterval = 2
  ProviderInterval = 2
  Faults = {"load", "report", "raise"}
  Changing = {Shared}
  MaxTime = 6
  MaxVersion = 2
  MaxCalls = 100
  StoreOf <- MCStoreOf
  Stranger = {raw}
SPECIFICATION AppSpec
VIEW AppView
INVARIANTS
  AppTypeOK
  FreshAfterOutage
PROPERTIES
  WarmIsServed
  FailuresKeepView
