CONSTANTS
  ta = ta  tb = tb
  x = x  y = y
  va = va  vb = vb  vs = vs  v1 = v1  v2 = v2
  s1 = s1  s2 = s2
  None = None  Shared = Shared
  Tenant = {ta, tb}
  NameOrder <- MCNameOrder
  Values <- MCValues
  Snapshot = {s1, s2}
  Contents <- MCContents
  Retentions <- MCRetentions
  Referring = {ta}
  MaxTime = 1
SPECIFICATION Spec
INVARIANTS
  TypeOK
  EveryPatternServesTheSame
PROPERTIES
  TenantsAreIsolated
  SnapshotsAreFinal
