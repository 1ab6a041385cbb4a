CONSTANTS
  t1 = t1  t2 = t2
  ta = ta  tb = tb
  None = None  Shared = Shared
  Thread = {t1, t2}
  Tenant = {ta, tb}
  Changing = {ta, Shared}
  Interval = 1
  MaxTime = 3
  MaxVersion = 2
SPECIFICATION Spec
SYMMETRY Symmetry
INVARIANTS
  TypeOK
  HeldIsRefreshed
PROPERTIES
  RefreshBringsUpToDate
