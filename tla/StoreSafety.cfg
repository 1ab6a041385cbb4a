CONSTANTS
  t1 = t1  t2 = t2  t3 = t3
  q1 = q1
  r1 = r1  r2 = r2  r3 = r3  r4 = r4
  c1 = c1  c2 = c2
  None = None
  Thread = {t1, t2, t3}
  Query = {q1}
  Res = {r1, r2, r3, r4}
  Cred = {c1, c2}
  InterruptIo = {}
  InterruptWait = {}
SPECIFICATION Spec
VIEW LiveView
SYMMETRY ThreadSymmetry
INVARIANTS
  TypeOK
  LeasesExact
  NoUseAfterClose
  NoLeak
  ReportsOwnAttempt
  FailureLeavesNoCredential
PROPERTIES
  CloseAllReleasesAll
  ImplementsLease
