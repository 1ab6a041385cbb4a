CONSTANTS
  t1 = t1  t2 = t2
  q1 = q1
  r1 = r1  r2 = r2  r3 = r3
  c1 = c1  c2 = c2
  None = None
  Thread = {t1, t2}
  Query = {q1}
  Res = {r1, r2, r3}
  Cred = {c1, c2}
  InterruptIo = {}
  InterruptWait = {}
SPECIFICATION FairSpec
PROPERTIES
  CloseAllReturns
  
  FinishReturnsAtLast
  PingIsIndependent
