CONSTANTS
  p1 = p1  p2 = p2
  r1 = r1  r2 = r2
  None = None
  Proc = {p1, p2}
  Run = {r1, r2}
  Patient = TRUE
SPECIFICATION Spec
SYMMETRY ScriptSymmetry
INVARIANTS
  TypeOK
  
  ReadyIsUsable
  SweepReportsTruly

  
