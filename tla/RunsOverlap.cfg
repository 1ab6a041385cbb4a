CONSTANTS
  p1 = p1  p2 = p2
  r1 = r1
  None = None
  Proc = {p1, p2}
  Run = {r1}
  Patient = FALSE
SPECIFICATION Spec
SYMMETRY ScriptSymmetry
INVARIANTS
  CleanedIsGone
