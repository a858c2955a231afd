CONSTANTS
  m1 = m1  e1 = e1
  Merges = {m1}  Edges = {e1}  Audit = Audit  Orders <- ThreeOrders
  Runs = {r1, r2}  None = None
  MaxAttempts = 2  MaxUndos = 0  MaxTrouble = 1
SPECIFICATION Spec
INVARIANT ResumeCarriesOut
SYMMETRY Alike
CHECK_DEADLOCK FALSE
