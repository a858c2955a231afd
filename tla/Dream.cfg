CONSTANTS
  m1 = m1  e1 = e1
  Merges = {m1}  Edges = {e1}  Audit = Audit  Orders <- ThreeOrders
  Runs = {r1, r2}  None = None
  MaxAttempts = 3  MaxUndos = 2  MaxTrouble = 3
SPECIFICATION Spec
INVARIANTS LagIsQueued QuietRunConverged UndoConverges PlanIsCarriedOut
PROPERTIES CheckpointAdvances
SYMMETRY Alike
CHECK_DEADLOCK FALSE
