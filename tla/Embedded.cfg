CONSTANTS
  Docs = {d1, d2}  Texts = {t1, t2}  Callers = {c1, c2}  None = None
  Sessions <- AloneOrTogether
SPECIFICATION Spec
INVARIANTS OnlyHalfBatchesStayPending NothingIsLeftBehind
PROPERTY ImplementsMemory
SYMMETRY Alike
CHECK_DEADLOCK FALSE
