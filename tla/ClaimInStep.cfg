CONSTANTS
  Blank = Blank  None = None  Run = Run
  Files = {f1}  Paths = {p1}  Contents = {c1, c2}  Ignorable = {}  Slots = {s1, s2}
  SaveEvery = 2  Retries = 2  MaxEpochs = 1
  Sessions <- TwoEdits
SPECIFICATION Spec
INVARIANTS StaysInStep
CHECK_DEADLOCK FALSE
