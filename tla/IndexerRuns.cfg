CONSTANTS
  Blank = Blank  None = None  Run = Run
  Files = {f1, f2}  Paths = {p1, p2}  Contents = {c1, c2}  Ignorable = {p2}  Slots = {s1}
  SaveEvery = 2  Retries = 2  MaxEpochs = 1
  Sessions <- RunsOrEdits
SPECIFICATION Spec
INVARIANTS CompletedRunCoversVault LossIsBounded StaysInStep
PROPERTIES StopsAfterCurrentNote
SYMMETRY FilesAndTexts
CHECK_DEADLOCK FALSE
