CONSTANTS
  Blank = Blank  None = None  Run = Run
  Files = {f1}  Paths = {p1}  Contents = {c1, c2}  Ignorable = {}  Slots = {s1}
  SaveEvery = 2  Retries = 2  MaxEpochs = 2
  Sessions <- TwoFaultyRuns
SPECIFICATION FairSpec
INVARIANTS RunIsFlaggedOnDisk ForcedRunHeals EntriesWereAcknowledged
PROPERTIES RunEnds
CHECK_DEADLOCK FALSE
