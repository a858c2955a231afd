CONSTANTS
  Vaults = {v1, v2, v3}  Keys = {k1, k2, k3}  None = None  Torn = Torn
  Modes <- PairOrTurns
SPECIFICATION Spec
INVARIANTS OneEntryPerVault RuntimeIsThere
PROPERTIES CleanupSparesOthers
SYMMETRY Symmetry
CHECK_DEADLOCK FALSE
