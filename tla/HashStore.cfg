CONSTANTS
  Empty = Empty  Absent = Absent  Torn = Torn
  Index = {Empty, i1, i2, i3}
SPECIFICATION Spec
INVARIANTS FileIsWhole LoadIsOldOrNew
PROPERTIES CommittedFileStays
SYMMETRY Symmetry
