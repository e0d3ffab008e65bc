SPECIFICATION Spec
CONSTANTS
  w1 = w1  w2 = w2  r1 = r1  r2 = r2
  Size = 2
  BlockOnFull = TRUE
  Writers <- TwoWriters
  Readers <- TwoReaders
  MaxLen = 3
  Bound = 4
  Resets = FALSE
SYMMETRY Symmetry
INVARIANTS
  NoLostWakeup
  EndIsTheEnd
