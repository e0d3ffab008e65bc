SPECIFICATION Spec
CONSTANTS
  w1 = w1  w2 = w2  r1 = r1  r2 = r2
  Size = 2
  BlockOnFull = TRUE
  Writers <- TwoWriters
  Readers <- TwoReaders
  MaxLen = 2
  Bound = 3
  Resets = TRUE
SYMMETRY Symmetry
INVARIANTS
  TypeOK
  Contents
  ReadsInOrder
PROPERTIES
  ImplementsFifo
