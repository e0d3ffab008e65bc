--------------------------- MODULE MCCircularBuffer ---------------------------
(* Instances of CircularBuffer for TLC. *)
EXTENDS CircularBuffer, TLC

CONSTANTS w1, w2, r1, r2

TwoWriters == {w1, w2}
TwoReaders == {r1, r2}

Symmetry == Permutations(Writers) \cup Permutations(Readers)
=============================================================================
