--------------------------- MODULE MCBatchPipeline ---------------------------
(* Instances of BatchPipeline for TLC: worker pools and sizes. *)
EXTENDS BatchPipeline, TLC

CONSTANTS s1, s2, d1

OneSource == {s1}
TwoSources == {s1, s2}
OneDest == {d1}

\* Estimates in units of which MaxSize holds 3 or 4: of two units each a third batch
\* has to wait, or the second.
EqualEstimates == [b \in Batches |-> 2]
MixedEstimates == [b \in Batches |-> IF b = 1 THEN 2 ELSE 1]

AllFaults == FaultKinds \ {"save"}
InterruptFaults == {"tar", "extract", "save"}
TransferFaults == {"tar", "extract"}

Symmetry == Permutations(SourceWorkers) \cup Permutations(DestWorkers)
=============================================================================
