---------------------------- MODULE MetricsLock ----------------------------
(***************************************************************************)
(* pkg/metrics: the collector's read-write lock under RecordTransfer and   *)
(* GetTransferMetrics; a goroutine makes one call.  The values are left    *)
(* out.  The lock is external: sync.RWMutex lets no reader in while a      *)
(* writer waits, but those that have waited for a writer when it unlocks.  *)
(***************************************************************************)
EXTENDS Integers, FiniteSets

CONSTANTS
  Recorders, \* goroutines in RecordTransfer
  Getters,   \* goroutines in GetTransferMetrics
  Metrics    \* how many metrics RecordTransfer records, and GetTransferMetrics gets

ASSUME MetricsAssumption == Metrics \in Nat \ {0}

VARIABLES
  asked,    \* the goroutines whose Lock or RLock waits
  writer,   \* the recorders that hold the lock
  readers,  \* of each getter, how often it holds the read lock
  progress, \* how many metrics a goroutine has recorded or gotten
  finished  \* the calls that have returned

metricsVars == <<asked, writer, readers, progress, finished>>

Goroutines == Recorders \cup Getters

MetricsTypeOK ==
  /\ asked \subseteq Goroutines /\ finished \subseteq Goroutines
  /\ writer \subseteq Recorders /\ Cardinality(writer) <= 1
  /\ readers \in [Getters -> 0..2] /\ progress \in [Goroutines -> 0..Metrics]

MetricsInit ==
  /\ asked = {} /\ writer = {} /\ finished = {}
  /\ readers = [g \in Getters |-> 0] /\ progress = [g \in Goroutines |-> 0]

WriterWaits == asked \cap Recorders # {}
Unread == \A g \in Getters : readers[g] = 0

\* Record, Increment: one Lock after the other.
RecordAsks(g) ==
  /\ g \notin asked \cup writer \cup finished /\ progress[g] < Metrics
  /\ asked' = asked \cup {g}
  /\ UNCHANGED <<writer, readers, progress, finished>>

RecordLocks(g) ==
  /\ g \in asked /\ writer = {} /\ Unread
  /\ asked' = asked \ {g} /\ writer' = {g}
  /\ UNCHANGED <<readers, progress, finished>>

\* Mutant: the lock is not given back after the last metric.
RecordKeepsLock(g) ==
  /\ g \in writer \ finished
  /\ progress' = [progress EXCEPT ![g] = @ + 1]
  /\ writer' = IF progress'[g] = Metrics THEN writer ELSE {}
  /\ finished' = IF progress'[g] = Metrics THEN finished \cup {g} ELSE finished
  /\ UNCHANGED <<asked, readers>>

RecordStores(g) ==
  /\ g \in writer
  /\ progress' = [progress EXCEPT ![g] = @ + 1]
  /\ writer' = {}
  /\ asked' = asked \ Getters
  /\ readers' = [h \in Getters |-> IF h \in asked THEN readers[h] + 1 ELSE readers[h]]
  /\ finished' = IF progress'[g] = Metrics THEN finished \cup {g} ELSE finished

\* GetTransferMetrics takes the read lock, and each Get in it takes it again.
GetAsks(g) ==
  /\ g \notin asked \cup finished
  /\ readers[g] = 0 \/ (readers[g] = 1 /\ progress[g] < Metrics)
  /\ asked' = asked \cup {g}
  /\ UNCHANGED <<writer, readers, progress, finished>>

GetLocks(g) ==
  /\ g \in asked /\ writer = {} /\ ~WriterWaits
  /\ asked' = asked \ {g}
  /\ readers' = [readers EXCEPT ![g] = @ + 1]
  /\ UNCHANGED <<writer, progress, finished>>

GetUnlocks(g) ==
  /\ readers[g] = 2
  /\ progress' = [progress EXCEPT ![g] = @ + 1]
  /\ readers' = [readers EXCEPT ![g] = 1]
  /\ UNCHANGED <<asked, writer, finished>>

GetReturns(g) ==
  /\ readers[g] = 1 /\ progress[g] = Metrics
  /\ readers' = [readers EXCEPT ![g] = 0] /\ finished' = finished \cup {g}
  /\ UNCHANGED <<asked, writer, progress>>

MetricsNext ==
  \/ \E g \in Recorders : RecordAsks(g) \/ RecordLocks(g) \/ RecordStores(g)
  \/ \E g \in Getters : GetAsks(g) \/ GetLocks(g) \/ GetUnlocks(g) \/ GetReturns(g)

\* A getter between its two read locks and a recorder that waits for it to leave.
MetricsDeadlocked == WriterWaits /\ \E g \in Getters : g \in asked /\ readers[g] = 1
=============================================================================
