-------------------------- MODULE BatchAccountProofs --------------------------
(***************************************************************************)
(* The batched tar engine: what the account of the BufferManager is made   *)
(* of, and what the last save of the manifest finds.                       *)
(***************************************************************************)
EXTENDS BatchPipelineProofs, InductionLemmas

\* No archive is larger than the files in it were estimated to be.
ArchivesFit == \A n \in ArchiveSizes : \A b \in Batches : n <= Estimate[b]

\* Before Cleanup, of main or of the handler, has emptied the buffer.
InUse == main \notin {"saveLast", "writeLast", "finish", "returned"} /\ handler # "exit"

\* The batches the account counts: those a source worker has reserved space for, and
\* the archives that were handed on and not deleted.
Charged(b) ==
  \/ \E w \in SourceWorkers : at[w] \in {"tar", "publish"} /\ held[w] = b
  \/ (status[b] = "buffered" \/ b \in enqueued) /\ disk[b] > 0

Charge == [b \in Batches |-> IF Charged(b) THEN size[b] ELSE 0]

\* What batch.Size says: the estimate until there is an archive, then what it occupies.
SizesKnown ==
  /\ \A b \in Batches : status[b] = "pending" => size[b] = Estimate[b] /\ disk[b] = 0
  /\ \A w \in SourceWorkers :
       /\ at[w] \in {"reserve", "tar"} => size[held[w]] = Estimate[held[w]] /\ disk[held[w]] = 0
       /\ at[w] = "publish" => disk[held[w]] = size[held[w]] /\ disk[held[w]] > 0
  /\ \A b \in Batches :
       status[b] = "buffered" \/ b \in enqueued => disk[b] \in {0, size[b]}
  /\ \A b \in enqueued : status[b] \notin {"pending", "downloading"}
  /\ \A w \in DestWorkers : at[w] \in DestBusy => held[w] \in enqueued
  /\ \A w \in DestWorkers : at[w] = "clean" => disk[held[w]] > 0

\* A delivered batch leaves no archive behind if it is told to and able to.
Deleted ==
  CleanupBuffer /\ "delete" \notin Faults =>
    /\ \A w \in DestWorkers : at[w] = "complete" => disk[held[w]] = 0
    /\ \A b \in Batches : status[b] = "completed" => disk[b] = 0

\* Only a failed tar leaves something that is not counted.
Counted == "tar" \notin Faults => \A b \in Batches : disk[b] > 0 => Charged(b)

\* What holds as long as the buffer is in use.
Ledger == SizesKnown /\ Deleted /\ Counted /\ currentSize = SumOf(Charge)

\* main and the handler close stopChan once between them.
ClosedOnce ==
  /\ main \notin Beginning \cup {"select", "returned"} => stopped
  /\ handler \notin {"wait", "close"} => main \in Beginning \cup {"select", "returned"}

AccountInv ==
  /\ ClosedOnce
  /\ InUse => Ledger
  /\ ~InUse /\ handler # "exit" /\ "tar" \notin Faults => AccountCoversDisk
-----------------------------------------------------------------------------
LEMMA BatchesFinite == IsFiniteSet(Batches)
BY BatchesAssumption, FS_Interval DEF Batches

LEMMA SameSum == ASSUME NEW f PROVE SumFunction(f) = SumOf(f)
BY Zenon DEF SumOf, SumFunction, SumFunctionOnSet, FoldFunction

LEMMA ChargeType ==
  ASSUME TypeInv
  PROVE  Charge \in [Batches -> Nat] /\ Charge \in [Batches -> Int]
BY DEF Charge, TypeInv, BatchType

\* At most one batch changes what is charged for it.
LEMMA ChargeMoves ==
  ASSUME TypeInv, TypeInv', NEW b \in Batches,
         \A c \in Batches \ {b} : Charge'[c] = Charge[c]
  PROVE  SumOf(Charge') = SumOf(Charge) + (Charge'[b] - Charge[b])
<1>1. Charge \in [Batches -> Int] /\ Charge' \in [Batches -> Int]
  <2>1. Charge' \in [Batches -> Int]
    BY DEF Charge, TypeInv, BatchType
  <2> QED
    BY <2>1, ChargeType
<1> DEFINE f == Charge
           h == Charge'
<1> HIDE DEF f, h
<1>2. h = [f EXCEPT ![b] = h[b]]
  <2>1. f \in [Batches -> Int] /\ h \in [Batches -> Int] /\ \A c \in Batches \ {b} : h[c] = f[c]
    BY <1>1 DEF f, h
  <2> QED
    BY <2>1
<1>3. SumOf(h) = SumOf(f) + (h[b] - f[b])
  BY <1>1, <1>2, BatchesFinite, SumChanges DEF f, h
<1> QED
  BY <1>3 DEF f, h

\* As long as the buffer is in use the account covers the disk, if no tar may fail.
LEMMA LedgerCovers ==
  ASSUME TypeInv, Ledger, "tar" \notin Faults
  PROVE  AccountCoversDisk
<1>1. disk \in [Batches -> Int] /\ Charge \in [Batches -> Int]
  BY ChargeType DEF TypeInv, BatchType
<1>2. \A b \in Batches : disk[b] <= Charge[b]
  <2> SUFFICES ASSUME NEW b \in Batches PROVE disk[b] <= Charge[b]
    OBVIOUS
  <2>0. disk[b] \in Nat /\ size[b] \in Nat
    BY DEF TypeInv, BatchType
  <2>1. CASE disk[b] > 0
    <3>1. Charged(b)
      BY <2>1 DEF Ledger, Counted
    <3>2. disk[b] = size[b]
      BY <2>0, <2>1, <3>1 DEF Charged, Ledger, SizesKnown
    <3> QED
      BY <2>0, <3>1, <3>2 DEF Charge
  <2>2. CASE disk[b] = 0
    BY <2>0, <2>2 DEF Charge
  <2> QED
    BY <2>0, <2>1, <2>2
<1>3. SumOf(disk) <= SumOf(Charge)
  BY <1>1, <1>2, BatchesFinite, SumMonotone
<1>4. SumOf(disk) = Used
  BY SameSum DEF Used
<1> QED
  BY <1>3, <1>4 DEF AccountCoversDisk, Ledger
-----------------------------------------------------------------------------
(***************************************************************************)
(* The workers' steps, while the buffer is in use.                         *)
(***************************************************************************)
\* A batch in a source worker's hand is in no other and was not handed on.
LEMMA SourceHolds ==
  ASSUME TypeInv, PlaceInv, SizesKnown, NEW w \in SourceWorkers, at[w] \in SourceBusy
  PROVE  /\ held[w] \in Batches /\ held[w] \notin enqueued
         /\ status[held[w]] = "downloading"
         /\ \A v \in SourceWorkers \ {w} : at[v] \in SourceBusy => held[v] # held[w]
         /\ \A v \in DestWorkers : at[v] \in DestBusy => held[v] # held[w]
<1>1. held[w] \in Batches /\ status[held[w]] = "downloading"
  BY DEF TypeInv, WorkerType, PlaceInv, WorkersHold
<1>2. held[w] \notin enqueued
  BY <1>1 DEF SizesKnown
<1>3. \A v \in SourceWorkers \ {w} : at[v] \in SourceBusy => held[v] # held[w]
  BY DEF PlaceInv, HeldOnce, Workers, Busy
<1>4. \A v \in DestWorkers : at[v] \in DestBusy => held[v] # held[w]
  BY <1>1 DEF PlaceInv, WorkersHold
<1> QED
  BY <1>1, <1>2, <1>3, <1>4

LEMMA DestHolds ==
  ASSUME TypeInv, PlaceInv, SizesKnown, NEW w \in DestWorkers, at[w] \in DestBusy
  PROVE  /\ held[w] \in Batches /\ held[w] \in enqueued
         /\ status[held[w]] = "uploading"
         /\ \A v \in DestWorkers \ {w} : at[v] \in DestBusy => held[v] # held[w]
         /\ \A v \in SourceWorkers : at[v] \in SourceBusy => held[v] # held[w]
<1>1. held[w] \in Batches /\ status[held[w]] = "uploading"
  BY DEF TypeInv, WorkerType, PlaceInv, WorkersHold
<1>2. held[w] \in enqueued
  BY DEF SizesKnown
<1>3. \A v \in DestWorkers \ {w} : at[v] \in DestBusy => held[v] # held[w]
  BY DEF PlaceInv, HeldOnce, Workers, Busy
<1>4. \A v \in SourceWorkers : at[v] \in SourceBusy => held[v] # held[w]
  BY <1>1 DEF PlaceInv, WorkersHold
<1> QED
  BY <1>1, <1>2, <1>3, <1>4

LEMMA ReserveLedger ==
  ASSUME TypeInv, TypeInv', PlaceInv, Ledger, NEW w \in SourceWorkers, Reserve(w)
  PROVE  Ledger'
<1> DEFINE b == held[w]
<1>0. /\ WorkerType /\ BatchType /\ SizesKnown /\ Deleted /\ Counted
      /\ currentSize = SumOf(Charge) /\ w \in Workers
      /\ SourceWorkers \cap DestWorkers = {}
  BY WorkersAssumption DEF Ledger, TypeInv, Workers
<1>1. /\ at[w] = "reserve" /\ at' = [at EXCEPT ![w] = "tar"]
      /\ UNCHANGED <<held, status, size, disk, enqueued>>
      /\ currentSize' = currentSize + size[b]
  BY DEF Reserve, WorkerStep, workers, helpers
<1>2. /\ b \in Batches /\ b \notin enqueued /\ status[b] = "downloading"
      /\ \A v \in SourceWorkers \ {w} : at[v] \in SourceBusy => held[v] # b
  BY <1>0, <1>1, SourceHolds DEF SourceBusy
<1>3. \A v \in Workers : at'[v] = IF v = w THEN "tar" ELSE at[v]
  BY <1>0, <1>1 DEF WorkerType
<1>4. SizesKnown'
  BY <1>0, <1>1, <1>2, <1>3 DEF SizesKnown, Workers, SourceBusy, DestBusy
<1>5. Deleted'
  BY <1>0, <1>1, <1>2, <1>3 DEF Deleted, Workers
<1>6. \A c \in Batches : Charged(c)' <=> Charged(c) \/ c = b
  BY <1>0, <1>1, <1>2, <1>3 DEF Charged, Workers
<1>7. ~Charged(b)
  BY <1>0, <1>1, <1>2 DEF Charged, SourceBusy
<1>8. Counted'
  BY <1>0, <1>1, <1>6 DEF Counted
<1>9. /\ Charge[b] = 0 /\ Charge'[b] = size[b] /\ size[b] \in Nat
      /\ \A c \in Batches \ {b} : Charge'[c] = Charge[c]
  BY <1>0, <1>1, <1>2, <1>6, <1>7 DEF Charge, BatchType
<1>10. SumOf(Charge') = SumOf(Charge) + (size[b] - 0)
  BY <1>2, <1>9, ChargeMoves
<1>11. currentSize' = SumOf(Charge')
  BY <1>0, <1>1, <1>9, <1>10 DEF BatchType
<1> QED
  BY <1>4, <1>5, <1>8, <1>11 DEF Ledger

\* The archive is no larger than what was reserved for it: the rest is released.
LEMMA ArchiveLedger ==
  ASSUME TypeInv, TypeInv', PlaceInv, Ledger, ArchivesFit,
         NEW w \in SourceWorkers, CreateArchive(w)
  PROVE  Ledger'
<1> DEFINE b == held[w]
<1>0. /\ WorkerType /\ BatchType /\ SizesKnown /\ Deleted /\ Counted
      /\ currentSize = SumOf(Charge) /\ w \in Workers
      /\ SourceWorkers \cap DestWorkers = {}
  BY WorkersAssumption DEF Ledger, TypeInv, Workers
<1>1. PICK n \in ArchiveSizes :
        /\ at[w] = "tar" /\ at' = [at EXCEPT ![w] = "publish"]
        /\ UNCHANGED <<held, status, enqueued>>
        /\ disk' = [disk EXCEPT ![b] = n] /\ size' = [size EXCEPT ![b] = n]
        /\ currentSize' = Adjusted(b, n)
  BY DEF CreateArchive, WorkerStep, workers, helpers
<1>2. /\ b \in Batches /\ b \notin enqueued /\ status[b] = "downloading"
      /\ \A v \in SourceWorkers \ {w} : at[v] \in SourceBusy => held[v] # b
      /\ \A v \in DestWorkers : at[v] \in DestBusy => held[v] # b
  BY <1>0, <1>1, SourceHolds DEF SourceBusy
<1>3. \A v \in Workers : at'[v] = IF v = w THEN "publish" ELSE at[v]
  BY <1>0, <1>1 DEF WorkerType
<1>4. /\ n \in Nat \ {0} /\ size[b] = Estimate[b] /\ n <= size[b] /\ size[b] \in Nat
      /\ \A c \in Batches : /\ disk'[c] = IF c = b THEN n ELSE disk[c]
                            /\ size'[c] = IF c = b THEN n ELSE size[c]
  BY <1>0, <1>1, <1>2, SizesAssumption DEF SizesKnown, ArchivesFit, BatchType
<1>5. SizesKnown'
  BY <1>0, <1>1, <1>2, <1>3, <1>4 DEF SizesKnown, Workers, SourceBusy, DestBusy, WorkerType
<1>6. Deleted'
  BY <1>0, <1>1, <1>2, <1>3, <1>4 DEF Deleted, Workers, DestBusy, WorkerType
<1>7. Charged(b) /\ Charged(b)' /\ \A c \in Batches \ {b} : Charged(c)' <=> Charged(c)
  BY <1>0, <1>1, <1>2, <1>3, <1>4 DEF Charged, Workers
<1>8. Counted'
  BY <1>0, <1>1, <1>4, <1>7 DEF Counted
<1>9. /\ Charge[b] = size[b] /\ Charge'[b] = n
      /\ \A c \in Batches \ {b} : Charge'[c] = Charge[c]
  <2>1. Charge[b] = size[b] /\ Charge'[b] = size'[b]
    BY <1>1, <1>2, <1>7 DEF Charge
  <2>2. size'[b] = n /\ \A c \in Batches \ {b} : size'[c] = size[c]
    BY <1>2, <1>4
  <2>3. \A c \in Batches \ {b} : Charge'[c] = Charge[c]
    BY <1>7, <2>2 DEF Charge
  <2> QED
    BY <2>1, <2>2, <2>3
<1>10. SumOf(Charge') = SumOf(Charge) + (n - size[b])
  BY <1>2, <1>9, ChargeMoves
<1>11. currentSize' = SumOf(Charge')
  BY <1>0, <1>1, <1>4, <1>10 DEF Adjusted, BatchType
<1> QED
  BY <1>5, <1>6, <1>8, <1>11 DEF Ledger

LEMMA FailedArchiveLedger ==
  ASSUME TypeInv, TypeInv', PlaceInv, Ledger, NEW w \in SourceWorkers, ArchiveFails(w)
  PROVE  Ledger'
<1> DEFINE b == held[w]
<1>0. /\ WorkerType /\ BatchType /\ SizesKnown /\ Deleted
      /\ currentSize = SumOf(Charge) /\ w \in Workers
      /\ SourceWorkers \cap DestWorkers = {}
  BY WorkersAssumption DEF Ledger, TypeInv, Workers
<1>1. PICK n \in ArchiveSizes \cup {0} :
        /\ at[w] = "tar" /\ at' = [at EXCEPT ![w] = "fail"] /\ "tar" \in Faults
        /\ UNCHANGED <<held, status, enqueued, size>>
        /\ disk' = [disk EXCEPT ![b] = n]
        /\ currentSize' = currentSize - size[b]
  BY DEF ArchiveFails, WorkerStep, workers, helpers
<1>2. /\ b \in Batches /\ b \notin enqueued /\ status[b] = "downloading"
      /\ \A v \in SourceWorkers \ {w} : at[v] \in SourceBusy => held[v] # b
      /\ \A v \in DestWorkers : at[v] \in DestBusy => held[v] # b
  BY <1>0, <1>1, SourceHolds DEF SourceBusy
<1>3. \A v \in Workers : at'[v] = IF v = w THEN "fail" ELSE at[v]
  BY <1>0, <1>1 DEF WorkerType
<1>4. /\ size[b] \in Nat
      /\ \A c \in Batches : disk'[c] = IF c = b THEN n ELSE disk[c]
  BY <1>0, <1>1, <1>2 DEF BatchType
<1>5. SizesKnown'
  BY <1>0, <1>1, <1>2, <1>3, <1>4 DEF SizesKnown, Workers, SourceBusy, DestBusy, WorkerType
<1>6. Deleted'
  BY <1>0, <1>1, <1>2, <1>3, <1>4 DEF Deleted, Workers, DestBusy, WorkerType
<1>7. Charged(b) /\ ~Charged(b)' /\ \A c \in Batches \ {b} : Charged(c)' <=> Charged(c)
  BY <1>0, <1>1, <1>2, <1>3, <1>4 DEF Charged, Workers, SourceBusy
<1>8. Counted'
  BY <1>1 DEF Counted
<1>9. /\ Charge[b] = size[b] /\ Charge'[b] = 0
      /\ \A c \in Batches \ {b} : Charge'[c] = Charge[c]
  BY <1>1, <1>2, <1>7 DEF Charge
<1>10. SumOf(Charge') = SumOf(Charge) + (0 - size[b])
  BY <1>2, <1>9, ChargeMoves
<1>11. currentSize' = SumOf(Charge')
  <2>1. currentSize \in Int
    BY <1>0 DEF BatchType
  <2> QED
    BY <1>0, <1>1, <1>4, <1>10, <2>1
<1> QED
  BY <1>5, <1>6, <1>8, <1>11 DEF Ledger

\* DeleteBatch: the archive goes and what was charged for it, or neither.
LEMMA CleanLedger ==
  ASSUME TypeInv, TypeInv', PlaceInv, Ledger, NEW w \in DestWorkers, CleanBatch(w)
  PROVE  Ledger'
<1> DEFINE b == held[w]
<1>0. /\ WorkerType /\ BatchType /\ SizesKnown /\ Deleted /\ Counted
      /\ currentSize = SumOf(Charge) /\ w \in Workers
      /\ SourceWorkers \cap DestWorkers = {}
  BY WorkersAssumption DEF Ledger, TypeInv, Workers
<1>1. /\ at[w] = "clean" /\ at' = [at EXCEPT ![w] = "complete"]
      /\ UNCHANGED <<held, status, enqueued, size>>
  BY DEF CleanBatch, WorkerStep, workers, helpers
<1>2. /\ b \in Batches /\ b \in enqueued /\ status[b] = "uploading" /\ disk[b] > 0
      /\ \A v \in DestWorkers \ {w} : at[v] \in DestBusy => held[v] # b
      /\ \A v \in SourceWorkers : at[v] \in SourceBusy => held[v] # b
  BY <1>0, <1>1, DestHolds DEF DestBusy, SizesKnown
<1>3. \A v \in Workers : at'[v] = IF v = w THEN "complete" ELSE at[v]
  BY <1>0, <1>1 DEF WorkerType
<1>4. CASE disk' = [disk EXCEPT ![b] = 0] /\ currentSize' = currentSize - size[b]
  <2>1. /\ size[b] \in Nat
        /\ \A c \in Batches : disk'[c] = IF c = b THEN 0 ELSE disk[c]
    BY <1>0, <1>2, <1>4 DEF BatchType
  <2>2. SizesKnown'
    BY <1>0, <1>1, <1>2, <1>3, <2>1 DEF SizesKnown, Workers, SourceBusy, DestBusy, WorkerType
  <2>3. Deleted'
    BY <1>0, <1>1, <1>2, <1>3, <2>1 DEF Deleted, Workers, DestBusy, WorkerType
  <2>4. Charged(b) /\ ~Charged(b)' /\ \A c \in Batches \ {b} : Charged(c)' <=> Charged(c)
    BY <1>0, <1>1, <1>2, <1>3, <2>1 DEF Charged, Workers, SourceBusy
  <2>5. Counted'
    BY <1>0, <1>1, <2>1, <2>4 DEF Counted
  <2>6. /\ Charge[b] = size[b] /\ Charge'[b] = 0
        /\ \A c \in Batches \ {b} : Charge'[c] = Charge[c]
    BY <1>1, <1>2, <2>4 DEF Charge
  <2>7. SumOf(Charge') = SumOf(Charge) + (0 - size[b])
    BY <1>2, <2>6, ChargeMoves
  <2>8. currentSize' = SumOf(Charge')
    <3>1. currentSize \in Int
      BY <1>0 DEF BatchType
    <3> QED
      BY <1>0, <1>4, <2>1, <2>7, <3>1
  <2> QED
    BY <2>2, <2>3, <2>5, <2>8 DEF Ledger
<1>5. CASE "delete" \in Faults /\ UNCHANGED <<disk, currentSize>>
  <2>1. SizesKnown'
    BY <1>0, <1>1, <1>2, <1>3, <1>5 DEF SizesKnown, Workers, SourceBusy, DestBusy, WorkerType
  <2>2. \A c \in Batches : Charged(c)' <=> Charged(c)
    BY <1>0, <1>1, <1>3, <1>5 DEF Charged, Workers
  <2>3. Charge' = Charge
    BY <1>1, <2>2 DEF Charge
  <2> QED
    BY <1>0, <1>5, <2>1, <2>2, <2>3 DEF Ledger, Deleted, Counted
<1> QED
  BY <1>4, <1>5 DEF CleanBatch

\* The steps that change neither sizes nor what is charged.
LEMMA LedgerFrame ==
  ASSUME Ledger, UNCHANGED <<size, disk, currentSize>>, SizesKnown', Deleted',
         \A c \in Batches : Charged(c)' <=> Charged(c)
  PROVE  Ledger'
<1>1. Charge' = Charge
  BY DEF Charge
<1> QED
  BY <1>1 DEF Ledger, Counted

LEMMA TakeLedger ==
  ASSUME TypeInv, PlaceInv, Ledger, NEW w \in Workers, Take(w)
  PROVE  Ledger'
<1> DEFINE q == queue[Pool(w)]
           b == Head(q)
           to == IF Pool(w) = "source" THEN "reserve" ELSE "extract"
<1>0. /\ WorkerType /\ BatchType /\ SizesKnown /\ Deleted
      /\ SourceWorkers \cap DestWorkers = {}
      /\ Pool(w) = "source" <=> w \in SourceWorkers
      /\ Pool(w) = "dest" <=> w \in DestWorkers
      /\ Pool(w) \in Pools /\ enqueued \subseteq Batches
  BY WorkersAssumption DEF Ledger, TypeInv, ControlType, Workers, Pool, Pools
<1>1. q \in Seq(Batches) /\ q # <<>>
  BY <1>0 DEF TypeInv, ChannelType, Take
<1>2. b \in Batches /\ b = q[1] /\ 1 \in DOMAIN q
  BY <1>1, TailElements
<1>3. /\ Pool(w) = "source" => status[b] = "pending" /\ b \notin enqueued
      /\ Pool(w) = "dest" => status[b] = "buffered" /\ b \in enqueued
  BY <1>0, <1>2 DEF PlaceInv, QueuesHold, SizesKnown
<1>4. /\ at[w] = "idle" /\ UNCHANGED <<enqueued, size, disk, currentSize>>
      /\ \A v \in Workers : /\ at'[v] = IF v = w THEN to ELSE at[v]
                            /\ held'[v] = IF v = w THEN b ELSE held[v]
      /\ \A c \in Batches : status'[c] = IF c # b THEN status[c]
                              ELSE IF Pool(w) = "source" THEN "downloading" ELSE "uploading"
  BY <1>0, <1>2 DEF Take, helpers, WorkerType, BatchType
<1>5. \A v \in Workers : at[v] \in SourceBusy \cup DestBusy => held[v] # b
  BY <1>0, <1>3 DEF PlaceInv, WorkersHold, Workers, WorkerType, SourceBusy, DestBusy, Pools
<1> HIDE DEF q, b
<1>6. SizesKnown'
  BY <1>0, <1>2, <1>3, <1>4, <1>5 DEF SizesKnown, Workers, SourceBusy, DestBusy, Pools
<1>7. Deleted'
  BY <1>0, <1>2, <1>3, <1>4, <1>5 DEF Deleted, Workers, DestBusy
<1>8. \A c \in Batches : Charged(c)' <=> Charged(c)
  BY <1>0, <1>2, <1>3, <1>4, <1>5 DEF Charged, Workers, SourceBusy, Pools
<1> QED
  BY <1>4, <1>6, <1>7, <1>8, LedgerFrame

\* The other steps of a source worker: the batch is put into the buffer or given up.
LEMMA SourceLedger ==
  ASSUME TypeInv, PlaceInv, Ledger, NEW w \in SourceWorkers,
         GiveUp(w) \/ Publish(w) \/ MarkFailed(w) \/ Report(w) \/ WorkerStops(w)
  PROVE  Ledger'
<1> DEFINE b == held[w]
<1>0. /\ WorkerType /\ BatchType /\ SizesKnown /\ Deleted /\ w \in Workers
      /\ SourceWorkers \cap DestWorkers = {} /\ enqueued \subseteq Batches
  BY WorkersAssumption DEF Ledger, TypeInv, ControlType, Workers
<1>1. /\ UNCHANGED <<enqueued, size, disk, currentSize>>
      /\ \A v \in Workers \ {w} : at'[v] = at[v] /\ held'[v] = held[v]
  BY <1>0 DEF GiveUp, Publish, MarkFailed, Report, WorkerStops, WorkerStep, helpers, batches,
     WorkerType
<1>2. at[w] \in SourceBusy =>
        /\ b \in Batches /\ b \notin enqueued /\ status[b] = "downloading"
        /\ \A v \in SourceWorkers \ {w} : at[v] \in SourceBusy => held[v] # b
        /\ \A v \in DestWorkers : at[v] \in DestBusy => held[v] # b
  BY <1>0, SourceHolds
<1>3. CASE GiveUp(w)
  <2>1. at[w] = "reserve" /\ at'[w] = "fail" /\ UNCHANGED <<held, status>>
    BY <1>0, <1>3 DEF GiveUp, WorkerStep, workers, batches, WorkerType
  <2>2. SizesKnown'
    BY <1>0, <1>1, <2>1 DEF SizesKnown, Workers
  <2>3. Deleted' /\ \A c \in Batches : Charged(c)' <=> Charged(c)
    BY <1>0, <1>1, <2>1 DEF Deleted, Charged, Workers
  <2> QED
    BY <1>1, <2>2, <2>3, LedgerFrame
<1>4. CASE Publish(w)
  <2>1. /\ at[w] = "publish" /\ at'[w] = "idle"
        /\ \A c \in Batches : status'[c] = IF c = b THEN "buffered" ELSE status[c]
    BY <1>0, <1>4 DEF Publish, WorkerType, BatchType
  <2>2. disk[b] = size[b] /\ disk[b] > 0
    BY <1>0, <2>1 DEF SizesKnown
  <2>3. SizesKnown'
    BY <1>0, <1>1, <1>2, <2>1, <2>2 DEF SizesKnown, Workers, SourceBusy, DestBusy
  <2>4. Deleted'
    BY <1>0, <1>1, <1>2, <2>1 DEF Deleted, Workers, SourceBusy
  <2>5. \A c \in Batches : Charged(c)' <=> Charged(c)
    BY <1>0, <1>1, <1>2, <2>1, <2>2 DEF Charged, Workers, SourceBusy
  <2> QED
    BY <1>1, <2>3, <2>4, <2>5, LedgerFrame
<1>5. CASE MarkFailed(w)
  <2>1. /\ at[w] = "fail" /\ at'[w] = "report" /\ UNCHANGED held
        /\ \A c \in Batches : status'[c] = IF c = b THEN "failed" ELSE status[c]
    BY <1>0, <1>5 DEF MarkFailed, WorkerStep, WorkerType, BatchType, workers
  <2>2. SizesKnown'
    BY <1>0, <1>1, <1>2, <2>1 DEF SizesKnown, Workers, SourceBusy, DestBusy
  <2>3. Deleted' /\ \A c \in Batches : Charged(c)' <=> Charged(c)
    BY <1>0, <1>1, <1>2, <2>1 DEF Deleted, Charged, Workers, SourceBusy
  <2> QED
    BY <1>1, <2>2, <2>3, LedgerFrame
<1>6. CASE Report(w) \/ WorkerStops(w)
  <2>1. at[w] \in {"report", "idle"} /\ at'[w] \in {"idle", "end"} /\ UNCHANGED status
    BY <1>0, <1>6 DEF Report, WorkerStops, WorkerType, batches
  <2>2. SizesKnown'
    BY <1>0, <1>1, <2>1 DEF SizesKnown, Workers
  <2>3. Deleted' /\ \A c \in Batches : Charged(c)' <=> Charged(c)
    BY <1>0, <1>1, <2>1 DEF Deleted, Charged, Workers
  <2> QED
    BY <1>1, <2>2, <2>3, LedgerFrame
<1> QED
  BY <1>3, <1>4, <1>5, <1>6

\* The other steps of a destination worker: its batch stays among those handed on.
LEMMA DestLedger ==
  ASSUME TypeInv, PlaceInv, Ledger, NEW w \in DestWorkers,
         Extract(w) \/ ExtractFails(w) \/ Complete(w) \/ MarkFailed(w) \/ Report(w)
           \/ WorkerStops(w)
  PROVE  Ledger'
<1> DEFINE b == held[w]
<1>0. /\ WorkerType /\ BatchType /\ SizesKnown /\ Deleted /\ w \in Workers
      /\ SourceWorkers \cap DestWorkers = {} /\ enqueued \subseteq Batches
  BY WorkersAssumption DEF Ledger, TypeInv, ControlType, Workers
<1>1. /\ UNCHANGED <<enqueued, size, disk, currentSize>>
      /\ \A v \in Workers \ {w} : at'[v] = at[v] /\ held'[v] = held[v]
  BY <1>0 DEF Extract, ExtractFails, Complete, MarkFailed, Report, WorkerStops, WorkerStep,
     helpers, batches, WorkerType
<1>2. at[w] \in DestBusy =>
        /\ b \in Batches /\ b \in enqueued /\ status[b] = "uploading"
        /\ \A v \in DestWorkers \ {w} : at[v] \in DestBusy => held[v] # b
        /\ \A v \in SourceWorkers : at[v] \in SourceBusy => held[v] # b
  BY <1>0, DestHolds
<1>3. CASE Extract(w)
  <2>1. /\ at[w] = "extract" /\ at'[w] = (IF CleanupBuffer THEN "clean" ELSE "complete")
        /\ UNCHANGED <<held, status>> /\ disk[b] > 0
    BY <1>0, <1>3 DEF Extract, WorkerStep, workers, WorkerType
  <2>2. SizesKnown'
    BY <1>0, <1>1, <1>2, <2>1 DEF SizesKnown, Workers, DestBusy
  <2>3. Deleted' /\ \A c \in Batches : Charged(c)' <=> Charged(c)
    BY <1>0, <1>1, <2>1 DEF Deleted, Charged, Workers
  <2> QED
    BY <1>1, <2>2, <2>3, LedgerFrame
<1>4. CASE ExtractFails(w)
  <2>1. at[w] = "extract" /\ at'[w] = "fail" /\ UNCHANGED <<held, status>>
    BY <1>0, <1>4 DEF ExtractFails, WorkerStep, workers, WorkerType, batches
  <2>2. SizesKnown'
    BY <1>0, <1>1, <1>2, <2>1 DEF SizesKnown, Workers, DestBusy
  <2>3. Deleted' /\ \A c \in Batches : Charged(c)' <=> Charged(c)
    BY <1>0, <1>1, <2>1 DEF Deleted, Charged, Workers
  <2> QED
    BY <1>1, <2>2, <2>3, LedgerFrame
<1>5. CASE Complete(w)
  <2>1. /\ at[w] = "complete" /\ at'[w] = "idle"
        /\ \A c \in Batches : status'[c] = IF c = b THEN "completed" ELSE status[c]
    BY <1>0, <1>5 DEF Complete, WorkerType, BatchType
  <2>2. SizesKnown'
    BY <1>0, <1>1, <1>2, <2>1 DEF SizesKnown, Workers, SourceBusy, DestBusy
  <2>3. Deleted' /\ \A c \in Batches : Charged(c)' <=> Charged(c)
    BY <1>0, <1>1, <1>2, <2>1 DEF Deleted, Charged, Workers, DestBusy
  <2> QED
    BY <1>1, <2>2, <2>3, LedgerFrame
<1>6. CASE MarkFailed(w)
  <2>1. /\ at[w] = "fail" /\ at'[w] = "report" /\ UNCHANGED held
        /\ \A c \in Batches : status'[c] = IF c = b THEN "failed" ELSE status[c]
    BY <1>0, <1>6 DEF MarkFailed, WorkerStep, WorkerType, BatchType, workers
  <2>2. SizesKnown'
    BY <1>0, <1>1, <1>2, <2>1 DEF SizesKnown, Workers, SourceBusy, DestBusy
  <2>3. Deleted' /\ \A c \in Batches : Charged(c)' <=> Charged(c)
    BY <1>0, <1>1, <1>2, <2>1 DEF Deleted, Charged, Workers, DestBusy
  <2> QED
    BY <1>1, <2>2, <2>3, LedgerFrame
<1>7. CASE Report(w) \/ WorkerStops(w)
  <2>1. at[w] \in {"report", "idle"} /\ at'[w] \in {"idle", "end"} /\ UNCHANGED status
    BY <1>0, <1>7 DEF Report, WorkerStops, WorkerType, batches
  <2>2. SizesKnown'
    BY <1>0, <1>1, <2>1 DEF SizesKnown, Workers, DestBusy
  <2>3. Deleted' /\ \A c \in Batches : Charged(c)' <=> Charged(c)
    BY <1>0, <1>1, <2>1 DEF Deleted, Charged, Workers
  <2> QED
    BY <1>1, <2>2, <2>3, LedgerFrame
<1> QED
  BY <1>3, <1>4, <1>5, <1>6, <1>7
-----------------------------------------------------------------------------
(***************************************************************************)
(* The other goroutines' steps, and the buffer's end.                      *)
(***************************************************************************)
\* They move no batch but into enqueuedToDest, and no worker but to its loop.
LEMMA QuietLedger ==
  ASSUME TypeInv, Ledger, UNCHANGED <<held, batches>>,
         UNCHANGED at \/ \A w \in Workers : at[w] = "none" /\ at'[w] = "idle",
         \/ UNCHANGED enqueued
         \/ status[cursor] = "buffered" /\ cursor \in Batches /\ enqueued' = enqueued \cup {cursor}
  PROVE  Ledger'
<1>0. /\ SizesKnown /\ Deleted /\ UNCHANGED <<status, size, disk, currentSize>>
      /\ WorkerType /\ enqueued \subseteq Batches
  BY DEF Ledger, batches, TypeInv, ControlType
<1>1. \A w \in Workers : at'[w] = at[w] \/ (at[w] = "none" /\ at'[w] = "idle")
  OBVIOUS
<1>2. SizesKnown'
  BY <1>0, <1>1 DEF SizesKnown, Workers, DestBusy
<1>3. Deleted' /\ \A c \in Batches : Charged(c)' <=> Charged(c)
  BY <1>0, <1>1 DEF Deleted, Charged, Workers
<1> QED
  BY <1>0, <1>2, <1>3, LedgerFrame

LEMMA WorkLedger ==
  ASSUME TypeInv, TypeInv', PlaceInv, Ledger, ArchivesFit,
         NEW w \in Workers, Work(w) \/ WorkerStops(w)
  PROVE  Ledger'
<1>0. /\ WorkerType /\ (w \in SourceWorkers \/ w \in DestWorkers)
      /\ SourceWorkers \cap DestWorkers = {}
  BY WorkersAssumption DEF TypeInv, Workers
<1>1. CASE Take(w)
  BY <1>1, TakeLedger
<1>2. CASE w \in SourceWorkers /\ ~Take(w)
  <2>1. at[w] \notin DestBusy \ {"fail"}
    BY <1>0, <1>2 DEF WorkerType
  <2>2. ~(Extract(w) \/ ExtractFails(w) \/ CleanBatch(w) \/ Complete(w))
    BY <2>1 DEF Extract, ExtractFails, CleanBatch, Complete, WorkerStep, DestBusy
  <2> QED
    BY <1>2, <2>2, ReserveLedger, ArchiveLedger, FailedArchiveLedger, SourceLedger
       DEF Work, SourceStep, DestStep
<1>3. CASE w \in DestWorkers /\ ~Take(w)
  <2>1. at[w] \notin SourceBusy \ {"fail"}
    BY <1>0, <1>3 DEF WorkerType
  <2>2. ~(GiveUp(w) \/ Reserve(w) \/ CreateArchive(w) \/ ArchiveFails(w) \/ Publish(w))
    BY <2>1 DEF GiveUp, Reserve, CreateArchive, ArchiveFails, Publish, WorkerStep, SourceBusy
  <2> QED
    BY <1>3, <2>2, CleanLedger, DestLedger DEF Work, SourceStep, DestStep
<1> QED
  BY <1>0, <1>1, <1>2, <1>3

LEMMA ControlLedger ==
  ASSUME TypeInv, PlaceInv, ControlInv, Ledger,
         \/ Main /\ ~CleanBuffer
         \/ ErrMon \/ Feeder \/ Monitor \/ MonitorStops \/ Interrupt
         \/ Handler /\ ~HandlerCleans
         \/ UNCHANGED vars
  PROVE  Ledger'
<1>1. UNCHANGED <<held, batches>>
  BY DEF Main, Setup, SaveFirst, Start, SelectError, SelectDone, JoinErrMon, StopPools,
         SaveLast, Finish, Save, StopPool, PoolStopped,
         ErrMon, ErrMonStops, ForwardError, Feeder, FeederChecks, FeederSends, FeederFails,
         Monitor, MonitorTicks, MonitorStops, MonitorScans, MonitorSends, MonitorFails,
         MonitorChecks, Interrupt, Handler, HandlerCloses, HandlerSaves, Exit,
         workers, vars
<1>2. UNCHANGED at \/ \A w \in Workers : at[w] = "none" /\ at'[w] = "idle"
  <2>1. CASE Start
    <3>1. \A w \in Workers : at[w] = "none"
      BY <2>1 DEF Start, ControlInv, NotStarted, Beginning
    <3> QED
      BY <2>1, <3>1 DEF Start
  <2>2. CASE ~Start
    BY <2>2
       DEF Main, Setup, SaveFirst, SelectError, SelectDone, JoinErrMon, StopPools,
           SaveLast, Finish, Save, StopPool, PoolStopped,
           ErrMon, ErrMonStops, ForwardError, Feeder, FeederChecks, FeederSends, FeederFails,
           Monitor, MonitorTicks, MonitorStops, MonitorScans, MonitorSends, MonitorFails,
           MonitorChecks, Interrupt, Handler, HandlerCloses, HandlerSaves, Exit,
           workers, vars
  <2> QED
    BY <2>1, <2>2
<1>3. \/ UNCHANGED enqueued
      \/ status[cursor] = "buffered" /\ cursor \in Batches /\ enqueued' = enqueued \cup {cursor}
  <2>1. CASE MonitorSends
    BY <2>1 DEF MonitorSends, PlaceInv, EnqueuedCovers, TypeInv, ControlType
  <2>2. CASE ~MonitorSends
    BY <2>2
       DEF Main, Setup, SaveFirst, Start, SelectError, SelectDone, JoinErrMon, StopPools,
           SaveLast, Finish, Save, StopPool, PoolStopped,
           ErrMon, ErrMonStops, ForwardError, Feeder, FeederChecks, FeederSends, FeederFails,
           Monitor, MonitorTicks, MonitorStops, MonitorScans, MonitorFails,
           MonitorChecks, Interrupt, Handler, HandlerCloses, HandlerSaves, Exit,
           helpers, vars
  <2> QED
    BY <2>1, <2>2
<1> QED
  BY <1>1, <1>2, <1>3, QuietLedger

LEMMA NextClosed ==
  ASSUME TypeInv, ControlInv, ClosedOnce, [Next]_vars
  PROVE  ClosedOnce'
<1> USE DEF ClosedOnce, Beginning, Goto, HandlerGoto
<1>0. handler \notin {"wait", "close"} => stopped
  BY DEF ControlInv, VerdictInv
<1>1. CASE SelectError \/ SelectDone
  <2>1. CloseStopChan("error", "stopSource") \/ CloseStopChan("success", "joinErrMon")
    BY <1>1 DEF SelectError, SelectDone
  <2>2. main = "select" /\ UNCHANGED handler
    BY <1>1 DEF SelectError, SelectDone
  <2> QED
    BY <1>0, <2>1, <2>2 DEF CloseStopChan
<1>2. CASE Main /\ ~SelectError /\ ~SelectDone
  BY <1>2 DEF Main, Setup, SaveFirst, Start, JoinErrMon, StopPools, CleanBuffer, SaveLast,
     Finish, Save, StopPool, PoolStopped
<1>3. CASE Handler \/ Interrupt
  BY <1>3 DEF Interrupt, Handler, HandlerCloses, HandlerSaves, HandlerCleans, Exit, control
<1>4. CASE ErrMon \/ Feeder \/ Monitor \/ MonitorStops
  BY <1>4 DEF ErrMon, ErrMonStops, ForwardError, Feeder, FeederChecks, FeederSends,
     FeederFails, Monitor, MonitorTicks, MonitorStops, MonitorScans, MonitorSends,
     MonitorFails, MonitorChecks, control
<1>5. ASSUME NEW w \in Workers, Work(w) \/ WorkerStops(w) PROVE ClosedOnce'
  BY <1>5 DEF Work, WorkerStops, SourceStep, DestStep, Take, GiveUp, Reserve, CreateArchive,
     ArchiveFails, Publish, Extract, ExtractFails, CleanBatch, Complete, MarkFailed, Report,
     WorkerStep, control
<1>6. CASE UNCHANGED vars
  BY <1>6 DEF vars, control
<1> QED
  BY <1>1, <1>2, <1>3, <1>4, <1>5, <1>6 DEF Next, Idle

\* Where the workers have ended nothing is put into the buffer any more.
LEMMA AfterUse ==
  ASSUME TypeInv, ControlInv, ~InUse, handler' # "exit", [Next]_vars
  PROVE  UNCHANGED <<disk, currentSize>> /\ ~InUse' /\ handler # "exit"
<1>1. main \in {"saveLast", "writeLast", "finish", "returned"} \/ handler = "exit"
  BY DEF InUse
<1>2. handler # "exit"
  BY DEF Next, Idle, Main, Setup, SaveFirst, Start, SelectError, SelectDone, JoinErrMon,
         StopPools, CleanBuffer, SaveLast, Finish, Save, StopPool, PoolStopped,
         ErrMon, ErrMonStops, ForwardError, Feeder, FeederChecks, FeederSends, FeederFails,
         Monitor, MonitorTicks, MonitorStops, MonitorScans, MonitorSends, MonitorFails,
         MonitorChecks, Interrupt, Handler, HandlerCloses, HandlerSaves, HandlerCleans, Exit,
         Work, WorkerStops, SourceStep, DestStep, Take, GiveUp, Reserve, CreateArchive,
         ArchiveFails, Publish, Extract, ExtractFails, CleanBatch, Complete, MarkFailed,
         Report, WorkerStep, vars
<1>3. \A w \in Workers : at[w] \in {"none", "end"}
  BY <1>1, <1>2 DEF ControlInv, PoolsEnd, Ended, Workers
<1>4. ASSUME NEW w \in Workers PROVE ~Work(w)
  BY <1>3 DEF Work, SourceStep, DestStep, Take, GiveUp, Reserve, CreateArchive,
     ArchiveFails, Publish, Extract, ExtractFails, CleanBatch, Complete, MarkFailed,
     Report, WorkerStep
<1>5. ~CleanBuffer /\ ~HandlerCleans
  BY <1>1, <1>2 DEF CleanBuffer, HandlerCleans, HandlerGoto
<1>6. UNCHANGED <<disk, currentSize>>
  BY <1>4, <1>5
     DEF Next, Idle, Main, Setup, SaveFirst, Start, SelectError, SelectDone, JoinErrMon,
         StopPools, SaveLast, Finish, Save, StopPool, PoolStopped,
         ErrMon, ErrMonStops, ForwardError, Feeder, FeederChecks, FeederSends, FeederFails,
         Monitor, MonitorTicks, MonitorStops, MonitorScans, MonitorSends, MonitorFails,
         MonitorChecks, Interrupt, Handler, HandlerCloses, HandlerSaves, Exit, WorkerStops,
         batches, vars
<1>7. main' \in {"saveLast", "writeLast", "finish", "returned"}
  BY <1>1, <1>2, <1>4
     DEF Next, Idle, Main, Setup, SaveFirst, Start, SelectError, SelectDone, JoinErrMon,
         StopPools, CleanBuffer, SaveLast, Finish, Save, StopPool, PoolStopped, Goto,
         ErrMon, ErrMonStops, ForwardError, Feeder, FeederChecks, FeederSends, FeederFails,
         Monitor, MonitorTicks, MonitorStops, MonitorScans, MonitorSends, MonitorFails,
         MonitorChecks, Interrupt, Handler, HandlerCloses, HandlerSaves, HandlerCleans, Exit,
         WorkerStops, control, vars
<1> QED
  BY <1>2, <1>6, <1>7 DEF InUse

\* Cleanup takes archives away; the account goes with them or stays.
LEMMA CleanCovers ==
  ASSUME TypeInv, TypeInv', AccountCoversDisk, CleanBuffer
  PROVE  AccountCoversDisk'
<1>0. disk \in [Batches -> Int] /\ disk' \in [Batches -> Int] /\ disk \in [Batches -> Nat]
  BY DEF TypeInv, BatchType
<1>1. SumOf(disk) = Used /\ SumOf(disk') = Used'
  BY SameSum DEF Used
<1>2. CASE UNCHANGED batches
  BY <1>2 DEF AccountCoversDisk, Used, batches
<1>3. CASE disk' = [b \in Batches |-> 0] /\ currentSize' = 0
  <2>1. SumOf(disk') = 0
    BY <1>3, BatchesFinite, SumOfZeros
  <2> QED
    BY <1>1, <1>3, <2>1 DEF AccountCoversDisk
<1>4. ASSUME NEW S \in SUBSET Batches, UNCHANGED currentSize,
             disk' = [b \in Batches |-> IF b \in S THEN 0 ELSE disk[b]]
      PROVE  AccountCoversDisk'
  <2>1. \A b \in Batches : disk'[b] <= disk[b]
    BY <1>0, <1>4
  <2>2. SumOf(disk') <= SumOf(disk)
    BY <1>0, <2>1, BatchesFinite, SumMonotone
  <2>3. SumOf(disk') \in Int /\ SumOf(disk) \in Int /\ currentSize \in Int
    BY <1>0, BatchesFinite, SumType DEF TypeInv, BatchType
  <2> QED
    BY <1>1, <1>4, <2>2, <2>3 DEF AccountCoversDisk
<1> QED
  BY <1>2, <1>3, <1>4 DEF CleanBuffer, RemoveAll

LEMMA InitAccount == Init => AccountInv
<1> SUFFICES ASSUME Init PROVE AccountInv
  OBVIOUS
<1>1. TypeInv
  BY InitType
<1>2. SizesKnown /\ Deleted /\ Counted
  BY DEF Init, SizesKnown, Deleted, Counted, Workers, SourceBusy, DestBusy
<1>3. \A b \in Batches : ~Charged(b)
  BY DEF Init, Charged, Workers
<1>4. Charge = [b \in Batches |-> 0]
  BY <1>3 DEF Charge
<1>5. SumOf(Charge) = 0
  BY <1>4, BatchesFinite, SumOfZeros
<1>6. Ledger
  BY <1>2, <1>5 DEF Ledger, Init
<1>7. InUse
  BY DEF Init, InUse
<1>8. ClosedOnce
  BY DEF Init, ClosedOnce, Beginning
<1> QED
  BY <1>6, <1>7, <1>8 DEF AccountInv

LEMMA NextAccountInv ==
  ASSUME ArchivesFit, TypeInv, TypeInv', PlaceInv, ControlInv, AccountInv, [Next]_vars
  PROVE  AccountInv'
<1>1. ClosedOnce'
  BY NextClosed DEF AccountInv
<1>2. ASSUME InUse' PROVE InUse
  <2>1. handler' # "exit"
    BY <1>2 DEF InUse
  <2> QED
    BY <1>2, <2>1, AfterUse
<1>3. ASSUME InUse' PROVE Ledger'
  <2>1. Ledger
    BY <1>2, <1>3 DEF AccountInv
  <2>2. ~CleanBuffer /\ ~HandlerCleans
    BY <1>3 DEF CleanBuffer, HandlerCleans, HandlerGoto, Goto, InUse
  <2>3. CASE \E w \in Workers : Work(w) \/ WorkerStops(w)
    BY <2>1, <2>3, WorkLedger
  <2>4. CASE \/ Main \/ ErrMon \/ Feeder \/ Monitor \/ MonitorStops \/ Interrupt \/ Handler
             \/ UNCHANGED vars
    BY <2>1, <2>2, <2>4, ControlLedger
  <2> QED
    BY <2>3, <2>4 DEF Next, Idle
<1>4. ASSUME ~InUse', handler' # "exit", "tar" \notin Faults PROVE AccountCoversDisk'
  <2>1. CASE InUse
    <3>1. AccountCoversDisk
      BY <1>4, <2>1, LedgerCovers DEF AccountInv
    <3>2. CASE CleanBuffer
      BY <3>1, <3>2, CleanCovers
    <3>3. CASE ~CleanBuffer
      <4>1. main' \in {"saveLast", "writeLast", "finish", "returned"}
              /\ main \notin {"saveLast", "writeLast", "finish", "returned"}
        BY <1>4, <2>1 DEF InUse
      <4>2. ASSUME NEW w \in Workers, Work(w) \/ WorkerStops(w) PROVE main' = main
        BY <4>2 DEF Work, WorkerStops, SourceStep, DestStep, Take, GiveUp, Reserve,
           CreateArchive, ArchiveFails, Publish, Extract, ExtractFails, CleanBatch, Complete,
           MarkFailed, Report, WorkerStep, control
      <4>3. UNCHANGED batches
        BY <3>3, <4>1, <4>2
           DEF Next, Idle, Main, Setup, SaveFirst, Start, SelectError, SelectDone, JoinErrMon,
               StopPools, SaveLast, Finish, Save, StopPool, PoolStopped,
               ErrMon, ErrMonStops, ForwardError, Feeder, FeederChecks, FeederSends,
               FeederFails, Monitor, MonitorTicks, MonitorStops, MonitorScans, MonitorSends,
               MonitorFails, MonitorChecks, Interrupt, Handler, HandlerCloses, HandlerSaves,
               HandlerCleans, Exit, control, vars
      <4> QED
        BY <3>1, <4>3 DEF AccountCoversDisk, Used, batches
    <3> QED
      BY <3>2, <3>3
  <2>2. CASE ~InUse
    <3>1. UNCHANGED <<disk, currentSize>> /\ handler # "exit"
      BY <1>4, <2>2, AfterUse
    <3> QED
      BY <1>4, <2>2, <3>1 DEF AccountInv, AccountCoversDisk, Used
  <2> QED
    BY <2>1, <2>2
<1> QED
  BY <1>1, <1>3, <1>4 DEF AccountInv

LEMMA AccountInvariance ==
  ASSUME ArchivesFit
  PROVE  Spec => []AccountInv
<1>1. TypeInv /\ TypeInv' /\ PlaceInv /\ ControlInv /\ AccountInv /\ [Next]_vars => AccountInv'
  BY NextAccountInv
<1> QED
  BY <1>1, InitAccount, TypeInvariance, PlaceInvariance, ControlInvariance, PTL DEF Spec

\* The limit on the account limits the disk, unless a failed tar leaves something behind:
\* until the handler has emptied the buffer under workers that go on
\* (buffer.go:57, source_worker.go:110-134, 220-229, batched_engine.go:281).
THEOREM AccountCovers ==
  ASSUME ArchivesFit, "tar" \notin Faults
  PROVE  Spec => [](handler # "exit" => AccountCoversDisk)
<1>1. TypeInv /\ AccountInv => (handler # "exit" => AccountCoversDisk)
  BY LedgerCovers DEF AccountInv
<1> QED
  BY <1>1, AccountInvariance, TypeInvariance, PTL

\* Where no signal comes the handler waits for ever, so the account covers the disk from
\* the first reservation to the last removal (batched_engine.go:252-289).
THEOREM AccountAlwaysCovers ==
  ASSUME ArchivesFit, "tar" \notin Faults, ~Interrupts
  PROVE  Spec => []AccountCoversDisk
<1> DEFINE Waits == handler = "wait"
<1>1. Init => Waits
  BY DEF Init
<1>2. Waits /\ [Next]_vars => Waits'
  <2> SUFFICES ASSUME Waits, [Next]_vars PROVE handler' = "wait"
    OBVIOUS
  <2>1. ASSUME NEW w \in Workers, Work(w) \/ WorkerStops(w)
        PROVE  UNCHANGED handler
    BY <2>1 DEF Work, SourceStep, DestStep, Take, GiveUp, Reserve, CreateArchive,
           ArchiveFails, Publish, Extract, ExtractFails, CleanBatch, Complete, MarkFailed,
           Report, WorkerStops, WorkerStep
  <2>2. CASE Main \/ ErrMon \/ Feeder \/ Monitor \/ MonitorStops \/ UNCHANGED vars
    BY <2>2 DEF Main, Setup, SaveFirst, Start, SelectError, SelectDone, JoinErrMon,
           StopPools, CleanBuffer, SaveLast, Finish, Save, StopPool, PoolStopped,
           ErrMon, ErrMonStops, ForwardError, Feeder, FeederChecks, FeederSends,
           FeederFails, Monitor, MonitorTicks, MonitorStops, MonitorScans, MonitorSends, MonitorFails,
           MonitorChecks, vars
  <2>3. ~Interrupt /\ ~Handler
    BY DEF Interrupt, Handler, HandlerCloses, HandlerSaves, HandlerCleans, Exit
  <2> QED
    BY <2>1, <2>2, <2>3 DEF Next, Idle
<1>3. Spec => []Waits
  BY <1>1, <1>2, PTL DEF Spec
<1>4. Waits => handler # "exit"
  OBVIOUS
<1> QED
  BY <1>3, <1>4, AccountCovers, PTL

\* Every reservation has been given back when all batches were delivered and deleted,
\* interrupted or not, whatever failed on the way (buffer.go:113, source_worker.go:221-228).
THEOREM ReservationsReturn ==
  ASSUME ArchivesFit
  PROVE  Spec => []SpaceReturned
<1>1. ASSUME TypeInv, ControlInv, AccountInv PROVE SpaceReturned
  <2> SUFFICES ASSUME main = "clean", CleanupBuffer, "delete" \notin Faults,
                      \A b \in Batches : status[b] = "completed"
               PROVE  currentSize = 0 /\ Used = 0
    BY DEF SpaceReturned
  <2>1. handler # "exit" /\ InUse /\ Ledger
    BY <1>1 DEF AccountInv, ClosedOnce, InUse, Beginning
  <2>2. \A b \in Batches : disk[b] = 0
    BY <2>1 DEF Ledger, Deleted
  <2>3. \A w \in SourceWorkers : at[w] = "end"
    BY <1>1 DEF ControlInv, PoolsEnd, Ended
  <2>4. Charge = [b \in Batches |-> 0] /\ disk = [b \in Batches |-> 0]
    BY <1>1, <2>2, <2>3 DEF Charge, Charged, TypeInv, BatchType
  <2>5. SumOf(Charge) = 0 /\ SumOf(disk) = 0
    BY <2>4, BatchesFinite, SumOfZeros
  <2>6. SumOf(disk) = Used
    BY SameSum DEF Used
  <2> QED
    BY <2>1, <2>5, <2>6 DEF Ledger
<1>2. TypeInv /\ ControlInv /\ AccountInv => SpaceReturned
  BY <1>1
<1> QED
  BY <1>2, AccountInvariance, TypeInvariance, ControlInvariance, PTL
-----------------------------------------------------------------------------
(***************************************************************************)
(* The last save.                                                          *)
(***************************************************************************)
\* Unless the handler saves too, the last save writes what main has marshalled, and that
\* is still what the manifest says.
SavedInv ==
  CheckpointEnabled /\ handler = "wait" =>
    /\ main = "writeLast" => checkpoint.state = "torn" /\ image["main"].status = status
    /\ main = "finish" \/ (main = "returned" /\ errsClosed["dest"]) =>
         checkpoint.state = "whole" /\ checkpoint.content.status = status

LEMMA NextSaved ==
  ASSUME "save" \notin Faults, TypeInv, ControlInv, SavedInv, [Next]_vars
  PROVE  SavedInv'
<1> SUFFICES ASSUME CheckpointEnabled, handler' = "wait",
                    main' \in {"writeLast", "finish", "returned"}
             PROVE  SavedInv'
  BY DEF SavedInv
<1>0. /\ checkpoint \in [state : {"absent", "torn", "whole"}, content : Contents]
      /\ image \in [Savers -> Contents] /\ ~SaveSkipped
  BY DEF TypeInv, FileType, SaveSkipped
<1>1. CASE Save("saveFirst", "writeFirst", "init") \/ Save("saveLast", "writeLast", "finish")
  <2>1. /\ UNCHANGED <<handler, status, errsClosed>>
        /\ \/ main = "saveLast" /\ main' = "writeLast" /\ SaveBegins("main")
           \/ main = "writeLast" /\ main' = "finish" /\ SaveEnds("main")
    BY <1>0, <1>1 DEF Save, Goto, batches, channels
  <2>2. CASE SaveBegins("main") /\ main' = "writeLast"
    <3>1. checkpoint'.state = "torn"
      BY <1>0, <2>2 DEF SaveBegins
    <3>2. image'["main"] = Content /\ Content.status = status
      BY <1>0, <2>2 DEF SaveBegins, Content, Savers
    <3> QED
      BY <2>1, <2>2, <3>1, <3>2 DEF SavedInv
  <2>3. CASE SaveEnds("main") /\ main = "writeLast" /\ main' = "finish"
    <3>1. checkpoint.state = "torn" /\ image["main"].status = status
      BY <2>1, <2>3 DEF SavedInv
    <3>2. checkpoint' = File("whole", image["main"])
      BY <2>3, <3>1 DEF SaveEnds
    <3>3. checkpoint'.state = "whole" /\ checkpoint'.content = image["main"]
      BY <3>2 DEF File
    <3> QED
      BY <2>1, <2>3, <3>1, <3>3 DEF SavedInv
  <2> QED
    BY <2>1, <2>2, <2>3
<1>2. CASE ~SaveFirst /\ ~SaveLast
  <2>1. handler = "wait" /\ UNCHANGED <<checkpoint, image>>
    <3>1. ASSUME NEW w \in Workers, Work(w) \/ WorkerStops(w)
          PROVE  UNCHANGED <<handler, checkpoint, image>>
      BY <3>1 DEF Work, WorkerStops, SourceStep, DestStep, Take, GiveUp, Reserve,
         CreateArchive, ArchiveFails, Publish, Extract, ExtractFails, CleanBatch, Complete,
         MarkFailed, Report, WorkerStep, file
    <3> QED
      BY <1>2, <3>1
         DEF Next, Idle, Main, Setup, Start, SelectError, SelectDone, JoinErrMon,
             StopPools, CleanBuffer, StopPool, PoolStopped, Finish,
             ErrMon, ErrMonStops, ForwardError, Feeder, FeederChecks, FeederSends,
             FeederFails, Monitor, MonitorTicks, MonitorStops, MonitorScans, MonitorSends,
             MonitorFails, MonitorChecks, Interrupt, Handler, HandlerCloses, HandlerSaves,
             HandlerCleans, Exit, HandlerGoto, file, vars
  <2>2. \/ main' = main /\ UNCHANGED errsClosed
        \/ main = "finish" /\ main' = "returned"
        \/ main \in {"setup", "init"} /\ main' = "returned" /\ UNCHANGED errsClosed
    <3>1. ASSUME NEW w \in Workers, Work(w) \/ WorkerStops(w)
          PROVE  UNCHANGED <<main, errsClosed>>
      BY <3>1 DEF Work, WorkerStops, SourceStep, DestStep, Take, GiveUp, Reserve,
         CreateArchive, ArchiveFails, Publish, Extract, ExtractFails, CleanBatch, Complete,
         MarkFailed, Report, WorkerStep, control, channels
    <3> QED
      BY <1>2, <3>1
         DEF Next, Idle, Main, Setup, Start, SelectError, SelectDone, JoinErrMon,
             StopPools, CleanBuffer, StopPool, PoolStopped, CloseStopChan, Finish, Goto,
             ErrMon, ErrMonStops, ForwardError, Feeder, FeederChecks, FeederSends,
             FeederFails, Monitor, MonitorTicks, MonitorStops, MonitorScans, MonitorSends,
             MonitorFails, MonitorChecks, Interrupt, Handler, HandlerCloses, HandlerSaves,
             HandlerCleans, Exit, HandlerGoto, control, channels, vars
  <2>3. CASE main \in {"setup", "init"}
    <3>1. ~errsClosed["dest"]
      BY <2>3 DEF ControlInv, PoolsEnd, Beginning, Pools
    <3>2. main' = "returned" /\ UNCHANGED errsClosed
      BY <2>2, <2>3
    <3> QED
      BY <3>1, <3>2 DEF SavedInv
  <2>4. CASE main \in {"writeLast", "finish", "returned"}
    <3>1. \A w \in Workers : at[w] \in {"none", "end"}
      BY <2>4 DEF ControlInv, PoolsEnd, Ended, Workers
    <3>2. ASSUME NEW w \in Workers PROVE ~Work(w)
      BY <3>1 DEF Work, SourceStep, DestStep, Take, GiveUp, Reserve, CreateArchive,
         ArchiveFails, Publish, Extract, ExtractFails, CleanBatch, Complete, MarkFailed,
         Report, WorkerStep
    <3>3. UNCHANGED status
      BY <1>2, <3>2
         DEF Next, Idle, Main, Setup, Start, SelectError, SelectDone, JoinErrMon,
             StopPools, CleanBuffer, StopPool, PoolStopped, Finish, RemoveAll,
             ErrMon, ErrMonStops, ForwardError, Feeder, FeederChecks, FeederSends,
             FeederFails, Monitor, MonitorTicks, MonitorStops, MonitorScans, MonitorSends,
             MonitorFails, MonitorChecks, Interrupt, Handler, HandlerCloses, HandlerSaves,
             HandlerCleans, Exit, WorkerStops, batches, vars
    <3> QED
      BY <2>1, <2>2, <2>4, <3>3 DEF SavedInv
  <2> QED
    BY <2>2, <2>3, <2>4
<1> QED
  BY <1>1, <1>2 DEF SaveFirst, SaveLast

\* The checkpoint Transfer leaves behind is whole and says what the manifest says, if no
\* save fails: the pools have ended before the last save marshals (batched_engine.go:217-250,
\* batch.go:158-179).
THEOREM CheckpointFinal ==
  ASSUME "save" \notin Faults
  PROVE  Spec => []FinalCheckpointCurrent
<1>1. Init => SavedInv
  BY DEF Init, SavedInv
<1>2. TypeInv /\ ControlInv /\ SavedInv /\ [Next]_vars => SavedInv'
  BY NextSaved
<1>3. SavedInv => FinalCheckpointCurrent
  BY DEF SavedInv, FinalCheckpointCurrent
<1> QED
  BY <1>1, <1>2, <1>3, TypeInvariance, ControlInvariance, PTL DEF Spec
===============================================================================
