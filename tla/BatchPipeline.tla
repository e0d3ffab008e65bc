---------------------------- MODULE BatchPipeline ----------------------------
(***************************************************************************)
(* The batched tar engine of pkg/batch: one call of BatchedEngine.Transfer *)
(* with every goroutine it starts.                                         *)
(*                                                                         *)
(*   main      Transfer, coordinateTransfer and cleanup                    *)
(*   errMon    the error monitor of coordinateTransfer                     *)
(*   feeder    hands the batches of the manifest to the source workers     *)
(*   monitor   hands buffered batches to the destination workers           *)
(*   handler   the signal handler: emergencyCleanup and os.Exit            *)
(*   workers   the source and the destination worker pool                  *)
(*                                                                         *)
(* A Go channel of batches is a sequence, a channel of errors the number   *)
(* of errors it holds, a channel that is only ever closed a Boolean.  The  *)
(* goroutine that closes `done` once feeder and monitor have ended is the  *)
(* condition HelpersEnded of main's select.  Sizes are in units the        *)
(* configuration chooses; disk[b] is what the archive really occupies.     *)
(***************************************************************************)
EXTENDS Integers, Sequences, FiniteSets, FiniteSetsExt

CONSTANTS
  NumBatches,        \* len(manifest.Batches)
  SourceWorkers,     \* the goroutines of the source pool
  DestWorkers,       \* the goroutines of the destination pool
  MaxSize,           \* maxSize of the BufferManager
  Estimate,          \* batch.Size as CreateManifest set it, per batch
  ArchiveSizes,      \* the sizes a tar.gz archive may turn out to have
  CleanupBuffer, KeepOnFailure, CheckpointEnabled,   \* fields of Config
  Faults,            \* which operations may fail: a subset of FaultKinds
  Interrupts         \* whether SIGINT or SIGTERM may arrive

Batches == 1..NumBatches
Workers == SourceWorkers \cup DestWorkers
Pools == {"source", "dest"}
FaultKinds == {"setup", "mkdir", "tar", "extract", "delete", "save"}
NoBatch == 0

ASSUME BatchesAssumption == NumBatches \in Nat
ASSUME WorkersAssumption ==
  /\ IsFiniteSet(SourceWorkers)
  /\ IsFiniteSet(DestWorkers)
  /\ SourceWorkers \cap DestWorkers = {}
ASSUME SizesAssumption ==
  /\ MaxSize \in Nat
  /\ Estimate \in [Batches -> Nat]
  /\ ArchiveSizes \subseteq Nat \ {0}
ASSUME ConfigAssumption ==
  /\ {CleanupBuffer, KeepOnFailure, CheckpointEnabled, Interrupts} \subseteq BOOLEAN
  /\ Faults \subseteq FaultKinds

VARIABLES
  proc,        \* the process: running, panicked or exited
  main,        \* where Transfer is
  outcome,     \* what coordinateTransfer returned
  manifest,    \* manifest.Status, "nil" before be.manifest is assigned
  stopped,     \* be.stopChan is closed
  transferErr, \* number of errors in the channel transferErr (capacity 1)
  errMon, feeder, monitor, handler,    \* where these goroutines are
  nextFeed,    \* the batch the feeder's loop is at
  cursor,      \* the batch the monitor's scan is at
  enqueued,    \* enqueuedToDest
  queue,       \* batchQueue of each pool
  poolStopped, \* stopChan of each pool is closed
  errs,        \* number of errors in errorChan of each pool
  errsClosed,  \* errorChan of each pool is closed
  at, held,    \* where each worker is, and the batch it processes
  status,      \* batch.Status
  size,        \* batch.Size
  disk,        \* bytes the archive of the batch occupies in the buffer
  extracted,   \* how often the archive was extracted (history)
  currentSize, \* currentSize of the BufferManager
  checkpoint,  \* the checkpoint file
  image        \* what each saver marshalled and has not written yet

control == <<proc, main, outcome, manifest, stopped, transferErr>>
helpers == <<errMon, feeder, monitor, nextFeed, cursor, enqueued>>
channels == <<queue, poolStopped, errs, errsClosed>>
workers == <<at, held>>
batches == <<status, size, disk, extracted, currentSize>>
file == <<checkpoint, image>>
vars == <<control, helpers, channels, workers, batches, handler, file>>

Status == {"pending", "downloading", "buffered", "uploading", "completed", "failed"}

Pool(w) == IF w \in SourceWorkers THEN "source" ELSE "dest"
Members(p) == IF p = "source" THEN SourceWorkers ELSE DestWorkers
QueueCap(p) == 2 * Cardinality(Members(p))
ErrorCap(p) == Cardinality(Members(p))

\* The checkpoint file: absent, whole, or torn, that is truncated by a Save that
\* has not ended or left with the tail of another one.
File(state, content) == [state |-> state, content |-> content]

\* What json.MarshalIndent makes of the manifest.
Content == [manifest |-> manifest, status |-> status]
Blank == [manifest |-> "nil", status |-> [b \in Batches |-> "pending"]]
Savers == {"main", "handler"}

TypeOK ==
  /\ proc \in {"running", "panicked", "exited"}
  /\ main \in {"setup", "saveFirst", "writeFirst", "init", "select", "joinErrMon",
               "stopSource", "waitSource", "stopDest", "waitDest", "clean",
               "saveLast", "writeLast", "finish", "returned"}
  /\ outcome \in {"open", "success", "error"}
  /\ manifest \in {"nil", "in_progress", "completed"}
  /\ stopped \in BOOLEAN
  /\ transferErr \in 0..1
  /\ errMon \in {"none", "watch", "end"}
  /\ feeder \in {"none", "check", "send", "err", "end"}
  /\ monitor \in {"none", "tick", "scan", "send", "err", "end"}
  /\ handler \in {"wait", "close", "save", "write", "clean", "exit"}
  /\ nextFeed \in 1..(NumBatches + 1)
  /\ cursor \in 1..(NumBatches + 1)
  /\ enqueued \subseteq Batches
  /\ queue \in [Pools -> Seq(Batches)]
  /\ poolStopped \in [Pools -> BOOLEAN]
  /\ errs \in [Pools -> Nat]
  /\ errsClosed \in [Pools -> BOOLEAN]
  /\ at \in [Workers -> {"none", "idle", "reserve", "tar", "publish", "extract",
                         "clean", "complete", "fail", "report", "end"}]
  /\ held \in [Workers -> Batches \cup {NoBatch}]
  /\ status \in [Batches -> Status]
  /\ size \in [Batches -> Nat]
  /\ disk \in [Batches -> Nat]
  /\ extracted \in [Batches -> Nat]
  /\ currentSize \in Int
  /\ LET Contents == [manifest : {"nil", "in_progress", "completed"},
                      status : [Batches -> Status]]
     IN  /\ checkpoint \in [state : {"absent", "torn", "whole"}, content : Contents]
         /\ image \in [Savers -> Contents]

Init ==
  /\ proc = "running" /\ main = "setup" /\ outcome = "open"
  /\ manifest = "nil" /\ stopped = FALSE /\ transferErr = 0
  /\ errMon = "none" /\ feeder = "none" /\ monitor = "none" /\ handler = "wait"
  /\ nextFeed = 1 /\ cursor = 1 /\ enqueued = {}
  /\ queue = [p \in Pools |-> <<>>]
  /\ poolStopped = [p \in Pools |-> FALSE]
  /\ errs = [p \in Pools |-> 0]
  /\ errsClosed = [p \in Pools |-> FALSE]
  /\ at = [w \in Workers |-> "none"]
  /\ held = [w \in Workers |-> NoBatch]
  /\ status = [b \in Batches |-> "pending"]
  /\ size = Estimate
  /\ disk = [b \in Batches |-> 0]
  /\ extracted = [b \in Batches |-> 0]
  /\ currentSize = 0
  /\ checkpoint = File("absent", Blank)
  /\ image = [s \in Savers |-> Blank]
-----------------------------------------------------------------------------
(***************************************************************************)
(* main: Transfer up to the start of the goroutines.                       *)
(***************************************************************************)
Goto(l) == main' = l

\* CreateManifest and SetStatus("in_progress"), or its error returned at once.  That
\* the manifest is "pending" between the two is left out.
Setup ==
  /\ main = "setup"
  /\ \/ /\ manifest' = "in_progress"
        /\ Goto("saveFirst")
        /\ UNCHANGED outcome
     \/ /\ "setup" \in Faults
        /\ outcome' = "error"
        /\ Goto("returned")
        /\ UNCHANGED manifest
  /\ UNCHANGED <<proc, stopped, transferErr, helpers, channels, workers, batches,
                 handler, file>>

\* manifest.Save, in two steps: marshal and let WriteFile truncate the file; write.
\* An error ends it after either of them and only prints a warning.
SaveBegins(s) ==
  /\ CheckpointEnabled
  /\ image' = [image EXCEPT ![s] = Content]
  /\ checkpoint' = [checkpoint EXCEPT !.state = "torn"]

SaveSkipped == ~CheckpointEnabled \/ "save" \in Faults

\* A file that the other saver has filled meanwhile keeps its tail if it is longer.
SaveEnds(s) ==
  /\ \/ checkpoint' = File("whole", image[s])
     \/ checkpoint.state = "whole" /\ checkpoint' = File("torn", image[s])
     \/ "save" \in Faults /\ checkpoint' \in {checkpoint, File("torn", image[s])}
  /\ image' = [image EXCEPT ![s] = Blank]

Save(from, write, to) ==
  /\ \/ main = from /\ SaveBegins("main") /\ Goto(write)
     \/ main = write /\ SaveEnds("main") /\ Goto(to)
     \/ main = from /\ SaveSkipped /\ Goto(to) /\ UNCHANGED file
  /\ UNCHANGED <<proc, outcome, manifest, stopped, transferErr, helpers, channels,
                 workers, batches, handler>>

SaveFirst == Save("saveFirst", "writeFirst", "init")

\* Initialize the buffer (its error ends Transfer), start both pools, and start
\* the goroutines of coordinateTransfer.
Start ==
  /\ main = "init"
  /\ \/ /\ Goto("select")
        /\ at' = [w \in Workers |-> "idle"]
        /\ errMon' = "watch" /\ feeder' = "check" /\ monitor' = "tick"
        /\ UNCHANGED outcome
     \/ /\ "setup" \in Faults
        /\ outcome' = "error"
        /\ Goto("returned")
        /\ UNCHANGED <<at, errMon, feeder, monitor>>
  /\ UNCHANGED <<proc, manifest, stopped, transferErr, nextFeed, cursor, enqueued,
                 channels, held, batches, handler, file>>
-----------------------------------------------------------------------------
(***************************************************************************)
(* The goroutines of coordinateTransfer.                                   *)
(***************************************************************************)
\* An error received from a pool goes into transferErr and ends the monitor.
ForwardError(p) ==
  /\ errMon = "watch"
  /\ errs[p] > 0
  /\ transferErr = 0
  /\ errs' = [errs EXCEPT ![p] = @ - 1]
  /\ transferErr' = 1
  /\ errMon' = "end"
  /\ UNCHANGED <<proc, main, outcome, manifest, stopped, feeder, monitor, nextFeed,
                 cursor, enqueued, queue, poolStopped, errsClosed, workers, batches,
                 handler, file>>

ErrMonStops ==
  /\ errMon = "watch" /\ stopped
  /\ errMon' = "end"
  /\ UNCHANGED <<control, feeder, monitor, nextFeed, cursor, enqueued, channels,
                 workers, batches, handler, file>>

\* EnqueueBatch selects between the queue and the pool's stopChan.
CanEnqueue(p) == Len(queue[p]) < QueueCap(p)

\* Mutant: the loop over the batches runs once too often.
FeederChecksOffByOne ==
  /\ feeder = "check"
  /\ feeder' = IF stopped \/ nextFeed > NumBatches + 1 THEN "end" ELSE "send"
  /\ UNCHANGED <<control, errMon, monitor, nextFeed, cursor, enqueued, channels,
                 workers, batches, handler, file>>

FeederChecks ==
  /\ feeder = "check"
  /\ feeder' = IF stopped \/ nextFeed > NumBatches THEN "end" ELSE "send"
  /\ UNCHANGED <<control, errMon, monitor, nextFeed, cursor, enqueued, channels,
                 workers, batches, handler, file>>

FeederSends ==
  /\ feeder = "send"
  /\ \/ /\ CanEnqueue("source")
        /\ queue' = [queue EXCEPT !["source"] = Append(@, nextFeed)]
        /\ nextFeed' = nextFeed + 1
        /\ feeder' = "check"
     \/ /\ poolStopped["source"]
        /\ feeder' = "err"
        /\ UNCHANGED <<queue, nextFeed>>
  /\ UNCHANGED <<control, errMon, monitor, cursor, enqueued, poolStopped, errs,
                 errsClosed, workers, batches, handler, file>>

FeederFails ==
  /\ feeder = "err"
  /\ transferErr = 0
  /\ transferErr' = 1
  /\ feeder' = "end"
  /\ UNCHANGED <<proc, main, outcome, manifest, stopped, errMon, monitor, nextFeed,
                 cursor, enqueued, channels, workers, batches, handler, file>>

\* At a tick the monitor scans the batches in order; stopChan may end it instead.
MonitorTicks ==
  /\ monitor = "tick"
  /\ monitor' = "scan"
  /\ cursor' = 1
  /\ UNCHANGED <<control, errMon, feeder, nextFeed, enqueued, channels, workers,
                 batches, handler, file>>

MonitorStops ==
  /\ monitor = "tick" /\ stopped
  /\ monitor' = "end"
  /\ UNCHANGED <<control, errMon, feeder, nextFeed, cursor, enqueued, channels,
                 workers, batches, handler, file>>

MonitorScans ==
  /\ monitor = "scan" /\ cursor \in Batches
  /\ IF status[cursor] = "buffered" /\ cursor \notin enqueued
     THEN monitor' = "send" /\ UNCHANGED cursor
     ELSE cursor' = cursor + 1 /\ UNCHANGED monitor
  /\ UNCHANGED <<control, errMon, feeder, nextFeed, enqueued, channels, workers,
                 batches, handler, file>>

\* Mutant: enqueuedToDest is not updated.
MonitorSendsUnmarked ==
  /\ monitor = "send"
  /\ CanEnqueue("dest")
  /\ queue' = [queue EXCEPT !["dest"] = Append(@, cursor)]
  /\ cursor' = cursor + 1
  /\ monitor' = "scan"
  /\ UNCHANGED <<control, errMon, feeder, nextFeed, enqueued, poolStopped, errs,
                 errsClosed, workers, batches, handler, file>>

MonitorSends ==
  /\ monitor = "send"
  /\ \/ /\ CanEnqueue("dest")
        /\ queue' = [queue EXCEPT !["dest"] = Append(@, cursor)]
        /\ enqueued' = enqueued \cup {cursor}
        /\ cursor' = cursor + 1
        /\ monitor' = "scan"
     \/ /\ poolStopped["dest"]
        /\ monitor' = "err"
        /\ UNCHANGED <<queue, enqueued, cursor>>
  /\ UNCHANGED <<control, errMon, feeder, nextFeed, poolStopped, errs, errsClosed,
                 workers, batches, handler, file>>

MonitorFails ==
  /\ monitor = "err"
  /\ transferErr = 0
  /\ transferErr' = 1
  /\ monitor' = "end"
  /\ UNCHANGED <<proc, main, outcome, manifest, stopped, errMon, feeder, nextFeed,
                 cursor, enqueued, channels, workers, batches, handler, file>>

\* Mutant: a batch being uploaded counts as done.
AllBatchesHandedOver ==
  \A b \in Batches : status[b] \in {"completed", "failed", "uploading"}

\* A failed batch counts as done.
AllBatchesCompleted == \A b \in Batches : status[b] \in {"completed", "failed"}

MonitorChecks ==
  /\ monitor = "scan" /\ cursor > NumBatches
  /\ monitor' = IF AllBatchesCompleted THEN "end" ELSE "tick"
  /\ UNCHANGED <<control, errMon, feeder, nextFeed, cursor, enqueued, channels,
                 workers, batches, handler, file>>

\* Mutant: the joining goroutine does not wait for the monitor.
FeederEnded == feeder = "end"

HelpersEnded == feeder = "end" /\ monitor = "end"
-----------------------------------------------------------------------------
(***************************************************************************)
(* The workers: worker and processBatch of both pools.                     *)
(***************************************************************************)
\* A worker takes the next batch and marks it; stopChan may end it instead.
Take(w) ==
  LET p == Pool(w) IN
  /\ at[w] = "idle"
  /\ queue[p] # <<>>
  /\ held' = [held EXCEPT ![w] = Head(queue[p])]
  /\ queue' = [queue EXCEPT ![p] = Tail(@)]
  /\ status' = [status EXCEPT ![Head(queue[p])] =
                  IF p = "source" THEN "downloading" ELSE "uploading"]
  /\ at' = [at EXCEPT ![w] = IF p = "source" THEN "reserve" ELSE "extract"]
  /\ UNCHANGED <<control, helpers, poolStopped, errs, errsClosed, size, disk,
                 extracted, currentSize, handler, file>>

WorkerStops(w) ==
  /\ at[w] = "idle"
  /\ poolStopped[Pool(w)]
  /\ at' = [at EXCEPT ![w] = "end"]
  /\ UNCHANGED <<control, helpers, channels, held, batches, handler, file>>

\* The step of worker w, at label `from`, that touches no channel.
WorkerStep(w, from, to) ==
  /\ at[w] = from
  /\ at' = [at EXCEPT ![w] = to]
  /\ UNCHANGED <<control, helpers, channels, held, handler, file>>

\* EnsureBatchDir fails, or the pool stops while the buffer has no room.
GiveUp(w) ==
  /\ WorkerStep(w, "reserve", "fail")
  /\ \/ "mkdir" \in Faults
     \/ /\ currentSize + size[held[w]] > MaxSize
        /\ poolStopped["source"]
  /\ UNCHANGED batches

\* ReserveSpace succeeds.  While it fails the worker spins.
Reserve(w) ==
  /\ WorkerStep(w, "reserve", "tar")
  /\ currentSize + size[held[w]] <= MaxSize
  /\ currentSize' = currentSize + size[held[w]]
  /\ UNCHANGED <<status, size, disk, extracted>>

\* Mutant: the additional space is taken whether it is there or not.
AdjustedBlindly(b, n) == currentSize + (n - size[b])

\* What createTarArchive makes of the reservation when the archive has size n:
\* the result of the ReserveSpace that asks for more is ignored.
Adjusted(b, n) ==
  LET diff == n - size[b] IN
  IF diff > 0 /\ currentSize + diff > MaxSize THEN currentSize ELSE currentSize + diff

\* Mutant: batch.Size keeps the estimate.
CreateArchiveKeepsSize(w) ==
  LET b == held[w] IN
  /\ WorkerStep(w, "tar", "publish")
  /\ \E n \in ArchiveSizes :
       /\ disk' = [disk EXCEPT ![b] = n]
       /\ currentSize' = Adjusted(b, n)
  /\ UNCHANGED <<status, size, extracted>>

CreateArchive(w) ==
  LET b == held[w] IN
  /\ WorkerStep(w, "tar", "publish")
  /\ \E n \in ArchiveSizes :
       /\ disk' = [disk EXCEPT ![b] = n]
       /\ size' = [size EXCEPT ![b] = n]
       /\ currentSize' = Adjusted(b, n)
  /\ UNCHANGED <<status, extracted>>

\* A tar that fails may leave an archive behind, which nothing accounts for.
ArchiveFails(w) ==
  LET b == held[w] IN
  /\ WorkerStep(w, "tar", "fail")
  /\ "tar" \in Faults
  /\ \E n \in ArchiveSizes \cup {0} : disk' = [disk EXCEPT ![b] = n]
  /\ currentSize' = currentSize - size[b]
  /\ UNCHANGED <<status, size, extracted>>

\* The local path is set and the batch becomes visible to the monitor.
Publish(w) ==
  /\ at[w] = "publish"
  /\ at' = [at EXCEPT ![w] = "idle"]
  /\ held' = [held EXCEPT ![w] = NoBatch]
  /\ status' = [status EXCEPT ![held[w]] = "buffered"]
  /\ UNCHANGED <<control, helpers, channels, size, disk, extracted, currentSize,
                 handler, file>>

Extract(w) ==
  LET b == held[w] IN
  /\ WorkerStep(w, "extract", IF CleanupBuffer THEN "clean" ELSE "complete")
  /\ disk[b] > 0
  /\ extracted' = [extracted EXCEPT ![b] = @ + 1]
  /\ UNCHANGED <<status, size, disk, currentSize>>

\* Mutant: the error of the extraction is ignored.
ExtractFailsUnnoticed(w) ==
  /\ WorkerStep(w, "extract", "complete")
  /\ disk[held[w]] > 0 => "extract" \in Faults
  /\ UNCHANGED batches

ExtractFails(w) ==
  /\ WorkerStep(w, "extract", "fail")
  /\ disk[held[w]] > 0 => "extract" \in Faults
  /\ UNCHANGED batches

\* Mutant: DeleteBatch does not release the space.
CleanBatchUnreleased(w) ==
  /\ WorkerStep(w, "clean", "complete")
  /\ disk' = [disk EXCEPT ![held[w]] = 0]
  /\ UNCHANGED <<status, size, extracted, currentSize>>

\* DeleteBatch: when the file cannot be removed its space stays reserved.
CleanBatch(w) ==
  LET b == held[w] IN
  /\ WorkerStep(w, "clean", "complete")
  /\ \/ /\ disk' = [disk EXCEPT ![b] = 0]
        /\ currentSize' = currentSize - size[b]
     \/ /\ "delete" \in Faults
        /\ UNCHANGED <<disk, currentSize>>
  /\ UNCHANGED <<status, size, extracted>>

Complete(w) ==
  /\ at[w] = "complete"
  /\ at' = [at EXCEPT ![w] = "idle"]
  /\ held' = [held EXCEPT ![w] = NoBatch]
  /\ status' = [status EXCEPT ![held[w]] = "completed"]
  /\ UNCHANGED <<control, helpers, channels, size, disk, extracted, currentSize,
                 handler, file>>

\* batch.SetError, and only then the error goes to errorChan, dropped when full.
MarkFailed(w) ==
  /\ WorkerStep(w, "fail", "report")
  /\ status' = [status EXCEPT ![held[w]] = "failed"]
  /\ UNCHANGED <<size, disk, extracted, currentSize>>

Report(w) ==
  LET p == Pool(w) IN
  /\ at[w] = "report"
  /\ errs' = [errs EXCEPT ![p] = IF @ < ErrorCap(p) THEN @ + 1 ELSE @]
  /\ at' = [at EXCEPT ![w] = "idle"]
  /\ held' = [held EXCEPT ![w] = NoBatch]
  /\ UNCHANGED <<control, helpers, queue, poolStopped, errsClosed, batches, handler,
                 file>>

SourceStep(w) ==
  GiveUp(w) \/ Reserve(w) \/ CreateArchive(w) \/ ArchiveFails(w) \/ Publish(w)
DestStep(w) == Extract(w) \/ ExtractFails(w) \/ CleanBatch(w) \/ Complete(w)
Work(w) == Take(w) \/ SourceStep(w) \/ DestStep(w) \/ MarkFailed(w) \/ Report(w)
-----------------------------------------------------------------------------
(***************************************************************************)
(* main: the end of coordinateTransfer, cleanup, and the return.           *)
(***************************************************************************)
\* Mutant: stopChan is closed through a sync.Once.
CloseStopChanOnce(result, next) ==
  stopped' = TRUE /\ outcome' = result /\ Goto(next) /\ UNCHANGED proc

\* close(be.stopChan) panics when the channel is closed already.
CloseStopChan(result, next) ==
  IF stopped
  THEN proc' = "panicked" /\ UNCHANGED <<stopped, outcome, main>>
  ELSE stopped' = TRUE /\ outcome' = result /\ Goto(next) /\ UNCHANGED proc

SelectError ==
  /\ main = "select" /\ transferErr = 1
  /\ transferErr' = 0
  /\ CloseStopChan("error", "stopSource")
  /\ UNCHANGED <<manifest, helpers, channels, workers, batches, handler, file>>

SelectDone ==
  /\ main = "select" /\ HelpersEnded
  /\ CloseStopChan("success", "joinErrMon")
  /\ UNCHANGED <<manifest, transferErr, helpers, channels, workers, batches, handler,
                 file>>

\* Mutant: no errWg.Wait.
JoinErrMonDropped ==
  /\ main = "joinErrMon"
  /\ Goto("stopSource")
  /\ UNCHANGED <<proc, outcome, manifest, stopped, transferErr, helpers, channels,
                 workers, batches, handler, file>>

JoinErrMon ==
  /\ main = "joinErrMon" /\ errMon = "end"
  /\ Goto("stopSource")
  /\ UNCHANGED <<proc, outcome, manifest, stopped, transferErr, helpers, channels,
                 workers, batches, handler, file>>

\* Stop of a pool: close stopChan, wait for the workers, close errorChan.
StopPool(p, from, wait) ==
  /\ main = from
  /\ poolStopped' = [poolStopped EXCEPT ![p] = TRUE]
  /\ Goto(wait)
  /\ UNCHANGED <<proc, outcome, manifest, stopped, transferErr, helpers, queue, errs,
                 errsClosed, workers, batches, handler, file>>

\* Mutant: the wait group of the pool is not waited for.
WorkersNotAwaited(p) == TRUE

\* Mutant: only the source pool is waited for.
SourceWorkersEnded(p) == p = "source" => \A w \in Members(p) : at[w] = "end"

WorkersEnded(p) == \A w \in Members(p) : at[w] = "end"

PoolStopped(p, wait, next) ==
  /\ main = wait
  /\ WorkersEnded(p)
  /\ errsClosed' = [errsClosed EXCEPT ![p] = TRUE]
  /\ Goto(next)
  /\ UNCHANGED <<proc, outcome, manifest, stopped, transferErr, helpers, queue,
                 poolStopped, errs, workers, batches, handler, file>>

StopPools ==
  \/ StopPool("source", "stopSource", "waitSource")
  \/ PoolStopped("source", "waitSource", "stopDest")
  \/ StopPool("dest", "stopDest", "waitDest")
  \/ PoolStopped("dest", "waitDest", "clean")

\* BufferManager.Cleanup: every archive goes, and the account with it; or RemoveAll
\* fails half-way, and the account stays.
RemoveAll ==
  /\ \/ /\ disk' = [b \in Batches |-> 0]
        /\ currentSize' = 0
     \/ /\ "delete" \in Faults
        /\ \E S \in SUBSET Batches : disk' = [b \in Batches |-> IF b \in S THEN 0 ELSE disk[b]]
        /\ UNCHANGED currentSize
  /\ UNCHANGED <<status, size, extracted>>

CleanBuffer ==
  /\ main = "clean"
  /\ IF (outcome = "success" /\ CleanupBuffer) \/ (outcome = "error" /\ ~KeepOnFailure)
     THEN RemoveAll
     ELSE UNCHANGED batches
  /\ Goto("saveLast")
  /\ UNCHANGED <<proc, outcome, manifest, stopped, transferErr, helpers, channels,
                 workers, handler, file>>

SaveLast == Save("saveLast", "writeLast", "finish")

\* The status of the manifest is set after the last save, and only on success.
Finish ==
  /\ main = "finish"
  /\ manifest' = IF outcome = "success" THEN "completed" ELSE manifest
  /\ Goto("returned")
  /\ UNCHANGED <<proc, outcome, stopped, transferErr, helpers, channels, workers,
                 batches, handler, file>>

Main ==
  \/ Setup \/ SaveFirst \/ Start
  \/ SelectError \/ SelectDone \/ JoinErrMon
  \/ StopPools \/ CleanBuffer \/ SaveLast \/ Finish
-----------------------------------------------------------------------------
(***************************************************************************)
(* The signal handler and emergencyCleanup.                                *)
(***************************************************************************)
HandlerGoto(l) == handler' = l

Interrupt ==
  /\ Interrupts /\ handler = "wait"
  /\ HandlerGoto("close")
  /\ UNCHANGED <<control, helpers, channels, workers, batches, file>>

HandlerCloses ==
  /\ handler = "close"
  /\ IF stopped
     THEN proc' = "panicked" /\ UNCHANGED <<stopped, handler>>
     ELSE stopped' = TRUE /\ HandlerGoto("save") /\ UNCHANGED proc
  /\ UNCHANGED <<main, outcome, manifest, transferErr, helpers, channels, workers,
                 batches, file>>

HandlerSaves ==
  /\ \/ /\ handler = "save" /\ manifest # "nil"
        /\ SaveBegins("handler") /\ HandlerGoto("write")
     \/ handler = "write" /\ SaveEnds("handler") /\ HandlerGoto("clean")
     \/ /\ handler = "save" /\ (manifest = "nil" \/ SaveSkipped)
        /\ HandlerGoto("clean") /\ UNCHANGED file
  /\ UNCHANGED <<control, helpers, channels, workers, batches>>

HandlerCleans ==
  /\ handler = "clean"
  /\ IF manifest # "nil" /\ main \notin {"saveFirst", "writeFirst", "init"} /\ ~KeepOnFailure
     THEN RemoveAll
     ELSE UNCHANGED batches
  /\ HandlerGoto("exit")
  /\ UNCHANGED <<control, helpers, channels, workers, file>>

Exit ==
  /\ handler = "exit"
  /\ proc' = "exited"
  /\ UNCHANGED <<main, outcome, manifest, stopped, transferErr, helpers, channels,
                 workers, batches, handler, file>>

Handler == HandlerCloses \/ HandlerSaves \/ HandlerCleans \/ Exit
ErrMon == ErrMonStops \/ \E p \in Pools : ForwardError(p)
Feeder == FeederChecks \/ FeederSends \/ FeederFails
Monitor == MonitorTicks \/ MonitorScans \/ MonitorSends \/ MonitorFails \/ MonitorChecks

\* Transfer has returned, or the process is gone.
Over == main = "returned" \/ proc # "running"
Idle == Over /\ UNCHANGED vars

Next ==
  \/ /\ proc = "running"
     /\ \/ Main \/ ErrMon \/ Feeder \/ Monitor \/ MonitorStops
        \/ \E w \in Workers : Work(w) \/ WorkerStops(w)
        \/ Interrupt \/ Handler
  \/ Idle

Spec == Init /\ [][Next]_vars

(***************************************************************************)
(* The Go scheduler runs every goroutine that can run.  A select with      *)
(* several ready cases picks one at random, so a case that is ready again  *)
(* and again is taken: strong fairness for MonitorStops, ready at every    *)
(* tick once stopChan is closed.                                           *)
(***************************************************************************)
Running(A) == proc = "running" /\ A

Fairness ==
  /\ WF_vars(Running(Main))
  /\ WF_vars(Running(ErrMon))
  /\ WF_vars(Running(Feeder))
  /\ WF_vars(Running(Monitor)) /\ SF_vars(Running(MonitorStops))
  /\ \A w \in Workers : WF_vars(Running(Work(w))) /\ WF_vars(Running(WorkerStops(w)))
  /\ WF_vars(Running(Handler))

FairSpec == Spec /\ Fairness
-----------------------------------------------------------------------------
(***************************************************************************)
(* Safety properties.                                                      *)
(***************************************************************************)
\* No archive is extracted twice: the monitor rescans all batches at every tick
\* and relies on enqueuedToDest to hand each one over once
\* (batched_engine.go:144-165, dest_worker.go:72).
NoDoubleDelivery == \A b \in Batches : extracted[b] <= 1

\* A batch that the manifest, in memory or in the checkpoint file, calls completed
\* was extracted at the destination (dest_worker.go:106-119, batch.go:158).
CompletedMeansDelivered ==
  \A b \in Batches :
    status[b] = "completed" \/ checkpoint.content.status[b] = "completed" => extracted[b] = 1

\* The errorChan of a pool is closed only when nobody uses it any more: the error
\* monitor would take the zero value of a closed channel for an error, a worker
\* that reports to it would panic (batched_engine.go:112, source_worker.go:54-55, 89).
ErrorChannelsOpenInUse ==
  \A p \in Pools : errsClosed[p] =>
    /\ errMon # "watch"
    /\ \A w \in Members(p) : at[w] = "end"

\* When Transfer returns, no worker runs any more; and when it returns success no
\* goroutine of coordinateTransfer is left and no batch is left in a queue
\* (batched_engine.go:196, 219-224).
QuietOnReturn ==
  main = "returned" /\ manifest # "nil" =>
    /\ \A w \in Workers : at[w] \in {"none", "end"}
    /\ outcome = "success" =>
         HelpersEnded /\ errMon = "end" /\ \A p \in Pools : queue[p] = <<>>

\* What success means in fact: every batch was delivered, or its attempt failed.
\* A failed batch can be among them only while its error is still on the way.
SuccessLeavesNothingBehind ==
  outcome = "success" =>
    \A b \in Batches : status[b] = "completed" \/ status[b] = "failed"

\* Once the signal handler has closed stopChan, Transfer reports no success any more,
\* although the closed channel ends the feeder and the monitor as completion does:
\* main's own close of the channel panics first (batched_engine.go:124, 143, 193-196).
InterruptedNeverSucceeds == handler \notin {"wait", "close"} => outcome # "success"

\* The account never promises more than the buffer may hold, whatever sizes the
\* archives turn out to have (buffer.go:57, source_worker.go:223).
AccountWithinLimit == currentSize <= MaxSize

\* The bytes in the buffer.
Used == SumFunction(disk)

\* The archives in the buffer are covered by the account, so the limit on the
\* account limits the disk too.  It holds as long as no archive outgrows its
\* estimate and no failed tar leaves one behind (source_worker.go:110-134, 220-229).
AccountCoversDisk == Used <= currentSize

\* Every reservation is given back: when all batches were delivered and each
\* archive deleted, the account is zero before Cleanup stores zero in it
\* (buffer.go:113, source_worker.go:221-228).
SpaceReturned ==
  main = "clean" /\ CleanupBuffer /\ "delete" \notin Faults
    /\ (\A b \in Batches : status[b] = "completed")
  => currentSize = 0 /\ Used = 0

\* The checkpoint that Transfer leaves behind is whole and says of every batch what
\* the manifest in memory says, unless the signal handler wrote to it as well
\* (batched_engine.go:217-250: the pools stop before the last save).
FinalCheckpointCurrent ==
  main = "returned" /\ manifest # "nil" /\ errsClosed["dest"]
    /\ CheckpointEnabled /\ handler = "wait"
  => checkpoint.state = "whole" /\ checkpoint.content.status = status

\* The engine implements the abstract transfer: a batch is staged once it is
\* buffered, delivered once it was extracted, and the verdict is what Transfer
\* returns, after which no batch changes.
PhaseOf(b) ==
  IF extracted[b] > 0 THEN "delivered"
  ELSE IF status[b] = "failed" THEN "lost"
  ELSE IF status[b] \in {"buffered", "uploading"} THEN "staged"
  ELSE "waiting"

Abstract == INSTANCE BatchTransfer WITH
  phase <- [b \in Batches |-> PhaseOf(b)],
  verdict <- IF main = "returned" THEN outcome ELSE "open"

\* Refinement of BatchTransfer by PhaseOf and the returned outcome
\* (batched_engine.go:41-101, source_worker.go:98-141, dest_worker.go:96-122).
RefinesTransfer == Abstract!Spec

(***************************************************************************)
(* Liveness, and statements of the source that the runs refute.            *)
(***************************************************************************)
\* Transfer returns: no worker spins for ever on a full buffer, no goroutine waits
\* for ever on a queue, a channel or another goroutine (batched_engine.go:104-200).
\* It needs a worker in each pool, estimates that fit the buffer, and archives that
\* are deleted once extracted.
TransferReturns == <>Over

\* "allBatchesCompleted checks if all batches are completed"
\* (batched_engine.go:202), and Transfer prints "Transfer completed successfully".
SuccessMeansAllCompleted ==
  outcome = "success" => \A b \in Batches : status[b] = "completed"
=============================================================================
