# Formal verification of difpipe

difpipe moves files between machines. It looks at what is to be moved, picks a
strategy (rclone, rsync, a tar stream, a proxy between two remote hosts, or batched
tar archives through a disk buffer) and runs the engine for it. This directory holds
TLA+ models of the parts whose correctness depends on the order in which goroutines,
signals and failures meet, TLC configurations that check them on small instances, and
proofs for every instance. Paths below are relative to the repository's root.

## 1. Inventory

| Part | State it keeps | Operations | Interacts with | Hard behaviour |
|---|---|---|---|---|
| Batched tar engine, `pkg/batch/batched_engine.go` | manifest, `stopChan`, `transferErr`, `enqueuedToDest` | `Transfer`, `coordinateTransfer`, `cleanup`, `emergencyCleanup` | worker pools (channels), buffer manager, checkpoint file, signals | four goroutines and a signal handler over shared statuses and channels; errors racing completion |
| Worker pools, `source_worker.go`, `dest_worker.go` | `batchQueue`, `errorChan`, `stopChan`, a wait group | `Start`, `Stop`, `EnqueueBatch`, `worker`, `processBatch` | buffer manager, statuses of batches, tar and ssh | busy waiting for space, errors dropped when the channel is full, failures half-way |
| Buffer manager, `pkg/batch/buffer.go` | `currentSize` against `maxSize`, files on disk | `ReserveSpace`, `ReleaseSpace`, `DeleteBatch`, `Cleanup` | both pools, engine | account against disk, estimates against real sizes |
| Manifest, `pkg/batch/batch.go` | status of the manifest and of each batch | `SetStatus`, `SetError`, `Save`, `Load` | everything in `pkg/batch`, checkpoint file | a file written in place, by two savers |
| Manifest creator, `manifest_creator.go` | none | `CreateManifest`, `binPackFiles` | tar engine | sizes at boundaries |
| Circular buffer, `pkg/buffer/buffer.go` | array, two positions, count, `closed`, two condition variables | `Write`, `Read`, `Close`, `CloseWithError`, `Reset`, `waitWithTimeout` | pipeline | wrap-around, lost wakeups, close against waiting callers |
| Streaming pipeline, `pkg/stream/pipeline.go` | first error, context, wait groups, counters | `Start`, `Stop`, two data goroutines, progress | circular buffer, proxy engine | cancellation against blocked callers, truncated data reported as success |
| rsync and rclone engines, `pkg/engines` | a child process, its pipes, the goroutines that scan them | `Transfer`, `Estimate`, `buildCommand` | the programs | end of the process, of its pipes and of the scanners; cancellation |
| tar-stream engine, `pkg/engines/tarstream` | the archive, the walk | `Transfer`, `Estimate`, `walkAndTar` | the file system | filters and skipped directories, failure in the middle of an entry |
| Proxy engine, `pkg/engines/proxy` | two clients, a reader, a writer, a pipeline | `Transfer`, `Estimate` | transport, pipeline | everything opened is closed again, whatever fails; what a success is worth |
| SSH transport, `pkg/transport` | connection, keepalive channels, sessions | `Connect`, `ExecuteCommand`, `StreamCommand`, `StreamWrite`, `Close` | proxy engine | connect against the context, a command that waits to be read |
| Checkpoint manager, `pkg/checkpoint` | a file per transfer; the auto saver's state and goroutine | `Save`, `Load`, `Delete`, `Clean`, `Start`, `Update`, `Stop` | none in the repository | crash during a write, a save after a delete, `Stop` that does not wait |
| Status tracker, `pkg/status` | a map of transfers, a file each | `Register`, `Start`, `Update`, `Complete`, `Fail`, `Delete`, `Clean` | command line (`status` reads it) | memory against files when writes fail, transitions nobody guards |
| Retry, `pkg/retry` | attempts | `Do`, `DoWithRetryable`, `calculateWait` | none in the repository | cancellation between attempts, numeric edges |
| Metrics, `pkg/metrics` | a map under a read-write lock | `Record`, `Get`, `RecordTransfer`, `GetTransferMetrics` | none in the repository | a read lock taken twice |
| Orchestrator and analyzer | engines by strategy; statistics of files | `Transfer`, `Analyze`, `recommendStrategy` | command line, engines | which strategy for which input; sampling |
| Configuration and command line | layers of options | `LoadConfig`, `FromEnv`, `Merge`, `applyFlags`, exit codes | all | precedence of sources; what exit code 0 says |
| Progress reporters, output formatting, core types | values | reporters, formatters | command line | none: text for a terminal |

What makes the parts correct:

- *Batched tar*: a batch is delivered at most once; only what was delivered is called
  completed, in memory and in the checkpoint; a success leaves no batch under way; the
  buffer's account stays within its limit, covers what is on disk and goes back to zero;
  nothing runs, and no archive changes, after `Transfer` returned; `Transfer` returns.
- *Circular buffer*: what is read is what was written, in order; no goroutine sleeps
  while it could work; the end of the stream comes after its last byte.
- *Pipeline*: the destination receives a prefix of the source; `nil` means all of it;
  the source, destination and progress goroutines have ended when `Start` returns; `Start`
  and `Stop` return.
- *Command*: the options of a transfer come from the first source that says something;
  exit code 0 promises what the engine that was asked for can promise, and a dry run
  touches nothing; a strategy is selected only for the files it is meant for.
- *Engines*: what is reported as moved, archived or copied is; a dry run and an estimate
  move nothing; what was opened is closed, with two exceptions; an answer comes.
- *Services*: a reservation is atomic for its callers; the checkpoint is whole and current;
  files and memory of the tracker agree; a retried call's result is what happened; every
  file is packed once; calls return.

## 2. Modules

| Module | What it is |
|---|---|
| `BatchTransfer` | abstract: what a batched transfer promises |
| `BatchPipeline` | the engine of `pkg/batch`, every goroutine of a `Transfer`; implements `BatchTransfer` |
| `MCBatchPipeline` | worker pools, sizes, faults and symmetry for TLC |
| `BoundedFifo` | abstract: a bounded first-in-first-out queue |
| `CircularBuffer` | `pkg/buffer` with any number of writers and readers; implements `BoundedFifo` |
| `MCCircularBuffer` | its goroutines and symmetry for TLC |
| `CircularBufferProofs` | theorems about `CircularBuffer` |
| `StreamPipeline` | `pkg/stream`; composes `CircularBuffer` as an instance |
| `MCStreamPipeline` | its instances for TLC |
| `StreamPipelineProofs` | theorems about `StreamPipeline`, on those of `CircularBufferProofs` |
| `BatchPipelineProofs` | theorems about `BatchPipeline`: batches, goroutines, refinement |
| `BatchAccountProofs` | the others about it: the account of the buffer, the last checkpoint |
| `StreamCopy` | abstract: what the pipeline promises the proxy engine; `StreamPipeline` implements it |
| `Options`, `Analyzer` | pure: configuration layers and their merge; protocols, statistics and the recommendation |
| `TransferCommand` | one run of `difpipe transfer`: configuration, orchestrator, analyzer, engine, exit code |
| `MCTransferCommand` | its instances for TLC |
| `TransferCommandProofs` | theorems about `TransferCommand`, `Options` and `Analyzer` |
| `EngineCall` | one call of an engine: its options, its context, its answer |
| `ChildEngine` | rsync and rclone: a child process, two pipes, two scanners |
| `TarStream` | the tar engine: the walk and its archive |
| `SSHTransport`, `ProxyEngine` | connections and sessions; the proxy transfer over them and over `StreamCopy` |
| `Engines` | the four engines behind the orchestrator's dispatch |
| `MCEngines` | its instances for TLC |
| `EnginesProofs` | theorems about the four engines |
| `SpaceAccount` | abstract: an account that takes a reservation if and only if it fits at that moment |
| `SpaceLedger` | `ReserveSpace` as its loop of Load and CompareAndSwap; implements `SpaceAccount` |
| `CheckpointStore`, `StatusTracker` | the files of `pkg/checkpoint` and `pkg/status`, with failures and crashes |
| `Retry`, `ManifestCreator`, `MetricsLock` | `pkg/retry`; listing and packing in `pkg/batch`; the lock of `pkg/metrics` |
| `Services` | the last six, which do not read each other's state |
| `MCServices` | its instances for TLC |
| `ServicesProofs` | theorems about the six parts of `Services` but the lock |
| `InductionLemmas` | what the proofs share: least elements, sums, and what a fold or a recursive function is at each number |

Operators marked `Mutant` in a comment are wrong variants of the definition that follows
them. The specifications never use them; `PROJECT.json` names the property each of them
breaks, which shows that the property depends on that piece of the code.

### BatchPipeline

State and code: `main` is the position of `Transfer`, `coordinateTransfer` and `cleanup`;
`errMon`, `feeder`, `monitor` and `handler` are the positions of their goroutines and of
the signal handler; `at[w]` and `held[w]` those of the workers. A channel of batches is a
sequence with the capacity the code gives it (twice the pool), a channel of errors a
counter, a channel that is only closed a Boolean. `status`, `size` and `disk` are the
batch's `Status`, its `Size`, and the bytes its archive really occupies; `currentSize` is
the account of the buffer manager; `checkpoint` and `image` are the checkpoint file and
what a saver has marshalled but not written. `extracted` is a history variable.

Each action is the piece of a goroutine between two points where others can see what it
did. The steps that look alike are kept apart because others run between them: a
failed worker first marks its batch and then sends the error; `WriteFile` first truncates
and then writes; main first closes `stopChan` and only then waits for the error monitor;
`Stop` closes the channel, waits, and closes `errorChan`; the feeder looks at `stopChan`
before it calls `EnqueueBatch`.

Faults are a constant: which of setup, mkdir, tar, extract, delete and save may fail.

Abstracted: file lists, ssh command lines, and the time between ticks (the monitor ticks
whenever it is scheduled). The manifest is "in_progress" as soon as it exists. Save
marshals all batches at once, although the code reads their statuses one by one without
their mutex; the properties about the file compare it with facts that only grow, or look
at it when no worker runs. `ReserveSpace` is one step.

### CircularBuffer

A method holds the mutex from its start to its return or its next `Cond.Wait`, so that
piece is one action. A goroutine is idle, blocked in `Wait`, or awake and about to take the
mutex again; `Signal` wakes any one blocked goroutine, `Broadcast` all. Bytes are numbered
as they are put in, so order, loss and duplication can be told. The single copy and the
two copies of a chunk that wraps around are the same set of slots, at distances from the
position (`Distance`). Empty slices and `Timeout`, which no caller sets, are left out.

### StreamPipeline

`src`, `dst`, `prog`, `joiner`, `start` and `stop` are the positions of the goroutines of
`Start` and of the caller of `Stop`. A call of `buffer.Write` or `buffer.Read` is its first
step (`SrcWrites`, `DstReads`), any number of resumptions after `Wait`, and the return.
The source returns bytes together with `nil`, `EOF` or an error, as `io.Reader` allows; the
destination takes all bytes, or some of them and fails. The cancellation of the context
and the call of `Stop` come at any moment. The 32 KB slices are `Chunk`, the 1 MB buffer is
`Size`, both a few bytes.

The refinement `ImplementsCopy` forgets the buffer: the abstract `copied` is how much the
destination has, `ended` what `Start` returned. It is the promise on which `ProxyEngine` builds.

### TransferCommand, Options, Analyzer

`runTransfer` is a sequence, and `pc` its position: the configuration is loaded and merged
(`LoadsConfig`), overridden by flags (`AppliesFlags`), the orchestrator asks the analyzer if
the strategy is "auto" (`SelectsStrategy`, and for a local source the two walks `CountsFiles` and
`Samples`), the engine is looked up (`NoEngine`) and called (`EngineTransfers`), the result printed
(`Prints`). The directory may change between the two walks. A panic is exit code 2, as Go makes it.

Inputs are data: a config input is how it is found, whether it parses and the layer it describes;
a path is its kind, which is all that prefixes and separators decide; a directory is the sequence
of its files' sizes. Of options that `Merge` treats alike one stands for all. File types,
compressibility and reasons are left out. Which engines can do nothing with which paths is kept
(`MayTransfer`), and what a success of each is worth (`SuccessLeaves`), as `Engines` shows it: of rsync
and rclone everything, of tar an archive that may lack its end, of the proxy nothing. A percentage is
compared as `float64` does (`Exceeds`): division and multiplication round 11 of 20 to more than 55, and
so for 7, 14, 28 and 56 percent; at every other whole percentage the comparison is exact. Thresholds
with fractions of a percent are left out.

### Engines

`Engines` is the orchestrator's dispatch: `engine` picks the engine of a behaviour, and the
variables of the others do not move, so the state space is the sum of the four. `cancelled` is the
caller's context.

- `ChildEngine`: the child writes lines to two pipes of `PipeLines` lines and exits; a goroutine
  scans each pipe and gives up at a line longer than a Scanner's token; `Transfer` waits for the
  child only, `Estimate` (`CombinedOutput`) for the copies too. The command lines are kept as far as
  dry run, compression, checkpoint, filters and passwords go. The child and the kernel's
  pipes are external.
- `TarStream`: one action per entry of the tree: skipped with what is below, added, or failed with or
  without its header written. The deferred `Close`s end the archive or lose its end, and no one looks.
- `SSHTransport`: a dial goes on after `Connect` has given it up; a connection may be lost, and the
  keepalive goroutine ends then; `Close` ends it and waits. Which authentication is used decides
  whether there is any, and whether a connection to the agent's socket is opened, which nobody closes
  (`agentSocket`).
- `ProxyEngine`: the deferred closes are the sequence `deferred`, run from its end. The pipeline is
  `StreamCopy`, and the case in which it never returns is `PipelineStalls`. `unread` is
  what the remote `cat` cannot get rid of when nobody reads its channel.

### Services

Six parts that have no state in common; the variable `part` picks the one a behaviour is about, so
that one run checks them all at the cost of the sum.

- `SpaceLedger`: `at[w]` is a worker's position in `ReserveSpace`: before the Load, or between it and the
  CompareAndSwap. `wants` and `reply` are what the callers see; with `currentSize`, the account, they are
  what the refinement shows to `SpaceAccount`, and the rest is stutter. A release subtracts any size, as
  `ReleaseSpace` does: what was reserved is kept by its callers, and they release more than that when an
  archive outgrew its estimate. `SpaceAccount` therefore promises about the account, not about
  what it stands for; `BatchPipeline` has the callers, and there `AccountCoversDisk` says when it covers the disk.
- `CheckpointStore`: the states of a transfer are numbers in their order. `Save` is marshal, open
  (which truncates) and write; a file removed in between takes the write with it (`sameFile`).
  `Clean` looks and removes in two steps. The history variable `disturbed` tells the cases
  in which the code promises nothing.
- `StatusTracker`: a call changes the map and then writes the file, under the mutex; the errors of writes
  and removals are dropped. Of a status the model keeps what the tracker looks at.
- `Retry`: `Do` is the case in which every error is worth a retry. Waits are in tenths of a unit, so
  that the jitter of at most a tenth is a range of integers.
- `ManifestCreator`: what `find` prints is a sequence of sizes and of the odd lines the parser
  skips or fails at; a file's name is its number in the listing.
- `MetricsLock`: `sync.RWMutex` as its documentation has it: no reader enters while a writer waits.

## 3. What the runs show

Runs that pass:

| Run | Distinct states | What it shows |
|---|---|---|
| `BatchPipeline_faults` | 1.5 million | whatever fails when, no batch is delivered twice, completed means delivered, the error channels are open while used, nothing runs after the return, a success leaves no batch under way, the account stays within the limit, the final checkpoint is current; the engine implements `BatchTransfer` |
| `BatchPipeline_interrupt` | 1.7 million | with SIGINT at any moment: no success after it, refinement as before |
| `BatchPipeline_live` | 177,000 | `Transfer` returns when both queues fill up and the worker spins for space; with archives no larger than estimated the account covers the disk, and every reservation is given back |
| `CircularBuffer_shared` | 750,000 | two writers, two readers, close and reset at any moment: contents, order, refinement of `BoundedFifo` |
| `CircularBuffer_waiting` | 224,000 | the same without reset: no lost wakeup, the end of the stream is the end |
| `StreamPipeline_all` | 99,000 | prefix, completeness of a `nil`, the goroutines of source, destination and progress end before `Start`, under failures, cancellation and `Stop`; `Start` returns, but for one case; refinement of `StreamCopy` |
| `TransferCommand_all` | 47,000 | the layers in the code's order, what exit code 0 promises, dry runs touch nothing, tar only for many small files |
| `Engines_all` | 39,000 | what an answer says was done is done, dry runs and estimates move nothing, nothing stays open but an abandoned connection and the agent's socket, an answer comes but for three ways to wait for ever |
| `Services_all` | 115,000 | refinement of `SpaceAccount`, with releases of any size; the checkpoint is current, the tracker reads back what it knows, a retry's result is what happened, packing keeps order and limit, calls return but for one deadlock |

Runs in which TLC refutes a statement of the repository (`findings` in `PROJECT.json`):

| Run | The statement | What the code does |
|---|---|---|
| `BatchPipeline_success` | "checks if all batches are completed" (`batched_engine.go:202`) | a failed batch counts as done, and its error may lose the race with `done`: `Transfer` returns nil and prints that it completed successfully |
| `StreamPipeline_error` | "Cancel context to stop all goroutines" (`pipeline.go:264`) | a source that waits for space is not reached by the cancellation |
| `TransferCommand_sampling` | "1000+ files, >80% small (<10KB): Tar" (`README.md:74`) | of a sampled directory all files are counted and only the sampled ones classified: with twice `maxSampleSize` files at most half are ever small |

The one case in which `Start` does not return is that of the second finding: the
destination has ended, for whatever reason, while the source waits in `buffer.Write`. `Stop`
hangs in the same way, although it "stops the pipeline gracefully" (`pipeline.go:124`).

Disagreements between the code and its comments that the models contain and no run is
spent on:

- The signal handler, "for graceful shutdown on Ctrl+C" (`batched_engine.go:252`), closes
  `stopChan`, and so does `coordinateTransfer`, which the closed channel has just ended: the
  second close panics. This panic keeps an interrupted transfer from being reported as a
  success (`InterruptedNeverSucceeds`): a repair that closes the channel only once has
  to keep that property in another way, as the mutant `CloseStopChanOnce` shows.
- A checkpoint is truncated before it is written (`batch.go:175`), so a process that panics or exits
  in between leaves none, although the README promises "Resume interrupted transfers".
- `maxSize` is the "Maximum size in bytes" (`pkg/batch/buffer.go:14`), but an archive that outgrows
  its estimate stays in the buffer when `ReserveSpace` refuses the difference: `AccountWithinLimit`
  bounds the account, `AccountCoversDisk` the disk only where archives do not outgrow estimates. The
  size of the batch is raised all the same (`source_worker.go:223`), so `DeleteBatch` later releases more than was
  reserved (`dest_worker.go:112`): the account falls below what is on disk, below zero too, and a request is
  granted that should not fit.
- "Save final checkpoint" (`batched_engine.go:244`) runs before the manifest becomes completed,
  so the file says in_progress for ever.
- Three ways in which an engine never answers, named in `EngineReturns`: a child that writes to a pipe
  whose scanner gave up at a line too long for it (`rsync/engine.go:222`), the pipeline of the second
  finding, and `cat` that waits to be read while `streamReader.Close` waits for it
  (`transport.go:279`). Cancelling the context ends only the first.
- `GetTransferMetrics` holds the read lock and asks for it again in `Get` (`metrics/collector.go:165`): a
  writer that waits in between blocks both for ever (`MetricsDeadlocked`).
- "Priority: config file > args > environment" (`main.go:261`): with `--config` the arguments are not looked
  at. `DIFPIPE_SOURCE=/e difpipe transfer --config c.yaml /a /b`, with a file that names no source, runs
  with `/e`. `LayersInOrder` has the order of the code.
- "Transfer completed successfully" (`proxy/engine.go:151`), and the exit code that "indicates successful
  completion" (`exit_codes.go:6`): the proxy engine compares neither the bytes it wrote with the size it asked for nor the exit
  statuses of the two commands, so a part of the file passes for all of it. `ProxySuccessMeansStreamed` and
  `ZeroExitPromises` say what a success is worth.
- "binPackFiles uses first-fit bin packing" (`manifest_creator.go:146`): it is next-fit, as its test expects and
  `PackingKeepsOrderAndLimit` says. Sizes 1, 2, 1 and a limit of 2 make three batches, not two.
- The `Close`s of a tar archive are deferred and not looked at (`tarstream/engine.go:132`), so a "complete" archive may lack its end.
- With authentication by the agent, its socket is connected to (`auth.go:106`) and never closed, but by the
  garbage collector; a connection that is made after `Connect` gave it up (`transport.go:74`) is not closed either.
- `Start` of the pipeline may return while the goroutine that joins the others (`pipeline.go:99`) has yet
  to close `done`: after a cancellation it waits for the others itself. `CopyEndsBeforeStart` is about the three
  others, and about the joiner where `nil` is returned.
- `Merge` overlays Booleans always, so `DIFPIPE_DRY_RUN` and `DIFPIPE_CHECKPOINT` never count, and a layer made
  of arguments hides what the environment says of parallel, compression and format;
  a config file's `strategy: auto` is overridden by the environment's strategy.
- A `thresholds` section that leaves out `max_sample_size` makes it 0, and `analyzeLocal` divides by it:
  a panic, although "default 10000" is documented (`config.go:61`).
- A completed transfer whose result is to be printed as csv exits with 1 (`main.go:94` offers csv). A
  missing engine exits with 30; code 40, made for it, is never used.
- A sample takes every k-th file and counts k files for it, so the scaled total falls short of a rest. With a
  `small_file_percent` between 0 and 50 exclusive, tar can be selected although too few files are small: a sample
  of two from five files, of which these two are small, counts 2 of 4 and passes 45 percent. With the default of 80, with
  50 or more, and with 0 this cannot happen (`TarIsDeserved`, section 6).
- "Cloud destination: Rclone" (`README.md:76`): few local files to a cloud destination get rsync, and many
  small ones tar, which refuses every remote path; `SupportsProtocol` is never called.
- `enumerateFiles` says "Make path relative" (`manifest_creator.go:121`), but a local `find` prints
  names that begin with its path (`belowRoot`), which `tar -C path` then does not find. A local path with
  "@" before ":" is taken for a remote one.
- `Clean` of the checkpoint manager looks at the time of a file and then removes it, also
  if it was saved anew in between. A `Save` under way when a `Delete` comes may bring the file back.
- A retried call that succeeds in a later attempt returns success together with the error of an
  earlier one; with `MaxAttempts` 0 it returns neither, with less it panics.

## 4. Bounds

- *Batches and workers.* Three batches (two with interrupts), two source workers and one
  destination worker: two workers of a pool can race for space, for a queue and for the
  error channel while a third batch waits. `BatchPipeline_live` has four batches and one
  worker per pool, the least that fills a queue of capacity two and blocks the sender.
- *Space.* The buffer holds three units, or four. Two batches of two units never fit
  together in three, a batch of two and one of one do; archives turn out smaller (1), as
  estimated (2) or larger (3) than estimated.
- *Circular buffer.* Two slots, slices of up to two or three bytes: slices smaller
  than, equal to and larger than the buffer, chunks that end at the end of the array and
  that wrap around. `Bound` stops the writers after a few bytes; it only limits the start of
  a `Write`. Positions come back to every slot. What holds for other sizes, without
  blocking writes and with more goroutines is left to the proofs.
- *Pipeline.* Five bytes through a buffer of two with slices of three: the source blocks in the middle of a slice, and the buffer is full,
  empty and partly filled at the moments the context is cancelled.

- *Command.* Thresholds of a few files stand for 10, 1000 and 10000: the directories lie below, at
  and above each of them, up to twice the sampled number. Every kind of path, each way to give or
  not to give a config input, and flags, arguments and environments that agree and disagree.
- *Engines.* Three lines through a pipe of one: the child blocks, and a scanner gives up before and after.
  A tree with directories in directories, and filters that take or leave each level. A file of three
  bytes and a window of one: the copy ends with more, and with less unread than the window.
- *Services.* Two workers, requests that fit alone, together and never, releases of any of these sizes down to
  an account of -4 (`Lowest`), as far below zero as the largest request. Two updates of a state over any
  number of restarts; two failures of the tracker's two files. Policies of three attempts, of one, none and
  less. Listings of up to four files of sizes 0 to 3, odd lines among up to three, a limit of two. Two
  recorders and a reader of two metrics: a writer waits at each point of the reader.

Workers of a pool, writers and readers are interchangeable, so they are symmetry sets in the
safety runs; the liveness runs use no symmetry.

`CHECK_DEADLOCK FALSE` is given for runs of the pipeline in which the destination may fail or
`Stop` may be called: the pipeline then really may hang (see section 3), and `StartEnds` says
that this is the only way. `TransferCommand` and the calls in `Engines` and `Services` end, and an engine or
the metrics may hang as `EngineReturns` and `CallsReturn` say, so their runs have it too.

## 5. Fairness

Every goroutine that can run eventually does: weak fairness on each goroutine's actions.
A select with several ready cases picks one at random (Go specification), so the monitor,
whose ticker keeps coming, eventually takes `stopChan`: strong fairness on `MonitorStops`,
and on nothing else. A worker that spins for space takes no step in the model until space is
there or its pool stops; weak fairness on it only says that it tries again afterwards.
Tar, ssh, `source.Read` and `destination.Write` end, with or without an error. Signals,
cancellation and `Stop` are never assumed to come.

Engines: the engine's goroutines run, a child writes and exits when it can or is killed once the context is
done, a dial ends (its configuration has a timeout), a remote command makes progress; no connection
has to be lost and no context to be cancelled. Services: a retried function returns, the
goroutines of the metrics are scheduled and the lock is granted when it is free, the auto saver's
goroutine runs, and its select, which finds `done` ready again and again while its ticker
fires, takes it in the end: strong fairness, as for the monitor.

`TransferReturns` needs a worker in each pool, batches that fit in the buffer, and
archives that are deleted once extracted (`CleanupBuffer`). Without these a worker spins for
ever: nothing in the code prevents it.

## 6. What is proved

`CircularBufferProofs`, for every size, slice length, bound and set of goroutines, from the
two assumptions of `CircularBuffer` alone:

| Theorem | Statement |
|---|---|
| `TypeCorrect` | `Spec => []TypeOK` |
| `ContentsHold` | `Spec => []Contents` |
| `ReadsAreInOrder` | `Spec => []ReadsInOrder` |
| `Refinement` | `Spec => ImplementsFifo` |
| `EndOfStream` | without `Reset`: `Spec => []EndIsTheEnd` |
| `WakeupsSuffice` | without `Reset`: `Spec => []NoLostWakeup` |

The invariant is `IInv`: `DataInv` (types of the array, the positions and the counters, and
`Contents`), `ControlType` (types of the goroutines' variables) and `ReadsInOrder`. `Contents` is what makes the rest inductive: that
`writePos` lies `available` slots after `readPos` gives that `PutIn` overwrites only slots
outside the unread ones, and that what `TakeOut` copies are the next numbers. The
lemmas about `Slot` and `Distance` replace arithmetic modulo `Size`, which the SMT solver
does not handle well. `EndOfStream` adds that a closed buffer accepts no byte any more;
`WakeupsSuffice` follows from what a signal leaves: somebody of its kind who does not wait. With
one writer and one reader it says that neither sleeps while it could work. `Reset` breaks it:
it wakes no writer, and nobody in the repository calls it. For `Refinement` every action
is a `Put`, `Get`, `Close` or `Reset` of the queue, or leaves it alone: a `Write` that
waits in the middle is several `Put`s.

`BatchPipelineProofs`, for every number of batches, both pools of any size, all estimates and
archive sizes, every configuration and set of faults, with and without interrupts, from the
assumptions of `BatchPipeline`:

| Theorem | Statement |
|---|---|
| `TypeCorrect` | `Spec => []TypeOK` |
| `DeliveredOnce` | `Spec => []NoDoubleDelivery` |
| `CompletedDelivered` | `Spec => []CompletedMeansDelivered` |
| `AccountLimited` | `Spec => []AccountWithinLimit` |
| `SuccessComplete` | `Spec => []SuccessLeavesNothingBehind` |
| `ChannelsOpen` | `Spec => []ErrorChannelsOpenInUse` |
| `ReturnQuiet` | `Spec => []QuietOnReturn` |
| `InterruptFails` | `Spec => []InterruptedNeverSucceeds` |
| `StatusForward` | `Spec => StatusMovesForward` |
| `Refinement` | `Spec => RefinesTransfer` |

The invariant has four layers, each inductive relative to those before it:

- `TypeInv`: the types, the labels a worker of each pool can be at, and that a busy worker holds
  a batch.
- `PlaceInv`: a batch is in at most one queue or hand. The code keeps no such record; the status
  stands for it. What waits in the source queue is pending, what a source worker holds is
  downloading, what waits in the destination queue is buffered, what a destination worker holds is
  uploading; so a batch in one place is in no other. `enqueued` covers the destination side, which
  is why a rescan of the monitor sends nothing twice. `StatusForward`, stated beside its proof and in no
  run's configuration, is read off it: a worker changes the
  status of a batch it takes from a queue or holds, and `PlaceInv` says what that status was.
- `DeliveryInv`: only a batch that is uploading or completed was extracted, at most once, and the
  position of its worker tells which; the file and both images only claim what is so.
- `ControlInv`: which goroutines have ended at each point of main. While main is in its select, the
  pools are open, so the monitor can only have ended because `stopChan` is closed or because all
  batches were done; main's own close of the channel rules out the first case when it reports
  success. That batches stay done (`DoneStays`) is a consequence of `PlaceInv`.

For `Refinement`, `Publish`, `Extract` and `MarkFailed` are the abstract steps on a batch, the
return of `Transfer` is the verdict, and everything else is a stutter.

`BatchAccountProofs`, about the same engine. The hypotheses are those under which the properties are true at all;
the disagreements in section 3 and the comments of the properties say what happens without them. `ArchivesFit` means that no archive size
exceeds the estimate of any batch.

| Theorem | Hypotheses | Statement |
|---|---|---|
| `AccountCovers` | `ArchivesFit`, tar does not fail | `Spec => [](handler # "exit" => AccountCoversDisk)` |
| `AccountAlwaysCovers` | the same, no interrupts | `Spec => []AccountCoversDisk` |
| `ReservationsReturn` | `ArchivesFit` | `Spec => []SpaceReturned` |
| `CheckpointFinal` | saves do not fail | `Spec => []FinalCheckpointCurrent` |

The account is a number; what it stands for is nowhere in the code. `Ledger`, the heart of `AccountInv`, says it:
`currentSize` is the sum of `Charge`, and a batch is charged with `size` while a source worker has reserved for it
or while its archive, handed on, is on disk. A reservation is charged before there is
an archive and adjusted when there is one, so each step changes one summand. The handler's
`RemoveAll` sets the account to zero under workers that go on; from then on ("exit") the account says nothing.
For `CheckpointFinal`, `ControlInv` gives that both pools have ended when the last save marshals, so that no status changes between the image,
the file and the return.

`StreamPipelineProofs`, for every size of the buffer, slice, length of the source and environment:

| Theorem | Statement |
|---|---|
| `TypeCorrect` | `Spec => []TypeOK` |
| `PrefixDelivered` | `Spec => []DestinationIsPrefix` |
| `NilComplete` | `Spec => []NilMeansComplete` |
| `QuietAfterReturn` | `Spec => []CopyEndsBeforeStart` |
| `Refinement` | `Spec => ImplementsCopy` |

The theorems about the buffer are used for the instance with one writer, the source, and one reader, the destination: every step
of the pipeline is one of the buffer or leaves it alone, so `BufferInv` (the buffer's `IInv` and
`EndIsTheEnd`) holds of it. On top: `SourceInv` follows the bytes between `source.Read` and the buffer, and says
that the buffer is closed exactly when the source has ended, so `writeErr` and an error of `buffer.Read` other than EOF cannot
occur in this pipeline; `DestInv` follows them from the buffer to the destination; `EndInv` says who has ended, and
that the context is cancelled only for a reason (`Disturbed`) or at the end.

`ServicesProofs`, from the assumptions of the parts:

| Theorem | Statement |
|---|---|
| `LedgerRefines` | `Spec => LedgerImplementsAccount` |
| `CheckpointCurrent` | `Spec => []CheckpointIsCurrent` |
| `TrackerReads` | `Spec => []TrackerReadsBack` |
| `RetryResult` | `Spec => []RetryOutcome` |
| `PackingRight` | `Spec => []PackingKeepsOrderAndLimit` |

- `LedgerInv`: a worker about to swap has found room in what it loaded, and has had no answer yet. The swap succeeds only if that is still the value, so it is the abstract `Grant`, and a refusal
  happens at the Load, when the request really does not fit. Nothing is assumed of what is released, so the
  theorem is about the account only.
- `StoreInv`: what a save writes after `done` is the state that stays, and a write that is under way goes to the file
  that has the name, unless `disturbed`. `TrackerInv`: at most one file is at work, since the mutex is held, and every file that
  is neither at work nor stale says what the map says.
- `RetryInv` relates the position in the loop to the lengths and numbers of the `Result`; the bound on waits needs
  of `Power`, by induction, that it is a natural number.
- `PackingRight`: `FoundUpTo` is what the parser has made of the first lines of the listing, `PackedUpTo` what `binPackFiles` has
  made of the first files. Both are invariants of folds over sequences.

`EnginesProofs`, for every call, number of bytes and lines, tree and filters:

| Theorem | Statement |
|---|---|
| `ProxyClosesAll` | `Spec => []NothingElseLeftOpen` |
| `ProxyStreams` | `Spec => []ProxySuccessMeansStreamed` |
| `ChildMoves` | `Spec => []ChildMovesWhenAsked` |
| `TarArchives` | `Spec => []ArchiveIsFilteredWalk` |

- `OpenInv`: whatever is open is in `deferred`, but for a connection that is being made or was given up; `deferred` is empty at the end.
  `StreamedInv` carries the number of bytes from the end of the copy to the answer, `SocketInv` says whose socket
  of the agent is open.
- `ChildInv`: whether a dry run is asked for is in the options, what the child does is in its arguments;
  `CommandAsks` shows, for the command lines of both programs, that one follows from the other.
- `TarInv`: what the walk has done is what the filters leave of the entries before `pos`, where an entry counts as skipped
  if it or an entry above it is. This takes an induction over the tree: what is below an entry follows it at once.

`TransferCommandProofs`, for all inputs, environments, flags, thresholds and directories:

| Theorem | Hypothesis | Statement |
|---|---|---|
| `PrecedenceHolds` | | `Spec => []LayersInOrder` |
| `ZeroIsSuccess` | | `Spec => []ZeroExitPromises` |
| `TarIsDeserved` | `PercentagesHigh` | `Spec => []TarMeansManySmall` |

`MergedAt` says of each option what two layers merged by the code's loop hold, and `FlagsOverMerged` what the flags
leave of it: the order of the code, not that of `main.go:261`. For `ZeroIsSuccess`, `OutcomeInv` follows the strategy from the options
to the engine, and what the engine left from there to the exit. For `TarIsDeserved`, `SampleScaled` bounds what a sample sees of a directory, and `SelectionInv` keeps that the recommendation was made of such
a sample. `PercentagesHigh`, that a percentage is 0 or at least 50, is needed: section 3 has the counterexample, which
an attempt at the proof without it turned up.

Induction and folds. The theorems of the library that induct over data take an operator as a
parameter, which the provers cannot instantiate. `InductionLemmas` states induction over sets instead: a
nonempty set of natural numbers has a least element, so a set of them that has no least counterexample has none.
A fold over a finite interval is unfolded in the same way: `FoldTableExists` shows that a table of its partial
results exists, and `Greatest` and `FoldStep` that it is the one the community modules' `CHOOSE` means.

Assumptions on the constants, all checked by TLC: beside types, that pools are finite, that the
listings and directories are sequences and that a tree is one that a walk can print: an entry follows the directory it
is in, and all that is below a directory follows it at once (`TreesAssumption`; `filepath.Walk` is lexical and
depth first). `WordsAssumption` says that no path or filter is taken for the option of a dry run.

## 7. Only model-checked, and not modelled

Every safety property that a passing run checks is a theorem. What is checked by TLC only:

- Liveness: `TransferReturns`, `StartEnds`, `EngineReturns` and `CallsReturn`. Proofs about fairness and
  `ENABLED` are beyond the proof system used here.
- The lock of `pkg/metrics`, about which the only property is that liveness.
- The statements that TLC refutes (section 3).

The type invariants of `TransferCommand`, `Engines` and `Services` are stated and their runs are spent on the other
properties; of these types the proofs contain what the theorems need (`ProxyShape`, `RetryShape`, `LedgerShape`,
`StoreType`, and conjuncts of the other invariants).

Not modelled: `waitWithTimeout` of `pkg/buffer`, which no caller reaches; `Load` and `GetPendingBatches`
of `pkg/batch`, which nobody calls; the values, keys and exports of the metrics; the commands `analyze`,
`status`, `schema` and `version`, which print; progress reporters and formatters; the parsing of JSON,
YAML, paths, keys and of the programs' progress lines; `GetTransferMetrics` never finds what
`RecordTransfer` stored under another set of labels, which is about keys and so not in the model. The
programs rsync, rclone, find, tar, ssh, stat and cat, the ssh library, the
network, the file system and `sync.RWMutex` are external, modelled from how the code uses them.

## 8. Plan

What is left is to prove, in this order:

1. The types of `TransferCommand`, `Engines` and `Services` as theorems; most of the conjuncts are in the
   invariants of section 6 already.
2. `MetricsLock`: that readers exclude writers, and the safety half of `CallsReturn`: that the only state in
   which nobody can move although somebody has not returned is `MetricsDeadlocked`.
3. The same halves of `EngineReturns` and `StartEnds`: the states without a successor are the ones they name.
4. `AccountCovers` with a tar that fails: the disk exceeds the account by what the failed tars left at most.
