--------------------------- MODULE StreamPipeline ---------------------------
(***************************************************************************)
(* The streaming pipeline of pkg/stream: one call of Start, possibly a     *)
(* call of Stop, and the goroutines                                        *)
(*                                                                         *)
(*   src     readFromSource: source -> buffer                              *)
(*   dst     writeToDestination: buffer -> destination                     *)
(*   prog    reportProgress, if a progressFunc is configured               *)
(*   joiner  the goroutine of Start that closes `done`                     *)
(*                                                                         *)
(* The buffer is module CircularBuffer with src as its only writer and dst *)
(* as its only reader, so its steps interleave with those of the pipeline  *)
(* exactly where the mutex is given up.  The source holds the bytes        *)
(* 1..Total, dest is what the destination received.                        *)
(***************************************************************************)
EXTENDS Integers, Sequences

CONSTANTS
  Size,         \* config.BufferSize
  Chunk,        \* the length of the slices both goroutines use
  Total,        \* how many bytes the source holds
  SourceFails,  \* source.Read may return an error
  DestFails,    \* destination.Write may fail, or write less than it should
  Swallows,     \* an errorHandler is configured that may return nil
  Progress,     \* a progressFunc is configured
  Cancels,      \* the context passed to Start may be cancelled
  Stops         \* Stop may be called

ASSUME SizesAssumption ==
  /\ Size \in Nat \ {0}
  /\ Chunk \in Nat \ {0}
  /\ Total \in Nat
ASSUME EnvironmentAssumption ==
  {SourceFails, DestFails, Swallows, Progress, Cancels, Stops} \subseteq BOOLEAN

VARIABLES
  buf, readPos, writePos, available, closed, failed, produced, consumed,
  writer, todo, writeRet, reader, want, readRet, got, from,   \* the buffer
  src, dst, prog, joiner,   \* where the goroutines are
  start, result,            \* where Start is, and what it returned
  stop,                     \* where Stop is
  cancelled,                \* p.ctx is cancelled
  err,                      \* p.err; "swallowed" if the errorHandler made it nil
  sourced,                  \* how many bytes source.Read has returned
  chunk, readErr,           \* n and err of the last source.Read
  dest,                     \* the bytes the destination received
  bytesRead, bytesWritten   \* the counters behind Stats

bufferVars == <<buf, readPos, writePos, available, closed, failed, produced, consumed,
                writer, todo, writeRet, reader, want, readRet, got, from>>
sourceVars == <<src, sourced, chunk, readErr, bytesRead>>
destVars == <<dst, dest, bytesWritten>>
startVars == <<start, result, joiner, prog, stop>>
errorVars == <<err, cancelled>>
vars == <<bufferVars, sourceVars, destVars, startVars, errorVars>>

B == INSTANCE CircularBuffer WITH
  BlockOnFull <- TRUE, Writers <- {"src"}, Readers <- {"dst"},
  MaxLen <- Chunk, Bound <- Total, Resets <- FALSE

TypeOK ==
  /\ B!TypeOK
  /\ src \in {"check", "read", "write", "writing", "after", "close", "end"}
  /\ dst \in {"check", "read", "reading", "write", "end"}
  /\ prog \in {"run", "end"}
  /\ joiner \in {"data", "all", "done"}
  /\ start \in {"select", "wait", "returned"}
  /\ result \in {"none", "nil", "error", "ctx"}
  /\ stop \in {"uncalled", "wait", "returned"}
  /\ cancelled \in BOOLEAN
  /\ err \in {"nil", "swallowed", "error"}
  /\ sourced \in 0..Total
  /\ chunk \in 0..Chunk
  /\ readErr \in {"nil", "EOF", "error"}
  /\ dest \in Seq(Nat)
  /\ bytesRead \in Nat
  /\ bytesWritten \in Nat

Init ==
  /\ B!Init
  /\ src = "check" /\ dst = "check"
  /\ prog = IF Progress THEN "run" ELSE "end"
  /\ joiner = "data" /\ start = "select" /\ result = "none" /\ stop = "uncalled"
  /\ cancelled = FALSE /\ err = "nil"
  /\ sourced = 0 /\ chunk = 0 /\ readErr = "nil"
  /\ dest = <<>>
  /\ bytesRead = 0 /\ bytesWritten = 0

\* setError: the first error is kept, as the errorHandler returns it, and cancels.
\* An error that was swallowed counts as none.
SetError ==
  IF err = "error"
  THEN UNCHANGED errorVars
  ELSE /\ err' \in {"error"} \cup (IF Swallows THEN {"swallowed"} ELSE {})
       /\ cancelled' = TRUE

\* What a caller sees in p.err.
Err == IF err = "error" THEN "error" ELSE "nil"
-----------------------------------------------------------------------------
(***************************************************************************)
(* readFromSource.                                                         *)
(***************************************************************************)
SrcChecks ==
  /\ src = "check"
  /\ src' = IF cancelled THEN "close" ELSE "read"
  /\ UNCHANGED <<bufferVars, sourced, chunk, readErr, bytesRead, destVars, startVars,
                 errorVars>>

\* source.Read: some bytes, the end, an error, or bytes together with either.
SrcReads ==
  /\ src = "read"
  /\ \E n \in 0..Chunk, e \in {"nil", "EOF", "error"} :
       /\ n <= Total - sourced
       /\ e = "nil" => n > 0
       /\ e = "EOF" => n = Total - sourced
       /\ e = "error" => SourceFails
       /\ sourced' = sourced + n
       /\ chunk' = n
       /\ readErr' = e
       /\ src' = IF n > 0 THEN "write" ELSE "after"
  /\ UNCHANGED <<bufferVars, bytesRead, destVars, startVars, errorVars>>

\* The call of buffer.Write, its resumption after Wait, and its return.
SrcWrites ==
  /\ src = "write"
  /\ B!Write("src", chunk)
  /\ src' = "writing"
  /\ UNCHANGED <<sourced, chunk, readErr, bytesRead, destVars, startVars, errorVars>>

SrcResumes ==
  /\ src = "writing"
  /\ B!WriteResumes("src")
  /\ UNCHANGED <<sourceVars, destVars, startVars, errorVars>>

SrcWritten ==
  /\ src = "writing"
  /\ writer["src"] = "idle"
  /\ IF writeRet["src"] = "ok"
     THEN src' = "after" /\ bytesRead' = bytesRead + chunk /\ UNCHANGED errorVars
     ELSE src' = "close" /\ SetError /\ UNCHANGED bytesRead
  /\ UNCHANGED <<bufferVars, sourced, chunk, readErr, destVars, startVars>>

\* Mutant: io.EOF is kept as the pipeline's error.
SrcContinuesOnEOF ==
  /\ src = "after"
  /\ src' = IF readErr = "nil" THEN "check" ELSE "close"
  /\ IF readErr # "nil" THEN err' = readErr /\ cancelled' = TRUE ELSE UNCHANGED errorVars
  /\ UNCHANGED <<bufferVars, sourced, chunk, readErr, bytesRead, destVars, startVars>>

\* What source.Read returned besides bytes is looked at only now.
SrcContinues ==
  /\ src = "after"
  /\ src' = IF readErr = "nil" THEN "check" ELSE "close"
  /\ IF readErr = "error" THEN SetError ELSE UNCHANGED errorVars
  /\ UNCHANGED <<bufferVars, sourced, chunk, readErr, bytesRead, destVars, startVars>>

\* The deferred buffer.Close and wg.Done.
SrcCloses ==
  /\ src = "close"
  /\ B!Close \/ (closed /\ UNCHANGED bufferVars)
  /\ src' = "end"
  /\ UNCHANGED <<sourced, chunk, readErr, bytesRead, destVars, startVars, errorVars>>
-----------------------------------------------------------------------------
(***************************************************************************)
(* writeToDestination.                                                     *)
(***************************************************************************)
DstChecks ==
  /\ dst = "check"
  /\ dst' = IF cancelled THEN "end" ELSE "read"
  /\ UNCHANGED <<bufferVars, sourceVars, dest, bytesWritten, startVars, errorVars>>

DstReads ==
  /\ dst = "read"
  /\ B!Read("dst", Chunk)
  /\ dst' = "reading"
  /\ UNCHANGED <<sourceVars, dest, bytesWritten, startVars, errorVars>>

DstResumes ==
  /\ dst = "reading"
  /\ B!ReadResumes("dst")
  /\ UNCHANGED <<sourceVars, destVars, startVars, errorVars>>

DstRead ==
  /\ dst = "reading"
  /\ reader["dst"] = "idle"
  /\ dst' = IF readRet["dst"] = "ok" THEN "write" ELSE "end"
  /\ IF readRet["dst"] = "error" THEN SetError ELSE UNCHANGED errorVars
  /\ UNCHANGED <<bufferVars, sourceVars, dest, bytesWritten, startVars>>

\* Mutant: written is not compared with n.
DstWritesUnchecked ==
  /\ dst = "write"
  /\ \E n \in 0..Len(got["dst"]) :
       /\ dest' = dest \o SubSeq(got["dst"], 1, n)
       /\ bytesWritten' = bytesWritten + n
  /\ dst' = "check"
  /\ UNCHANGED <<bufferVars, sourceVars, startVars, errorVars>>

DstWrites ==
  /\ dst = "write"
  /\ dest' = dest \o got["dst"]
  /\ bytesWritten' = bytesWritten + Len(got["dst"])
  /\ dst' = "check"
  /\ UNCHANGED <<bufferVars, sourceVars, startVars, errorVars>>

\* A write error or a short write, after part of the bytes.
DstFails ==
  /\ dst = "write"
  /\ DestFails
  /\ \E n \in 0..Len(got["dst"]) : dest' = dest \o SubSeq(got["dst"], 1, n)
  /\ SetError
  /\ dst' = "end"
  /\ UNCHANGED <<bufferVars, sourceVars, bytesWritten, startVars>>
-----------------------------------------------------------------------------
(***************************************************************************)
(* Start, its joiner, the progress reporter, and Stop.                     *)
(***************************************************************************)
\* Mutant: dataWg counts the source only.
SourceEnded == src = "end"

DataEnded == src = "end" /\ dst = "end"
AllEnded == DataEnded /\ prog = "end"

ProgEnds ==
  /\ prog = "run"
  /\ cancelled
  /\ prog' = "end"
  /\ UNCHANGED <<bufferVars, sourceVars, destVars, start, result, joiner, stop, errorVars>>

\* Mutant: the progress reporter is not told to stop.
JoinerCancelsNothing ==
  /\ joiner = "data"
  /\ DataEnded
  /\ joiner' = "all"
  /\ UNCHANGED <<bufferVars, sourceVars, destVars, start, result, prog, stop, errorVars>>

\* dataWg.Wait, cancel, wg.Wait, close(done).
JoinerCancels ==
  /\ joiner = "data"
  /\ DataEnded
  /\ joiner' = "all"
  /\ cancelled' = TRUE
  /\ UNCHANGED <<bufferVars, sourceVars, destVars, start, result, prog, stop, err>>

\* Mutant: the second wait is missing.
JoinerEndsEarly ==
  /\ joiner = "all"
  /\ joiner' = "done"
  /\ UNCHANGED <<bufferVars, sourceVars, destVars, start, result, prog, stop, errorVars>>

JoinerEnds ==
  /\ joiner = "all"
  /\ AllEnded
  /\ joiner' = "done"
  /\ UNCHANGED <<bufferVars, sourceVars, destVars, start, result, prog, stop, errorVars>>

StartReturns ==
  /\ start = "select"
  /\ joiner = "done"
  /\ start' = "returned"
  /\ result' = Err
  /\ UNCHANGED <<bufferVars, sourceVars, destVars, joiner, prog, stop, errorVars>>

\* The context passed to Start is cancelled, and Start takes that case.
StartCancels ==
  /\ Cancels
  /\ start = "select"
  /\ start' = "wait"
  /\ cancelled' = TRUE
  /\ UNCHANGED <<bufferVars, sourceVars, destVars, result, joiner, prog, stop, err>>

StartCancelled ==
  /\ start = "wait"
  /\ AllEnded
  /\ start' = "returned"
  /\ result' = IF err = "error" THEN "error" ELSE "ctx"
  /\ UNCHANGED <<bufferVars, sourceVars, destVars, joiner, prog, stop, errorVars>>

StopCalled ==
  /\ Stops
  /\ stop = "uncalled"
  /\ stop' = "wait"
  /\ cancelled' = TRUE
  /\ UNCHANGED <<bufferVars, sourceVars, destVars, start, result, joiner, prog, err>>

StopReturns ==
  /\ stop = "wait"
  /\ AllEnded
  /\ stop' = "returned"
  /\ UNCHANGED <<bufferVars, sourceVars, destVars, start, result, joiner, prog, errorVars>>

Src == SrcChecks \/ SrcReads \/ SrcWrites \/ SrcResumes \/ SrcWritten \/ SrcContinues \/ SrcCloses
Dst == DstChecks \/ DstReads \/ DstResumes \/ DstRead \/ DstWrites \/ DstFails
Joiner == JoinerCancels \/ JoinerEnds
Caller == StartReturns \/ StartCancelled \/ StopReturns

Over == start = "returned" /\ stop # "wait" /\ AllEnded
Idle == Over /\ UNCHANGED vars

Next ==
  \/ Src \/ Dst \/ ProgEnds \/ Joiner \/ Caller
  \/ StartCancels \/ StopCalled
  \/ Idle

Spec == Init /\ [][Next]_vars

\* Every goroutine that can run does, source.Read and destination.Write return, and
\* a goroutine blocked on the mutex gets it.  Cancelling and stopping may not happen.
Fairness ==
  /\ WF_vars(Src)
  /\ WF_vars(Dst)
  /\ WF_vars(ProgEnds)
  /\ WF_vars(Joiner)
  /\ WF_vars(Caller)

FairSpec == Spec /\ Fairness
-----------------------------------------------------------------------------
(***************************************************************************)
(* Properties.                                                             *)
(***************************************************************************)
\* The destination receives a prefix of the source: nothing is lost, doubled or out
\* of order between the two, whatever fails (pipeline.go:152-229, buffer.go:101-227).
DestinationIsPrefix == \A k \in DOMAIN dest : dest[k] = k

\* Start returns nil only when the destination has everything, unless Stop was called
\* or the errorHandler swallowed an error (pipeline.go:111-122).
NilMeansComplete ==
  result = "nil" /\ stop = "uncalled" /\ err # "swallowed" =>
    Len(dest) = Total /\ bytesRead = Total /\ bytesWritten = Total

\* When Start has returned, readFromSource, writeToDestination and reportProgress have,
\* and nothing more reaches the destination.  The fourth goroutine, Start's own (the
\* joiner, pipeline.go:99-109), has ended too if Start returns nil.  Only where Start took
\* the case of ctx.Done (pipeline.go:114) may it be left, with nobody to wait for: what
\* is left of it is to cancel and to close a channel that nobody reads.
CopyEndsBeforeStart ==
  start = "returned" => AllEnded /\ (result = "nil" => joiner = "done")

\* Whatever fails, is cancelled or stopped, Start returns, but for one case: the source
\* waits in buffer.Write and the destination, which would make room, has ended
\* (pipeline.go:101-121, 168, 197, 207).
StartEnds == <>(start = "returned" \/ (dst = "end" /\ writer["src"] = "blocked"))

\* The pipeline keeps the promise StreamCopy states for it, on which the proxy engine
\* is built: the destination only grows, to a prefix of the source, until Start returns.
Copy == INSTANCE StreamCopy WITH
  total <- Total, copied <- Len(dest), ended <- result,
  interfered <- stop # "uncalled" \/ err = "swallowed"
ImplementsCopy == Copy!CopySpec

\* "Cancel context to stop all goroutines" (pipeline.go:264): after an error every
\* goroutine ends.
ErrorStopsAll == (err = "error") ~> AllEnded
=============================================================================
