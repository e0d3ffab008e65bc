------------------------ MODULE BatchPipelineProofs ------------------------
(***************************************************************************)
(* What holds of the batched tar engine for any number of batches and      *)
(* workers, any sizes, whatever fails, interrupted or not.                 *)
(*                                                                         *)
(* The inductive invariant comes in four layers, each proved with the help *)
(* of those before it.  TypeInv: the types, and which worker is where.     *)
(* PlaceInv: a batch is in at most one queue or hand, and its status says  *)
(* in which.  DeliveryInv: status and position also say whether it was     *)
(* extracted, in memory and in the file.  ControlInv: what has ended by    *)
(* the time main is at a given point.                                      *)
(***************************************************************************)
EXTENDS BatchPipeline, TLAPS

\* Where a worker has a batch that is not yet completed or failed.
SourceBusy == {"reserve", "tar", "publish", "fail"}
DestBusy == {"extract", "clean", "complete", "fail"}
Labels == {"none", "idle", "report", "end"} \cup SourceBusy \cup DestBusy

\* The types of the variables of main, its goroutines and the handler.
ControlType ==
  /\ proc \in {"running", "panicked", "exited"}
  /\ main \in {"setup", "saveFirst", "writeFirst", "init", "select", "joinErrMon",
               "stopSource", "waitSource", "stopDest", "waitDest", "clean",
               "saveLast", "writeLast", "finish", "returned"}
  /\ outcome \in {"open", "success", "error"}
  /\ manifest \in {"nil", "in_progress", "completed"}
  /\ stopped \in BOOLEAN
  /\ transferErr \in 0..1
  /\ errMon \in {"none", "watch", "end"}
  /\ feeder \in {"none", "check", "send", "err", "end"}
  /\ monitor \in {"none", "tick", "scan", "send", "err", "end"}
  /\ handler \in {"wait", "close", "save", "write", "clean", "exit"}
  /\ nextFeed \in 1..(NumBatches + 1)
  /\ cursor \in 1..(NumBatches + 1)
  /\ enqueued \subseteq Batches
  /\ feeder = "send" => nextFeed \in Batches
  /\ monitor = "send" => cursor \in Batches

ChannelType ==
  /\ queue \in [Pools -> Seq(Batches)]
  /\ poolStopped \in [Pools -> BOOLEAN]
  /\ errs \in [Pools -> Nat]
  /\ errsClosed \in [Pools -> BOOLEAN]

\* Each worker is at a label of its pool, and busy workers hold a batch.
WorkerType ==
  /\ at \in [Workers -> Labels]
  /\ held \in [Workers -> Batches \cup {NoBatch}]
  /\ \A w \in SourceWorkers :
       /\ at[w] \notin DestBusy \ {"fail"}
       /\ at[w] \in SourceBusy => held[w] \in Batches
  /\ \A w \in DestWorkers :
       /\ at[w] \notin SourceBusy \ {"fail"}
       /\ at[w] \in DestBusy => held[w] \in Batches

BatchType ==
  /\ status \in [Batches -> Status]
  /\ size \in [Batches -> Nat]
  /\ disk \in [Batches -> Nat]
  /\ extracted \in [Batches -> Nat]
  /\ currentSize \in Int

Contents == [manifest : {"nil", "in_progress", "completed"}, status : [Batches -> Status]]

FileType ==
  /\ checkpoint \in [state : {"absent", "torn", "whole"}, content : Contents]
  /\ image \in [Savers -> Contents]

TypeInv == ControlType /\ ChannelType /\ WorkerType /\ BatchType /\ FileType
-----------------------------------------------------------------------------
\* The initial states have these types.
LEMMA InitType == Init => TypeInv
<1> SUFFICES ASSUME Init PROVE TypeInv
  OBVIOUS
<1>1. ControlType
  <2>1. 1 \in 1..(NumBatches + 1)
    BY BatchesAssumption
  <2>2. 0 \in 0..1 /\ {} \subseteq Batches
    OBVIOUS
  <2>3. /\ proc = "running" /\ main = "setup" /\ outcome = "open"
        /\ manifest = "nil" /\ stopped = FALSE /\ transferErr = 0
        /\ errMon = "none" /\ feeder = "none" /\ monitor = "none" /\ handler = "wait"
        /\ nextFeed = 1 /\ cursor = 1 /\ enqueued = {}
    BY DEF Init
  <2> QED
    BY <2>1, <2>2, <2>3 DEF ControlType
<1>5. ChannelType
  BY DEF Init, ChannelType, Pools
<1>2. WorkerType
  BY DEF Init, WorkerType, Labels, SourceBusy, DestBusy, Workers, NoBatch
<1>3. BatchType
  BY SizesAssumption DEF Init, BatchType, Status
<1>4. FileType
  BY DEF Init, FileType, Contents, Savers, Status, Blank, File
<1> QED
  BY <1>1, <1>2, <1>3, <1>4, <1>5 DEF TypeInv

\* What leaves the variables of a group alone leaves its types alone.
LEMMA TypeFrames ==
  /\ ChannelType /\ UNCHANGED channels => ChannelType'
  /\ WorkerType /\ UNCHANGED workers => WorkerType'
  /\ BatchType /\ UNCHANGED batches => BatchType'
  /\ FileType /\ UNCHANGED file => FileType'
  /\ ControlType /\ UNCHANGED <<control, helpers, handler>> => ControlType'
BY DEF ChannelType, WorkerType, BatchType, FileType, ControlType, channels, workers,
       batches, file, control, helpers

\* BufferManager.Cleanup, whole or half-way.
LEMMA RemoveAllType ==
  ASSUME BatchType, RemoveAll
  PROVE  BatchType'
BY DEF BatchType, RemoveAll

\* The two steps of a save, by either saver.
LEMMA SaveBeginsType ==
  ASSUME TypeInv, NEW s \in Savers, SaveBegins(s)
  PROVE  FileType'
<1>1. Content \in Contents
  BY DEF TypeInv, ControlType, BatchType, Contents, Content
<1> QED
  BY <1>1 DEF TypeInv, FileType, SaveBegins

LEMMA SaveEndsType ==
  ASSUME TypeInv, NEW s \in Savers, SaveEnds(s)
  PROVE  FileType'
<1>1. Blank \in Contents
  BY DEF Blank, Contents, Status
<1>2. image[s] \in Contents
  BY DEF TypeInv, FileType
<1> QED
  BY <1>1, <1>2 DEF TypeInv, FileType, SaveEnds, File

\* Any save of main.
LEMMA SaveType ==
  ASSUME TypeInv, NEW from, NEW write, NEW to, Save(from, write, to),
         {write, to} \subseteq {"writeFirst", "init", "writeLast", "finish"}
  PROVE  TypeInv'
<1>1. FileType'
  BY SaveBeginsType, SaveEndsType DEF Save, Savers, TypeInv, FileType, file
<1>2. ControlType'
  BY DEF Save, Goto, TypeInv, ControlType, helpers
<1>3. ChannelType' /\ WorkerType' /\ BatchType'
  BY TypeFrames DEF Save, TypeInv
<1> QED
  BY <1>1, <1>2, <1>3 DEF TypeInv

\* One lemma per goroutine.
LEMMA MainType ==
  ASSUME TypeInv, Main
  PROVE  TypeInv'
<1>0. ControlType /\ ChannelType /\ WorkerType /\ BatchType /\ FileType
  BY DEF TypeInv
<1>1. CASE Setup
  <2>1. ControlType'
    BY <1>0, <1>1 DEF Setup, Goto, ControlType, helpers
  <2> QED
    BY <1>0, <1>1, <2>1, TypeFrames DEF Setup, TypeInv
<1>2. CASE SaveFirst
  BY <1>2, SaveType DEF SaveFirst
<1>3. CASE Start
  <2>1. ControlType'
    BY <1>0, <1>3 DEF Start, Goto, ControlType
  <2>2. WorkerType'
    BY <1>0, <1>3 DEF Start, WorkerType, Labels, SourceBusy, DestBusy, Workers
  <2> QED
    BY <1>0, <1>3, <2>1, <2>2, TypeFrames DEF Start, TypeInv
<1>4. CASE SelectError \/ SelectDone
  <2>1. ControlType'
    <3>1. CloseStopChan("error", "stopSource") \/ CloseStopChan("success", "joinErrMon")
      BY <1>4 DEF SelectError, SelectDone
    <3>2. /\ proc' \in {"running", "panicked", "exited"}
          /\ main' \in {"stopSource", "joinErrMon", main}
          /\ outcome' \in {"error", "success", outcome}
          /\ stopped' \in BOOLEAN
      BY <1>0, <3>1 DEF CloseStopChan, Goto, ControlType
    <3> QED
      BY <1>0, <1>4, <3>2 DEF SelectError, SelectDone, ControlType, helpers
  <2> QED
    BY <1>0, <1>4, <2>1, TypeFrames DEF SelectError, SelectDone, TypeInv
<1>5. CASE JoinErrMon \/ Finish
  <2>1. ControlType'
    BY <1>0, <1>5 DEF JoinErrMon, Finish, Goto, ControlType, helpers
  <2> QED
    BY <1>0, <1>5, <2>1, TypeFrames DEF JoinErrMon, Finish, TypeInv
<1>6. CASE StopPools
  <2>1. ControlType'
    BY <1>0, <1>6 DEF StopPools, StopPool, PoolStopped, Goto, ControlType, helpers
  <2>2. ChannelType'
    BY <1>0, <1>6 DEF StopPools, StopPool, PoolStopped, ChannelType
  <2> QED
    BY <1>0, <1>6, <2>1, <2>2, TypeFrames DEF StopPools, StopPool, PoolStopped, TypeInv
<1>7. CASE CleanBuffer
  <2>1. BatchType'
    BY <1>0, <1>7, RemoveAllType, TypeFrames DEF CleanBuffer
  <2>2. ControlType'
    BY <1>0, <1>7 DEF CleanBuffer, Goto, ControlType, helpers
  <2> QED
    BY <1>0, <1>7, <2>1, <2>2, TypeFrames DEF CleanBuffer, TypeInv
<1>8. CASE SaveLast
  BY <1>8, SaveType DEF SaveLast
<1> QED
  BY <1>1, <1>2, <1>3, <1>4, <1>5, <1>6, <1>7, <1>8 DEF Main

LEMMA HelperType ==
  ASSUME TypeInv, ErrMon \/ Feeder \/ Monitor \/ MonitorStops
  PROVE  TypeInv'
<1> USE BatchesAssumption DEF control, helpers
<1>0. ControlType /\ ChannelType /\ WorkerType /\ BatchType /\ FileType
  BY DEF TypeInv
<1>1. CASE ErrMonStops \/ FeederChecks \/ FeederFails
  <2>1. ControlType'
    <3>1. CASE ErrMonStops
      BY <1>0, <3>1 DEF ErrMonStops, ControlType
    <3>2. CASE FeederChecks
      BY <1>0, <3>2 DEF FeederChecks, ControlType, Batches
    <3>3. CASE FeederFails
      BY <1>0, <3>3 DEF FeederFails, ControlType
    <3> QED
      BY <1>1, <3>1, <3>2, <3>3
  <2> QED
    BY <1>0, <1>1, <2>1, TypeFrames DEF ErrMonStops, FeederChecks, FeederFails, TypeInv
<1>2. CASE MonitorTicks \/ MonitorStops \/ MonitorScans \/ MonitorFails \/ MonitorChecks
  <2>1. ControlType'
    <3>1. CASE MonitorTicks \/ MonitorStops
      BY <1>0, <3>1 DEF MonitorTicks, MonitorStops, ControlType
    <3>2. CASE MonitorScans
      BY <1>0, <3>2 DEF MonitorScans, ControlType, Batches
    <3>3. CASE MonitorFails \/ MonitorChecks
      BY <1>0, <3>3 DEF MonitorFails, MonitorChecks, ControlType
    <3> QED
      BY <1>2, <3>1, <3>2, <3>3
  <2> QED
    BY <1>0, <1>2, <2>1, TypeFrames
       DEF MonitorTicks, MonitorStops, MonitorScans, MonitorFails, MonitorChecks, TypeInv
<1>3. ASSUME NEW p \in Pools, ForwardError(p)
      PROVE  TypeInv'
  <2>1. ControlType'
    BY <1>0, <1>3 DEF ForwardError, ControlType
  <2>2. ChannelType'
    BY <1>0, <1>3 DEF ForwardError, ChannelType
  <2> QED
    BY <1>0, <1>3, <2>1, <2>2, TypeFrames DEF ForwardError, TypeInv
<1>4. CASE FeederSends
  <2>1. ControlType'
    BY <1>0, <1>4 DEF FeederSends, Batches, ControlType
  <2>2. queue' \in [Pools -> Seq(Batches)]
    <3>1. nextFeed \in Batches /\ queue["source"] \in Seq(Batches)
      BY <1>0, <1>4 DEF FeederSends, ControlType, ChannelType, Pools
    <3> DEFINE q == Append(queue["source"], nextFeed)
    <3>2. q \in Seq(Batches)
      BY <3>1
    <3>3. queue' = queue \/ queue' = [queue EXCEPT !["source"] = q]
      BY <1>4 DEF FeederSends
    <3> HIDE DEF q
    <3> QED
      BY <1>0, <3>2, <3>3 DEF ChannelType
  <2> QED
    BY <1>0, <1>4, <2>1, <2>2, TypeFrames DEF FeederSends, TypeInv, ChannelType
<1>5. CASE MonitorSends
  <2>1. ControlType'
    <3>1. cursor \in Batches
      BY <1>0, <1>5 DEF MonitorSends, ControlType
    <3>2. /\ cursor' \in {cursor, cursor + 1}
          /\ enqueued' \in {enqueued, enqueued \cup {cursor}}
          /\ monitor' \in {"scan", "err"}
      BY <1>5 DEF MonitorSends
    <3> QED
      BY <1>0, <1>5, <3>1, <3>2 DEF MonitorSends, ControlType, Batches
  <2>2. queue' \in [Pools -> Seq(Batches)]
    <3>1. cursor \in Batches /\ queue["dest"] \in Seq(Batches)
      BY <1>0, <1>5 DEF MonitorSends, ControlType, ChannelType, Pools
    <3> DEFINE q == Append(queue["dest"], cursor)
    <3>2. q \in Seq(Batches)
      BY <3>1
    <3>3. queue' = queue \/ queue' = [queue EXCEPT !["dest"] = q]
      BY <1>5 DEF MonitorSends
    <3> HIDE DEF q
    <3> QED
      BY <1>0, <3>2, <3>3 DEF ChannelType
  <2> QED
    BY <1>0, <1>5, <2>1, <2>2, TypeFrames DEF MonitorSends, TypeInv, ChannelType
<1> QED
  BY <1>1, <1>2, <1>3, <1>4, <1>5 DEF ErrMon, Feeder, Monitor

LEMMA HandlerType ==
  ASSUME TypeInv, Interrupt \/ Handler
  PROVE  TypeInv'
<1>0. ControlType /\ ChannelType /\ WorkerType /\ BatchType /\ FileType
  BY DEF TypeInv
<1>1. CASE Interrupt \/ HandlerCloses \/ Exit
  <2>1. ControlType'
    BY <1>0, <1>1 DEF Interrupt, HandlerCloses, Exit, HandlerGoto, ControlType, control, helpers
  <2> QED
    BY <1>0, <1>1, <2>1, TypeFrames DEF Interrupt, HandlerCloses, Exit, TypeInv
<1>2. CASE HandlerSaves
  <2>1. FileType'
    BY <1>0, <1>2, SaveBeginsType, SaveEndsType, TypeFrames DEF HandlerSaves, Savers
  <2>2. ControlType'
    BY <1>0, <1>2 DEF HandlerSaves, HandlerGoto, ControlType, control, helpers
  <2> QED
    BY <1>0, <1>2, <2>1, <2>2, TypeFrames DEF HandlerSaves, TypeInv
<1>3. CASE HandlerCleans
  <2>1. BatchType'
    BY <1>0, <1>3, RemoveAllType, TypeFrames DEF HandlerCleans
  <2>2. ControlType'
    BY <1>0, <1>3 DEF HandlerCleans, HandlerGoto, ControlType, control, helpers
  <2> QED
    BY <1>0, <1>3, <2>1, <2>2, TypeFrames DEF HandlerCleans, TypeInv
<1> QED
  BY <1>1, <1>2, <1>3 DEF Handler

LEMMA WorkType ==
  ASSUME TypeInv, NEW w \in Workers, Work(w) \/ WorkerStops(w)
  PROVE  TypeInv'
<1>0. ControlType /\ ChannelType /\ WorkerType /\ BatchType /\ FileType
  BY DEF TypeInv
<1>a. w \in SourceWorkers \/ w \in DestWorkers
  BY DEF Workers
<1>1. CASE Take(w)
  <2> DEFINE p == Pool(w)
  <2>1. p \in Pools /\ (p = "source" <=> w \in SourceWorkers)
    BY DEF Pool, Pools
  <2>2. queue[p] \in Seq(Batches) /\ queue[p] # <<>>
    BY <1>0, <1>1, <2>1 DEF ChannelType, Take
  <2>3. Head(queue[p]) \in Batches /\ Tail(queue[p]) \in Seq(Batches)
    BY <2>2
  <2> HIDE DEF p
  <2>4. ChannelType'
    BY <1>0, <1>1, <2>1, <2>3 DEF ChannelType, Take, p
  <2>5. WorkerType'
    BY <1>0, <1>1, <2>1, <2>3, WorkersAssumption
       DEF WorkerType, Take, p, Workers, Labels, SourceBusy, DestBusy
  <2>6. BatchType'
    BY <1>0, <1>1, <2>1, <2>3 DEF BatchType, Take, p, Status
  <2> QED
    BY <1>0, <1>1, <2>4, <2>5, <2>6, TypeFrames DEF Take, TypeInv
<1>2. CASE SourceStep(w) \/ DestStep(w) \/ MarkFailed(w)
  <2>1. WorkerType'
    BY <1>0, <1>2, WorkersAssumption
       DEF SourceStep, GiveUp, Reserve, CreateArchive, ArchiveFails, Publish, DestStep,
           Extract, ExtractFails, CleanBatch, Complete, MarkFailed, WorkerStep,
           WorkerType, Workers, Labels, SourceBusy, DestBusy
  <2>2. held[w] \in Batches
    BY <1>0, <1>2, <1>a
       DEF SourceStep, GiveUp, Reserve, CreateArchive, ArchiveFails, Publish, DestStep,
           Extract, ExtractFails, CleanBatch, Complete, MarkFailed, WorkerStep,
           WorkerType, Workers, Labels, SourceBusy, DestBusy
  <2>3. BatchType'
    <3>1. CASE GiveUp(w) \/ ExtractFails(w)
      BY <1>0, <3>1, TypeFrames DEF GiveUp, ExtractFails
    <3>2. CASE Reserve(w)
      BY <1>0, <2>2, <3>2 DEF Reserve, BatchType
    <3>3. CASE CreateArchive(w)
      BY <1>0, <2>2, <3>3, SizesAssumption DEF CreateArchive, Adjusted, BatchType
    <3>4. CASE ArchiveFails(w)
      BY <1>0, <2>2, <3>4, SizesAssumption DEF ArchiveFails, BatchType
    <3>5. CASE CleanBatch(w)
      BY <1>0, <2>2, <3>5 DEF CleanBatch, BatchType
    <3>6. CASE Extract(w)
      BY <1>0, <2>2, <3>6 DEF Extract, BatchType
    <3>7. CASE Publish(w) \/ Complete(w) \/ MarkFailed(w)
      BY <1>0, <2>2, <3>7 DEF Publish, Complete, MarkFailed, BatchType, Status
    <3> QED
      BY <1>2, <3>1, <3>2, <3>3, <3>4, <3>5, <3>6, <3>7 DEF SourceStep, DestStep
  <2>4. UNCHANGED <<control, helpers, handler>> /\ UNCHANGED channels /\ UNCHANGED file
    BY <1>2
       DEF SourceStep, GiveUp, Reserve, CreateArchive, ArchiveFails, Publish, DestStep,
           Extract, ExtractFails, CleanBatch, Complete, MarkFailed, WorkerStep
  <2> QED
    BY <1>0, <2>1, <2>3, <2>4, TypeFrames DEF TypeInv
<1>3. CASE Report(w) \/ WorkerStops(w)
  <2>1. WorkerType'
    BY <1>0, <1>3, WorkersAssumption
       DEF Report, WorkerStops, WorkerType, Workers, Labels, SourceBusy, DestBusy
  <2>2. Pool(w) \in Pools
    BY DEF Pool, Pools
  <2>3. ChannelType'
    <3>1. CASE Report(w)
      <4> DEFINE p == Pool(w)
                 n == IF errs[p] < ErrorCap(p) THEN errs[p] + 1 ELSE errs[p]
      <4>1. n \in Nat
        BY <1>0, <2>2 DEF ChannelType
      <4>2. errs' = [errs EXCEPT ![p] = n]
        BY <3>1 DEF Report
      <4> HIDE DEF n, p
      <4> QED
        BY <1>0, <3>1, <4>1, <4>2 DEF Report, ChannelType
    <3> QED
      BY <1>0, <1>3, <3>1, TypeFrames DEF WorkerStops
  <2> QED
    BY <1>0, <1>3, <2>1, <2>3, TypeFrames DEF Report, WorkerStops, TypeInv
<1> QED
  BY <1>1, <1>2, <1>3 DEF Work

\* TypeInv is inductive.
LEMMA NextType ==
  ASSUME TypeInv, [Next]_vars
  PROVE  TypeInv'
<1>1. CASE UNCHANGED vars
  BY <1>1, TypeFrames DEF vars, TypeInv
<1> QED
  BY <1>1, MainType, HelperType, HandlerType, WorkType DEF Next, Idle

LEMMA TypeInvariance == Spec => []TypeInv
BY InitType, NextType, PTL DEF Spec

\* Every variable of the engine keeps its type: no queue holds anything but batches of
\* the manifest, and a busy worker always has a batch (batched_engine.go:20-38).
THEOREM TypeCorrect == Spec => []TypeOK
<1>1. TypeInv => TypeOK
  BY DEF TypeInv, ControlType, ChannelType, WorkerType, BatchType, FileType, Contents,
         Labels, SourceBusy, DestBusy, TypeOK
<1> QED
  BY <1>1, TypeInvariance, PTL
-----------------------------------------------------------------------------
(***************************************************************************)
(* Where a batch is.                                                       *)
(***************************************************************************)
Busy == SourceBusy \cup DestBusy

\* What is queued was not processed yet by the workers of that queue.
QueuesHold ==
  /\ \A i \in DOMAIN queue["source"] :
       queue["source"][i] < nextFeed /\ status[queue["source"][i]] = "pending"
  /\ \A i \in DOMAIN queue["dest"] :
       queue["dest"][i] \in enqueued /\ status[queue["dest"][i]] = "buffered"

\* No queue holds a batch twice.
QueuedOnce ==
  \A p \in Pools : \A i, j \in DOMAIN queue[p] : queue[p][i] = queue[p][j] => i = j

\* What a worker holds has the status it was given when it was taken.
WorkersHold ==
  /\ \A w \in SourceWorkers : at[w] \in SourceBusy => status[held[w]] = "downloading"
  /\ \A w \in DestWorkers : at[w] \in DestBusy => status[held[w]] = "uploading"

\* No two workers hold the same batch.
HeldOnce ==
  \A v, w \in Workers :
    at[v] \in Busy /\ at[w] \in Busy /\ held[v] = held[w] => v = w

\* The batches the feeder has not come to.
FedInOrder == \A b \in Batches : b >= nextFeed => status[b] = "pending"

\* enqueuedToDest has every batch the destination workers got.
EnqueuedCovers ==
  /\ \A b \in Batches : status[b] \in {"uploading", "completed"} => b \in enqueued
  /\ monitor = "send" => status[cursor] = "buffered" /\ cursor \notin enqueued

PlaceInv ==
  QueuesHold /\ QueuedOnce /\ WorkersHold /\ HeldOnce /\ FedInOrder /\ EnqueuedCovers
-----------------------------------------------------------------------------
\* At first no batch is in any place.
LEMMA InitPlace == Init => PlaceInv
BY DEF Init, PlaceInv, QueuesHold, QueuedOnce, WorkersHold, HeldOnce, FedInOrder,
       EnqueuedCovers, Workers, Busy, SourceBusy, DestBusy, Pools

\* A step that moves no batch: the queues and statuses stay, and a worker that is busy
\* after it was busy with the same batch before.
LEMMA PlaceFrame ==
  ASSUME TypeInv, PlaceInv, UNCHANGED <<queue, status, enqueued, nextFeed>>,
         monitor' = "send" => monitor = "send" /\ cursor' = cursor,
         \A w \in Workers : at'[w] \in Busy => at[w] \in Busy /\ held'[w] = held[w]
  PROVE  PlaceInv'
<1>1. QueuesHold' /\ QueuedOnce'
  BY DEF PlaceInv, QueuesHold, QueuedOnce
<1>2. WorkersHold'
  BY DEF PlaceInv, WorkersHold, Workers, TypeInv, WorkerType, Busy, SourceBusy, DestBusy
<1>3. HeldOnce'
  BY DEF PlaceInv, HeldOnce
<1>4. FedInOrder' /\ EnqueuedCovers'
  BY DEF PlaceInv, FedInOrder, EnqueuedCovers
<1> QED
  BY <1>1, <1>2, <1>3, <1>4 DEF PlaceInv

\* What Append and Tail make of a sequence.
LEMMA AppendElements ==
  ASSUME NEW S, NEW s \in Seq(S), NEW e \in S
  PROVE  /\ DOMAIN Append(s, e) = 1..(Len(s) + 1)
         /\ DOMAIN s = 1..Len(s)
         /\ Len(s) \in Nat
         /\ \A i \in 1..Len(s) : Append(s, e)[i] = s[i] /\ s[i] \in S
         /\ Append(s, e)[Len(s) + 1] = e
OBVIOUS

LEMMA TailElements ==
  ASSUME NEW S, NEW s \in Seq(S), s # <<>>
  PROVE  /\ DOMAIN s = 1..Len(s)
         /\ Len(s) \in Nat \ {0}
         /\ Head(s) = s[1] /\ Head(s) \in S
         /\ DOMAIN Tail(s) = 1..(Len(s) - 1)
         /\ \A i \in 1..(Len(s) - 1) : Tail(s)[i] = s[i + 1]
         /\ \A i \in 1..Len(s) : s[i] \in S
OBVIOUS

\* The feeder appends a batch that was in no queue before.
LEMMA FeederSendsPlace ==
  ASSUME TypeInv, PlaceInv, FeederSends
  PROVE  PlaceInv'
<1>0. /\ ControlType /\ ChannelType /\ BatchType /\ nextFeed \in Batches
      /\ queue["source"] \in Seq(Batches) /\ nextFeed \in Nat
  BY BatchesAssumption DEF TypeInv, FeederSends, ControlType, ChannelType, Pools, Batches
<1>1. CASE UNCHANGED <<queue, nextFeed>>
  BY <1>1, PlaceFrame DEF FeederSends, workers, batches
<1>2. CASE /\ queue' = [queue EXCEPT !["source"] = Append(@, nextFeed)]
           /\ nextFeed' = nextFeed + 1
  <2> DEFINE q == queue["source"]
  <2>1. queue'["source"] = Append(q, nextFeed) /\ queue'["dest"] = queue["dest"]
    BY <1>0, <1>2 DEF ChannelType, Pools
  <2>2. UNCHANGED <<status, enqueued, monitor, cursor, at, held>>
    BY DEF FeederSends, workers, batches
  <2>3. \A b \in Batches : b \in Nat
    BY DEF Batches
  <2>4. status[nextFeed] = "pending"
    BY <1>0 DEF PlaceInv, FedInOrder
  <2>5. QueuesHold'
    <3>1. ASSUME NEW i \in DOMAIN queue'["source"]
          PROVE  /\ queue'["source"][i] < nextFeed'
                 /\ status'[queue'["source"][i]] = "pending"
      <4>1. \/ i = Len(q) + 1 /\ queue'["source"][i] = nextFeed
            \/ i \in DOMAIN q /\ queue'["source"][i] = q[i] /\ q[i] \in Batches
        BY <1>0, <2>1, AppendElements
      <4>2. CASE queue'["source"][i] = nextFeed
        BY <1>0, <1>2, <2>2, <2>4, <4>2
      <4>3. CASE i \in DOMAIN q /\ queue'["source"][i] = q[i] /\ q[i] \in Batches
        <5>1. q[i] \in Nat /\ q[i] < nextFeed /\ status[q[i]] = "pending"
          BY <2>3, <4>3 DEF PlaceInv, QueuesHold
        <5> QED
          BY <1>0, <1>2, <2>2, <4>3, <5>1
      <4> QED
        BY <4>1, <4>2, <4>3
    <3> QED
      BY <2>1, <2>2, <3>1 DEF PlaceInv, QueuesHold
  <2>6. QueuedOnce'
    <3>1. \A i, j \in DOMAIN queue'["source"] :
            queue'["source"][i] = queue'["source"][j] => i = j
      BY <1>0, <2>1, <2>3, AppendElements DEF PlaceInv, QueuesHold, QueuedOnce, Pools
    <3> QED
      BY <2>1, <3>1 DEF PlaceInv, QueuedOnce, Pools
  <2>7. WorkersHold' /\ HeldOnce' /\ EnqueuedCovers'
    BY <2>2 DEF PlaceInv, WorkersHold, HeldOnce, EnqueuedCovers
  <2>8. FedInOrder'
    BY <1>0, <1>2, <2>2, <2>3 DEF PlaceInv, FedInOrder
  <2> QED
    BY <2>5, <2>6, <2>7, <2>8 DEF PlaceInv
<1> QED
  BY <1>1, <1>2 DEF FeederSends

\* The monitor appends a buffered batch that enqueuedToDest does not have.
LEMMA MonitorSendsPlace ==
  ASSUME TypeInv, PlaceInv, MonitorSends
  PROVE  PlaceInv'
<1>0. /\ ChannelType /\ cursor \in Batches /\ queue["dest"] \in Seq(Batches)
      /\ status[cursor] = "buffered" /\ cursor \notin enqueued
      /\ monitor' # "send"
  BY DEF TypeInv, MonitorSends, ControlType, ChannelType, Pools, PlaceInv, EnqueuedCovers
<1>1. CASE UNCHANGED <<queue, enqueued>>
  BY <1>0, <1>1, PlaceFrame DEF MonitorSends, workers, batches
<1>2. CASE /\ queue' = [queue EXCEPT !["dest"] = Append(@, cursor)]
           /\ enqueued' = enqueued \cup {cursor}
  <2> DEFINE q == queue["dest"]
  <2>1. queue'["dest"] = Append(q, cursor) /\ queue'["source"] = queue["source"]
    BY <1>0, <1>2 DEF ChannelType, Pools
  <2>2. UNCHANGED <<status, nextFeed, at, held>>
    BY DEF MonitorSends, workers, batches
  <2>3. QueuesHold'
    BY <1>0, <1>2, <2>1, <2>2, AppendElements DEF PlaceInv, QueuesHold
  <2>4. QueuedOnce'
    <3>1. \A i, j \in DOMAIN queue'["dest"] :
            queue'["dest"][i] = queue'["dest"][j] => i = j
      BY <1>0, <2>1, AppendElements DEF PlaceInv, QueuesHold, QueuedOnce, Pools
    <3> QED
      BY <2>1, <3>1 DEF PlaceInv, QueuedOnce, Pools
  <2>5. WorkersHold' /\ HeldOnce' /\ FedInOrder'
    BY <2>2 DEF PlaceInv, WorkersHold, HeldOnce, FedInOrder
  <2>6. EnqueuedCovers'
    BY <1>0, <1>2, <2>2 DEF PlaceInv, EnqueuedCovers
  <2> QED
    BY <2>3, <2>4, <2>5, <2>6 DEF PlaceInv
<1> QED
  BY <1>1, <1>2 DEF MonitorSends

\* A worker takes the head of its queue, which then is in no other place.
LEMMA TakePlace ==
  ASSUME TypeInv, PlaceInv, NEW w \in Workers, Take(w)
  PROVE  PlaceInv'
<1> DEFINE p == Pool(w)
           q == queue[p]
           b == Head(q)
           st == IF p = "source" THEN "downloading" ELSE "uploading"
<1>0. /\ ChannelType /\ WorkerType /\ BatchType /\ p \in Pools /\ q \in Seq(Batches) /\ q # <<>>
      /\ p = "source" <=> w \in SourceWorkers
      /\ p = "dest" <=> w \in DestWorkers
  BY WorkersAssumption DEF TypeInv, ChannelType, Pool, Pools, Take, Workers
<1>1. /\ b \in Batches /\ b = q[1] /\ DOMAIN q = 1..Len(q) /\ Len(q) \in Nat \ {0}
      /\ DOMAIN Tail(q) = 1..(Len(q) - 1)
      /\ \A i \in 1..(Len(q) - 1) : Tail(q)[i] = q[i + 1]
      /\ \A i \in 1..Len(q) : q[i] \in Batches
  BY <1>0, TailElements
<1>2. /\ queue' = [queue EXCEPT ![p] = Tail(q)]
      /\ held' = [held EXCEPT ![w] = b]
      /\ status' = [status EXCEPT ![b] = st]
      /\ at' = [at EXCEPT ![w] = IF p = "source" THEN "reserve" ELSE "extract"]
      /\ UNCHANGED <<enqueued, nextFeed, monitor, cursor>>
  BY DEF Take, helpers
<1>3. /\ p = "source" => status[b] = "pending" /\ b < nextFeed
      /\ p = "dest" => status[b] = "buffered" /\ b \in enqueued
      /\ \A i \in 2..Len(q) : q[i] # b
  BY <1>0, <1>1 DEF PlaceInv, QueuesHold, QueuedOnce
<1>4. \A v \in Workers : at[v] \in Busy => held[v] # b
  BY <1>0, <1>3 DEF PlaceInv, WorkersHold, Workers, WorkerType, Busy, SourceBusy, DestBusy, Pools
<1> HIDE DEF p, q, b, st
<1>5. \A r \in Pools : \A i \in DOMAIN queue'[r] :
        /\ \E j \in DOMAIN queue[r] : queue'[r][i] = queue[r][j] /\ (r = p => j = i + 1)
        /\ (r # p => queue'[r] = queue[r])
        /\ queue'[r][i] \in Batches
        /\ queue'[r][i] # b
  <2>1. \A i \in DOMAIN queue'[p] :
        /\ \E j \in DOMAIN queue[p] : queue'[p][i] = queue[p][j] /\ j = i + 1
        /\ queue'[p][i] \in Batches
        /\ queue'[p][i] # b
    BY <1>0, <1>1, <1>2, <1>3 DEF ChannelType, q
  <2>2. \A r \in Pools : r # p =>
        /\ queue'[r] = queue[r]
        /\ \A i \in DOMAIN queue[r] : queue[r][i] \in Batches
    BY <1>0, <1>2 DEF ChannelType
  <2>3. \A r \in Pools : r # p => \A i \in DOMAIN queue[r] : queue[r][i] # b
    BY <1>0, <1>3 DEF PlaceInv, QueuesHold, Pools
  <2> QED
    BY <2>1, <2>2, <2>3
<1>6. \A c \in Batches : c # b => status'[c] = status[c]
  BY <1>0, <1>2 DEF BatchType
<1>7. status'[b] = st
  BY <1>0, <1>1, <1>2 DEF BatchType
<1>8. QueuesHold'
  <2> USE DEF QueuesHold, Pools
  <2>1. \A i \in DOMAIN queue'["source"] :
         queue'["source"][i] < nextFeed' /\ status'[queue'["source"][i]] = "pending"
    BY <1>2, <1>5, <1>6 DEF PlaceInv
  <2>2. \A i \in DOMAIN queue'["dest"] :
         queue'["dest"][i] \in enqueued' /\ status'[queue'["dest"][i]] = "buffered"
    BY <1>2, <1>5, <1>6 DEF PlaceInv
  <2> QED
    BY <2>1, <2>2
<1>9. QueuedOnce'
  <2>1. ASSUME NEW r \in Pools, NEW i \in DOMAIN queue'[r], NEW j \in DOMAIN queue'[r],
               queue'[r][i] = queue'[r][j]
        PROVE  i = j
    <3>1. CASE r = p
      <4>1. i \in Nat /\ j \in Nat /\ i + 1 \in DOMAIN queue[p] /\ j + 1 \in DOMAIN queue[p]
            /\ queue'[p][i] = queue[p][i + 1] /\ queue'[p][j] = queue[p][j + 1]
        BY <1>0, <1>1, <1>2, <2>1, <3>1 DEF ChannelType, q
      <4> QED
        BY <1>0, <2>1, <3>1, <4>1 DEF PlaceInv, QueuedOnce
    <3>2. CASE r # p
      BY <1>5, <2>1, <3>2 DEF PlaceInv, QueuedOnce
    <3> QED
      BY <3>1, <3>2
  <2> QED
    BY <2>1 DEF QueuedOnce
<1>10. \A v \in Workers : v # w => at'[v] = at[v] /\ held'[v] = held[v]
  BY <1>0, <1>2 DEF WorkerType
<1>11. held'[w] = b /\ at'[w] = IF p = "source" THEN "reserve" ELSE "extract"
  BY <1>0, <1>2 DEF WorkerType
<1>12. WorkersHold'
  <2>1. ASSUME NEW v \in SourceWorkers, at'[v] \in SourceBusy
        PROVE  status'[held'[v]] = "downloading"
    <3>1. CASE v = w
      BY <1>0, <1>7, <1>11, <3>1 DEF st
    <3>2. CASE v # w
      BY <1>0, <1>4, <1>6, <1>10, <2>1, <3>2 DEF PlaceInv, WorkersHold, Workers, WorkerType, Busy
    <3> QED
      BY <3>1, <3>2
  <2>2. ASSUME NEW v \in DestWorkers, at'[v] \in DestBusy
        PROVE  status'[held'[v]] = "uploading"
    <3>1. CASE v = w
      BY <1>0, <1>7, <1>11, <3>1 DEF st, Pools
    <3>2. CASE v # w
      BY <1>0, <1>4, <1>6, <1>10, <2>2, <3>2 DEF PlaceInv, WorkersHold, Workers, WorkerType, Busy
    <3> QED
      BY <3>1, <3>2
  <2> QED
    BY <2>1, <2>2 DEF WorkersHold
<1>13. HeldOnce'
  BY <1>4, <1>10, <1>11 DEF PlaceInv, HeldOnce
<1>14. FedInOrder'
  <2>1. ASSUME NEW c \in Batches, c >= nextFeed'
        PROVE  status'[c] = "pending"
    <3>1. c >= nextFeed /\ status[c] = "pending"
      BY <1>2, <2>1 DEF PlaceInv, FedInOrder
    <3>2. c # b
      BY <1>0, <1>3, <2>1, <3>1 DEF Pools, Batches, TypeInv, ControlType
    <3> QED
      BY <1>6, <3>1, <3>2
  <2> QED
    BY <2>1 DEF FedInOrder
<1>15. EnqueuedCovers'
  BY <1>0, <1>1, <1>2, <1>3, <1>6, <1>7
     DEF PlaceInv, EnqueuedCovers, Pools, st, TypeInv, ControlType
<1> QED
  BY <1>8, <1>9, <1>12, <1>13, <1>14, <1>15 DEF PlaceInv

\* A worker that leaves its batch with another status.
LEMMA LeavePlace ==
  ASSUME TypeInv, PlaceInv, NEW w \in Workers, Publish(w) \/ Complete(w) \/ MarkFailed(w)
  PROVE  PlaceInv'
<1> DEFINE b == held[w]
<1>0. /\ ControlType /\ ChannelType /\ WorkerType /\ BatchType /\ b \in Batches /\ at[w] \in Busy
      /\ status[b] \in {"downloading", "uploading"}
      /\ at[w] = "complete" => status[b] = "uploading"
  BY DEF TypeInv, Publish, Complete, MarkFailed, WorkerStep, WorkerType, Workers, Busy,
         SourceBusy, DestBusy, PlaceInv, WorkersHold
<1>1. /\ UNCHANGED <<queue, enqueued, nextFeed, monitor, cursor>>
      /\ \E st \in {"buffered", "completed", "failed"} :
           /\ status' = [status EXCEPT ![b] = st]
           /\ st = "completed" => at[w] = "complete"
  BY DEF Publish, Complete, MarkFailed, WorkerStep, helpers, channels
<1>2. /\ at'[w] \in {"idle", "report"}
      /\ \A v \in Workers : v # w => at'[v] = at[v] /\ held'[v] = held[v]
  BY <1>0 DEF Publish, Complete, MarkFailed, WorkerStep, WorkerType
<1>3. \A c \in Batches : c # b => status'[c] = status[c]
  BY <1>0, <1>1 DEF BatchType
<1>4. status'[b] # "uploading" /\ (status'[b] = "completed" => status[b] = "uploading")
  BY <1>0, <1>1 DEF BatchType
<1> HIDE DEF b
<1>5. QueuesHold'
  <2>1. \A i \in DOMAIN queue["source"] : queue["source"][i] \in Batches /\ queue["source"][i] # b
    BY <1>0 DEF PlaceInv, QueuesHold, ChannelType, Pools
  <2>2. \A i \in DOMAIN queue["dest"] : queue["dest"][i] \in Batches /\ queue["dest"][i] # b
    BY <1>0 DEF PlaceInv, QueuesHold, ChannelType, Pools
  <2> QED
    BY <1>1, <1>3, <2>1, <2>2 DEF PlaceInv, QueuesHold
<1>6. QueuedOnce'
  BY <1>1 DEF PlaceInv, QueuedOnce
<1>7. \A v \in Workers : at'[v] \in Busy => v # w /\ held[v] # b
  BY <1>0, <1>2 DEF PlaceInv, HeldOnce, Busy, SourceBusy, DestBusy, b
<1>8. WorkersHold'
  BY <1>0, <1>2, <1>3, <1>7 DEF PlaceInv, WorkersHold, WorkerType, Workers, Busy
<1>9. HeldOnce'
  BY <1>2, <1>7 DEF PlaceInv, HeldOnce
<1>10. FedInOrder'
  <2>1. ASSUME NEW c \in Batches, c >= nextFeed'
        PROVE  status'[c] = "pending"
    <3>1. status[c] = "pending"
      BY <1>1, <2>1 DEF PlaceInv, FedInOrder
    <3>2. c # b
      BY <1>0, <3>1
    <3> QED
      BY <1>3, <3>1, <3>2
  <2> QED
    BY <2>1 DEF FedInOrder
<1>11. EnqueuedCovers'
  BY <1>0, <1>1, <1>3, <1>4 DEF PlaceInv, EnqueuedCovers, ControlType
<1> QED
  BY <1>5, <1>6, <1>8, <1>9, <1>10, <1>11 DEF PlaceInv

\* The scan stops only at such a batch.
LEMMA MonitorScansPlace ==
  ASSUME TypeInv, PlaceInv, MonitorScans
  PROVE  PlaceInv'
<1>1. UNCHANGED <<queue, status, enqueued, nextFeed, at, held>>
  BY DEF MonitorScans, channels, batches, workers
<1>2. QueuesHold' /\ QueuedOnce' /\ WorkersHold' /\ HeldOnce' /\ FedInOrder'
  BY <1>1 DEF PlaceInv, QueuesHold, QueuedOnce, WorkersHold, HeldOnce, FedInOrder
<1>3. EnqueuedCovers'
  BY <1>1 DEF PlaceInv, EnqueuedCovers, MonitorScans
<1> QED
  BY <1>2, <1>3 DEF PlaceInv

\* The steps that move no batch.
LEMMA OtherPlace ==
  ASSUME TypeInv, PlaceInv,
         \/ Main \/ ErrMon \/ FeederChecks \/ FeederFails
         \/ MonitorTicks \/ MonitorStops \/ MonitorFails \/ MonitorChecks
         \/ Interrupt \/ Handler
         \/ UNCHANGED vars
  PROVE  PlaceInv'
<1>1. UNCHANGED <<queue, status, enqueued, nextFeed, held>>
  BY DEF Main, Setup, SaveFirst, Start, SelectError, SelectDone, JoinErrMon, StopPools,
         CleanBuffer, SaveLast, Finish, Save, StopPool, PoolStopped, RemoveAll,
         ErrMon, ErrMonStops, ForwardError, FeederChecks, FeederFails,
         MonitorTicks, MonitorStops, MonitorFails, MonitorChecks,
         Interrupt, Handler, HandlerCloses, HandlerSaves, HandlerCleans, Exit,
         helpers, channels, workers, batches, vars
<1>2. at' = at \/ at' = [w \in Workers |-> "idle"]
  BY DEF Main, Setup, SaveFirst, Start, SelectError, SelectDone, JoinErrMon, StopPools,
         CleanBuffer, SaveLast, Finish, Save, StopPool, PoolStopped,
         ErrMon, ErrMonStops, ForwardError, FeederChecks, FeederFails,
         MonitorTicks, MonitorStops, MonitorFails, MonitorChecks,
         Interrupt, Handler, HandlerCloses, HandlerSaves, HandlerCleans, Exit,
         workers, vars
<1>3. monitor' = "send" => monitor = "send" /\ cursor' = cursor
  BY DEF Main, Setup, SaveFirst, Start, SelectError, SelectDone, JoinErrMon, StopPools,
         CleanBuffer, SaveLast, Finish, Save, StopPool, PoolStopped,
         ErrMon, ErrMonStops, ForwardError, FeederChecks, FeederFails,
         MonitorTicks, MonitorStops, MonitorFails, MonitorChecks,
         Interrupt, Handler, HandlerCloses, HandlerSaves, HandlerCleans, Exit,
         helpers, vars
<1> QED
  BY <1>1, <1>2, <1>3, PlaceFrame DEF Busy, SourceBusy, DestBusy

\* The steps of a worker on the batch it keeps, and those between two batches.
LEMMA KeepPlace ==
  ASSUME TypeInv, PlaceInv, NEW w \in Workers,
         \/ GiveUp(w) \/ Reserve(w) \/ CreateArchive(w) \/ ArchiveFails(w)
         \/ Extract(w) \/ ExtractFails(w) \/ CleanBatch(w) \/ Report(w) \/ WorkerStops(w)
  PROVE  PlaceInv'
<1>0. WorkerType /\ (w \in SourceWorkers \/ w \in DestWorkers)
  BY DEF TypeInv, Workers
<1>1. UNCHANGED <<queue, status, enqueued, nextFeed, monitor, cursor>>
  BY DEF GiveUp, Reserve, CreateArchive, ArchiveFails, Extract, ExtractFails, CleanBatch,
         Report, WorkerStops, WorkerStep, helpers, channels, batches
<1>2. \A v \in Workers : v # w => at'[v] = at[v] /\ held'[v] = held[v]
  BY <1>0 DEF GiveUp, Reserve, CreateArchive, ArchiveFails, Extract, ExtractFails,
         CleanBatch, Report, WorkerStops, WorkerStep, WorkerType
<1>3. at'[w] \in Busy => at[w] \in Busy /\ held'[w] = held[w]
  BY <1>0 DEF GiveUp, Reserve, CreateArchive, ArchiveFails, Extract, ExtractFails,
         CleanBatch, Report, WorkerStops, WorkerStep, WorkerType, Busy, SourceBusy, DestBusy
<1> QED
  BY <1>1, <1>2, <1>3, PlaceFrame

\* PlaceInv is inductive, given TypeInv.
LEMMA NextPlace ==
  ASSUME TypeInv, PlaceInv, [Next]_vars
  PROVE  PlaceInv'
<1>1. ASSUME NEW w \in Workers, Work(w) \/ WorkerStops(w)
      PROVE  PlaceInv'
  BY <1>1, TakePlace, LeavePlace, KeepPlace DEF Work, SourceStep, DestStep
<1> QED
  BY <1>1, OtherPlace, FeederSendsPlace, MonitorScansPlace, MonitorSendsPlace
     DEF Next, Idle, Feeder, Monitor

LEMMA PlaceInvariance == Spec => []PlaceInv
<1>1. TypeInv /\ PlaceInv /\ [Next]_vars => PlaceInv'
  BY NextPlace
<1> QED
  BY <1>1, InitPlace, TypeInvariance, PTL DEF Spec

\* SetStatus and SetError take any status at any time, from any goroutine; nothing
\* else says where a batch is.  Every batch goes forward all the same, one status after
\* the other, and what has failed or is completed stays so (batch.go:34, 207-229).
Transitions == {<<"pending", "downloading">>, <<"downloading", "buffered">>,
                <<"buffered", "uploading">>, <<"uploading", "completed">>,
                <<"downloading", "failed">>, <<"uploading", "failed">>}

StatusMovesForward ==
  [][\A b \in Batches : status'[b] # status[b] => <<status[b], status'[b]>> \in Transitions]_vars

\* Only a worker changes a status, and only that of the batch it takes or holds.
LEMMA StatusStep ==
  ASSUME TypeInv, PlaceInv, [Next]_vars, NEW b \in Batches, status'[b] # status[b]
  PROVE  <<status[b], status'[b]>> \in Transitions
<1>0. status \in [Batches -> Status] /\ WorkerType
  BY DEF TypeInv, BatchType
<1>1. ASSUME NEW w \in Workers, Take(w)
      PROVE  <<status[b], status'[b]>> \in Transitions
  <2> DEFINE p == Pool(w)
             h == Head(queue[p])
  <2>1. p \in Pools /\ queue[p] \in Seq(Batches) /\ queue[p] # <<>>
    BY <1>1 DEF TypeInv, ChannelType, Pool, Pools, Take
  <2>2. h \in Batches /\ h = queue[p][1] /\ 1 \in DOMAIN queue[p]
    BY <2>1, TailElements
  <2>3. /\ p = "source" => status[h] = "pending"
        /\ p = "dest" => status[h] = "buffered"
    BY <2>2 DEF PlaceInv, QueuesHold
  <2>4. status' = [status EXCEPT ![h] = IF p = "source" THEN "downloading" ELSE "uploading"]
    BY <1>1 DEF Take
  <2> HIDE DEF p, h
  <2>5. b = h
    BY <1>0, <2>4
  <2>6. p = "source" \/ p = "dest"
    BY <2>1 DEF Pools
  <2> QED
    BY <1>0, <2>3, <2>4, <2>5, <2>6 DEF Transitions
<1>2. ASSUME NEW w \in Workers, Publish(w) \/ Complete(w) \/ MarkFailed(w)
      PROVE  <<status[b], status'[b]>> \in Transitions
  <2>1. /\ w \in SourceWorkers \/ w \in DestWorkers
        /\ \/ at[w] = "publish" /\ status' = [status EXCEPT ![held[w]] = "buffered"]
           \/ at[w] = "complete" /\ status' = [status EXCEPT ![held[w]] = "completed"]
           \/ at[w] = "fail" /\ status' = [status EXCEPT ![held[w]] = "failed"]
    BY <1>2 DEF Publish, Complete, MarkFailed, WorkerStep, Workers
  <2>2. b = held[w]
    BY <1>0, <2>1
  <2>3. CASE w \in SourceWorkers
    <3>1. at[w] \in {"publish", "fail"}
      BY <1>0, <2>1, <2>3 DEF WorkerType, DestBusy
    <3>2. status[b] = "downloading"
      BY <2>2, <2>3, <3>1 DEF PlaceInv, WorkersHold, SourceBusy
    <3> QED
      BY <1>0, <2>1, <2>2, <3>1, <3>2 DEF Transitions
  <2>4. CASE w \in DestWorkers
    <3>1. at[w] \in {"complete", "fail"}
      BY <1>0, <2>1, <2>4 DEF WorkerType, SourceBusy
    <3>2. status[b] = "uploading"
      BY <2>2, <2>4, <3>1 DEF PlaceInv, WorkersHold, DestBusy
    <3> QED
      BY <1>0, <2>1, <2>2, <3>1, <3>2 DEF Transitions
  <2> QED
    BY <2>1, <2>3, <2>4
<1>3. ASSUME NEW w \in Workers, Work(w) \/ WorkerStops(w)
      PROVE  <<status[b], status'[b]>> \in Transitions
  <2>1. CASE \/ GiveUp(w) \/ Reserve(w) \/ CreateArchive(w) \/ ArchiveFails(w)
             \/ Extract(w) \/ ExtractFails(w) \/ CleanBatch(w) \/ Report(w) \/ WorkerStops(w)
    BY <2>1 DEF GiveUp, Reserve, CreateArchive, ArchiveFails, Extract, ExtractFails,
                CleanBatch, Report, WorkerStops, batches
  <2> QED
    BY <1>1, <1>2, <1>3, <2>1 DEF Work, SourceStep, DestStep
<1>4. CASE Main \/ ErrMon \/ Feeder \/ Monitor \/ MonitorStops \/ Interrupt \/ Handler \/ UNCHANGED vars
  BY <1>4 DEF Main, Setup, SaveFirst, Start, SelectError, SelectDone, JoinErrMon, StopPools,
         CleanBuffer, SaveLast, Finish, Save, StopPool, PoolStopped, RemoveAll,
         ErrMon, ErrMonStops, ForwardError, Feeder, FeederChecks, FeederSends, FeederFails,
         Monitor, MonitorTicks, MonitorStops, MonitorScans, MonitorSends, MonitorFails,
         MonitorChecks, Interrupt, Handler, HandlerCloses, HandlerSaves, HandlerCleans, Exit,
         batches, vars
<1> QED
  BY <1>3, <1>4 DEF Next, Idle

\* No batch ever goes back, skips a status, or leaves "completed" or "failed", although
\* nothing guards SetStatus: what is in a queue or a hand has the status its next step
\* expects (batch.go:34, source_worker.go:99-138, dest_worker.go:85-119).
THEOREM StatusForward == Spec => StatusMovesForward
<1>1. TypeInv /\ PlaceInv /\ [Next]_vars =>
        [\A b \in Batches :
           status'[b] # status[b] => <<status[b], status'[b]>> \in Transitions]_vars
  BY StatusStep
<1> QED
  BY <1>1, TypeInvariance, PlaceInvariance, PTL DEF Spec, StatusMovesForward
-----------------------------------------------------------------------------
(***************************************************************************)
(* What was extracted.                                                     *)
(***************************************************************************)
\* The status tells whether the batch was extracted.
ExtractedOnce ==
  \A b \in Batches :
    /\ extracted[b] \in {0, 1}
    /\ status[b] \notin {"uploading", "completed"} => extracted[b] = 0
    /\ status[b] = "completed" => extracted[b] = 1

\* So does the position of the worker that holds it.
HeldExtracted ==
  \A w \in DestWorkers :
    /\ at[w] \in {"extract", "fail"} => extracted[held[w]] = 0
    /\ at[w] \in {"clean", "complete"} => extracted[held[w]] = 1

\* Neither the file nor what is about to be written says completed too early.
FilesTruthful ==
  \A b \in Batches :
    /\ checkpoint.content.status[b] = "completed" => extracted[b] = 1
    /\ \A s \in Savers : image[s].status[b] = "completed" => extracted[b] = 1

DeliveryInv == ExtractedOnce /\ HeldExtracted /\ FilesTruthful
-----------------------------------------------------------------------------
\* At first nothing is extracted.
LEMMA InitDelivery == Init => DeliveryInv
BY DEF Init, DeliveryInv, ExtractedOnce, HeldExtracted, FilesTruthful, Workers, Savers,
       File, Blank, SourceBusy, DestBusy

\* The steps that neither extract nor mark anything, nor touch the file.
LEMMA DeliveryFrame ==
  ASSUME DeliveryInv, UNCHANGED <<status, extracted>>, UNCHANGED file,
         \A w \in DestWorkers :
           at'[w] \in DestBusy =>
             /\ held'[w] = held[w]
             /\ \/ at'[w] = at[w]
                \/ {at[w], at'[w]} \in {{"extract", "fail"}, {"clean", "complete"}}
  PROVE  DeliveryInv'
<1>1. ExtractedOnce' /\ FilesTruthful'
  BY DEF DeliveryInv, ExtractedOnce, FilesTruthful, file
<1>2. HeldExtracted'
  BY DEF DeliveryInv, HeldExtracted, DestBusy
<1> QED
  BY <1>1, <1>2 DEF DeliveryInv

\* What a saver marshals is true, and stays true until it is written.
LEMMA SaveDelivery ==
  ASSUME TypeInv, DeliveryInv, NEW s \in Savers, SaveBegins(s) \/ SaveEnds(s),
         UNCHANGED batches
  PROVE  FilesTruthful'
<1>0. /\ image \in [Savers -> Contents]
      /\ checkpoint \in [state : {"absent", "torn", "whole"}, content : Contents]
      /\ UNCHANGED <<status, extracted>>
  BY DEF TypeInv, FileType, batches
<1>1. CASE SaveBegins(s)
  <2>1. checkpoint'.content = checkpoint.content
    BY <1>0, <1>1 DEF SaveBegins
  <2>2. image'[s].status = status /\ \A t \in Savers \ {s} : image'[t] = image[t]
    BY <1>0, <1>1 DEF SaveBegins, Content
  <2> QED
    BY <1>0, <2>1, <2>2 DEF DeliveryInv, FilesTruthful, ExtractedOnce
<1>2. CASE SaveEnds(s)
  <2>1. checkpoint'.content \in {checkpoint.content, image[s]}
    BY <1>0, <1>2 DEF SaveEnds, File
  <2>2. image'[s] = Blank /\ \A t \in Savers \ {s} : image'[t] = image[t]
    BY <1>0, <1>2 DEF SaveEnds
  <2> QED
    BY <1>0, <2>1, <2>2 DEF DeliveryInv, FilesTruthful, Blank
<1> QED
  BY <1>1, <1>2

\* No goroutine but the workers extracts or marks a batch.
LEMMA ControlDelivery ==
  ASSUME TypeInv, DeliveryInv,
         Main \/ ErrMon \/ Feeder \/ Monitor \/ MonitorStops \/ Interrupt \/ Handler
           \/ UNCHANGED vars
  PROVE  DeliveryInv'
<1>1. UNCHANGED <<status, extracted, held>>
  BY DEF Main, Setup, SaveFirst, Start, SelectError, SelectDone, JoinErrMon, StopPools,
         CleanBuffer, SaveLast, Finish, Save, StopPool, PoolStopped, RemoveAll,
         ErrMon, ErrMonStops, ForwardError, Feeder, FeederChecks, FeederSends, FeederFails,
         Monitor, MonitorTicks, MonitorStops, MonitorScans, MonitorSends, MonitorFails,
         MonitorChecks, Interrupt, Handler, HandlerCloses, HandlerSaves, HandlerCleans, Exit,
         workers, batches, vars
<1>2. at' = at \/ at' = [w \in Workers |-> "idle"]
  BY DEF Main, Setup, SaveFirst, Start, SelectError, SelectDone, JoinErrMon, StopPools,
         CleanBuffer, SaveLast, Finish, Save, StopPool, PoolStopped,
         ErrMon, ErrMonStops, ForwardError, Feeder, FeederChecks, FeederSends, FeederFails,
         Monitor, MonitorTicks, MonitorStops, MonitorScans, MonitorSends, MonitorFails,
         MonitorChecks, Interrupt, Handler, HandlerCloses, HandlerSaves, HandlerCleans, Exit,
         workers, vars
<1>3. CASE UNCHANGED file
  BY <1>1, <1>2, <1>3, DeliveryFrame DEF Workers, SourceBusy, DestBusy
<1>4. CASE SaveFirst \/ SaveLast \/ HandlerSaves
  <2>1. UNCHANGED file
          \/ (UNCHANGED batches /\ \E s \in Savers : SaveBegins(s) \/ SaveEnds(s))
    BY <1>4 DEF SaveFirst, SaveLast, Save, HandlerSaves, Savers
  <2>2. CASE UNCHANGED batches /\ \E s \in Savers : SaveBegins(s) \/ SaveEnds(s)
    <3>1. FilesTruthful'
      BY <2>2, SaveDelivery
    <3>2. UNCHANGED at
      BY <1>4 DEF SaveFirst, SaveLast, Save, HandlerSaves, workers
    <3> QED
      BY <1>1, <3>1, <3>2 DEF DeliveryInv, ExtractedOnce, HeldExtracted
  <2> QED
    BY <1>3, <2>1, <2>2
<1>5. UNCHANGED file \/ SaveFirst \/ SaveLast \/ HandlerSaves
  BY DEF Main, Setup, Start, SelectError, SelectDone, JoinErrMon, StopPools,
         CleanBuffer, Finish, StopPool, PoolStopped,
         ErrMon, ErrMonStops, ForwardError, Feeder, FeederChecks, FeederSends, FeederFails,
         Monitor, MonitorTicks, MonitorStops, MonitorScans, MonitorSends, MonitorFails,
         MonitorChecks, Interrupt, Handler, HandlerCloses, HandlerCleans, Exit, vars
<1> QED
  BY <1>3, <1>4, <1>5

\* The workers: Extract works on a batch extracted never before.
LEMMA WorkDelivery ==
  ASSUME TypeInv, PlaceInv, DeliveryInv, NEW w \in Workers, Work(w) \/ WorkerStops(w)
  PROVE  DeliveryInv'
<1> DEFINE b == held[w]
<1>0. /\ ControlType /\ ChannelType /\ WorkerType /\ BatchType
      /\ w \in SourceWorkers \/ w \in DestWorkers
  BY DEF TypeInv, Workers
<1>1. CASE GiveUp(w) \/ Reserve(w) \/ CreateArchive(w) \/ ArchiveFails(w)
             \/ ExtractFails(w) \/ CleanBatch(w) \/ Report(w) \/ WorkerStops(w)
  <2>1. UNCHANGED <<status, extracted>> /\ UNCHANGED file
    BY <1>1 DEF GiveUp, Reserve, CreateArchive, ArchiveFails, ExtractFails, CleanBatch,
                Report, WorkerStops, WorkerStep, batches
  <2>2. \A v \in Workers : v # w => at'[v] = at[v] /\ held'[v] = held[v]
    BY <1>0, <1>1 DEF GiveUp, Reserve, CreateArchive, ArchiveFails, ExtractFails, CleanBatch,
                      Report, WorkerStops, WorkerStep, WorkerType
  <2>3. w \in DestWorkers /\ at'[w] \in DestBusy =>
          /\ held'[w] = held[w]
          /\ {at[w], at'[w]} \in {{"extract", "fail"}, {"clean", "complete"}}
    BY <1>0, <1>1 DEF GiveUp, Reserve, CreateArchive, ArchiveFails, ExtractFails, CleanBatch,
                      Report, WorkerStops, WorkerStep, WorkerType, SourceBusy, DestBusy
  <2> QED
    BY <2>1, <2>2, <2>3, DeliveryFrame DEF Workers
<1>2. CASE Extract(w)
  <2>1. /\ w \in DestWorkers /\ b \in Batches
        /\ status[b] = "uploading" /\ extracted[b] = 0 /\ at[w] = "extract"
    BY <1>0, <1>2 DEF Extract, WorkerStep, WorkerType, SourceBusy, DestBusy, PlaceInv,
                      WorkersHold, DeliveryInv, HeldExtracted
  <2>2. /\ extracted' = [extracted EXCEPT ![b] = 1]
        /\ UNCHANGED status /\ UNCHANGED file
    BY <1>0, <1>2, <2>1 DEF Extract, WorkerStep, BatchType
  <2>3. /\ extracted'[b] = 1
        /\ \A c \in Batches : c # b => extracted'[c] = extracted[c]
    BY <1>0, <2>1, <2>2 DEF BatchType
  <2>4. /\ UNCHANGED held /\ at'[w] \in {"clean", "complete"}
        /\ \A v \in Workers : v # w => at'[v] = at[v]
    BY <1>0, <1>2 DEF Extract, WorkerStep, WorkerType
  <2>5. \A v \in DestWorkers : at[v] \in DestBusy /\ v # w => held[v] \in Batches /\ held[v] # b
    BY <1>0, <2>1 DEF PlaceInv, HeldOnce, Busy, DestBusy, Workers, WorkerType
  <2> HIDE DEF b
  <2>6. ExtractedOnce' /\ FilesTruthful'
    BY <2>1, <2>2, <2>3 DEF DeliveryInv, ExtractedOnce, FilesTruthful, file
  <2>7. HeldExtracted'
    BY <2>3, <2>4, <2>5 DEF DeliveryInv, HeldExtracted, DestBusy, Workers, b
  <2> QED
    BY <2>6, <2>7 DEF DeliveryInv
<1>3. CASE Publish(w) \/ Complete(w) \/ MarkFailed(w)
  <2>1. /\ b \in Batches
        /\ status[b] # "completed"
        /\ extracted[b] = IF at[w] = "complete" THEN 1 ELSE 0
    BY <1>0, <1>3 DEF Publish, Complete, MarkFailed, WorkerStep, WorkerType, SourceBusy,
                      DestBusy, PlaceInv, WorkersHold, DeliveryInv, HeldExtracted, ExtractedOnce
  <2>2. /\ UNCHANGED extracted /\ UNCHANGED file
        /\ \E st \in {"buffered", "completed", "failed"} :
             /\ status' = [status EXCEPT ![b] = st]
             /\ st = "completed" <=> at[w] = "complete"
    BY <1>3 DEF Publish, Complete, MarkFailed, WorkerStep
  <2>3. /\ \A c \in Batches : c # b => status'[c] = status[c]
        /\ status'[b] \in {"buffered", "completed", "failed"}
        /\ status'[b] = "completed" <=> at[w] = "complete"
    BY <1>0, <2>1, <2>2 DEF BatchType
  <2>4. /\ at'[w] \in {"idle", "report"}
        /\ \A v \in Workers : v # w => at'[v] = at[v] /\ held'[v] = held[v]
    BY <1>0, <1>3 DEF Publish, Complete, MarkFailed, WorkerStep, WorkerType
  <2> HIDE DEF b
  <2>5. ExtractedOnce' /\ FilesTruthful'
    BY <2>1, <2>2, <2>3 DEF DeliveryInv, ExtractedOnce, FilesTruthful, file
  <2>6. HeldExtracted'
    BY <2>2, <2>4 DEF DeliveryInv, HeldExtracted, Workers
  <2> QED
    BY <2>5, <2>6 DEF DeliveryInv
<1>4. CASE Take(w)
  <2> DEFINE q == queue[Pool(w)]
             c == Head(q)
             st == IF Pool(w) = "source" THEN "downloading" ELSE "uploading"
  <2>1. q \in Seq(Batches) /\ q # <<>> /\ Pool(w) \in Pools
    BY <1>0, <1>4 DEF ChannelType, Pool, Pools, Take
  <2>2. c \in Batches /\ c = q[1] /\ 1 \in DOMAIN q
    BY <2>1, TailElements
  <2>3. status[c] \in {"pending", "buffered"} /\ extracted[c] = 0
    BY <2>1, <2>2 DEF Pools, PlaceInv, QueuesHold, DeliveryInv, ExtractedOnce
  <2>4. /\ UNCHANGED extracted /\ UNCHANGED file
        /\ status' = [status EXCEPT ![c] = st]
        /\ held' = [held EXCEPT ![w] = c]
        /\ at' = [at EXCEPT ![w] = IF Pool(w) = "source" THEN "reserve" ELSE "extract"]
    BY <1>4 DEF Take
  <2> HIDE DEF c, q
  <2>5. /\ \A d \in Batches : d # c => status'[d] = status[d]
        /\ status'[c] \in {"downloading", "uploading"}
    BY <1>0, <2>2, <2>4 DEF BatchType
  <2>6. /\ at'[w] \in {"reserve", "extract"} /\ held'[w] = c
        /\ \A v \in Workers : v # w => at'[v] = at[v] /\ held'[v] = held[v]
    BY <1>0, <2>4 DEF WorkerType
  <2>7. ExtractedOnce' /\ FilesTruthful'
    BY <2>2, <2>3, <2>4, <2>5 DEF DeliveryInv, ExtractedOnce, FilesTruthful, file
  <2>8. HeldExtracted'
    BY <2>3, <2>4, <2>6 DEF DeliveryInv, HeldExtracted, Workers
  <2> QED
    BY <2>7, <2>8 DEF DeliveryInv
<1> QED
  BY <1>1, <1>2, <1>3, <1>4 DEF Work, SourceStep, DestStep

\* DeliveryInv is inductive, given TypeInv and PlaceInv.
LEMMA DeliveryInvariance == Spec => []DeliveryInv
<1>1. TypeInv /\ PlaceInv /\ DeliveryInv /\ [Next]_vars => DeliveryInv'
  BY ControlDelivery, WorkDelivery DEF Next, Idle
<1> QED
  BY <1>1, InitDelivery, TypeInvariance, PlaceInvariance, PTL DEF Spec

\* No batch is extracted twice, for any number of batches and workers: enqueuedToDest
\* covers what the monitor handed over (batched_engine.go:144-165, dest_worker.go:72).
THEOREM DeliveredOnce == Spec => []NoDoubleDelivery
<1>1. DeliveryInv => NoDoubleDelivery
  BY DEF DeliveryInv, ExtractedOnce, NoDoubleDelivery
<1> QED
  BY <1>1, DeliveryInvariance, PTL

\* What memory or the checkpoint file calls completed was extracted, whatever failed and
\* whenever a save began or ended (dest_worker.go:106-119, batch.go:158).
THEOREM CompletedDelivered == Spec => []CompletedMeansDelivered
<1>1. DeliveryInv => CompletedMeansDelivered
  BY DEF DeliveryInv, ExtractedOnce, FilesTruthful, CompletedMeansDelivered
<1> QED
  BY <1>1, DeliveryInvariance, PTL

\* The account: every operation on it leaves it within the limit.
LEMMA NextAccount ==
  ASSUME TypeInv, AccountWithinLimit, [Next]_vars
  PROVE  AccountWithinLimit'
<1>0. MaxSize \in Nat /\ currentSize \in Int /\ currentSize <= MaxSize
  BY SizesAssumption DEF TypeInv, BatchType, AccountWithinLimit
<1>1. ASSUME NEW w \in Workers, Work(w)
      PROVE  currentSize' <= MaxSize
  <2>1. at[w] \in SourceBusy \cup DestBusy => held[w] \in Batches /\ size[held[w]] \in Nat
    BY DEF TypeInv, WorkerType, BatchType, Workers, SourceBusy, DestBusy
  <2>2. CASE Reserve(w)
    BY <2>2 DEF Reserve
  <2>3. CASE CreateArchive(w)
    <3>1. PICK n \in ArchiveSizes : currentSize' = Adjusted(held[w], n)
      BY <2>3 DEF CreateArchive
    <3>2. size[held[w]] \in Nat /\ n \in Nat
      BY <2>1, <2>3, SizesAssumption DEF CreateArchive, WorkerStep, SourceBusy
    <3> QED
      BY <1>0, <3>1, <3>2 DEF Adjusted
  <2>4. CASE ArchiveFails(w)
    BY <1>0, <2>1, <2>4 DEF ArchiveFails, WorkerStep, SourceBusy
  <2>5. CASE CleanBatch(w)
    BY <1>0, <2>1, <2>5 DEF CleanBatch, WorkerStep, DestBusy
  <2>6. UNCHANGED currentSize
          \/ Reserve(w) \/ CreateArchive(w) \/ ArchiveFails(w) \/ CleanBatch(w)
    BY <1>1 DEF Work, SourceStep, DestStep, Take, GiveUp, Publish, Extract, ExtractFails,
                Complete, MarkFailed, Report, batches
  <2> QED
    BY <1>0, <2>2, <2>3, <2>4, <2>5, <2>6
<1>2. CASE CleanBuffer \/ HandlerCleans
  BY <1>0, <1>2 DEF CleanBuffer, HandlerCleans, RemoveAll, batches,
                    AccountWithinLimit
<1>3. UNCHANGED currentSize \/ CleanBuffer \/ HandlerCleans \/ \E w \in Workers : Work(w)
  BY DEF Next, Idle, Main, Setup, SaveFirst, Start, SelectError, SelectDone, JoinErrMon,
         StopPools, SaveLast, Finish, Save, StopPool, PoolStopped,
         ErrMon, ErrMonStops, ForwardError, Feeder, FeederChecks, FeederSends, FeederFails,
         Monitor, MonitorTicks, MonitorStops, MonitorScans, MonitorSends, MonitorFails,
         MonitorChecks, Interrupt, Handler, HandlerCloses, HandlerSaves, Exit, WorkerStops,
         batches, vars
<1> QED
  BY <1>0, <1>1, <1>2, <1>3 DEF AccountWithinLimit

\* The account stays within the limit for all estimates and all archive sizes
\* (buffer.go:57, source_worker.go:223).
THEOREM AccountLimited == Spec => []AccountWithinLimit
<1>1. Init => AccountWithinLimit
  BY SizesAssumption DEF Init, AccountWithinLimit
<1>2. TypeInv /\ AccountWithinLimit /\ [Next]_vars => AccountWithinLimit'
  BY NextAccount
<1> QED
  BY <1>1, <1>2, TypeInvariance, PTL DEF Spec
-----------------------------------------------------------------------------
(***************************************************************************)
(* How far Transfer has come.                                              *)
(***************************************************************************)
Beginning == {"setup", "saveFirst", "writeFirst", "init"}
Ended == {"clean", "saveLast", "writeLast", "finish"}

\* Before the goroutines are started.
NotStarted ==
  main \in Beginning =>
    /\ transferErr = 0
    /\ errMon = "none" /\ feeder = "none" /\ monitor = "none"
    /\ \A w \in Workers : at[w] = "none"

\* Stop of a pool waits for its workers before errorChan is closed.
PoolsEnd ==
  /\ main \in Beginning \cup {"select", "joinErrMon"} =>
       \A p \in Pools : ~poolStopped[p] /\ ~errsClosed[p]
  /\ main \in {"stopDest", "waitDest"} \cup Ended => \A w \in SourceWorkers : at[w] = "end"
  /\ main \in Ended => \A w \in DestWorkers : at[w] = "end"
  /\ main = "returned" => \A w \in Workers : at[w] \in {"none", "end"}
  /\ \A p \in Pools : errsClosed[p] => \A w \in Members(p) : at[w] = "end"

\* An error of coordinateTransfer can only come from a stopped pool or from the
\* error monitor, which it ends.
ErrorsEnd ==
  /\ monitor = "err" => poolStopped["dest"]
  /\ feeder = "err" => poolStopped["source"]
  /\ main = "select" /\ transferErr = 1 => errMon = "end"
  /\ main \notin Beginning \cup {"select", "joinErrMon"} => errMon # "watch"

\* What main concludes from the end of feeder and monitor.
VerdictInv ==
  /\ main \in Beginning \cup {"select"} <=> outcome = "open"
  /\ main = "select" /\ monitor = "end" => stopped \/ AllBatchesCompleted
  /\ outcome = "success" => AllBatchesCompleted /\ HelpersEnded /\ stopped
  /\ outcome = "success" /\ main # "joinErrMon" => errMon = "end"
  /\ handler \notin {"wait", "close"} => stopped /\ outcome # "success"

ControlInv == NotStarted /\ PoolsEnd /\ ErrorsEnd /\ VerdictInv
-----------------------------------------------------------------------------
\* Nothing has started.
LEMMA InitControl == Init => ControlInv
BY DEF Init, ControlInv, NotStarted, PoolsEnd, ErrorsEnd, VerdictInv, Beginning, Ended,
       Workers, Pools

\* A batch that is completed or failed keeps its status: it is in no queue, and no
\* worker is at work on it.
LEMMA DoneStays ==
  ASSUME TypeInv, PlaceInv, [Next]_vars, NEW b \in Batches,
         status[b] \in {"completed", "failed"}
  PROVE  status'[b] = status[b]
<1>1. ASSUME NEW w \in Workers, Take(w)
      PROVE  status'[b] = status[b]
  <2> DEFINE q == queue[Pool(w)]
  <2>1. q \in Seq(Batches) /\ q # <<>> /\ Pool(w) \in Pools
    BY <1>1 DEF TypeInv, ChannelType, Pool, Pools, Take
  <2>2. Head(q) = q[1] /\ 1 \in DOMAIN q
    BY <2>1, TailElements
  <2>3. status[Head(q)] \in {"pending", "buffered"}
    BY <2>1, <2>2 DEF Pools, PlaceInv, QueuesHold
  <2>4. Head(q) # b
    BY <2>3
  <2> QED
    BY <1>1, <2>4 DEF Take, TypeInv, BatchType
<1>2. ASSUME NEW w \in Workers, Publish(w) \/ Complete(w) \/ MarkFailed(w)
      PROVE  status'[b] = status[b]
  <2>1. status[held[w]] \in {"downloading", "uploading"}
    BY <1>2 DEF Publish, Complete, MarkFailed, WorkerStep, TypeInv, WorkerType, Workers,
                SourceBusy, DestBusy, PlaceInv, WorkersHold
  <2>2. held[w] # b
    BY <2>1
  <2> QED
    BY <1>2, <2>2 DEF Publish, Complete, MarkFailed, TypeInv, BatchType
<1>3. ASSUME NEW w \in Workers, Work(w) \/ WorkerStops(w)
      PROVE  \/ UNCHANGED status
             \/ Take(w) \/ Publish(w) \/ Complete(w) \/ MarkFailed(w)
  BY <1>3 DEF Work, WorkerStops, SourceStep, DestStep, GiveUp, Reserve, CreateArchive,
              ArchiveFails, Extract, ExtractFails, CleanBatch, Report, batches
<1>4. CASE Main \/ ErrMon \/ Feeder \/ Monitor \/ MonitorStops \/ Interrupt \/ Handler
             \/ UNCHANGED vars
  BY <1>4
     DEF Main, Setup, SaveFirst, Start, SelectError, SelectDone, JoinErrMon, StopPools,
         CleanBuffer, SaveLast, Finish, Save, StopPool, PoolStopped, RemoveAll,
         ErrMon, ErrMonStops, ForwardError, Feeder, FeederChecks, FeederSends, FeederFails,
         Monitor, MonitorTicks, MonitorStops, MonitorScans, MonitorSends, MonitorFails,
         MonitorChecks, Interrupt, Handler, HandlerCloses, HandlerSaves, HandlerCleans, Exit,
         batches, vars
<1> QED
  BY <1>1, <1>2, <1>3, <1>4 DEF Next, Idle

\* So once all batches are done, they stay done.
LEMMA AllDoneStays ==
  ASSUME TypeInv, PlaceInv, [Next]_vars, AllBatchesCompleted
  PROVE  AllBatchesCompleted'
BY DoneStays DEF AllBatchesCompleted

\* One lemma per goroutine.
LEMMA MainControl ==
  ASSUME TypeInv, PlaceInv, ControlInv, Main, [Next]_vars
  PROVE  ControlInv'
<1> USE DEF Beginning, Ended, Goto
<1>0. /\ NotStarted /\ PoolsEnd /\ ErrorsEnd /\ VerdictInv
      /\ ControlType /\ ChannelType /\ WorkerType
  BY DEF ControlInv, TypeInv
<1>1. CASE Setup
  BY <1>0, <1>1 DEF Setup, ControlInv, NotStarted, PoolsEnd, ErrorsEnd, VerdictInv,
                    AllBatchesCompleted, HelpersEnded, helpers, channels, workers, batches
<1>2. CASE SaveFirst
  BY <1>0, <1>2 DEF SaveFirst, Save, ControlInv, NotStarted, PoolsEnd, ErrorsEnd, VerdictInv,
                    AllBatchesCompleted, HelpersEnded, helpers, channels, workers, batches
<1>3. CASE Start
  <2>1. NotStarted'
    BY <1>0, <1>3 DEF Start, NotStarted
  <2>2. PoolsEnd'
    BY <1>0, <1>3 DEF Start, NotStarted, PoolsEnd, channels
  <2>3. ErrorsEnd' /\ VerdictInv'
    BY <1>0, <1>3 DEF Start, NotStarted, ErrorsEnd, VerdictInv, AllBatchesCompleted,
                      HelpersEnded, channels, batches
  <2> QED
    BY <2>1, <2>2, <2>3 DEF ControlInv
<1>4. CASE SelectError
  <2>1. CASE stopped
    BY <1>0, <1>4, <2>1
       DEF SelectError, CloseStopChan, ControlInv, NotStarted, PoolsEnd, ErrorsEnd,
           VerdictInv, AllBatchesCompleted, HelpersEnded, helpers, channels, workers, batches
  <2>2. CASE ~stopped
    BY <1>0, <1>4, <2>2
       DEF SelectError, CloseStopChan, ControlInv, NotStarted, PoolsEnd, ErrorsEnd,
           VerdictInv, AllBatchesCompleted, HelpersEnded, helpers, channels, workers, batches
  <2> QED
    BY <2>1, <2>2
<1>5. CASE SelectDone
  <2>1. CASE stopped
    BY <1>0, <1>5, <2>1
       DEF SelectDone, CloseStopChan, ControlInv, NotStarted, PoolsEnd, ErrorsEnd,
           VerdictInv, AllBatchesCompleted, HelpersEnded, helpers, channels, workers, batches
  <2>2. CASE ~stopped
    BY <1>0, <1>5, <2>2
       DEF SelectDone, CloseStopChan, ControlInv, NotStarted, PoolsEnd, ErrorsEnd,
           VerdictInv, AllBatchesCompleted, HelpersEnded, helpers, channels, workers, batches
  <2> QED
    BY <2>1, <2>2
<1>6. CASE JoinErrMon
  BY <1>0, <1>6 DEF JoinErrMon, ControlInv, NotStarted, PoolsEnd, ErrorsEnd, VerdictInv,
                    AllBatchesCompleted, HelpersEnded, helpers, channels, workers, batches
<1>7. CASE StopPools
  <2>1. NotStarted' /\ VerdictInv'
    BY <1>0, <1>7 DEF StopPools, StopPool, PoolStopped, NotStarted, VerdictInv,
                      AllBatchesCompleted, HelpersEnded, helpers, workers, batches
  <2>2. ErrorsEnd'
    BY <1>0, <1>7 DEF StopPools, StopPool, PoolStopped, ErrorsEnd, ChannelType, Pools, helpers
  <2>3. PoolsEnd'
    BY <1>0, <1>7 DEF StopPools, StopPool, PoolStopped, WorkersEnded, Members, PoolsEnd,
                      ChannelType, Pools, workers
  <2> QED
    BY <2>1, <2>2, <2>3 DEF ControlInv
<1>8. CASE CleanBuffer
  <2>1. UNCHANGED status
    BY <1>8 DEF CleanBuffer, RemoveAll, batches
  <2> QED
    BY <1>0, <1>8, <2>1
       DEF CleanBuffer, ControlInv, NotStarted, PoolsEnd, ErrorsEnd, VerdictInv,
           AllBatchesCompleted, HelpersEnded, helpers, channels, workers, Workers
<1>9. CASE SaveLast
  BY <1>0, <1>9 DEF SaveLast, Save, ControlInv, NotStarted, PoolsEnd, ErrorsEnd, VerdictInv,
                    AllBatchesCompleted, HelpersEnded, helpers, channels, workers, batches
<1>10. CASE Finish
  BY <1>0, <1>10 DEF Finish, ControlInv, NotStarted, PoolsEnd, ErrorsEnd, VerdictInv, Workers,
                    AllBatchesCompleted, HelpersEnded, helpers, channels, workers, batches
<1> QED
  BY <1>1, <1>2, <1>3, <1>4, <1>5, <1>6, <1>7, <1>8, <1>9, <1>10 DEF Main

LEMMA HelperControl ==
  ASSUME TypeInv, PlaceInv, ControlInv, ErrMon \/ Feeder \/ Monitor \/ MonitorStops
  PROVE  ControlInv'
<1> USE DEF Beginning
<1>0. /\ NotStarted /\ PoolsEnd /\ ErrorsEnd /\ VerdictInv
      /\ ControlType /\ ChannelType
  BY DEF ControlInv, TypeInv
<1>1. /\ UNCHANGED <<main, outcome, stopped, handler, status, at, poolStopped, errsClosed>>
      /\ transferErr' \in {transferErr, 1}
  BY DEF ErrMon, ErrMonStops, ForwardError, Feeder, FeederChecks, FeederSends, FeederFails,
         Monitor, MonitorTicks, MonitorStops, MonitorScans, MonitorSends, MonitorFails,
         MonitorChecks, control, channels, workers, batches
<1>2. PoolsEnd'
  BY <1>0, <1>1 DEF PoolsEnd
<1>3. NotStarted'
  BY <1>0, <1>1
     DEF NotStarted, ErrMon, ErrMonStops, ForwardError, Feeder, FeederChecks, FeederSends,
         FeederFails, Monitor, MonitorTicks, MonitorStops, MonitorScans, MonitorSends,
         MonitorFails, MonitorChecks
<1>4. /\ errMon' \in {errMon, "end"} /\ (errMon = "end" => errMon' = "end")
      /\ feeder = "end" => feeder' = "end"
      /\ monitor = "end" => monitor' = "end"
  BY DEF ErrMon, ErrMonStops, ForwardError, Feeder, FeederChecks, FeederSends,
         FeederFails, Monitor, MonitorTicks, MonitorStops, MonitorScans, MonitorSends,
         MonitorFails, MonitorChecks
<1>5. ErrorsEnd'
  <2>1. /\ monitor' = "err" => poolStopped["dest"]
        /\ feeder' = "err" => poolStopped["source"]
    BY <1>0 DEF ErrorsEnd, ErrMon, ErrMonStops, ForwardError, Feeder, FeederChecks,
         FeederSends, FeederFails, Monitor, MonitorTicks, MonitorStops, MonitorScans,
         MonitorSends, MonitorFails, MonitorChecks
  <2>2. main = "select" => feeder # "err" /\ monitor # "err"
    BY <1>0 DEF ErrorsEnd, PoolsEnd, Pools
  <2>3. main = "select" /\ transferErr' = 1 => errMon' = "end"
    BY <1>0, <2>2
       DEF ErrorsEnd, ErrMon, ErrMonStops, ForwardError, Feeder, FeederChecks,
         FeederSends, FeederFails, Monitor, MonitorTicks, MonitorStops, MonitorScans,
         MonitorSends, MonitorFails, MonitorChecks, control
  <2> QED
    BY <1>0, <1>1, <1>4, <2>1, <2>3 DEF ErrorsEnd
<1>6. VerdictInv'
  <2>1. monitor' = "end" /\ main = "select" => stopped \/ AllBatchesCompleted
    BY <1>0
       DEF VerdictInv, ErrorsEnd, PoolsEnd, Pools, ErrMon, ErrMonStops, ForwardError, Feeder,
         FeederChecks, FeederSends, FeederFails, Monitor, MonitorTicks, MonitorStops,
         MonitorScans, MonitorSends, MonitorFails, MonitorChecks
  <2>2. AllBatchesCompleted' <=> AllBatchesCompleted
    BY <1>1 DEF AllBatchesCompleted
  <2>3. HelpersEnded => HelpersEnded'
    BY <1>4 DEF HelpersEnded
  <2> QED
    BY <1>0, <1>1, <1>4, <2>1, <2>2, <2>3 DEF VerdictInv
<1> QED
  BY <1>2, <1>3, <1>5, <1>6 DEF ControlInv

LEMMA HandlerControl ==
  ASSUME TypeInv, PlaceInv, ControlInv, Interrupt \/ Handler \/ UNCHANGED vars
  PROVE  ControlInv'
<1>0. NotStarted /\ PoolsEnd /\ ErrorsEnd /\ VerdictInv /\ ControlType
  BY DEF ControlInv, TypeInv
<1>1. /\ UNCHANGED <<main, outcome, transferErr, errMon, feeder, monitor, status, at,
                     poolStopped, errsClosed>>
      /\ \/ /\ stopped' = stopped
            /\ handler' \notin {"wait", "close"} => handler \notin {"wait", "close"}
         \/ ~stopped /\ stopped' = TRUE
  <2>1. CASE HandlerCloses
    BY <1>0, <2>1 DEF HandlerCloses, HandlerGoto, helpers, channels, workers, batches
  <2>2. CASE Interrupt \/ HandlerSaves \/ HandlerCleans \/ Exit \/ UNCHANGED vars
    BY <1>0, <2>2 DEF Interrupt, HandlerSaves, HandlerCleans, Exit, HandlerGoto, RemoveAll,
                      control, helpers, channels, workers, batches, vars
  <2> QED
    BY <2>1, <2>2 DEF Handler
<1>2. NotStarted' /\ PoolsEnd' /\ ErrorsEnd'
  BY <1>0, <1>1 DEF NotStarted, PoolsEnd, ErrorsEnd
<1>3. VerdictInv'
  <2>1. (AllBatchesCompleted' <=> AllBatchesCompleted) /\ (HelpersEnded' <=> HelpersEnded)
    BY <1>1 DEF AllBatchesCompleted, HelpersEnded
  <2>2. CASE stopped' = stopped /\ (handler' \notin {"wait", "close"} => handler \notin {"wait", "close"})
    BY <1>0, <1>1, <2>1, <2>2 DEF VerdictInv
  <2>3. CASE ~stopped /\ stopped' = TRUE
    <3>1. outcome # "success"
      BY <1>0, <2>3 DEF VerdictInv
    <3> QED
      BY <1>0, <1>1, <2>1, <2>3, <3>1 DEF VerdictInv
  <2> QED
    BY <1>1, <2>2, <2>3
<1> QED
  BY <1>2, <1>3 DEF ControlInv

LEMMA WorkControl ==
  ASSUME TypeInv, PlaceInv, ControlInv, NEW w \in Workers, Work(w) \/ WorkerStops(w),
         [Next]_vars
  PROVE  ControlInv'
<1>0. NotStarted /\ PoolsEnd /\ ErrorsEnd /\ VerdictInv /\ WorkerType
  BY DEF ControlInv, TypeInv
<1>1. UNCHANGED <<main, outcome, stopped, transferErr, handler, errMon, feeder, monitor,
                  poolStopped, errsClosed>>
  BY DEF Work, WorkerStops, Take, SourceStep, DestStep, GiveUp, Reserve, CreateArchive,
         ArchiveFails, Publish, Extract, ExtractFails, CleanBatch, Complete, MarkFailed,
         Report, WorkerStep, control, helpers, channels
<1>2. /\ at[w] \notin {"none", "end"}
      /\ \A v \in Workers : v # w => at'[v] = at[v]
  BY <1>0 DEF Work, WorkerStops, Take, SourceStep, DestStep, GiveUp, Reserve, CreateArchive,
         ArchiveFails, Publish, Extract, ExtractFails, CleanBatch, Complete, MarkFailed,
         Report, WorkerStep, WorkerType
<1>3. NotStarted' /\ PoolsEnd'
  BY <1>0, <1>1, <1>2 DEF NotStarted, PoolsEnd, Workers, Members
<1>4. ErrorsEnd'
  BY <1>0, <1>1 DEF ErrorsEnd
<1>5. VerdictInv'
  BY <1>0, <1>1, AllDoneStays DEF VerdictInv, HelpersEnded
<1> QED
  BY <1>3, <1>4, <1>5 DEF ControlInv

\* ControlInv is inductive, given TypeInv and PlaceInv.
LEMMA ControlInvariance == Spec => []ControlInv
<1>1. TypeInv /\ PlaceInv /\ ControlInv /\ [Next]_vars => ControlInv'
  BY MainControl, HelperControl, HandlerControl, WorkControl DEF Next, Idle
<1> QED
  BY <1>1, InitControl, TypeInvariance, PlaceInvariance, PTL DEF Spec

\* A success leaves no batch queued, held or forgotten: each one is completed or failed
\* (batched_engine.go:168, 193-202).
THEOREM SuccessComplete == Spec => []SuccessLeavesNothingBehind
<1>1. ControlInv => SuccessLeavesNothingBehind
  BY DEF ControlInv, VerdictInv, AllBatchesCompleted, SuccessLeavesNothingBehind
<1> QED
  BY <1>1, ControlInvariance, PTL

\* No error channel is closed while its workers or the error monitor use it
\* (batched_engine.go:112, source_worker.go:54-55, 89).
THEOREM ChannelsOpen == Spec => []ErrorChannelsOpenInUse
<1>1. ControlInv => ErrorChannelsOpenInUse
  BY DEF ControlInv, PoolsEnd, ErrorsEnd, ErrorChannelsOpenInUse
<1> QED
  BY <1>1, ControlInvariance, PTL

\* When Transfer has returned, the pools have ended, and after a success also the
\* goroutines of coordinateTransfer, with both queues empty (batched_engine.go:196-224).
THEOREM ReturnQuiet == Spec => []QuietOnReturn
<1>1. ASSUME TypeInv, PlaceInv, ControlInv, main = "returned"
      PROVE  /\ \A w \in Workers : at[w] \in {"none", "end"}
             /\ outcome = "success" =>
                  HelpersEnded /\ errMon = "end" /\ \A p \in Pools : queue[p] = <<>>
  <2>1. ASSUME outcome = "success", NEW p \in Pools
        PROVE  queue[p] = <<>>
    <3>1. SUFFICES ASSUME queue[p] # <<>> PROVE FALSE
      OBVIOUS
    <3>2. queue[p] \in Seq(Batches)
      BY <1>1 DEF TypeInv, ChannelType
    <3>3. queue[p][1] \in Batches /\ 1 \in DOMAIN queue[p]
      BY <3>1, <3>2, TailElements
    <3>4. status[queue[p][1]] \in {"pending", "buffered"}
      BY <1>1, <3>3 DEF PlaceInv, QueuesHold, Pools
    <3> QED
      BY <1>1, <2>1, <3>3, <3>4 DEF ControlInv, VerdictInv, AllBatchesCompleted
  <2> QED
    BY <1>1, <2>1 DEF ControlInv, PoolsEnd, VerdictInv
<1>2. TypeInv /\ PlaceInv /\ ControlInv => QuietOnReturn
  BY <1>1 DEF QuietOnReturn
<1> QED
  BY <1>2, TypeInvariance, PlaceInvariance, ControlInvariance, PTL

\* A transfer that was interrupted never ends in success
\* (batched_engine.go:124, 143, 193-196, 256).
THEOREM InterruptFails == Spec => []InterruptedNeverSucceeds
<1>1. ControlInv => InterruptedNeverSucceeds
  BY DEF ControlInv, VerdictInv, InterruptedNeverSucceeds
<1> QED
  BY <1>1, ControlInvariance, PTL
-----------------------------------------------------------------------------
(***************************************************************************)
(* The refinement of BatchTransfer.                                        *)
(***************************************************************************)
\* The abstract verdict, as BatchPipeline maps it.
Verdict == IF main = "returned" THEN outcome ELSE "open"

\* While Transfer has not returned the abstract verdict is open, and it stays what it
\* was once Transfer has returned.
LEMMA VerdictSteps ==
  ASSUME TypeInv, ControlInv, [Next]_vars
  PROVE  \/ Verdict' = Verdict
         \/ /\ Verdict = "open" /\ Verdict' \in {"error", "success"}
            /\ UNCHANGED <<status, extracted>>
            /\ Verdict' = "success" => outcome = "success"
<1>0. VerdictInv /\ ControlType
  BY DEF ControlInv, TypeInv
<1>1. CASE Setup \/ Start
  BY <1>0, <1>1 DEF Setup, Start, Goto, Verdict, VerdictInv, Beginning, batches
<1>2. CASE Finish
  BY <1>0, <1>2 DEF Finish, Goto, Verdict, VerdictInv, Beginning, batches, ControlType
<1>3. CASE Main /\ ~(Setup \/ Start \/ Finish)
  BY <1>3 DEF Main, SaveFirst, SelectError, SelectDone, CloseStopChan, JoinErrMon, StopPools,
              CleanBuffer, SaveLast, Save, StopPool, PoolStopped, Goto, Verdict
<1>4. CASE UNCHANGED <<main, outcome>>
  BY <1>4 DEF Verdict
<1>5. Main \/ UNCHANGED <<main, outcome>>
  BY DEF Next, Idle, ErrMon, ErrMonStops, ForwardError, Feeder, FeederChecks, FeederSends,
         FeederFails, Monitor, MonitorTicks, MonitorStops, MonitorScans, MonitorSends,
         MonitorFails, MonitorChecks, Interrupt, Handler, HandlerCloses, HandlerSaves,
         HandlerCleans, Exit, Work, WorkerStops, Take, SourceStep, DestStep, GiveUp, Reserve,
         CreateArchive, ArchiveFails, Publish, Extract, ExtractFails, CleanBatch, Complete,
         MarkFailed, Report, WorkerStep, control, vars
<1> QED
  BY <1>1, <1>2, <1>3, <1>4, <1>5

\* The phases change when a batch is published, extracted or marked as failed.
LEMMA PhaseSteps ==
  ASSUME TypeInv, PlaceInv, DeliveryInv, ControlInv, [Next]_vars
  PROVE  \/ \A b \in Batches : PhaseOf(b)' = PhaseOf(b)
         \/ \E b \in Batches :
              /\ \/ PhaseOf(b) = "waiting" /\ PhaseOf(b)' \in {"staged", "lost"}
                 \/ PhaseOf(b) = "staged" /\ PhaseOf(b)' \in {"delivered", "lost"}
              /\ \A c \in Batches : c # b => PhaseOf(c)' = PhaseOf(c)
              /\ Verdict = "open" /\ UNCHANGED <<main, outcome>>
<1>0. BatchType /\ WorkerType
  BY DEF TypeInv
<1>1. ASSUME NEW w \in Workers, Take(w)
      PROVE  \A b \in Batches : PhaseOf(b)' = PhaseOf(b)
  <2> DEFINE q == queue[Pool(w)]
             c == Head(q)
             st == IF Pool(w) = "source" THEN "downloading" ELSE "uploading"
  <2>1. q \in Seq(Batches) /\ q # <<>> /\ Pool(w) \in Pools
    BY <1>1 DEF TypeInv, ChannelType, Pool, Pools, Take
  <2>2. c = q[1] /\ 1 \in DOMAIN q
    BY <2>1, TailElements
  <2>3. /\ Pool(w) = "source" => status[c] = "pending"
        /\ Pool(w) = "dest" => status[c] = "buffered"
    BY <2>1, <2>2 DEF PlaceInv, QueuesHold
  <2>4. status' = [status EXCEPT ![c] = st] /\ UNCHANGED extracted
    BY <1>1 DEF Take
  <2> HIDE DEF c, q
  <2>5. ASSUME NEW b \in Batches
        PROVE  PhaseOf(b)' = PhaseOf(b)
    <3>1. CASE b = c
      <4>1. status'[b] = st
        BY <1>0, <2>4, <3>1 DEF BatchType
      <4> QED
        BY <2>1, <2>3, <2>4, <3>1, <4>1 DEF PhaseOf, Pools
    <3>2. CASE b # c
      BY <1>0, <2>4, <3>2 DEF PhaseOf, BatchType
    <3> QED
      BY <3>1, <3>2
  <2> QED
    BY <2>5
<1>2. ASSUME NEW w \in Workers, Publish(w) \/ Complete(w) \/ MarkFailed(w) \/ Extract(w),
             NEW b \in Batches, b = held[w]
      PROVE  /\ \/ PhaseOf(b)' = PhaseOf(b)
                \/ PhaseOf(b) = "waiting" /\ PhaseOf(b)' \in {"staged", "lost"}
                \/ PhaseOf(b) = "staged" /\ PhaseOf(b)' \in {"delivered", "lost"}
             /\ \A c \in Batches : c # b => PhaseOf(c)' = PhaseOf(c)
             /\ Verdict = "open" /\ UNCHANGED <<main, outcome>>
  <2>1. held[w] = b /\ at[w] \in Busy /\ (w \in SourceWorkers \/ w \in DestWorkers)
    BY <1>0, <1>2 DEF Publish, Complete, MarkFailed, Extract, WorkerStep, WorkerType, Workers,
                      Busy, SourceBusy, DestBusy
  <2>2. UNCHANGED <<main, outcome>>
    BY <1>2 DEF Publish, Complete, MarkFailed, Extract, WorkerStep, control
  <2>3. Verdict = "open"
    BY <2>1 DEF Verdict, ControlInv, PoolsEnd, Busy, SourceBusy, DestBusy
  <2>4. \A c \in Batches : c # b => status'[c] = status[c] /\ extracted'[c] = extracted[c]
    BY <1>0, <1>2, <2>1 DEF Publish, Complete, MarkFailed, Extract, BatchType
  <2>5. \A c \in Batches : c # b => PhaseOf(c)' = PhaseOf(c)
    BY <2>4 DEF PhaseOf
  <2>6. CASE Publish(w)
    <3>1. status[b] = "downloading" /\ extracted[b] = 0
      BY <1>0, <2>1, <2>6 DEF Publish, WorkerType, SourceBusy, DestBusy, PlaceInv, WorkersHold,
                              DeliveryInv, ExtractedOnce
    <3>2. status'[b] = "buffered" /\ extracted'[b] = extracted[b]
      BY <1>0, <2>1, <2>6 DEF Publish, BatchType
    <3>3. PhaseOf(b) = "waiting" /\ PhaseOf(b)' = "staged"
      BY <3>1, <3>2 DEF PhaseOf
    <3> QED
      BY <2>1, <2>2, <2>3, <2>5, <3>3
  <2>7. CASE Extract(w)
    <3>1. status[b] = "uploading" /\ extracted[b] = 0
      BY <1>0, <2>1, <2>7 DEF Extract, WorkerStep, WorkerType, SourceBusy, DestBusy, PlaceInv,
                              WorkersHold, DeliveryInv, HeldExtracted
    <3>2. extracted'[b] = 1
      BY <1>0, <2>1, <2>7, <3>1 DEF Extract, BatchType
    <3>3. PhaseOf(b) = "staged" /\ PhaseOf(b)' = "delivered"
      BY <3>1, <3>2 DEF PhaseOf
    <3> QED
      BY <2>1, <2>2, <2>3, <2>5, <3>3
  <2>8. CASE Complete(w)
    <3>1. extracted[b] = 1 /\ extracted'[b] = 1
      BY <1>0, <2>1, <2>8 DEF Complete, WorkerType, SourceBusy, DestBusy,
                              DeliveryInv, HeldExtracted
    <3>2. PhaseOf(b) = "delivered" /\ PhaseOf(b)' = "delivered"
      BY <3>1 DEF PhaseOf
    <3> QED
      BY <2>1, <2>2, <2>3, <2>5, <3>2
  <2>9. CASE MarkFailed(w)
    <3>1. status[b] \in {"downloading", "uploading"} /\ extracted[b] = 0
      BY <1>0, <2>1, <2>9 DEF MarkFailed, WorkerStep, WorkerType, SourceBusy, DestBusy, PlaceInv,
                              WorkersHold, DeliveryInv, HeldExtracted, ExtractedOnce
    <3>2. status'[b] = "failed" /\ extracted'[b] = extracted[b]
      BY <1>0, <2>1, <2>9 DEF MarkFailed, BatchType
    <3>3. PhaseOf(b) \in {"waiting", "staged"} /\ PhaseOf(b)' = "lost"
      BY <3>1, <3>2 DEF PhaseOf
    <3> QED
      BY <2>1, <2>2, <2>3, <2>5, <3>3
  <2> QED
    BY <1>2, <2>6, <2>7, <2>8, <2>9
<1>3. CASE UNCHANGED <<status, extracted>>
  BY <1>3 DEF PhaseOf
<1>4. \/ UNCHANGED <<status, extracted>>
      \/ \E w \in Workers : Take(w) \/ Publish(w) \/ Complete(w) \/ MarkFailed(w) \/ Extract(w)
  BY DEF Next, Idle, Main, Setup, SaveFirst, Start, SelectError, SelectDone, JoinErrMon,
         StopPools, CleanBuffer, SaveLast, Finish, Save, StopPool, PoolStopped, RemoveAll,
         ErrMon, ErrMonStops, ForwardError, Feeder, FeederChecks, FeederSends, FeederFails,
         Monitor, MonitorTicks, MonitorStops, MonitorScans, MonitorSends, MonitorFails,
         MonitorChecks, Interrupt, Handler, HandlerCloses, HandlerSaves, HandlerCleans, Exit,
         Work, WorkerStops, SourceStep, DestStep, GiveUp, Reserve, CreateArchive, ArchiveFails,
         ExtractFails, CleanBatch, Report, batches, vars
<1>5. ASSUME NEW w \in Workers,
             Take(w) \/ Publish(w) \/ Complete(w) \/ MarkFailed(w) \/ Extract(w)
      PROVE  \/ \A b \in Batches : PhaseOf(b)' = PhaseOf(b)
             \/ \E b \in Batches :
                  /\ \/ PhaseOf(b) = "waiting" /\ PhaseOf(b)' \in {"staged", "lost"}
                     \/ PhaseOf(b) = "staged" /\ PhaseOf(b)' \in {"delivered", "lost"}
                  /\ \A c \in Batches : c # b => PhaseOf(c)' = PhaseOf(c)
                  /\ Verdict = "open" /\ UNCHANGED <<main, outcome>>
  <2>1. CASE Take(w)
    BY <1>1, <2>1
  <2>2. CASE Publish(w) \/ Complete(w) \/ MarkFailed(w) \/ Extract(w)
    <3>1. held[w] \in Batches
      BY <1>0, <2>2 DEF Publish, Complete, MarkFailed, Extract, WorkerStep, WorkerType, Workers,
                        SourceBusy, DestBusy
    <3>2. PICK b \in Batches : b = held[w]
      BY <3>1
    <3> QED
      BY <1>2, <2>2, <3>2
  <2> QED
    BY <1>5, <2>1, <2>2
<1> QED
  BY <1>3, <1>4, <1>5

\* The engine implements BatchTransfer: a batch is staged, delivered or lost once, and
\* nothing changes after the verdict (batched_engine.go:41-101).
THEOREM Refinement == Spec => RefinesTransfer
<1> DEFINE phase == [b \in Batches |-> PhaseOf(b)]
<1>1. Init => Abstract!Init
  BY DEF Init, Abstract!Init, PhaseOf
<1>2. TypeInv /\ PlaceInv /\ DeliveryInv /\ ControlInv /\ [Next]_vars
        => [Abstract!Next]_(Abstract!vars)
  <2> SUFFICES ASSUME TypeInv, PlaceInv, DeliveryInv, ControlInv, [Next]_vars
               PROVE  [Abstract!Next]_(Abstract!vars)
    OBVIOUS
  <2>1. CASE Verdict' = Verdict /\ phase' = phase
    BY <2>1 DEF Abstract!vars, Verdict
  <2>2. ASSUME NEW b \in Batches,
               \/ PhaseOf(b) = "waiting" /\ PhaseOf(b)' \in {"staged", "lost"}
               \/ PhaseOf(b) = "staged" /\ PhaseOf(b)' \in {"delivered", "lost"},
               \A c \in Batches : c # b => PhaseOf(c)' = PhaseOf(c),
               Verdict = "open", UNCHANGED <<main, outcome>>
        PROVE  Abstract!Next
    <3>1. phase' = [phase EXCEPT ![b] = PhaseOf(b)']
      BY <2>2
    <3>2. phase[b] = PhaseOf(b)
      OBVIOUS
    <3>3. Verdict' = Verdict
      BY <2>2 DEF Verdict
    <3> QED
      BY <2>2, <3>1, <3>2, <3>3
         DEF Abstract!Next, Abstract!Stage, Abstract!Deliver, Abstract!Lose, Abstract!Move, Verdict
  <2>3. CASE /\ Verdict = "open" /\ Verdict' \in {"error", "success"}
             /\ UNCHANGED <<status, extracted>>
             /\ Verdict' = "success" => outcome = "success"
    <3>1. phase' = phase
      BY <2>3 DEF PhaseOf
    <3>2. CASE Verdict' = "error"
      BY <2>3, <3>1, <3>2 DEF Abstract!Next, Abstract!Abort, Verdict
    <3>3. CASE Verdict' = "success"
      <4>1. \A b \in Batches : PhaseOf(b) \in {"delivered", "lost"}
        BY <2>3, <3>3 DEF ControlInv, VerdictInv, AllBatchesCompleted, DeliveryInv,
                          ExtractedOnce, PhaseOf
      <4> QED
        BY <2>3, <3>1, <3>3, <4>1 DEF Abstract!Next, Abstract!Succeed, Verdict
    <3> QED
      BY <2>3, <3>2, <3>3
  <2>4. (\A b \in Batches : PhaseOf(b)' = PhaseOf(b)) => phase' = phase
    OBVIOUS
  <2> QED
    BY <2>1, <2>2, <2>3, <2>4, VerdictSteps, PhaseSteps
<1> QED
  BY <1>1, <1>2, TypeInvariance, PlaceInvariance, DeliveryInvariance, ControlInvariance, PTL
     DEF Spec, RefinesTransfer, Abstract!Spec
=============================================================================
