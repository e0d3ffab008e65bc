------------------------- MODULE StreamPipelineProofs -------------------------
(***************************************************************************)
(* What holds of the streaming pipeline for every size of the buffer and   *)
(* of the slices, every length of the source, and every failure, cancel    *)
(* and stop.                                                               *)
(*                                                                         *)
(* The buffer inside it is the one CircularBufferProofs is about, with one *)
(* writer and one reader: its invariant is taken over by instance, and the *)
(* invariants below only say how the fields of the buffer and the local    *)
(* state of the two goroutines add up.                                     *)
(***************************************************************************)
EXTENDS StreamPipeline, TLAPS

BP == INSTANCE CircularBufferProofs WITH
  BlockOnFull <- TRUE, Writers <- {"src"}, Readers <- {"dst"},
  MaxLen <- Chunk, Bound <- Total, Resets <- FALSE

BufferInv == BP!IInv /\ BP!EndIsTheEnd

\* The types of what is not in the buffer.
GoroutineType ==
  /\ src \in {"check", "read", "write", "writing", "after", "close", "end"}
  /\ dst \in {"check", "read", "reading", "write", "end"}
  /\ prog \in {"run", "end"}
  /\ joiner \in {"data", "all", "done"}
  /\ start \in {"select", "wait", "returned"}
  /\ result \in {"none", "nil", "error", "ctx"}
  /\ stop \in {"uncalled", "wait", "returned"}
  /\ cancelled \in BOOLEAN
  /\ err \in {"nil", "swallowed", "error"}
  /\ sourced \in 0..Total
  /\ chunk \in 0..Chunk
  /\ readErr \in {"nil", "EOF", "error"}
  /\ dest \in Seq(Nat)
  /\ bytesRead \in Nat
  /\ bytesWritten \in Nat

\* There is a reason to give up, other than that everything was done.  Once there is
\* one there always is.
Disturbed ==
  err # "nil" \/ stop # "uncalled" \/ start = "wait" \/ result \in {"error", "ctx"}

\* What source.Read returned is in the buffer or about to be put in, and only the
\* source closes the buffer, at its end.
SourceInv ==
  /\ closed <=> src = "end"
  /\ ~failed
  /\ writer["src"] # "idle" => src = "writing"
  /\ src = "write" => chunk > 0 /\ produced + chunk = sourced
  /\ src = "writing" =>
       IF writer["src"] = "idle"
       THEN writeRet["src"] = "ok" /\ produced = sourced
       ELSE produced + todo["src"] = sourced
  /\ src \notin {"write", "writing"} => produced = sourced
  /\ bytesRead + (IF src \in {"write", "writing"} THEN chunk ELSE 0) = sourced
  /\ readErr = "EOF" => sourced = Total
  /\ src \in {"check", "read"} => readErr = "nil"
  /\ src \in {"close", "end"} => readErr = "EOF" \/ Disturbed

\* What was taken out of the buffer and is not yet written is in the slice of dst.
Handed == from["dst"] = Len(dest) /\ consumed = Len(dest) + Len(got["dst"])

DestInv ==
  /\ DestinationIsPrefix
  /\ reader["dst"] # "idle" => dst = "reading"
  /\ dst \in {"check", "read"} => consumed = Len(dest)
  /\ dst = "reading" =>
       IF reader["dst"] = "idle" /\ readRet["dst"] = "ok"
       THEN Handed
       ELSE consumed = Len(dest) /\ (reader["dst"] = "idle" => readRet["dst"] = "eof")
  /\ dst = "write" => Handed
  /\ dst # "end" => bytesWritten = Len(dest)
  /\ dst = "end" /\ ~Disturbed =>
       src = "end" /\ consumed = produced /\ consumed = Len(dest) /\ bytesWritten = Len(dest)

\* Who has ended, and why the context is cancelled.
EndInv ==
  /\ joiner # "data" => DataEnded
  /\ joiner = "done" => AllEnded
  /\ start = "returned" <=> result # "none"
  /\ start = "returned" => AllEnded
  /\ cancelled => Disturbed \/ joiner # "data"
  /\ result = "nil" => err # "error" /\ joiner = "done"

IInv == BufferInv /\ GoroutineType /\ SourceInv /\ DestInv /\ EndInv
-----------------------------------------------------------------------------
(***************************************************************************)
(* The buffer's steps, as the two goroutines take them.                    *)
(***************************************************************************)
\* The two instances of the buffer are the same.
LEMMA SameBuffer ==
  /\ B!Init <=> BP!Init
  /\ B!Next <=> BP!Next
  /\ B!TypeOK <=> BP!TypeOK
  /\ B!vars = BP!vars
<1>1. /\ B!Slots = BP!Slots
      /\ B!Waiting = BP!Waiting
      /\ \A a, b : /\ B!Slot(a, b) = BP!Slot(a, b)
                   /\ B!Distance(a, b) = BP!Distance(a, b)
                   /\ B!Smaller(a, b) = BP!Smaller(a, b)
  BY Zenon DEF B!Slots, BP!Slots, B!Waiting, BP!Waiting, B!Slot, BP!Slot, B!Distance,
     BP!Distance, B!Smaller, BP!Smaller
<1>2. /\ B!data = BP!data
      /\ B!flags = BP!flags
      /\ B!writers = BP!writers
      /\ B!readers = BP!readers
  BY Zenon DEF B!data, BP!data, B!flags, BP!flags, B!writers, BP!writers, B!readers,
     BP!readers
<1>3. B!Init <=> BP!Init
  BY <1>1, Zenon DEF B!Init, BP!Init
<1>4. B!TypeOK <=> BP!TypeOK
  BY <1>1, Zenon DEF B!TypeOK, BP!TypeOK
<1>5. B!vars = BP!vars
  BY <1>2, Zenon DEF B!vars, BP!vars
<1>6. \A w \in {"src"} : B!WriterStep(w) <=> BP!WriterStep(w)
  <2>1. \A n : B!PutIn(n) <=> BP!PutIn(n)
    BY <1>1, Zenon DEF B!PutIn, BP!PutIn
  <2>2. B!SignalNotEmpty <=> BP!SignalNotEmpty
    BY Zenon DEF B!SignalNotEmpty, BP!SignalNotEmpty
  <2>3. \A w, ret : B!WriteReturns(w, ret) <=> BP!WriteReturns(w, ret)
    BY Zenon DEF B!WriteReturns, BP!WriteReturns
  <2>4. \A w, m : B!Full(w, m) <=> BP!Full(w, m)
    BY <2>3, Zenon DEF B!Full, BP!Full
  <2>5. \A w, m : B!WriteLoop(w, m) <=> BP!WriteLoop(w, m)
    BY <1>1, <2>1, <2>2, <2>3, <2>4, Zenon DEF B!WriteLoop, BP!WriteLoop,
       B!data, BP!data, B!flags, BP!flags, B!writers, BP!writers, B!readers, BP!readers
  <2>6. \A w : B!WriteRefused(w) <=> BP!WriteRefused(w)
    BY <2>3, Zenon DEF B!WriteRefused, BP!WriteRefused,
       B!data, BP!data, B!flags, BP!flags, B!writers, BP!writers, B!readers, BP!readers
  <2> QED
    BY <2>5, <2>6, Zenon DEF B!WriterStep, BP!WriterStep, B!Write, BP!Write,
       B!WriteResumes, BP!WriteResumes
<1>7. \A r \in {"dst"} : B!ReaderStep(r) <=> BP!ReaderStep(r)
  <2>1. \A r, n : B!TakeOut(r, n) <=> BP!TakeOut(r, n)
    BY <1>1, Zenon DEF B!TakeOut, BP!TakeOut
  <2>2. B!SignalNotFull <=> BP!SignalNotFull
    BY Zenon DEF B!SignalNotFull, BP!SignalNotFull
  <2>3. \A r, ret : B!ReadReturns(r, ret) <=> BP!ReadReturns(r, ret)
    BY Zenon DEF B!ReadReturns, BP!ReadReturns
  <2>4. \A r, n : B!ReadBytes(r, n) <=> BP!ReadBytes(r, n)
    BY <1>1, <2>1, <2>2, <2>3, Zenon DEF B!ReadBytes, BP!ReadBytes,
       B!data, BP!data, B!flags, BP!flags, B!writers, BP!writers, B!readers, BP!readers
  <2>5. \A r : B!ReadEnd(r) <=> BP!ReadEnd(r)
    BY <2>3, Zenon DEF B!ReadEnd, BP!ReadEnd,
       B!data, BP!data, B!flags, BP!flags, B!writers, BP!writers, B!readers, BP!readers
  <2>6. \A r, n : B!ReadWaits(r, n) <=> BP!ReadWaits(r, n)
    BY Zenon DEF B!ReadWaits, BP!ReadWaits,
       B!data, BP!data, B!flags, BP!flags, B!writers, BP!writers, B!readers, BP!readers
  <2> QED
    BY <2>4, <2>5, <2>6, Zenon DEF B!ReaderStep, BP!ReaderStep, B!Read, BP!Read,
       B!ReadResumes, BP!ReadResumes, B!ReadLoop, BP!ReadLoop
<1>8. (B!Close <=> BP!Close) /\ (B!CloseWithError <=> BP!CloseWithError)
  BY Zenon DEF B!Close, BP!Close, B!CloseWithError, BP!CloseWithError, B!CloseBuffer,
     BP!CloseBuffer, B!WakeAll, BP!WakeAll, B!data, BP!data
<1>9. B!Reset <=> BP!Reset
  BY Zenon DEF B!Reset, BP!Reset, B!writers, BP!writers, B!readers, BP!readers
<1>10. B!Next <=> BP!Next
  BY <1>6, <1>7, <1>8, <1>9, Zenon DEF B!Next, BP!Next
<1> QED
  BY <1>3, <1>4, <1>5, <1>10

\* What the pipeline does to the buffer keeps the buffer's invariant.
LEMMA BufferKeeps ==
  ASSUME BufferInv, B!Next \/ UNCHANGED bufferVars
  PROVE  BufferInv'
<1>1. [BP!Next]_BP!vars
  BY SameBuffer DEF bufferVars, BP!vars, BP!data, BP!flags, BP!writers, BP!readers
<1>2. BP!IInv'
  BY <1>1, SizesAssumption, BP!NextKeeps DEF BufferInv
<1>3. BP!EndIsTheEnd'
  BY <1>1, SizesAssumption, BP!EndKeeps DEF BufferInv
<1> QED
  BY <1>2, <1>3 DEF BufferInv

\* The counters of the buffer, which the lemmas below are about.
LEMMA BufferTypes ==
  ASSUME BufferInv
  PROVE  /\ produced \in Nat /\ consumed \in Nat /\ available \in 0..Size
         /\ available = produced - consumed
         /\ writer \in [{"src"} -> {"idle", "blocked", "awake"}]
         /\ todo \in [{"src"} -> 0..Chunk]
         /\ reader \in [{"dst"} -> {"idle", "blocked", "awake"}]
         /\ got \in [{"dst"} -> Seq(Nat)] /\ from \in [{"dst"} -> Nat]
         /\ readRet \in [{"dst"} -> {"none", "ok", "eof", "error"}]
         /\ writeRet \in [{"src"} -> {"none", "ok", "closed", "full"}]
         /\ want \in [{"dst"} -> 0..Chunk]
         /\ closed \in BOOLEAN /\ failed \in BOOLEAN
         /\ \A k \in DOMAIN got["dst"] : got["dst"][k] = from["dst"] + k
         /\ readRet["dst"] = "eof" => closed /\ consumed = produced
BY DEF BufferInv, BP!IInv, BP!DataInv, BP!DataType, BP!Contents, BP!ControlType,
       BP!ReadsInOrder, BP!EndIsTheEnd, BP!Waiting

\* A turn of the loop of Write puts in what it does not leave to do.
LEMMA WriteAdds ==
  ASSUME BufferInv, NEW m \in 0..Chunk, B!WriteLoop("src", m)
  PROVE  /\ UNCHANGED <<closed, failed, consumed, want, readRet, got, from>>
         /\ reader'["dst"] = "idle" <=> reader["dst"] = "idle"
         /\ IF writer'["src"] = "idle"
            THEN writeRet'["src"] = "ok" /\ produced' = produced + m
            ELSE produced' + todo'["src"] = produced + m
<1> DEFINE n == B!Smaller(m, Size - available)
<1> USE SizesAssumption
<1>1. n \in Nat /\ n <= m
  BY BufferTypes DEF B!Smaller
<1>2. UNCHANGED <<closed, failed, consumed, want, readRet, got, from>>
  BY DEF B!WriteLoop, B!PutIn, B!data, B!flags
<1>3. produced' = produced + n
  BY <1>1, BufferTypes DEF B!WriteLoop, B!PutIn, B!data
<1>4. reader'["dst"] = "idle" <=> reader["dst"] = "idle"
  BY BufferTypes DEF B!WriteLoop, B!SignalNotEmpty
<1>5. CASE n = m
  BY <1>2, <1>3, <1>4, <1>5, BufferTypes DEF B!WriteLoop, B!WriteReturns
<1>6. CASE n # m
  <2>1. writer'["src"] = "blocked" /\ todo'["src"] = m - n
    BY <1>6, BufferTypes DEF B!WriteLoop, B!Full
  <2> QED
    BY <1>1, <1>2, <1>3, <1>4, <2>1, BufferTypes
<1> QED
  BY <1>5, <1>6

\* A turn of the loop of Read hands over what it takes out.
LEMMA ReadTakes ==
  ASSUME BufferInv, ~failed, NEW m \in 0..Chunk, B!ReadLoop("dst", m)
  PROVE  /\ UNCHANGED <<closed, failed, produced, todo, writeRet>>
         /\ writer'["src"] = "idle" <=> writer["src"] = "idle"
         /\ IF reader'["dst"] = "idle" /\ readRet'["dst"] = "ok"
            THEN from'["dst"] = consumed /\ consumed' = consumed + Len(got'["dst"])
            ELSE consumed' = consumed /\ (reader'["dst"] = "idle" => readRet'["dst"] = "eof")
<1> USE SizesAssumption
<1>1. CASE B!ReadBytes("dst", m)
  <2> DEFINE n == B!Smaller(m, available)
  <2>1. n \in Nat
    BY BufferTypes DEF B!Smaller
  <2>2. got'["dst"] = [k \in 1..n |-> buf[B!Slot(readPos, k - 1)]]
    BY <1>1, BufferTypes DEF B!ReadBytes, B!TakeOut
  <2>3. Len(got'["dst"]) = n
    BY <2>1, <2>2
  <2>4. from'["dst"] = consumed /\ consumed' = consumed + n /\ produced' = produced
    BY <1>1, BufferTypes DEF B!ReadBytes, B!TakeOut
  <2>5. reader'["dst"] = "idle" /\ readRet'["dst"] = "ok"
    BY <1>1, BufferTypes DEF B!ReadBytes, B!ReadReturns
  <2>6. writer'["src"] = "idle" <=> writer["src"] = "idle"
    BY <1>1, BufferTypes DEF B!ReadBytes, B!SignalNotFull
  <2>7. UNCHANGED <<closed, failed, todo, writeRet>>
    BY <1>1 DEF B!ReadBytes, B!flags
  <2> QED
    BY <2>3, <2>4, <2>5, <2>6, <2>7
<1>2. CASE B!ReadEnd("dst")
  BY <1>2, BufferTypes DEF B!ReadEnd, B!ReadReturns, B!data, B!flags, B!writers
<1>3. CASE B!ReadWaits("dst", m)
  BY <1>3, BufferTypes DEF B!ReadWaits, B!data, B!flags, B!writers
<1> QED
  BY <1>1, <1>2, <1>3 DEF B!ReadLoop

\* Close only wakes.
LEMMA CloseWakes ==
  ASSUME BufferInv, B!Close
  PROVE  /\ closed' /\ ~failed'
         /\ UNCHANGED <<produced, consumed, todo, writeRet, want, readRet, got, from>>
         /\ writer'["src"] = "idle" <=> writer["src"] = "idle"
         /\ reader'["dst"] = "idle" <=> reader["dst"] = "idle"
BY BufferTypes DEF B!Close, B!CloseBuffer, B!WakeAll, B!data
-----------------------------------------------------------------------------
(***************************************************************************)
(* The invariant of the pipeline.                                          *)
(***************************************************************************)
LEMMA InitIInv == Init => IInv
<1> SUFFICES ASSUME Init PROVE IInv
  OBVIOUS
<1> USE SizesAssumption
<1>1. BP!IInv
  <2>1. BP!Init
    BY SameBuffer, Zenon DEF Init
  <2> QED
    BY <2>1, BP!InitIInv
<1>2. BP!EndIsTheEnd
  BY DEF Init, B!Init, BP!EndIsTheEnd
<1>3. GoroutineType
  <2>1. sourced \in 0..Total /\ chunk \in 0..Chunk
    BY DEF Init
  <2>2. dest \in Seq(Nat) /\ bytesRead \in Nat /\ bytesWritten \in Nat
    BY DEF Init
  <2>3. prog \in {"run", "end"}
    BY DEF Init
  <2> QED
    BY <2>1, <2>2, <2>3 DEF Init, GoroutineType
<1>4. SourceInv /\ DestInv /\ EndInv
  BY DEF Init, B!Init, SourceInv, DestInv, EndInv, DestinationIsPrefix, Disturbed
<1> QED
  BY <1>1, <1>2, <1>3, <1>4 DEF IInv, BufferInv

\* The first error is kept, and gives the goroutines a reason to give up.
LEMMA SetErrorDisturbs ==
  ASSUME GoroutineType, EndInv, SetError
  PROVE  /\ err' \in {"swallowed", "error"}
         /\ cancelled' \in BOOLEAN
         /\ err = "error" => err' = "error"
BY DEF SetError, GoroutineType, errorVars

\* readFromSource.
LEMMA SrcKeeps ==
  ASSUME IInv, Src
  PROVE  IInv'
<1> USE SizesAssumption, BufferTypes DEF IInv, GoroutineType
<1>1. CASE SrcChecks
  <2>1. BufferInv'
    BY <1>1, BufferKeeps DEF SrcChecks
  <2>2. GoroutineType'
    BY <1>1 DEF SrcChecks, destVars, startVars, errorVars
  <2>3. SourceInv' /\ EndInv'
    BY <1>1 DEF SrcChecks, bufferVars, destVars, startVars, errorVars, SourceInv,
       EndInv, DataEnded, AllEnded, Disturbed
  <2>4. DestInv'
    BY <1>1 DEF SrcChecks, bufferVars, destVars, startVars, errorVars, DestInv,
       DestinationIsPrefix, Handed, Disturbed
  <2> QED
    BY <2>1, <2>2, <2>3, <2>4
<1>2. CASE SrcReads
  <2>1. BufferInv'
    BY <1>2, BufferKeeps DEF SrcReads
  <2>2. GoroutineType'
    BY <1>2 DEF SrcReads, destVars, startVars, errorVars
  <2>3. SourceInv' /\ EndInv'
    BY <1>2 DEF SrcReads, bufferVars, destVars, startVars, errorVars, SourceInv,
       EndInv, DataEnded, AllEnded, Disturbed
  <2>4. DestInv'
    BY <1>2 DEF SrcReads, bufferVars, destVars, startVars, errorVars, DestInv,
       DestinationIsPrefix, Handed, Disturbed
  <2> QED
    BY <2>1, <2>2, <2>3, <2>4
<1>3. CASE SrcWrites
  <2>1. chunk \in 1..Chunk
    BY <1>3 DEF SrcWrites, SourceInv
  <2>2. BufferInv'
    BY <1>3, <2>1, BufferKeeps DEF SrcWrites, B!Next, B!WriterStep
  <2>3. B!WriteLoop("src", chunk)
    BY <1>3 DEF SrcWrites, B!Write, B!WriteRefused, SourceInv
  <2>4. GoroutineType'
    BY <1>3 DEF SrcWrites, destVars, startVars, errorVars
  <2>5. SourceInv' /\ EndInv'
    BY <1>3, <2>1, <2>3, WriteAdds
       DEF SrcWrites, destVars, startVars, errorVars, SourceInv, EndInv, DataEnded,
           AllEnded, Disturbed
  <2>6. DestInv'
    BY <1>3, <2>1, <2>3, WriteAdds
       DEF SrcWrites, destVars, startVars, errorVars, SourceInv, DestInv,
           DestinationIsPrefix, Handed, Disturbed
  <2> QED
    BY <2>2, <2>4, <2>5, <2>6
<1>4. CASE SrcResumes
  <2>1. BufferInv'
    BY <1>4, BufferKeeps DEF SrcResumes, B!Next, B!WriterStep
  <2>2. todo["src"] \in 0..Chunk /\ B!WriteLoop("src", todo["src"])
    BY <1>4 DEF SrcResumes, B!WriteResumes, B!WriteRefused, SourceInv
  <2>3. writer["src"] # "idle"
    BY <1>4 DEF SrcResumes, B!WriteResumes
  <2>4. GoroutineType'
    BY <1>4 DEF SrcResumes, sourceVars, destVars, startVars, errorVars
  <2>5. SourceInv' /\ EndInv'
    BY <1>4, <2>2, <2>3, WriteAdds
       DEF SrcResumes, sourceVars, destVars, startVars, errorVars, SourceInv, EndInv,
           DataEnded, AllEnded, Disturbed
  <2>6. DestInv'
    BY <1>4, <2>2, <2>3, WriteAdds
       DEF SrcResumes, sourceVars, destVars, startVars, errorVars, SourceInv, DestInv,
           DestinationIsPrefix, Handed, Disturbed
  <2> QED
    BY <2>1, <2>4, <2>5, <2>6
<1>5. CASE SrcWritten
  <2>1. BufferInv'
    BY <1>5, BufferKeeps DEF SrcWritten
  <2>2. src' = "after" /\ bytesRead' = bytesRead + chunk /\ UNCHANGED errorVars
    BY <1>5 DEF SrcWritten, SourceInv
  <2>3. GoroutineType'
    BY <1>5, <2>2 DEF SrcWritten, destVars, startVars, errorVars
  <2>4. SourceInv' /\ EndInv'
    BY <1>5, <2>2 DEF SrcWritten, bufferVars, destVars, startVars, errorVars,
       SourceInv, EndInv, DataEnded, AllEnded, Disturbed
  <2>5. DestInv'
    BY <1>5, <2>2 DEF SrcWritten, bufferVars, destVars, startVars, errorVars, DestInv,
       DestinationIsPrefix, Handed, Disturbed
  <2> QED
    BY <2>1, <2>3, <2>4, <2>5
<1>6. CASE SrcContinues
  <2>1. BufferInv'
    BY <1>6, BufferKeeps DEF SrcContinues
  <2>2. GoroutineType'
    BY <1>6, SetErrorDisturbs DEF SrcContinues, destVars, startVars, errorVars
  <2>3. SourceInv'
    BY <1>6, SetErrorDisturbs DEF SrcContinues, bufferVars, destVars, startVars,
       errorVars, SourceInv, Disturbed
  <2>4. EndInv'
    BY <1>6, SetErrorDisturbs DEF SrcContinues, destVars, startVars, errorVars, EndInv,
       DataEnded, AllEnded, Disturbed
  <2>5. DestInv'
    BY <1>6, SetErrorDisturbs DEF SrcContinues, bufferVars, destVars, startVars,
       errorVars, DestInv, DestinationIsPrefix, Handed, Disturbed
  <2> QED
    BY <2>1, <2>2, <2>3, <2>4, <2>5
<1>7. CASE SrcCloses
  <2>1. BufferInv' /\ B!Close
    BY <1>7, BufferKeeps DEF SrcCloses, B!Next, SourceInv
  <2>2. GoroutineType'
    BY <1>7 DEF SrcCloses, destVars, startVars, errorVars
  <2>3. SourceInv' /\ EndInv'
    BY <1>7, <2>1, CloseWakes
       DEF SrcCloses, destVars, startVars, errorVars, SourceInv, EndInv, DataEnded,
           AllEnded, Disturbed
  <2>4. DestInv'
    BY <1>7, <2>1, CloseWakes
       DEF SrcCloses, destVars, startVars, errorVars, DestInv, DestinationIsPrefix,
           Handed, Disturbed
  <2> QED
    BY <2>1, <2>2, <2>3, <2>4
<1> QED
  BY <1>1, <1>2, <1>3, <1>4, <1>5, <1>6, <1>7 DEF Src

\* Writing bytes first to last of what was handed over extends the prefix.
LEMMA AppendKeepsPrefix ==
  ASSUME IInv, Handed, NEW n \in 0..Len(got["dst"]),
         dest' = dest \o SubSeq(got["dst"], 1, n)
  PROVE  dest' \in Seq(Nat) /\ Len(dest') = Len(dest) + n /\ DestinationIsPrefix'
<1>1. got["dst"] \in Seq(Nat) /\ from["dst"] = Len(dest)
  BY BufferTypes DEF IInv, Handed
<1>2. dest \in Seq(Nat) /\ \A k \in DOMAIN dest : dest[k] = k
  BY DEF IInv, GoroutineType, DestInv, DestinationIsPrefix
<1> DEFINE s == SubSeq(got["dst"], 1, n)
<1>3. s \in Seq(Nat) /\ Len(s) = n /\ \A k \in 1..n : s[k] = got["dst"][k]
  BY <1>1
<1>4. \A k \in 1..n : s[k] = Len(dest) + k
  <2>1. \A k \in DOMAIN got["dst"] : got["dst"][k] = from["dst"] + k
    BY BufferTypes DEF IInv
  <2>2. 1..n \subseteq DOMAIN got["dst"]
    BY <1>1
  <2> QED
    BY <1>1, <1>3, <2>1, <2>2
<1>5. dest' \in Seq(Nat) /\ Len(dest') = Len(dest) + n
  BY <1>2, <1>3
<1>6. \A k \in DOMAIN dest' : dest'[k] = k
  <2> SUFFICES ASSUME NEW k \in 1..(Len(dest) + n) PROVE dest'[k] = k
    BY <1>5
  <2>1. CASE k <= Len(dest)
    BY <1>2, <1>3, <2>1
  <2>2. CASE k > Len(dest)
    <3>1. dest'[k] = s[k - Len(dest)] /\ k - Len(dest) \in 1..n
      BY <1>2, <1>3, <2>2
    <3> QED
      BY <1>2, <1>4, <3>1
  <2> QED
    BY <1>2, <2>1, <2>2
<1> QED
  BY <1>5, <1>6 DEF DestinationIsPrefix

\* writeToDestination.
LEMMA DstKeeps ==
  ASSUME IInv, Dst
  PROVE  IInv'
<1> USE SizesAssumption, BufferTypes DEF IInv, GoroutineType
<1>1. CASE DstChecks
  <2>1. BufferInv'
    BY <1>1, BufferKeeps DEF DstChecks
  <2>2. GoroutineType'
    BY <1>1 DEF DstChecks, sourceVars, startVars, errorVars
  <2>3. SourceInv' /\ EndInv'
    BY <1>1 DEF DstChecks, bufferVars, sourceVars, startVars, errorVars, SourceInv,
       EndInv, DataEnded, AllEnded, Disturbed
  <2>4. DestInv'
    BY <1>1 DEF DstChecks, bufferVars, sourceVars, startVars, errorVars, DestInv,
       EndInv, DataEnded, DestinationIsPrefix, Handed, Disturbed
  <2> QED
    BY <2>1, <2>2, <2>3, <2>4
<1>2. CASE DstReads
  <2>1. Chunk \in 1..Chunk /\ B!ReadLoop("dst", Chunk) /\ ~failed
    BY <1>2 DEF DstReads, B!Read, SourceInv
  <2>2. BufferInv'
    BY <1>2, <2>1, BufferKeeps DEF DstReads, B!Next, B!ReaderStep
  <2>3. GoroutineType'
    BY <1>2 DEF DstReads, sourceVars, startVars, errorVars
  <2>4. SourceInv' /\ EndInv'
    BY <1>2, <2>1, ReadTakes
       DEF DstReads, sourceVars, startVars, errorVars, SourceInv, EndInv, DataEnded,
           AllEnded, Disturbed
  <2>5. DestInv'
    <3>1. dst' = "reading" /\ UNCHANGED <<dest, bytesWritten>> /\ consumed = Len(dest)
      BY <1>2 DEF DstReads, DestInv
    <3>2. bytesWritten = Len(dest) /\ DestinationIsPrefix
      BY <1>2 DEF DstReads, DestInv
    <3>3. IF reader'["dst"] = "idle" /\ readRet'["dst"] = "ok"
          THEN Handed'
          ELSE consumed' = Len(dest') /\ (reader'["dst"] = "idle" => readRet'["dst"] = "eof")
      BY <2>1, <3>1, ReadTakes DEF Handed
    <3> QED
      BY <3>1, <3>2, <3>3 DEF DestInv, DestinationIsPrefix
  <2> QED
    BY <2>2, <2>3, <2>4, <2>5
<1>3. CASE DstResumes
  <2>1. reader["dst"] = "awake" /\ want["dst"] \in 0..Chunk
    BY <1>3 DEF DstResumes, B!ReadResumes, DestInv
  <2>2. B!ReadLoop("dst", want["dst"]) /\ ~failed
    BY <1>3 DEF DstResumes, B!ReadResumes, SourceInv
  <2>3. BufferInv'
    BY <1>3, BufferKeeps DEF DstResumes, B!Next, B!ReaderStep
  <2>4. GoroutineType'
    BY <1>3 DEF DstResumes, sourceVars, destVars, startVars, errorVars
  <2>5. SourceInv' /\ EndInv'
    BY <1>3, <2>1, <2>2, ReadTakes
       DEF DstResumes, sourceVars, destVars, startVars, errorVars, SourceInv, EndInv,
           DataEnded, AllEnded, Disturbed
  <2>6. DestInv'
    BY <1>3, <2>1, <2>2, ReadTakes
       DEF DstResumes, sourceVars, destVars, startVars, errorVars, DestInv,
           DestinationIsPrefix, Handed, Disturbed
  <2> QED
    BY <2>3, <2>4, <2>5, <2>6
<1>4. CASE DstRead
  <2>1. BufferInv'
    BY <1>4, BufferKeeps DEF DstRead
  <2>2. readRet["dst"] \in {"ok", "eof"} /\ UNCHANGED errorVars
    BY <1>4 DEF DstRead, DestInv
  <2>3. GoroutineType'
    BY <1>4, <2>2 DEF DstRead, sourceVars, startVars, errorVars
  <2>4. SourceInv' /\ EndInv'
    BY <1>4, <2>2 DEF DstRead, bufferVars, sourceVars, startVars, errorVars, SourceInv,
       EndInv, DataEnded, AllEnded, Disturbed
  <2>5. DestInv'
    BY <1>4, <2>2 DEF DstRead, bufferVars, sourceVars, startVars, errorVars, SourceInv,
       DestInv, DestinationIsPrefix, Handed, Disturbed
  <2> QED
    BY <2>1, <2>3, <2>4, <2>5
<1>5. CASE DstWrites
  <2>1. BufferInv'
    BY <1>5, BufferKeeps DEF DstWrites
  <2>2. /\ dest' \in Seq(Nat)
        /\ Len(dest') = Len(dest) + Len(got["dst"])
        /\ DestinationIsPrefix'
    <3>1. Handed
      BY <1>5 DEF DstWrites, DestInv
    <3>2. got["dst"] = SubSeq(got["dst"], 1, Len(got["dst"]))
      OBVIOUS
    <3>3. dest' = dest \o SubSeq(got["dst"], 1, Len(got["dst"]))
      BY <1>5, <3>2 DEF DstWrites
    <3>4. Len(got["dst"]) \in 0..Len(got["dst"])
      OBVIOUS
    <3> QED
      BY <3>1, <3>3, <3>4, AppendKeepsPrefix
  <2>3. GoroutineType'
    BY <1>5, <2>2 DEF DstWrites, sourceVars, startVars, errorVars
  <2>4. SourceInv' /\ EndInv'
    BY <1>5 DEF DstWrites, bufferVars, sourceVars, startVars, errorVars, SourceInv,
       EndInv, DataEnded, AllEnded, Disturbed
  <2>5. DestInv'
    BY <1>5, <2>2 DEF DstWrites, bufferVars, sourceVars, startVars, errorVars, DestInv,
       Handed, Disturbed
  <2> QED
    BY <2>1, <2>3, <2>4, <2>5
<1>6. CASE DstFails
  <2>1. BufferInv'
    BY <1>6, BufferKeeps DEF DstFails
  <2>2. dest' \in Seq(Nat) /\ DestinationIsPrefix'
    BY <1>6, AppendKeepsPrefix DEF DstFails, DestInv
  <2>3. SetError
    BY <1>6 DEF DstFails
  <2>4. GoroutineType'
    BY <1>6, <2>2, <2>3, SetErrorDisturbs DEF DstFails, sourceVars, startVars
  <2>5. SourceInv' /\ EndInv'
    BY <1>6, <2>3, SetErrorDisturbs
       DEF DstFails, bufferVars, sourceVars, startVars, SourceInv, EndInv, DataEnded,
           AllEnded, Disturbed
  <2>6. DestInv'
    BY <1>6, <2>2, <2>3, SetErrorDisturbs
       DEF DstFails, bufferVars, sourceVars, startVars, DestInv, Handed, Disturbed
  <2> QED
    BY <2>1, <2>4, <2>5, <2>6
<1> QED
  BY <1>1, <1>2, <1>3, <1>4, <1>5, <1>6 DEF Dst

\* The joiner, the progress reporter, Start and Stop leave the data alone.
LEMMA CallersKeep ==
  ASSUME IInv, ProgEnds \/ Joiner \/ Caller \/ StartCancels \/ StopCalled
  PROVE  IInv'
<1> USE DEF ProgEnds, Joiner, JoinerCancels, JoinerEnds, Caller, StartReturns,
            StartCancelled, StopReturns, StartCancels, StopCalled
<1>1. UNCHANGED <<bufferVars, sourceVars, destVars>>
  OBVIOUS
<1>2. BufferInv'
  BY <1>1, BufferKeeps DEF IInv
<1>3. GoroutineType'
  <2>1. GoroutineType /\ UNCHANGED <<sourceVars, destVars>>
    BY <1>1 DEF IInv
  <2>2. /\ prog' \in {"run", "end"} /\ joiner' \in {"data", "all", "done"}
        /\ start' \in {"select", "wait", "returned"}
        /\ result' \in {"none", "nil", "error", "ctx"}
        /\ stop' \in {"uncalled", "wait", "returned"}
        /\ cancelled' \in BOOLEAN /\ err' = err
    BY <2>1 DEF GoroutineType, errorVars, Err
  <2> QED
    BY <2>1, <2>2 DEF GoroutineType, sourceVars, destVars
<1>4. Disturbed => Disturbed'
  BY DEF IInv, EndInv, Disturbed, errorVars
<1>5. SourceInv' /\ DestInv'
  BY <1>1, <1>4 DEF IInv, bufferVars, sourceVars, destVars, SourceInv, DestInv,
     DestinationIsPrefix, Handed
<1>6. EndInv'
  BY <1>1 DEF IInv, EndInv, sourceVars, destVars, errorVars, DataEnded, AllEnded, Err,
     Disturbed, GoroutineType
<1> QED
  BY <1>2, <1>3, <1>5, <1>6 DEF IInv

LEMMA NextKeeps ==
  ASSUME IInv, [Next]_vars
  PROVE  IInv'
<1>1. CASE UNCHANGED vars
  <2>1. BufferInv'
    BY <1>1, BufferKeeps DEF IInv, vars
  <2> QED
    BY <1>1, <2>1 DEF vars, bufferVars, sourceVars, destVars, startVars, errorVars,
       IInv, GoroutineType, SourceInv, DestInv, EndInv, DataEnded, AllEnded, Handed,
       DestinationIsPrefix, Disturbed
<1> QED
  BY <1>1, SrcKeeps, DstKeeps, CallersKeep DEF Next, Idle

LEMMA Invariance == Spec => []IInv
<1>1. Init => IInv
  BY InitIInv
<1>2. IInv /\ [Next]_vars => IInv'
  BY NextKeeps
<1> QED
  BY <1>1, <1>2, PTL DEF Spec
-----------------------------------------------------------------------------
(***************************************************************************)
(* The theorems.                                                           *)
(***************************************************************************)
\* Every goroutine and the buffer between them stay within their types, for every size
\* and every slice (pipeline.go:44-68, buffer.go:36-51).
THEOREM TypeCorrect == Spec => []TypeOK
<1>1. IInv => TypeOK
  <2>1. IInv => B!TypeOK
    BY SameBuffer DEF IInv, BufferInv, BP!IInv, BP!DataInv, BP!DataType,
       BP!ControlType, BP!TypeOK
  <2> QED
    BY <2>1 DEF IInv, GoroutineType, TypeOK
<1> QED
  BY <1>1, Invariance, PTL

\* The destination receives a prefix of the source, whatever fails and whenever
\* (pipeline.go:152-229).
THEOREM PrefixDelivered == Spec => []DestinationIsPrefix
<1>1. IInv => DestinationIsPrefix
  BY DEF IInv, DestInv
<1> QED
  BY <1>1, Invariance, PTL

\* When nobody interfered, an end of both goroutines without an error is the end of
\* the source, and everything before it was written.
LEMMA UndisturbedEnd ==
  ASSUME IInv, DataEnded, ~Disturbed
  PROVE  Len(dest) = Total /\ bytesRead = Total /\ bytesWritten = Total
BY BufferTypes DEF IInv, GoroutineType, DataEnded, SourceInv, DestInv

\* Start's nil means that the destination has everything, unless Stop was called or the
\* errorHandler swallowed an error (pipeline.go:111-122).
THEOREM NilComplete == Spec => []NilMeansComplete
<1>1. IInv => NilMeansComplete
  <2> SUFFICES ASSUME IInv, result = "nil", stop = "uncalled", err # "swallowed"
               PROVE  Len(dest) = Total /\ bytesRead = Total /\ bytesWritten = Total
    BY DEF NilMeansComplete
  <2>1. start = "returned" /\ err = "nil"
    BY DEF IInv, EndInv, GoroutineType
  <2>2. DataEnded
    BY <2>1 DEF IInv, EndInv, AllEnded
  <2> QED
    BY <2>1, <2>2, UndisturbedEnd DEF Disturbed
<1> QED
  BY <1>1, Invariance, PTL

\* When Start has returned, so have the three functions that move data and report it;
\* its fourth goroutine has ended when Start returns nil (pipeline.go:99-121).
THEOREM QuietAfterReturn == Spec => []CopyEndsBeforeStart
<1>1. IInv => CopyEndsBeforeStart
  BY DEF IInv, EndInv, CopyEndsBeforeStart
<1> QED
  BY <1>1, Invariance, PTL

\* Nothing is written that was not handed over before it was taken out of the source.
LEMMA WithinSource ==
  ASSUME IInv, Handed
  PROVE  Len(dest) + Len(got["dst"]) <= Total
<1>1. produced <= sourced
  BY BufferTypes DEF IInv, SourceInv, GoroutineType
<1> QED
  BY <1>1, BufferTypes, SizesAssumption DEF IInv, Handed, GoroutineType

\* What was written and what was taken are sequences.
LEMMA Lengths == ASSUME IInv PROVE Len(dest) \in Nat /\ Len(got["dst"]) \in Nat
<1>1. dest \in Seq(Nat) /\ got["dst"] \in Seq(Nat)
  BY BufferTypes DEF IInv, GoroutineType
<1> QED
  BY <1>1

\* Each step of the pipeline is a step of the copy it promises.
LEMMA StepRefines ==
  ASSUME IInv, IInv', [Next]_vars
  PROVE  [Copy!CopyNext]_(Copy!copyVars)
<1> USE SizesAssumption DEF Copy!CopyNext, Copy!copyVars, Copy!Interferes
<1>1. CASE DstWrites
  <2>1. Handed /\ dst # "end"
    BY <1>1 DEF DstWrites, IInv, DestInv
  <2>2. result = "none"
    BY <2>1 DEF IInv, EndInv, AllEnded, DataEnded
  <2>3. Len(dest') = Len(dest) + Len(got["dst"])
    BY <1>1, BufferTypes DEF DstWrites, IInv, GoroutineType
  <2>4. UNCHANGED <<result, stop, err>>
    BY <1>1 DEF DstWrites, startVars, errorVars
  <2>5. Len(dest) \in Nat /\ Len(got["dst"]) \in Nat /\ Len(dest') <= Total
    <3>1. Len(dest) \in Nat /\ Len(got["dst"]) \in Nat
      BY Lengths
    <3>2. Len(dest) + Len(got["dst"]) <= Total
      BY <2>1, WithinSource
    <3> QED
      BY <2>3, <3>1, <3>2
  <2>6. Len(dest') \in Len(dest) + 1 .. Total \/ Len(dest') = Len(dest)
    BY <2>3, <2>5
  <2> QED
    BY <2>2, <2>4, <2>6 DEF Copy!Copies
<1>2. CASE DstFails
  <2>1. Handed /\ dst # "end"
    BY <1>2 DEF DstFails, IInv, DestInv
  <2>2. result = "none"
    BY <2>1 DEF IInv, EndInv, AllEnded, DataEnded
  <2>3. PICK n \in 0..Len(got["dst"]) : dest' = dest \o SubSeq(got["dst"], 1, n)
    BY <1>2 DEF DstFails
  <2>4. Len(dest') = Len(dest) + n
    BY <2>1, <2>3, AppendKeepsPrefix
  <2>5. UNCHANGED <<result, stop>>
    BY <1>2 DEF DstFails, startVars
  <2>6. Len(dest) \in Nat /\ Len(dest') <= Total
    <3>1. Len(dest) \in Nat /\ Len(got["dst"]) \in Nat
      BY Lengths
    <3>2. Len(dest) + Len(got["dst"]) <= Total
      BY <2>1, WithinSource
    <3> QED
      BY <2>4, <3>1, <3>2
  <2>7. Len(dest') \in Len(dest) + 1 .. Total \/ Len(dest') = Len(dest)
    BY <2>4, <2>6
  <2> QED
    BY <2>2, <2>5, <2>7 DEF Copy!Copies
<1>3. CASE StartReturns
  <2>1. AllEnded /\ result = "none"
    BY <1>3 DEF StartReturns, IInv, EndInv, GoroutineType
  <2>2. UNCHANGED <<dest, stop, err>> /\ result' = Err
    BY <1>3 DEF StartReturns, destVars, errorVars
  <2>3. err = "nil" /\ stop = "uncalled" => Len(dest) = Total
    BY <1>3, <2>1, UndisturbedEnd DEF StartReturns, Disturbed, AllEnded
  <2> QED
    BY <2>1, <2>2, <2>3 DEF Copy!Ends, Err, IInv, GoroutineType
<1>4. CASE StartCancelled
  <2>1. result = "none"
    BY <1>4 DEF StartCancelled, IInv, EndInv, GoroutineType
  <2> QED
    BY <1>4, <2>1 DEF StartCancelled, destVars, errorVars, Copy!Ends
<1>5. CASE Src \/ ProgEnds \/ Joiner \/ StartCancels \/ StopCalled \/ StopReturns
           \/ DstChecks \/ DstReads \/ DstResumes \/ DstRead \/ UNCHANGED vars
  <2>1. UNCHANGED <<dest, result>>
    BY <1>5 DEF Src, SrcChecks, SrcReads, SrcWrites, SrcResumes, SrcWritten,
       SrcContinues, SrcCloses, ProgEnds, Joiner, JoinerCancels, JoinerEnds,
       StartCancels, StopCalled, StopReturns, DstChecks, DstReads, DstResumes, DstRead,
       vars, destVars, startVars
  <2> QED
    BY <2>1
<1> QED
  BY <1>1, <1>2, <1>3, <1>4, <1>5 DEF Next, Dst, Caller, Idle

\* The pipeline keeps the promise on which the proxy engine is built: the destination
\* only grows, to a prefix of the source, until Start returns, and nil means all of it
\* (pipeline.go:73-229).
THEOREM Refinement == Spec => ImplementsCopy
<1>1. Init => Copy!CopyInit
  BY SizesAssumption DEF Init, Copy!CopyInit
<1>2. IInv /\ IInv' /\ [Next]_vars => [Copy!CopyNext]_(Copy!copyVars)
  BY StepRefines
<1> QED
  BY <1>1, <1>2, Invariance, PTL DEF Spec, ImplementsCopy, Copy!CopySpec
===============================================================================
