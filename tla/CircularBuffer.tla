--------------------------- MODULE CircularBuffer ---------------------------
(***************************************************************************)
(* The circular buffer of pkg/buffer, shared by goroutines that write and  *)
(* goroutines that read.                                                   *)
(*                                                                         *)
(* Every method holds the mutex from beginning to end and gives it up only *)
(* in Cond.Wait, so the part of a call up to its return or to its next     *)
(* Wait is one step.  A goroutine is idle (in no call), blocked (in Wait)  *)
(* or awake (signalled, and about to take the mutex again).  Signal wakes  *)
(* one blocked goroutine, any of them.                                     *)
(*                                                                         *)
(* A byte is known by its number: the k-th byte ever put into the buffer   *)
(* is k, so that a byte lost, doubled or out of order can be told.  Calls  *)
(* with an empty slice return at once and are left out, and so is Timeout, *)
(* which no caller in the repository sets.                                 *)
(***************************************************************************)
EXTENDS Integers, Sequences

CONSTANTS
  Size,         \* config.Size
  BlockOnFull,  \* config.BlockOnFull
  Writers,      \* goroutines that call Write
  Readers,      \* goroutines that call Read
  MaxLen,       \* the longest slice passed to a call
  Bound,        \* no Write is called once this many bytes were put in
  Resets        \* whether Reset is called

ASSUME SizeAssumption == Size \in Nat \ {0}
ASSUME CallAssumption ==
  /\ MaxLen \in Nat \ {0}
  /\ Bound \in Nat
  /\ BlockOnFull \in BOOLEAN
  /\ Resets \in BOOLEAN

VARIABLES
  buf, readPos, writePos, available, closed,   \* fields of CircularBuffer
  failed,     \* b.err # nil
  produced,   \* how many bytes were put in so far (history)
  consumed,   \* how many of them were taken out or dropped (history)
  writer,     \* idle, blocked on notFull, or awake, per writer
  todo,       \* len(p) - totalWritten of its current Write
  writeRet,   \* what its last Write returned
  reader,     \* idle, blocked on notEmpty, or awake, per reader
  want,       \* len(p) of its current Read
  readRet,    \* what its last Read returned
  got,        \* the bytes its last Read copied into p
  from        \* consumed when it did so (history)

data == <<buf, readPos, writePos, available, produced, consumed>>
flags == <<closed, failed>>
writers == <<writer, todo, writeRet>>
readers == <<reader, want, readRet, got, from>>
vars == <<data, flags, writers, readers>>

Slots == 0..(Size - 1)
Waiting == {"idle", "blocked", "awake"}

TypeOK ==
  /\ buf \in [Slots -> Nat]
  /\ readPos \in Slots
  /\ writePos \in Slots
  /\ available \in 0..Size
  /\ closed \in BOOLEAN
  /\ failed \in BOOLEAN
  /\ produced \in Nat
  /\ consumed \in Nat
  /\ writer \in [Writers -> Waiting]
  /\ todo \in [Writers -> 0..MaxLen]
  /\ writeRet \in [Writers -> {"none", "ok", "closed", "full"}]
  /\ reader \in [Readers -> Waiting]
  /\ want \in [Readers -> 0..MaxLen]
  /\ readRet \in [Readers -> {"none", "ok", "eof", "error"}]
  /\ got \in [Readers -> Seq(Nat)]
  /\ from \in [Readers -> Nat]

Init ==
  /\ buf = [i \in Slots |-> 0]
  /\ readPos = 0
  /\ writePos = 0
  /\ available = 0
  /\ closed = FALSE
  /\ failed = FALSE
  /\ produced = 0
  /\ consumed = 0
  /\ writer = [w \in Writers |-> "idle"]
  /\ todo = [w \in Writers |-> 0]
  /\ writeRet = [w \in Writers |-> "none"]
  /\ reader = [r \in Readers |-> "idle"]
  /\ want = [r \in Readers |-> 0]
  /\ readRet = [r \in Readers |-> "none"]
  /\ got = [r \in Readers |-> <<>>]
  /\ from = [r \in Readers |-> 0]
-----------------------------------------------------------------------------
(***************************************************************************)
(* Positions.  The two copies of a transfer that wraps around fill, or     *)
(* read, the slots at these distances from the position.                   *)
(***************************************************************************)
Smaller(m, n) == IF m < n THEN m ELSE n

\* Mutant: a position equal to the size is not reset to zero.
SlotPastEnd(pos, k) == IF pos + k <= Size THEN pos + k ELSE pos + k - Size

\* The slot k places after slot pos.
Slot(pos, k) == IF pos + k < Size THEN pos + k ELSE pos + k - Size

\* How far slot i lies after slot pos.
Distance(pos, i) == IF pos <= i THEN i - pos ELSE i + Size - pos

\* Mutant: the second copy of a write that wraps around is missing.
PutInOneCopy(n) ==
  /\ buf' = [i \in Slots |->
               IF i >= writePos /\ Distance(writePos, i) < n
               THEN produced + Distance(writePos, i) + 1 ELSE buf[i]]
  /\ writePos' = Slot(writePos, n)
  /\ available' = available + n
  /\ produced' = produced + n
  /\ UNCHANGED <<readPos, consumed>>

\* Put the next n bytes in, from writePos on.
PutIn(n) ==
  /\ buf' = [i \in Slots |->
               IF Distance(writePos, i) < n
               THEN produced + Distance(writePos, i) + 1 ELSE buf[i]]
  /\ writePos' = Slot(writePos, n)
  /\ available' = available + n
  /\ produced' = produced + n
  /\ UNCHANGED <<readPos, consumed>>

\* Take n bytes out, from readPos on, into the slice of reader r.
TakeOut(r, n) ==
  /\ got' = [got EXCEPT ![r] = [k \in 1..n |-> buf[Slot(readPos, k - 1)]]]
  /\ from' = [from EXCEPT ![r] = consumed]
  /\ readPos' = Slot(readPos, n)
  /\ available' = available - n
  /\ consumed' = consumed + n
  /\ UNCHANGED <<buf, writePos, produced>>

\* notEmpty.Signal and notFull.Signal, where the state of the waiting goroutines
\* is otherwise unchanged.
SignalNotEmpty ==
  \/ /\ \E r \in Readers : reader[r] = "blocked" /\ reader' = [reader EXCEPT ![r] = "awake"]
  \/ /\ \A r \in Readers : reader[r] # "blocked"
     /\ UNCHANGED reader

SignalNotFull ==
  \/ /\ \E w \in Writers : writer[w] = "blocked" /\ writer' = [writer EXCEPT ![w] = "awake"]
  \/ /\ \A w \in Writers : writer[w] # "blocked"
     /\ UNCHANGED writer

WakeAll(state, S) == [x \in S |-> IF state[x] = "blocked" THEN "awake" ELSE state[x]]
-----------------------------------------------------------------------------
(***************************************************************************)
(* Write.                                                                  *)
(***************************************************************************)
WriteReturns(w, ret) ==
  /\ writer' = [writer EXCEPT ![w] = "idle"]
  /\ todo' = [todo EXCEPT ![w] = 0]
  /\ writeRet' = [writeRet EXCEPT ![w] = ret]

\* The buffer is full and m bytes are left: Wait, or give up.
Full(w, m) ==
  IF BlockOnFull
  THEN /\ writer' = [writer EXCEPT ![w] = "blocked"]
       /\ todo' = [todo EXCEPT ![w] = m]
       /\ UNCHANGED writeRet
  ELSE WriteReturns(w, "full")

\* The loop of Write with m bytes left.  A chunk that leaves bytes over has filled
\* the buffer, so a second chunk never follows at once.
WriteLoop(w, m) ==
  LET n == Smaller(m, Size - available) IN
  /\ IF n = 0
     THEN UNCHANGED <<data, reader>>
     ELSE PutIn(n) /\ SignalNotEmpty
  /\ IF n = m THEN WriteReturns(w, "ok") ELSE Full(w, m - n)
  /\ UNCHANGED <<flags, want, readRet, got, from>>

WriteRefused(w) ==
  /\ closed
  /\ WriteReturns(w, "closed")
  /\ UNCHANGED <<data, flags, readers>>

Write(w, n) ==
  /\ writer[w] = "idle"
  /\ produced < Bound
  /\ WriteRefused(w) \/ (~closed /\ WriteLoop(w, n))

\* Mutant: closed is not checked after Wait.
WriteResumesUnchecked(w) == writer[w] = "awake" /\ WriteLoop(w, todo[w])

\* After Wait the buffer may be closed, or full again.
WriteResumes(w) ==
  /\ writer[w] = "awake"
  /\ WriteRefused(w) \/ (~closed /\ WriteLoop(w, todo[w]))
-----------------------------------------------------------------------------
(***************************************************************************)
(* Read.                                                                   *)
(***************************************************************************)
ReadReturns(r, ret) ==
  /\ reader' = [reader EXCEPT ![r] = "idle"]
  /\ want' = [want EXCEPT ![r] = 0]
  /\ readRet' = [readRet EXCEPT ![r] = ret]

\* Mutant: toRead is not limited to what is available.
ReadBytesUnlimited(r, n) ==
  /\ available > 0
  /\ TakeOut(r, Smaller(n, Size))
  /\ ReadReturns(r, "ok")
  /\ SignalNotFull
  /\ UNCHANGED <<flags, todo, writeRet>>

\* Mutant: no notFull.Signal.
ReadBytesSilently(r, n) ==
  /\ available > 0
  /\ TakeOut(r, Smaller(n, available))
  /\ ReadReturns(r, "ok")
  /\ UNCHANGED <<flags, writers>>

\* The buffer has bytes: take at most n of them.
ReadBytes(r, n) ==
  /\ available > 0
  /\ TakeOut(r, Smaller(n, available))
  /\ ReadReturns(r, "ok")
  /\ SignalNotFull
  /\ UNCHANGED <<flags, todo, writeRet>>

\* Mutant: closed is checked before available.
ReadEndEarly(r) ==
  /\ closed
  /\ ReadReturns(r, IF failed THEN "error" ELSE "eof")
  /\ UNCHANGED <<data, flags, writers, got, from>>

\* It is empty and closed: the end of the stream, or the error it was closed with.
ReadEnd(r) ==
  /\ available = 0
  /\ closed
  /\ ReadReturns(r, IF failed THEN "error" ELSE "eof")
  /\ UNCHANGED <<data, flags, writers, got, from>>

\* It is empty and open: Wait.
ReadWaits(r, n) ==
  /\ available = 0
  /\ ~closed
  /\ reader' = [reader EXCEPT ![r] = "blocked"]
  /\ want' = [want EXCEPT ![r] = n]
  /\ UNCHANGED <<data, flags, writers, readRet, got, from>>

ReadLoop(r, n) == ReadBytes(r, n) \/ ReadEnd(r) \/ ReadWaits(r, n)

Read(r, n) == reader[r] = "idle" /\ ReadLoop(r, n)

ReadResumes(r) == reader[r] = "awake" /\ ReadLoop(r, want[r])
-----------------------------------------------------------------------------
(***************************************************************************)
(* Close, CloseWithError and Reset.                                        *)
(***************************************************************************)
CloseBuffer(withError) ==
  /\ ~closed
  /\ closed' = TRUE
  /\ failed' = withError
  /\ reader' = WakeAll(reader, Readers)
  /\ writer' = WakeAll(writer, Writers)
  /\ UNCHANGED <<data, todo, writeRet, want, readRet, got, from>>

Close == CloseBuffer(FALSE)
CloseWithError == CloseBuffer(TRUE)

\* Reset drops what the buffer holds and wakes nobody.
Reset ==
  /\ Resets
  /\ readPos' = 0
  /\ writePos' = 0
  /\ available' = 0
  /\ closed' = FALSE
  /\ failed' = FALSE
  /\ consumed' = produced
  /\ UNCHANGED <<buf, produced, writers, readers>>

WriterStep(w) == (\E n \in 1..MaxLen : Write(w, n)) \/ WriteResumes(w)
ReaderStep(r) == (\E n \in 1..MaxLen : Read(r, n)) \/ ReadResumes(r)

Next ==
  \/ \E w \in Writers : WriterStep(w)
  \/ \E r \in Readers : ReaderStep(r)
  \/ Close
  \/ CloseWithError
  \/ Reset

Spec == Init /\ [][Next]_vars
-----------------------------------------------------------------------------
(***************************************************************************)
(* Properties.                                                             *)
(***************************************************************************)
\* The positions and the count agree, and the bytes between them are the next ones
\* to read, in order: a chunk that wraps around overwrites nothing unread
\* (buffer.go:144-161, 204-221).
Contents ==
  /\ available = produced - consumed
  /\ writePos = Slot(readPos, available)
  /\ \A k \in Slots : k < available => buf[Slot(readPos, k)] = consumed + k + 1

\* What a Read returned are the bytes that followed those read before it: none is
\* lost, none comes twice, none out of order (buffer.go:172-227).
ReadsInOrder ==
  \A r \in Readers : \A k \in DOMAIN got[r] : got[r][k] = from[r] + k

\* Somebody is awake for the work there is: the readers all wait only if the buffer
\* is empty, the writers all wait only if it is full, and nobody waits once it is
\* closed, although Signal wakes one goroutine and only when something changed
\* (buffer.go:117, 165, 181, 224, 239-240).
NoLostWakeup ==
  /\ Readers # {} /\ (\A r \in Readers : reader[r] = "blocked") => available = 0
  /\ Writers # {} /\ (\A w \in Writers : writer[w] = "blocked") => available = Size
  /\ closed => /\ \A r \in Readers : reader[r] # "blocked"
               /\ \A w \in Writers : writer[w] # "blocked"

\* A reader that was told the end of the stream has missed nothing: every byte put
\* in was taken out, also by a Write that was under way when the buffer was closed
\* (buffer.go:132, 181-187).
EndIsTheEnd ==
  \A r \in Readers : readRet[r] \in {"eof", "error"} => closed /\ consumed = produced

\* The unread bytes, from readPos on, are the queue the buffer implements.
Unread == [k \in 1..available |-> buf[Slot(readPos, k - 1)]]

Fifo == INSTANCE BoundedFifo WITH
  Capacity <- Size, Byte <- Nat, fifo <- Unread, open <- ~closed

\* The buffer implements the bounded queue (buffer.go:101-289).
ImplementsFifo == Fifo!Spec
=============================================================================
