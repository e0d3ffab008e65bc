------------------------ MODULE CircularBufferProofs ------------------------
(***************************************************************************)
(* What holds of the circular buffer for every size, every number of       *)
(* goroutines and every length of the slices they pass.                    *)
(*                                                                         *)
(* DataInv, the inductive invariant on the fields of the buffer, speaks of *)
(* all slots between readPos and writePos at once.  Its two steps are the  *)
(* lemmas PutInKeeps and TakeOutKeeps; everything else leaves the fields   *)
(* alone or resets them.                                                   *)
(***************************************************************************)
EXTENDS CircularBuffer, TLAPS

\* The types of the fields PutIn and TakeOut change, and Contents.
DataType ==
  /\ buf \in [Slots -> Nat]
  /\ readPos \in Slots
  /\ writePos \in Slots
  /\ available \in 0..Size
  /\ produced \in Nat
  /\ consumed \in Nat

DataInv == DataType /\ Contents

\* The types of everything else.
ControlType ==
  /\ closed \in BOOLEAN
  /\ failed \in BOOLEAN
  /\ writer \in [Writers -> Waiting]
  /\ todo \in [Writers -> 0..MaxLen]
  /\ writeRet \in [Writers -> {"none", "ok", "closed", "full"}]
  /\ reader \in [Readers -> Waiting]
  /\ want \in [Readers -> 0..MaxLen]
  /\ readRet \in [Readers -> {"none", "ok", "eof", "error"}]
  /\ got \in [Readers -> Seq(Nat)]
  /\ from \in [Readers -> Nat]

IInv == DataInv /\ ControlType /\ ReadsInOrder
-----------------------------------------------------------------------------
(***************************************************************************)
(* Positions.                                                              *)
(***************************************************************************)
\* A position moved by at most Size is a position.
LEMMA SlotType ==
  ASSUME NEW pos \in Slots, NEW k \in 0..Size
  PROVE  Slot(pos, k) \in Slots
BY SizeAssumption DEF Slot, Slots

\* Moving by a and then by k is moving by a + k.
LEMMA SlotAdds ==
  ASSUME NEW pos \in Slots, NEW a \in 0..Size, NEW k \in 0..Size, a + k <= Size
  PROVE  Slot(Slot(pos, a), k) = Slot(pos, a + k)
BY SizeAssumption DEF Slot, Slots

\* Distance undoes Slot.
LEMMA DistanceOfSlot ==
  ASSUME NEW pos \in Slots, NEW k \in Slots
  PROVE  Distance(pos, Slot(pos, k)) = k
BY SizeAssumption DEF Slot, Slots, Distance

\* A slot before writePos is as far behind it, going round, as the rest of the ring.
LEMMA DistanceBehind ==
  ASSUME NEW pos \in Slots, NEW a \in 0..Size, NEW k \in Slots, k < a
  PROVE  Distance(Slot(pos, a), Slot(pos, k)) = Size - a + k
BY SizeAssumption DEF Slot, Slots, Distance

LEMMA SmallerType ==
  ASSUME NEW m \in Nat, NEW n \in Nat
  PROVE  Smaller(m, n) \in Nat /\ Smaller(m, n) <= m /\ Smaller(m, n) <= n
BY DEF Smaller
-----------------------------------------------------------------------------
(***************************************************************************)
(* The two data steps.                                                     *)
(***************************************************************************)
\* Putting in what fits leaves the unread bytes alone and appends the new ones.
LEMMA PutInKeeps ==
  ASSUME DataInv, NEW n \in Nat, n <= Size - available, PutIn(n)
  PROVE  DataInv'
<1> USE SizeAssumption
<1>1. DataType'
  <2>1. n \in 0..Size
    BY DEF DataInv, DataType
  <2>2. writePos' \in Slots
    BY <2>1, SlotType DEF DataInv, DataType, PutIn
  <2>3. buf' \in [Slots -> Nat]
    BY DEF DataInv, DataType, PutIn, Distance, Slots
  <2> QED
    BY <2>2, <2>3 DEF DataInv, DataType, PutIn
<1>2. available' = produced' - consumed'
  BY DEF DataInv, DataType, Contents, PutIn
<1>3. writePos' = Slot(readPos', available')
  BY SlotAdds DEF DataInv, DataType, Contents, PutIn
<1>4. ASSUME NEW k \in Slots, k < available'
      PROVE  buf'[Slot(readPos', k)] = consumed' + k + 1
  <2> DEFINE i == Slot(readPos, k)
  <2>0. k \in 0..Size
    BY DEF Slots
  <2>1. i \in Slots
    BY <2>0, SlotType DEF DataInv, DataType
  <2>2. CASE k < available
    <3>1. Distance(writePos, i) = Size - available + k
      BY <2>2, DistanceBehind DEF DataInv, DataType, Contents
    <3>2. buf'[i] = buf[i]
      BY <2>1, <3>1 DEF DataInv, DataType, PutIn, Slots
    <3> QED
      BY <2>2, <3>2 DEF DataInv, DataType, Contents, PutIn
  <2>3. CASE k >= available
    <3> DEFINE j == k - available
    <3>1. j \in Slots /\ j < n
      BY <1>4, <2>3 DEF DataInv, DataType, PutIn, Slots
    <3>2. i = Slot(writePos, j)
      BY <2>3, <3>1, SlotAdds DEF DataInv, DataType, Contents, Slots
    <3>3. Distance(writePos, i) = j
      BY <3>1, <3>2, DistanceOfSlot DEF DataInv, DataType
    <3>4. buf'[i] = produced + j + 1
      BY <2>1, <3>1, <3>3 DEF PutIn
    <3> QED
      BY <3>4 DEF DataInv, DataType, Contents, PutIn, Slots
  <2> QED
    BY <2>2, <2>3 DEF DataInv, DataType, Slots
<1> QED
  BY <1>1, <1>2, <1>3, <1>4 DEF DataInv, Contents

\* Taking out what is there hands over the next bytes and leaves the others.
LEMMA TakeOutKeeps ==
  ASSUME DataInv, NEW r \in Readers, NEW n \in Nat, n <= available, TakeOut(r, n)
  PROVE  DataInv'
<1> USE SizeAssumption
<1>1. n \in 0..Size
  BY DEF DataInv, DataType
<1>2. DataType'
  <2>1. readPos' \in Slots
    BY <1>1, SlotType DEF DataInv, DataType, TakeOut
  <2> QED
    BY <2>1 DEF DataInv, DataType, Contents, TakeOut
<1>3. available' = produced' - consumed'
  BY DEF DataInv, DataType, Contents, TakeOut
<1>4. writePos' = Slot(readPos', available')
  BY <1>1, SlotAdds DEF DataInv, DataType, Contents, TakeOut
<1>5. ASSUME NEW k \in Slots, k < available'
      PROVE  buf'[Slot(readPos', k)] = consumed' + k + 1
  <2>1. n + k \in Slots /\ n + k < available
    BY <1>5 DEF DataInv, DataType, TakeOut, Slots
  <2>2. Slot(readPos', k) = Slot(readPos, n + k)
    BY <1>1, <2>1, SlotAdds DEF DataInv, DataType, TakeOut, Slots
  <2>3. buf[Slot(readPos, n + k)] = consumed + (n + k) + 1
    BY <2>1 DEF DataInv, Contents
  <2> QED
    BY <2>2, <2>3 DEF DataInv, DataType, TakeOut, Slots
<1> QED
  BY <1>2, <1>3, <1>4, <1>5 DEF DataInv, Contents

\* What a reader gets.
LEMMA TakeOutInOrder ==
  ASSUME DataInv, got \in [Readers -> Seq(Nat)], from \in [Readers -> Nat],
         ReadsInOrder, NEW r \in Readers, NEW n \in Nat, n <= available, TakeOut(r, n)
  PROVE  /\ got' \in [Readers -> Seq(Nat)]
         /\ from' \in [Readers -> Nat]
         /\ ReadsInOrder'
<1> USE SizeAssumption
<1> DEFINE s == [k \in 1..n |-> buf[Slot(readPos, k - 1)]]
<1>1. \A k \in 1..n : buf[Slot(readPos, k - 1)] = consumed + k
  BY DEF DataInv, DataType, Contents, Slots
<1>2. s \in Seq(Nat)
  BY <1>1 DEF DataInv, DataType
<1>3. got' \in [Readers -> Seq(Nat)] /\ from' \in [Readers -> Nat]
  BY <1>2 DEF TakeOut, DataInv, DataType
<1>4. ReadsInOrder'
  BY <1>1 DEF ReadsInOrder, TakeOut
<1> QED
  BY <1>3, <1>4
-----------------------------------------------------------------------------
(***************************************************************************)
(* The invariant of the buffer.                                            *)
(***************************************************************************)
LEMMA InitIInv == Init => IInv
BY SizeAssumption
   DEF Init, IInv, DataInv, DataType, ControlType, Contents, ReadsInOrder, Slots,
       Slot, Waiting

\* Waking goroutines keeps the types of their states.
LEMMA SignalTypes ==
  ASSUME ControlType
  PROVE  /\ SignalNotEmpty => reader' \in [Readers -> Waiting]
         /\ SignalNotFull => writer' \in [Writers -> Waiting]
BY DEF ControlType, SignalNotEmpty, SignalNotFull, Waiting

\* The writer's part of the state, when a Write returns, and when it waits.
WriterType ==
  /\ writer \in [Writers -> Waiting]
  /\ todo \in [Writers -> 0..MaxLen]
  /\ writeRet \in [Writers -> {"none", "ok", "closed", "full"}]

LEMMA WriteReturnsType ==
  ASSUME WriterType, NEW w \in Writers, NEW ret \in {"ok", "closed", "full"},
         WriteReturns(w, ret)
  PROVE  WriterType'
BY CallAssumption DEF WriterType, WriteReturns, Waiting

LEMMA FullType ==
  ASSUME WriterType, NEW w \in Writers, NEW m \in 0..MaxLen, Full(w, m)
  PROVE  WriterType'
<1>1. CASE BlockOnFull
  BY <1>1 DEF Full, WriterType, Waiting
<1>2. CASE ~BlockOnFull
  BY <1>2, WriteReturnsType DEF Full
<1> QED
  BY <1>1, <1>2

\* A refused Write.
LEMMA WriteRefusedKeeps ==
  ASSUME IInv, NEW w \in Writers, WriteRefused(w)
  PROVE  IInv'
<1>1. WriterType'
  BY WriteReturnsType DEF WriteRefused, IInv, ControlType, WriterType
<1>2. UNCHANGED <<data, flags, readers>>
  BY DEF WriteRefused
<1> QED
  BY <1>1, <1>2 DEF IInv, DataInv, DataType, ControlType, Contents, ReadsInOrder,
                    WriterType, data, flags, readers

\* A turn of the loop of Write, at the call or after Wait.
LEMMA WriteLoopKeeps ==
  ASSUME IInv, NEW w \in Writers, NEW m \in 0..MaxLen, WriteLoop(w, m)
  PROVE  IInv'
<1> DEFINE n == Smaller(m, Size - available)
<1>1. n \in Nat /\ n <= m /\ n <= Size - available
  <2>1. m \in Nat /\ Size - available \in Nat
    BY SizeAssumption, CallAssumption DEF IInv, DataInv, DataType
  <2> QED
    BY <2>1, SmallerType
<1>2. DataInv'
  <2>1. CASE n = 0
    BY <2>1 DEF WriteLoop, IInv, DataInv, DataType, Contents, data
  <2>2. CASE n # 0
    <3>1. PutIn(n)
      BY <2>2 DEF WriteLoop
    <3> QED
      BY <1>1, <3>1, PutInKeeps DEF IInv
  <2> QED
    BY <2>1, <2>2
<1>3. reader' \in [Readers -> Waiting]
  BY SignalTypes DEF WriteLoop, IInv, ControlType
<1>4. WriterType'
  <2>1. m - n \in 0..MaxLen
    BY <1>1, CallAssumption
  <2>2. WriterType
    BY DEF IInv, ControlType, WriterType
  <2>3. CASE n = m
    BY <2>2, <2>3, WriteReturnsType DEF WriteLoop
  <2>4. CASE n # m
    BY <2>1, <2>2, <2>4, FullType DEF WriteLoop
  <2> QED
    BY <2>3, <2>4
<1>5. ControlType'
  BY <1>3, <1>4 DEF WriteLoop, IInv, ControlType, WriterType, flags
<1>6. ReadsInOrder'
  BY DEF WriteLoop, IInv, ReadsInOrder
<1> QED
  BY <1>2, <1>5, <1>6 DEF IInv

\* A turn of the loop of Read.
LEMMA ReadLoopKeeps ==
  ASSUME IInv, NEW r \in Readers, NEW m \in 0..MaxLen, ReadLoop(r, m)
  PROVE  IInv'
<1>1. CASE ReadBytes(r, m)
  <2> DEFINE n == Smaller(m, available)
  <2>1. n \in Nat /\ n <= available
    <3>1. m \in Nat /\ available \in Nat
      BY SizeAssumption, CallAssumption DEF IInv, DataInv, DataType
    <3> QED
      BY <3>1, SmallerType
  <2>2. TakeOut(r, n)
    BY <1>1 DEF ReadBytes
  <2>3. DataInv'
    BY <2>1, <2>2, TakeOutKeeps DEF IInv
  <2>4. /\ got' \in [Readers -> Seq(Nat)]
        /\ from' \in [Readers -> Nat]
        /\ ReadsInOrder'
    BY <2>1, <2>2, TakeOutInOrder DEF IInv, ControlType
  <2>5. writer' \in [Writers -> Waiting]
    BY <1>1, SignalTypes DEF ReadBytes, IInv
  <2>6. /\ reader' \in [Readers -> Waiting]
        /\ want' \in [Readers -> 0..MaxLen]
        /\ readRet' \in [Readers -> {"none", "ok", "eof", "error"}]
    BY <1>1, CallAssumption DEF ReadBytes, ReadReturns, IInv, ControlType, Waiting
  <2>7. ControlType'
    BY <1>1, <2>4, <2>5, <2>6 DEF ReadBytes, IInv, ControlType, flags
  <2> QED
    BY <2>3, <2>4, <2>7 DEF IInv
<1>2. CASE ReadEnd(r)
  BY <1>2, CallAssumption
     DEF ReadEnd, ReadReturns, IInv, DataInv, DataType, ControlType, Contents,
         ReadsInOrder, data, flags, writers, Waiting
<1>3. CASE ReadWaits(r, m)
  BY <1>3, CallAssumption
     DEF ReadWaits, IInv, DataInv, DataType, ControlType, Contents, ReadsInOrder,
         data, flags, writers, Waiting
<1> QED
  BY <1>1, <1>2, <1>3 DEF ReadLoop

\* Close and CloseWithError.
LEMMA CloseKeeps ==
  ASSUME IInv, NEW e \in BOOLEAN, CloseBuffer(e)
  PROVE  IInv'
BY DEF CloseBuffer, WakeAll, IInv, DataInv, DataType, ControlType, Contents,
       ReadsInOrder, data, Waiting

LEMMA ResetKeeps ==
  ASSUME IInv, Reset
  PROVE  IInv'
<1>1. DataType'
  BY SizeAssumption DEF Reset, IInv, DataInv, DataType, Slots
<1>2. Contents'
  BY SizeAssumption DEF Reset, IInv, DataInv, DataType, Contents, Slots, Slot
<1>3. ControlType' /\ ReadsInOrder'
  BY DEF Reset, IInv, ControlType, ReadsInOrder, writers, readers
<1> QED
  BY <1>1, <1>2, <1>3 DEF IInv, DataInv

LEMMA StutterKeeps ==
  ASSUME IInv, UNCHANGED vars
  PROVE  IInv'
BY DEF vars, data, flags, writers, readers, IInv, DataInv, DataType, ControlType,
       Contents, ReadsInOrder

LEMMA NextKeeps ==
  ASSUME IInv, [Next]_vars
  PROVE  IInv'
<1> USE CallAssumption
<1>1. ASSUME NEW w \in Writers, WriterStep(w)
      PROVE  IInv'
  <2>1. ASSUME NEW m \in 1..MaxLen, Write(w, m)
        PROVE  IInv'
    BY <2>1, WriteRefusedKeeps, WriteLoopKeeps DEF Write
  <2>2. ASSUME WriteResumes(w)
        PROVE  IInv'
    <3>1. todo[w] \in 0..MaxLen
      BY DEF IInv, ControlType
    <3> QED
      BY <2>2, <3>1, WriteRefusedKeeps, WriteLoopKeeps DEF WriteResumes
  <2> QED
    BY <1>1, <2>1, <2>2 DEF WriterStep
<1>2. ASSUME NEW r \in Readers, ReaderStep(r)
      PROVE  IInv'
  <2>1. ASSUME NEW m \in 1..MaxLen, Read(r, m)
        PROVE  IInv'
    BY <2>1, ReadLoopKeeps DEF Read
  <2>2. ASSUME ReadResumes(r)
        PROVE  IInv'
    <3>1. want[r] \in 0..MaxLen
      BY DEF IInv, ControlType
    <3> QED
      BY <2>2, <3>1, ReadLoopKeeps DEF ReadResumes
  <2> QED
    BY <1>2, <2>1, <2>2 DEF ReaderStep
<1>3. CASE Close \/ CloseWithError
  BY <1>3, CloseKeeps DEF Close, CloseWithError
<1>4. CASE Reset
  BY <1>4, ResetKeeps
<1>5. CASE UNCHANGED vars
  BY <1>5, StutterKeeps
<1> QED
  BY <1>1, <1>2, <1>3, <1>4, <1>5 DEF Next

LEMMA Invariance == Spec => []IInv
<1>1. Init => IInv
  BY InitIInv
<1>2. IInv /\ [Next]_vars => IInv'
  BY NextKeeps
<1> QED
  BY <1>1, <1>2, PTL DEF Spec

\* Every field of the buffer and every goroutine stays within its type, for every
\* size and every set of goroutines (buffer.go:36-51).
THEOREM TypeCorrect == Spec => []TypeOK
<1>1. IInv => TypeOK
  BY DEF IInv, DataInv, DataType, ControlType, TypeOK
<1> QED
  BY <1>1, Invariance, PTL

\* The ring holds the unread bytes in order: chunks that wrap around, from any
\* number of writers, overwrite nothing unread and leave no gap (buffer.go:144-161).
THEOREM ContentsHold == Spec => []Contents
<1>1. IInv => Contents
  BY DEF IInv, DataInv
<1> QED
  BY <1>1, Invariance, PTL

\* A reader gets the bytes that follow those read before, whoever read them
\* (buffer.go:204-221).
THEOREM ReadsAreInOrder == Spec => []ReadsInOrder
<1>1. IInv => ReadsInOrder
  BY DEF IInv
<1> QED
  BY <1>1, Invariance, PTL
-----------------------------------------------------------------------------
(***************************************************************************)
(* The end of the stream.                                                  *)
(***************************************************************************)
LEMMA EndKeeps ==
  ASSUME IInv, EndIsTheEnd, [Next]_vars, ~Resets
  PROVE  EndIsTheEnd'
<1>1. available = produced - consumed /\ produced \in Nat /\ consumed \in Nat
  BY DEF IInv, DataInv, DataType, Contents
<1>2. ASSUME NEW w \in Writers, WriteRefused(w)
      PROVE  EndIsTheEnd'
  BY <1>2 DEF WriteRefused, EndIsTheEnd, data, flags, readers
<1>3. ASSUME NEW w \in Writers, NEW m, ~closed, WriteLoop(w, m)
      PROVE  EndIsTheEnd'
  BY <1>3 DEF WriteLoop, EndIsTheEnd
<1>4. ASSUME NEW r \in Readers, NEW m, ReadLoop(r, m)
      PROVE  EndIsTheEnd'
  <2>1. CASE ReadBytes(r, m)
    <3>1. \A q \in Readers : readRet[q] \notin {"eof", "error"}
      BY <1>1, <2>1 DEF ReadBytes, EndIsTheEnd
    <3>2. readRet' = [readRet EXCEPT ![r] = "ok"]
      BY <2>1 DEF ReadBytes, ReadReturns
    <3> QED
      BY <3>1, <3>2 DEF EndIsTheEnd, IInv, ControlType
  <2>2. CASE ReadEnd(r)
    BY <1>1, <2>2 DEF ReadEnd, EndIsTheEnd, data, flags
  <2>3. CASE ReadWaits(r, m)
    BY <2>3 DEF ReadWaits, EndIsTheEnd, data, flags
  <2> QED
    BY <1>4, <2>1, <2>2, <2>3 DEF ReadLoop
<1>5. CASE Close \/ CloseWithError
  BY <1>5 DEF Close, CloseWithError, CloseBuffer, EndIsTheEnd, data
<1>6. CASE UNCHANGED vars
  BY <1>6 DEF vars, data, flags, readers, EndIsTheEnd
<1>7. ~Reset
  BY DEF Reset
<1> QED
  BY <1>2, <1>3, <1>4, <1>5, <1>6, <1>7
     DEF Next, WriterStep, ReaderStep, Write, WriteResumes, Read, ReadResumes

\* Unless the buffer is reset, a reader told that the stream has ended has missed no
\* byte, not even of a Write that was cut short by Close (buffer.go:132, 181-187).
THEOREM EndOfStream == ASSUME ~Resets PROVE Spec => []EndIsTheEnd
<1>1. Init => EndIsTheEnd
  BY DEF Init, EndIsTheEnd
<1>2. IInv /\ EndIsTheEnd /\ [Next]_vars => EndIsTheEnd'
  BY EndKeeps
<1> QED
  BY <1>1, <1>2, Invariance, PTL DEF Spec
-----------------------------------------------------------------------------
(***************************************************************************)
(* Waiting and waking.  AwakeReader says that the readers do not all wait, *)
(* and so AwakeWriter of the writers: a signal keeps or makes them true.   *)
(***************************************************************************)
AwakeReader == Readers = {} \/ \E r \in Readers : reader[r] # "blocked"
AwakeWriter == Writers = {} \/ \E w \in Writers : writer[w] # "blocked"
NobodyWaits ==
  /\ \A r \in Readers : reader[r] # "blocked"
  /\ \A w \in Writers : writer[w] # "blocked"

LEMMA WakeupParts ==
  NoLostWakeup <=> /\ AwakeReader \/ available = 0
                   /\ AwakeWriter \/ available = Size
                   /\ closed => NobodyWaits
BY DEF NoLostWakeup, AwakeReader, AwakeWriter, NobodyWaits

LEMMA WakeupPartsNext ==
  NoLostWakeup' <=> /\ AwakeReader' \/ available' = 0
                    /\ AwakeWriter' \/ available' = Size
                    /\ closed' => NobodyWaits'
BY DEF NoLostWakeup, AwakeReader, AwakeWriter, NobodyWaits

LEMMA SignalsWake ==
  ASSUME ControlType
  PROVE  /\ SignalNotEmpty => AwakeReader'
         /\ SignalNotFull => AwakeWriter'
BY DEF ControlType, SignalNotEmpty, SignalNotFull, AwakeReader, AwakeWriter

\* A write fills the buffer or does not wait.
LEMMA WriteLoopWakes ==
  ASSUME IInv, NoLostWakeup, ~closed, NEW w \in Writers, NEW m \in Nat, WriteLoop(w, m)
  PROVE  NoLostWakeup'
<1> USE SizeAssumption, CallAssumption
<1> DEFINE n == Smaller(m, Size - available)
<1>1. /\ available \in Nat /\ available <= Size /\ ControlType
  BY DEF IInv, DataInv, DataType
<1>2. closed' = closed
  BY DEF WriteLoop, flags
<1>3. n \in Nat /\ available' = available + n
  BY <1>1 DEF WriteLoop, PutIn, Smaller, data
<1>4. AwakeReader' \/ available' = 0
  <2>1. CASE n = 0
    <3>1. UNCHANGED <<data, reader>>
      BY <2>1 DEF WriteLoop
    <3>2. AwakeReader' <=> AwakeReader
      BY <3>1 DEF AwakeReader
    <3> QED
      BY <1>3, <2>1, <3>1, <3>2, WakeupParts DEF data
  <2>2. CASE n # 0
    <3>1. SignalNotEmpty
      BY <2>2 DEF WriteLoop
    <3> QED
      BY <1>1, <3>1, SignalsWake
  <2> QED
    BY <2>1, <2>2
<1>5. AwakeWriter' \/ available' = Size
  <2>1. CASE n = m
    <3>1. writer'[w] = "idle"
      BY <1>1, <2>1 DEF WriteLoop, WriteReturns, ControlType
    <3> QED
      BY <3>1 DEF AwakeWriter
  <2>2. CASE n # m
    BY <1>1, <1>3, <2>2 DEF Smaller
  <2> QED
    BY <2>1, <2>2
<1> QED
  BY <1>2, <1>4, <1>5, WakeupPartsNext

LEMMA ReadLoopWakes ==
  ASSUME IInv, NoLostWakeup, NEW r \in Readers, NEW m \in Nat, ReadLoop(r, m)
  PROVE  NoLostWakeup'
<1>1. ControlType
  BY DEF IInv
<1>2. CASE ReadBytes(r, m)
  <2>1. reader' = [reader EXCEPT ![r] = "idle"] /\ SignalNotFull /\ closed' = closed
    BY <1>2 DEF ReadBytes, ReadReturns, flags
  <2>2. AwakeReader'
    BY <1>1, <2>1 DEF AwakeReader, ControlType
  <2>3. AwakeWriter'
    BY <1>1, <2>1, SignalsWake
  <2>4. NobodyWaits => NobodyWaits'
    BY <1>1, <2>1 DEF NobodyWaits, ControlType, SignalNotFull
  <2> QED
    BY <2>1, <2>2, <2>3, <2>4, WakeupParts, WakeupPartsNext
<1>3. CASE ReadEnd(r)
  <2>1. reader' = [reader EXCEPT ![r] = "idle"] /\ UNCHANGED <<data, flags, writers>>
    BY <1>3 DEF ReadEnd, ReadReturns
  <2>2. AwakeReader' /\ (AwakeWriter' <=> AwakeWriter) /\ (NobodyWaits => NobodyWaits')
    BY <1>1, <2>1 DEF AwakeReader, AwakeWriter, NobodyWaits, ControlType, writers
  <2> QED
    BY <2>1, <2>2, WakeupParts, WakeupPartsNext DEF data, flags
<1>4. CASE ReadWaits(r, m)
  <2>1. available = 0 /\ ~closed /\ UNCHANGED <<data, flags, writers>>
    BY <1>4 DEF ReadWaits
  <2>2. AwakeWriter' <=> AwakeWriter
    BY <2>1 DEF AwakeWriter, writers
  <2> QED
    BY <2>1, <2>2, WakeupParts, WakeupPartsNext DEF data, flags
<1> QED
  BY <1>2, <1>3, <1>4 DEF ReadLoop

LEMMA WakeupKeeps ==
  ASSUME IInv, NoLostWakeup, [Next]_vars, ~Resets
  PROVE  NoLostWakeup'
<1>1. ControlType
  BY DEF IInv
<1>2. ASSUME NEW w \in Writers, WriteRefused(w)
      PROVE  NoLostWakeup'
  <2>1. writer' = [writer EXCEPT ![w] = "idle"] /\ UNCHANGED <<data, flags, readers>>
    BY <1>2 DEF WriteRefused, WriteReturns
  <2>2. AwakeWriter' /\ (AwakeReader' <=> AwakeReader) /\ (NobodyWaits => NobodyWaits')
    BY <1>1, <2>1 DEF AwakeReader, AwakeWriter, NobodyWaits, ControlType, readers
  <2> QED
    BY <2>1, <2>2, WakeupParts, WakeupPartsNext DEF data, flags
<1>3. CASE Close \/ CloseWithError
  <2>1. /\ reader' = WakeAll(reader, Readers)
        /\ writer' = WakeAll(writer, Writers)
    BY <1>3 DEF Close, CloseWithError, CloseBuffer
  <2>2. NobodyWaits'
    BY <2>1 DEF NobodyWaits, WakeAll
  <2> QED
    BY <2>2, WakeupPartsNext DEF NobodyWaits, AwakeReader, AwakeWriter
<1>4. CASE UNCHANGED vars
  BY <1>4 DEF vars, data, flags, writers, readers, NoLostWakeup
<1>5. ~Reset
  BY DEF Reset
<1>6. /\ \A w \in Writers : todo[w] \in Nat
      /\ \A r \in Readers : want[r] \in Nat
  BY DEF IInv, ControlType
<1> QED
  BY <1>2, <1>3, <1>4, <1>5, <1>6, WriteLoopWakes, ReadLoopWakes, CallAssumption
     DEF Next, WriterStep, ReaderStep, Write, WriteResumes, Read, ReadResumes

\* Without a reset the readers never all sleep beside bytes, the writers never beside
\* space, and nobody after the close, whatever their number and although Signal
\* wakes one goroutine only (buffer.go:117, 165, 181, 224, 239-240).
THEOREM WakeupsSuffice == ASSUME ~Resets PROVE Spec => []NoLostWakeup
<1>1. Init => NoLostWakeup
  BY DEF Init, NoLostWakeup
<1>2. IInv /\ NoLostWakeup /\ [Next]_vars => NoLostWakeup'
  BY WakeupKeeps
<1> QED
  BY <1>1, <1>2, Invariance, PTL DEF Spec
-----------------------------------------------------------------------------
(***************************************************************************)
(* The buffer implements the bounded queue.                                *)
(***************************************************************************)
\* The queue, told by the numbers of its bytes.
LEMMA UnreadIs ==
  ASSUME DataInv
  PROVE  /\ Unread = [k \in 1..available |-> consumed + k]
         /\ Unread \in Seq(Nat)
         /\ Len(Unread) = available
<1>1. \A k \in 1..available : buf[Slot(readPos, k - 1)] = consumed + k
  BY SizeAssumption DEF DataInv, DataType, Contents, Slots
<1>2. Unread = [k \in 1..available |-> consumed + k]
  BY <1>1 DEF Unread
<1>3. available \in Nat /\ consumed \in Nat
  BY DEF DataInv, DataType
<1> QED
  BY <1>2, <1>3

\* The same of the next state.
LEMMA UnreadWillBe ==
  ASSUME DataInv'
  PROVE  /\ Unread' = [k \in 1..available' |-> consumed' + k]
         /\ Unread' \in Seq(Nat)
         /\ Len(Unread') = available'
<1>1. \A k \in 1..available' : buf'[Slot(readPos', k - 1)] = consumed' + k
  <2>1. available' \in 0..Size /\ consumed' \in Nat
    BY DEF DataInv, DataType
  <2>2. \A k \in Slots : k < available' => buf'[Slot(readPos', k)] = consumed' + k + 1
    BY DEF DataInv, Contents
  <2>3. ASSUME NEW k \in 1..available'
        PROVE  buf'[Slot(readPos', k - 1)] = consumed' + k
    <3>1. k - 1 \in Slots /\ k - 1 < available'
      BY <2>1, SizeAssumption DEF Slots
    <3> QED
      BY <2>1, <2>2, <3>1
  <2> QED
    BY <2>3
<1>2. Unread' = [k \in 1..available' |-> consumed' + k]
  BY <1>1, Zenon DEF Unread
<1>3. available' \in Nat /\ consumed' \in Nat
  BY DEF DataInv, DataType
<1> QED
  BY <1>2, <1>3

\* Put.
LEMMA PutInImplements ==
  ASSUME DataInv, DataInv', ~closed, NEW n \in Nat, n # 0, PutIn(n), UNCHANGED flags
  PROVE  Fifo!Put
<1>1. /\ available' = available + n /\ consumed' = consumed
      /\ available \in Nat /\ consumed \in Nat /\ available' <= Size /\ Size \in Nat
  BY SizeAssumption DEF PutIn, DataInv, DataType
<1>2. Unread = [k \in 1..available |-> consumed + k] /\ Len(Unread) = available
  BY UnreadIs
<1>3. /\ Unread' = [k \in 1..available' |-> consumed' + k]
      /\ Unread' \in Seq(Nat)
      /\ Len(Unread') = available'
  BY UnreadWillBe
<1>4. SubSeq(Unread', 1, Len(Unread)) = Unread
  BY <1>1, <1>2, <1>3
<1>5. Len(Unread') \in (Len(Unread) + 1)..Size
  BY <1>1, <1>2, <1>3
<1> QED
  BY <1>3, <1>4, <1>5 DEF Fifo!Put, flags

\* Get.
LEMMA TakeOutImplements ==
  ASSUME DataInv, DataInv', NEW r \in Readers, NEW n \in Nat, n # 0, n <= available,
         TakeOut(r, n), UNCHANGED flags
  PROVE  Fifo!Get
<1>1. /\ available' = available - n /\ consumed' = consumed + n
      /\ available \in Nat /\ consumed \in Nat
  BY DEF TakeOut, DataInv, DataType
<1>2. Unread = [k \in 1..available |-> consumed + k] /\ Len(Unread) = available
  BY UnreadIs
<1>3. Unread' = [k \in 1..available' |-> consumed' + k]
  BY UnreadWillBe
<1>4. Unread' = SubSeq(Unread, n + 1, Len(Unread))
  BY <1>1, <1>2, <1>3
<1> QED
  BY <1>1, <1>2, <1>4 DEF Fifo!Get, flags

LEMMA StepImplements ==
  ASSUME IInv, IInv', [Next]_vars
  PROVE  [Fifo!Next]_Fifo!vars
<1> USE SizeAssumption, CallAssumption
<1>1. DataInv /\ DataInv'
  BY DEF IInv
<1>2. ASSUME UNCHANGED <<data, flags>>
      PROVE  UNCHANGED Fifo!vars
  BY <1>2 DEF Fifo!vars, Unread, data, flags
<1>3. ASSUME NEW w \in Writers, WriteRefused(w)
      PROVE  UNCHANGED Fifo!vars
  BY <1>2, <1>3 DEF WriteRefused
<1>4. ASSUME NEW w \in Writers, NEW m \in Nat, ~closed, WriteLoop(w, m)
      PROVE  Fifo!Next \/ UNCHANGED Fifo!vars
  <2> DEFINE n == Smaller(m, Size - available)
  <2>1. n \in Nat
    BY <1>1, SmallerType DEF DataInv, DataType, Smaller
  <2>2. CASE n = 0
    BY <1>2, <1>4, <2>2 DEF WriteLoop
  <2>3. CASE n # 0
    BY <1>1, <1>4, <2>1, <2>3, PutInImplements DEF WriteLoop, Fifo!Next
  <2> QED
    BY <2>2, <2>3
<1>5. ASSUME NEW r \in Readers, NEW m \in Nat, ReadLoop(r, m)
      PROVE  Fifo!Next \/ UNCHANGED Fifo!vars
  <2>1. CASE ReadBytes(r, m)
    <3> DEFINE n == Smaller(m, available)
    <3>1. n \in Nat /\ n <= available
      BY <1>1 DEF DataInv, DataType, Smaller
    <3>2. TakeOut(r, n) /\ UNCHANGED flags
      BY <2>1 DEF ReadBytes
    <3>3. CASE n = 0
      <4>1. UNCHANGED <<data, flags>>
        BY <1>1, <3>2, <3>3 DEF TakeOut, DataInv, DataType, Slot, Slots, data
      <4> QED
        BY <1>2, <4>1
    <3>4. CASE n # 0
      BY <1>1, <3>1, <3>2, <3>4, TakeOutImplements DEF Fifo!Next
    <3> QED
      BY <3>3, <3>4
  <2>2. CASE ReadEnd(r) \/ ReadWaits(r, m)
    BY <1>2, <2>2 DEF ReadEnd, ReadWaits
  <2> QED
    BY <1>5, <2>1, <2>2 DEF ReadLoop
<1>6. CASE Close \/ CloseWithError
  <2>1. ~closed /\ closed' = TRUE /\ UNCHANGED data
    BY <1>6 DEF Close, CloseWithError, CloseBuffer
  <2> QED
    BY <2>1 DEF Fifo!Next, Fifo!Close, Unread, data
<1>7. CASE Reset
  <2>1. available' = 0 /\ closed' = FALSE
    BY <1>7 DEF Reset
  <2>2. Unread' = <<>>
    BY <2>1 DEF Unread
  <2> QED
    BY <2>1, <2>2 DEF Fifo!Next, Fifo!Reset
<1>8. CASE UNCHANGED vars
  BY <1>2, <1>8 DEF vars
<1>9. \A w \in Writers : todo[w] \in Nat
  BY DEF IInv, ControlType
<1>10. \A r \in Readers : want[r] \in Nat
  BY DEF IInv, ControlType
<1> QED
  BY <1>3, <1>4, <1>5, <1>6, <1>7, <1>8, <1>9, <1>10
     DEF Next, WriterStep, ReaderStep, Write, WriteResumes, Read, ReadResumes

\* For every size and any number of goroutines the ring of slots is a bounded
\* first-in-first-out queue of bytes (buffer.go:101-289).
THEOREM Refinement == Spec => ImplementsFifo
<1>1. Init => Fifo!Init
  BY DEF Init, Fifo!Init, Unread
<1>2. IInv /\ IInv' /\ [Next]_vars => [Fifo!Next]_Fifo!vars
  BY StepImplements
<1> QED
  BY <1>1, <1>2, Invariance, PTL DEF Spec, ImplementsFifo, Fifo!Spec
=============================================================================
