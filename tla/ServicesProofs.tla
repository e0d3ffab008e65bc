---------------------------- MODULE ServicesProofs ----------------------------
(***************************************************************************)
(* What holds of the parts that keep to themselves, for every number of    *)
(* updates, transfers, faults, attempts and workers.  An invariant is kept *)
(* by the steps of its own part; all other steps leave its variables alone.*)
(***************************************************************************)
EXTENDS Services, InductionLemmas, SequenceTheorems, TLAPS

(***************************************************************************)
(* The checkpoint file.                                                    *)
(***************************************************************************)
\* The Save after done writes the state that stays; an undisturbed file is the one that
\* is being written; and there is none before the first saver starts.
SaverInv ==
  /\ saver \in {"save", "write"} /\ lastSave => stopped /\ data = state
  /\ saver = "write" /\ ~disturbed => sameFile
  /\ saver = "off" /\ ~disturbed => disk = Absent

\* The types the numbers of states have.
StoreType ==
  /\ saver \in {"off", "select", "save", "write", "ended"}
  /\ state \in 0..Updates /\ data \in 0..Updates
  /\ disk = Torn \/ disk = Absent \/ disk \in 0..Updates

StoreInv == StoreType /\ SaverInv /\ CheckpointIsCurrent

LEMMA StoreInitInv == StoreInit => StoreInv
BY StoreAssumption
   DEF StoreInit, StoreInv, StoreType, SaverInv, CheckpointIsCurrent, Absent, Torn

LEMMA StoreKeeps ==
  ASSUME StoreInv, StoreNext
  PROVE  StoreInv'
<1> USE StoreAssumption
    DEF StoreInv, StoreType, SaverInv, CheckpointIsCurrent, Absent, Torn
<1>1. CASE SaverStarts
  BY <1>1 DEF SaverStarts, Loaded
<1>2. CASE SaverUpdated
  BY <1>2 DEF SaverUpdated
<1>3. CASE SaverStopped
  BY <1>3 DEF SaverStopped
<1>4. CASE SaverSteps
  <2>1. CASE SaverWakes
    BY <2>1 DEF SaverWakes
  <2>2. CASE SaveOpens
    BY <2>2 DEF SaveOpens
  <2>3. CASE SaveWrites
    <3>1. ~disturbed' => disk' = data
      BY <2>3 DEF SaveWrites
    <3>2. StoreType' /\ SaverInv'
      BY <2>3, <3>1 DEF SaveWrites, SaveEnds
    <3>3. CheckpointIsCurrent'
      BY <2>3, <3>1 DEF SaveWrites, SaveEnds
    <3> QED
      BY <3>2, <3>3
  <2>4. CASE SaveFails
    BY <2>4 DEF SaveFails, SaveEnds
  <2> QED
    BY <1>4, <2>1, <2>2, <2>3, <2>4 DEF SaverSteps
<1>5. CASE StoreDelete
  BY <1>5 DEF StoreDelete, FileRemoved
<1>6. CASE FileAges
  BY <1>6 DEF FileAges
<1>7. CASE CleanLooks
  BY <1>7 DEF CleanLooks
<1>8. CASE CleanRemoves
  BY <1>8 DEF CleanRemoves, FileRemoved
<1>9. CASE StoreCrash
  BY <1>9 DEF StoreCrash
<1> QED
  BY <1>1, <1>2, <1>3, <1>4, <1>5, <1>6, <1>7, <1>8, <1>9 DEF StoreNext

LEMMA StoreStutters ==
  ASSUME StoreInv, UNCHANGED storeVars
  PROVE  StoreInv'
BY DEF storeVars, StoreInv, StoreType, SaverInv, CheckpointIsCurrent

\* The checkpoint file is whole and current whenever no Save is at work and nothing
\* disturbed it, however often the process ends and the state is updated
\* (checkpoint.go:37-187).
THEOREM CheckpointCurrent == Spec => []CheckpointIsCurrent
<1>1. Init => StoreInv
  BY StoreInitInv DEF Init
<1>2. StoreInv /\ [Next]_servicesVars => StoreInv'
  <2> SUFFICES ASSUME StoreInv, [Next]_servicesVars PROVE StoreInv'
    OBVIOUS
  <2>1. StoreNext \/ UNCHANGED storeVars
    BY DEF Next, CreatorRuns, LedgerRuns, StoreRuns, TrackerRuns, RetryRuns, MetricsRun,
       servicesVars
  <2> QED
    BY <2>1, StoreKeeps, StoreStutters
<1>3. StoreInv => CheckpointIsCurrent
  BY DEF StoreInv
<1> QED
  BY <1>1, <1>2, <1>3, PTL DEF Spec
-----------------------------------------------------------------------------
(***************************************************************************)
(* The status tracker.                                                     *)
(***************************************************************************)
\* An end can be told of every transfer that has one.
Ended(s) == s.state \in {"completed", "failed"} => s.end # "none"

\* A file that is neither at work nor stale says what the memory says, and of what is
\* in memory or on disk nothing has ended without an EndTime.  The mutex lets one file be
\* at work.
TrackerInv ==
  /\ transfers \in [Ids -> Statuses \cup {NoStatus}]
  /\ stateDir \in [Ids -> Statuses \cup {NoStatus, TornStatus}]
  /\ \A t \in Ids : t \notin stale \cup saving => stateDir[t] = transfers[t]
  /\ \A t \in Ids : Ended(transfers[t]) /\ Ended(stateDir[t])
  /\ \A t, u \in saving : t = u

LEMMA StatusTypes ==
  /\ TornStatus.state = "torn" /\ TornStatus.end = "none"
  /\ NoStatus.state = "none" /\ NoStatus.end = "none"
  /\ TornStatus \notin Statuses \cup {NoStatus}
  /\ Ended(NoStatus) /\ Ended(TornStatus)
<1>1. NoStatus.state = "none" /\ NoStatus.end = "none"
  BY DEF NoStatus
<1>2. TornStatus.state = "torn" /\ TornStatus.end = "none"
  BY DEF NoStatus, TornStatus
<1>3. \A s \in Statuses : s.state \in {"queued", "running", "completed", "failed"}
  BY DEF Statuses, States
<1>4. TornStatus \notin Statuses \cup {NoStatus}
  BY <1>1, <1>2, <1>3
<1>5. Ended(NoStatus) /\ Ended(TornStatus)
  BY <1>1, <1>2 DEF Ended
<1> QED
  BY <1>1, <1>2, <1>4, <1>5

LEMMA TrackerInitInv == TrackerInit => TrackerInv
BY StatusTypes DEF TrackerInit, TrackerInv

\* A call that saves: the memory gets the new status, and the file is at work or stale.
LEMMA SavesKeeps ==
  ASSUME TrackerInv, ~Locked, NEW t \in Ids, NEW s \in Statuses, Ended(s),
         Goes(t, s), Saves(t)
  PROVE  TrackerInv'
<1>1. transfers' = [transfers EXCEPT ![t] = s]
  BY DEF Goes
<1>2. CASE saving' = {t} /\ stateDir' = [stateDir EXCEPT ![t] = TornStatus] /\ stale' = stale
  BY <1>1, <1>2, StatusTypes DEF TrackerInv, Locked
<1>3. CASE stale' = stale \cup {t} /\ UNCHANGED <<saving, stateDir>>
  BY <1>1, <1>3 DEF TrackerInv
<1> QED
  BY <1>2, <1>3 DEF Saves

\* What the calls make of a status.
LEMMA CallStatuses ==
  ASSUME NEW s \in Statuses, Ended(s)
  PROVE  /\ Started(s) \in Statuses /\ Ended(Started(s))
         /\ \A u \in Updated(s) : u \in Statuses /\ Ended(u)
         /\ Completed(s) \in Statuses /\ Ended(Completed(s))
         /\ Failed(s) \in Statuses /\ Ended(Failed(s))
<1>1. Started(s) \in Statuses /\ Started(s).state = "running"
  BY DEF Started, Statuses, States
<1>2. Completed(s) \in Statuses /\ Completed(s).end = "new"
  BY DEF Completed, Statuses, States, Ends
<1>3. Failed(s) \in Statuses /\ Failed(s).end = "new"
  BY DEF Failed, Statuses, States, Ends
<1>4. ASSUME NEW u \in Updated(s) PROVE u \in Statuses /\ Ended(u)
  <2>1. PICK f \in BOOLEAN : u = [s EXCEPT !.full = f]
    BY DEF Updated
  <2>2. u \in Statuses /\ u.state = s.state /\ u.end = s.end
    BY <2>1 DEF Statuses
  <2> QED
    BY <2>2 DEF Ended
<1> QED
  BY <1>1, <1>2, <1>3, <1>4 DEF Ended

LEMMA OlderStatus ==
  ASSUME NEW s \in Statuses \cup {NoStatus, TornStatus}, Ended(s)
  PROVE  /\ Ended(Older(s))
         /\ s = TornStatus => Older(s) = TornStatus
         /\ s \in Statuses \cup {NoStatus} => Older(s) \in Statuses \cup {NoStatus}
<1>1. CASE s.end = "new"
  <2>1. s \in Statuses
    BY <1>1, StatusTypes
  <2>2. Older(s) \in Statuses /\ Older(s).end = "old"
    BY <1>1, <2>1 DEF Older, Statuses, Ends
  <2> QED
    BY <2>1, <2>2, StatusTypes DEF Ended
<1>2. CASE s.end # "new"
  BY <1>2 DEF Older
<1> QED
  BY <1>1, <1>2

LEMMA RemovesKeeps ==
  ASSUME TrackerInv, NEW ids \in SUBSET Ids, Removes(ids)
  PROVE  TrackerInv'
<1>1. PICK kept \in SUBSET {t \in ids : stateDir[t] # NoStatus} :
        /\ stateDir' = [t \in Ids |-> IF t \in ids \ kept THEN NoStatus ELSE stateDir[t]]
        /\ stale' = (stale \ ids) \cup kept
  BY DEF Removes
<1>2. /\ transfers' = [t \in Ids |-> IF t \in ids THEN NoStatus ELSE transfers[t]]
      /\ saving' = saving
  BY DEF Removes
<1> QED
  BY <1>1, <1>2, StatusTypes DEF TrackerInv

LEMMA TrackerKeeps ==
  ASSUME TrackerInv, TrackerNext
  PROVE  TrackerInv'
<1>1. ASSUME NEW t \in Ids, Register(t)
      PROVE  TrackerInv'
  <2>1. Registered \in Statuses /\ Ended(Registered)
    BY DEF Registered, Statuses, States, Ends, Ended
  <2> QED
    BY <1>1, <2>1, SavesKeeps DEF Register
<1>2. ASSUME NEW t \in Ids, Start(t) \/ Update(t) \/ Complete(t) \/ Fail(t)
      PROVE  TrackerInv'
  <2>1. transfers[t] \in Statuses /\ Ended(transfers[t]) /\ ~Locked
    BY <1>2 DEF Start, Update, Complete, Fail, Calls, Exists, TrackerInv
  <2>2. PICK s \in Statuses : Ended(s) /\ Goes(t, s) /\ Saves(t)
    BY <1>2, <2>1, CallStatuses DEF Start, Update, Complete, Fail
  <2> QED
    BY <2>1, <2>2, SavesKeeps
<1>3. ASSUME NEW t \in Ids, SaveSucceeds(t)
      PROVE  TrackerInv'
  BY <1>3 DEF SaveSucceeds, TrackerInv
<1>4. ASSUME NEW t \in Ids, SaveBreaksOff(t)
      PROVE  TrackerInv'
  BY <1>4 DEF SaveBreaksOff, TrackerInv
<1>5. ASSUME NEW t \in Ids, Delete(t)
      PROVE  TrackerInv'
  <2>1. {t} \in SUBSET Ids /\ Removes({t})
    BY <1>5 DEF Delete
  <2> QED
    BY <2>1, RemovesKeeps
<1>6. CASE Clean
  <2> DEFINE ids == {t \in Ids : Expired(transfers[t])}
  <2>1. ids \in SUBSET Ids /\ Removes(ids)
    BY <1>6 DEF Clean
  <2> QED
    BY <2>1, RemovesKeeps
<1>7. CASE TimePasses
  <2>1. \A t \in Ids : stateDir[t] \in Statuses \cup {NoStatus, TornStatus}
    BY DEF TrackerInv
  <2>2. /\ \A t \in Ids : transfers'[t] = Older(transfers[t])
        /\ \A t \in Ids : stateDir'[t] = Older(stateDir[t])
        /\ UNCHANGED <<saving, stale>>
    BY <1>7 DEF TimePasses
  <2>3. \A t \in Ids : Ended(transfers'[t]) /\ Ended(stateDir'[t])
    BY <2>2, OlderStatus DEF TrackerInv
  <2>4. transfers' \in [Ids -> Statuses \cup {NoStatus}]
    BY <1>7, OlderStatus DEF TimePasses, TrackerInv
  <2>5. stateDir' \in [Ids -> Statuses \cup {NoStatus, TornStatus}]
    <3>1. \A t \in Ids : Older(stateDir[t]) \in Statuses \cup {NoStatus, TornStatus}
      BY <2>1, OlderStatus DEF TrackerInv
    <3> QED
      BY <1>7, <3>1 DEF TimePasses
  <2> QED
    BY <2>2, <2>3, <2>4, <2>5 DEF TrackerInv
<1>8. CASE TrackerCrash
  BY <1>8 DEF TrackerCrash, TrackerInv
<1>9. CASE TrackerRestarts
  <2>1. transfers' = [t \in Ids |-> IF stateDir[t] = TornStatus THEN NoStatus ELSE stateDir[t]]
        /\ UNCHANGED <<stateDir, saving, stale>>
    BY <1>9 DEF TrackerRestarts, LoadAll
  <2>2. \A t \in Ids : t \notin stale \cup saving => stateDir[t] # TornStatus
    BY StatusTypes DEF TrackerInv
  <2> QED
    BY <2>1, <2>2, StatusTypes DEF TrackerInv
<1> QED
  BY <1>1, <1>2, <1>3, <1>4, <1>5, <1>6, <1>7, <1>8, <1>9 DEF TrackerNext

LEMMA TrackerStutters ==
  ASSUME TrackerInv, UNCHANGED trackerVars
  PROVE  TrackerInv'
BY DEF trackerVars, TrackerInv

\* What a later run or another process reads of a transfer is what the tracker knows of
\* it, unless its file is at work or its last write or removal failed, for any number of
\* transfers and faults; and nothing it reads has ended without a time (tracker.go).
THEOREM TrackerReads == Spec => []TrackerReadsBack
<1>1. Init => TrackerInv
  BY TrackerInitInv DEF Init
<1>2. TrackerInv /\ [Next]_servicesVars => TrackerInv'
  <2> SUFFICES ASSUME TrackerInv, [Next]_servicesVars PROVE TrackerInv'
    OBVIOUS
  <2>1. TrackerNext \/ UNCHANGED trackerVars
    BY DEF Next, CreatorRuns, LedgerRuns, StoreRuns, TrackerRuns, RetryRuns, MetricsRun,
       servicesVars
  <2> QED
    BY <2>1, TrackerKeeps, TrackerStutters
<1>3. TrackerInv => TrackerReadsBack
  <2> SUFFICES ASSUME TrackerInv PROVE TrackerReadsBack
    OBVIOUS
  <2>1. \A t \in Ids \ (stale \cup saving) : stateDir[t] # TornStatus
    BY StatusTypes DEF TrackerInv
  <2>2. \A t \in Ids \ (stale \cup saving) : LoadAll[t] = transfers[t]
    BY <2>1 DEF TrackerInv, LoadAll
  <2>3. \A t \in Ids : Ended(LoadAll[t])
    BY StatusTypes DEF TrackerInv, LoadAll
  <2> QED
    BY <2>2, <2>3 DEF TrackerReadsBack, Ended
<1> QED
  BY <1>1, <1>2, <1>3, PTL DEF Spec

(***************************************************************************)
(* A retried call.                                                         *)
(***************************************************************************)
\* Power by the recursion, one level at a time.
PowerStep(m, k, g) == [i \in 0..k |-> IF i = 0 THEN 1 ELSE m * g[i - 1]]

PowerTable(m, k) == CHOOSE g : g = PowerStep(m, k, g)

LEMMA PowerIsInTable ==
  ASSUME NEW m, NEW k
  PROVE  Power(m, k) = PowerTable(m, k)[k]
BY Zenon DEF Power, PowerTable, PowerStep

LEMMA PowerTableExists ==
  ASSUME NEW m \in Nat, NEW k \in Nat
  PROVE  PowerTable(m, k) = PowerStep(m, k, PowerTable(m, k))
<1> DEFINE T == {n \in Nat : \E g : g = PowerStep(m, n, g)}
<1>1. 0 \in T
  <2>1. [i \in 0..0 |-> 1] = PowerStep(m, 0, [i \in 0..0 |-> 1])
    BY DEF PowerStep
  <2> QED
    BY <2>1
<1>2. ASSUME NEW n \in T PROVE n + 1 \in T
  <2>1. PICK g : g = PowerStep(m, n, g)
    OBVIOUS
  <2> DEFINE h == PowerStep(m, n + 1, g)
  <2>2. ASSUME NEW i \in 0..(n + 1) PROVE h[i] = PowerStep(m, n + 1, h)[i]
    <3>1. CASE i = 0
      BY <3>1 DEF PowerStep
    <3>2. CASE i # 0
      <4>1. i - 1 \in 0..n /\ i - 1 \in 0..(n + 1)
        BY <3>2
      <4>2. h[i - 1] = g[i - 1]
        BY <2>1, <4>1 DEF PowerStep
      <4> QED
        BY <3>2, <4>1, <4>2 DEF PowerStep
    <3> QED
      BY <3>1, <3>2
  <2>3. h = PowerStep(m, n + 1, h)
    BY <2>2 DEF PowerStep
  <2> QED
    BY <2>3
<1>3. k \in T
  BY <1>1, <1>2, AllNaturals
<1>4. \E g : g = PowerStep(m, k, g)
  BY <1>3
<1> QED
  BY <1>4 DEF PowerTable

\* A natural to the power of a natural is a natural.
LEMMA PowerIsNatural ==
  ASSUME NEW m \in Nat, NEW k \in Nat
  PROVE  Power(m, k) \in Nat
<1> DEFINE g == PowerTable(m, k)
           T == {n \in Nat : n <= k => g[n] \in Nat}
<1>1. g = PowerStep(m, k, g)
  BY PowerTableExists
<1>2. 0 \in T
  BY <1>1 DEF PowerStep
<1>3. ASSUME NEW n \in T PROVE n + 1 \in T
  <2> SUFFICES ASSUME n + 1 <= k PROVE g[n + 1] \in Nat
    OBVIOUS
  <2>1. g[n + 1] = m * g[n] /\ g[n] \in Nat
    BY <1>1 DEF PowerStep
  <2> QED
    BY <2>1
<1>4. T = Nat
  <2> HIDE DEF T
  <2> QED
    BY <1>2, <1>3, AllNaturals DEF T
<1> QED
  BY <1>4, PowerIsInTable

\* No wait is longer than the longest and a tenth of it.
LEMMA WaitBounded ==
  ASSUME policy \in Policies, NEW n \in Nat \ {0}, NEW wait \in CalculateWait(n)
  PROVE  wait \in Nat /\ 10 * wait <= 11 * policy.maxWait
<1> DEFINE p == policy.initialWait * Power(policy.multiplier, n - 1)
           c == Capped(p)
<1>1. /\ policy.initialWait \in Nat /\ policy.maxWait \in Nat /\ policy.multiplier \in Nat
  BY PolicyAssumption
<1>2. Power(policy.multiplier, n - 1) \in Nat
  <2>1. n - 1 \in Nat
    OBVIOUS
  <2> QED
    BY <1>1, <2>1, PowerIsNatural
<1>3. p \in Nat
  BY <1>1, <1>2
<1>4. c \in Nat /\ c <= policy.maxWait
  BY <1>1, <1>3 DEF Capped
<1>5. wait \in c..(c + c \div 10)
  <2>1. CASE policy.jitter
    BY <2>1 DEF CalculateWait
  <2>2. CASE ~policy.jitter
    BY <1>4, <2>2 DEF CalculateWait
  <2> QED
    BY <2>1, <2>2
<1> HIDE DEF c
<1> QED
  BY <1>1, <1>4, <1>5

InfoRecords == [error : Errors \cup {"none"}, wait : Nat]
Results ==
  [attempt : Nat, success : BOOLEAN, error : Errors \cup {"none", "context"},
   attempts : Seq(InfoRecords)]

RetryShape ==
  /\ policy \in Policies /\ attempt \in Nat \ {0}
  /\ retryPc \in {"loop", "call", "failed", "wait", "end", "panic"}
  /\ result \in Results

\* Every wait of the Result is bounded, every attempt but the last was worth a retry.
InfosInv ==
  LET infos == result.attempts
  IN  /\ \A i \in 1..Len(infos) : 10 * infos[i].wait <= 11 * policy.maxWait
      /\ \A i \in 1..(Len(infos) - 1) : infos[i].error = "transient"
      /\ retryPc \in {"loop", "call", "failed", "wait"} =>
           ~result.success /\ \A i \in 1..Len(infos) : infos[i].error = "transient"

\* Where the loop is, and how far the Result is.
LoopInv ==
  LET n == Len(result.attempts)
      before == IF attempt = 1 THEN "none" ELSE "transient"
  IN  /\ retryPc = "loop" =>
           /\ n = attempt - 1 /\ result.attempt = attempt - 1 /\ result.error = before
           /\ attempt = 1 \/ attempt <= policy.maxAttempts
      /\ retryPc = "call" =>
           /\ n = attempt - 1 /\ result.attempt = attempt /\ result.error = before
           /\ attempt <= policy.maxAttempts
      /\ retryPc = "failed" =>
           /\ n = attempt - 1 /\ result.attempt = attempt /\ result.error \in Errors
           /\ attempt <= policy.maxAttempts
      /\ retryPc = "wait" =>
           /\ n = attempt /\ result.attempt = attempt /\ result.error = "transient"
           /\ attempt < policy.maxAttempts

\* A context that is done has let one attempt begin, and that one is the last.
LateInv ==
  \/ lateCalls = 0
  \/ lateCalls = 1 /\ done /\ retryPc \in {"call", "failed", "end"}

RetryInv == RetryShape /\ InfosInv /\ LoopInv /\ LateInv /\ RetryOutcome

LEMMA RetryInitInv ==
  ASSUME RetryInit(Policies)
  PROVE  RetryInv
<1> USE DEF RetryInit
<1>1. RetryShape
  BY DEF RetryShape, Results, Errors, InfoRecords
<1>2. InfosInv
  BY DEF InfosInv
<1>3. LoopInv
  BY DEF LoopInv
<1>4. LateInv
  BY DEF LateInv
<1>5. RetryOutcome
  <2>1. retryPc # "end" /\ lateCalls <= 1
    OBVIOUS
  <2> QED
    BY <2>1 DEF RetryOutcome
<1> QED
  BY <1>1, <1>2, <1>3, <1>4, <1>5 DEF RetryInv

\* The Result after one more attempt.
LEMMA AttemptAdded ==
  ASSUME RetryShape, InfosInv, NEW err \in Errors \cup {"none"}, NEW wait \in Nat,
         10 * wait <= 11 * policy.maxWait, retryPc \in {"call", "failed"},
         result'.attempts = Append(result.attempts, Info(err, wait)), policy' = policy
  PROVE  LET infos == result.attempts'
         IN  /\ infos \in Seq(InfoRecords) /\ Len(infos) = Len(result.attempts) + 1
             /\ infos[Len(infos)].error = err
             /\ \A i \in 1..Len(infos) : 10 * infos[i].wait <= 11 * policy'.maxWait
             /\ \A i \in 1..(Len(infos) - 1) : infos[i].error = "transient"
<1> DEFINE old == result.attempts
           infos == result'.attempts
           new == Info(err, wait)
<1>1. new \in InfoRecords /\ new.error = err /\ new.wait = wait
  BY DEF Info, InfoRecords
<1>2. old \in Seq(InfoRecords)
  BY DEF RetryShape, Results
<1>3. /\ infos \in Seq(InfoRecords) /\ Len(infos) = Len(old) + 1 /\ Len(old) \in Nat
      /\ infos[Len(old) + 1] = new
      /\ \A i \in 1..Len(old) : infos[i] = old[i]
  BY <1>1, <1>2
<1> HIDE DEF new
<1>4. \A i \in 1..Len(infos) : 10 * infos[i].wait <= 11 * policy'.maxWait
  <2> SUFFICES ASSUME NEW i \in 1..Len(infos) PROVE 10 * infos[i].wait <= 11 * policy'.maxWait
    OBVIOUS
  <2>1. CASE i \in 1..Len(old)
    BY <1>3, <2>1 DEF InfosInv
  <2>2. CASE i = Len(old) + 1
    BY <1>1, <1>3, <2>2
  <2> QED
    BY <1>3, <2>1, <2>2
<1>5. \A i \in 1..(Len(infos) - 1) : infos[i].error = "transient"
  BY <1>3 DEF InfosInv
<1> QED
  BY <1>1, <1>3, <1>4, <1>5

LEMMA RetryKeeps ==
  ASSUME RetryInv, RetryNext
  PROVE  RetryInv'
<1> DEFINE infos == result.attempts
           n == Len(infos)
<1>0. /\ infos \in Seq(InfoRecords) /\ n \in Nat /\ attempt \in Nat \ {0}
      /\ policy \in Policies /\ policy.maxAttempts \in Int /\ result \in Results
      /\ RetryShape /\ InfosInv /\ LoopInv /\ LateInv /\ RetryOutcome
  BY PolicyAssumption DEF RetryInv, RetryShape, Results
<1>1. CASE ContextEnds
  <2>1. RetryShape' /\ InfosInv' /\ LoopInv'
    BY <1>0, <1>1 DEF ContextEnds, RetryShape, InfosInv, LoopInv
  <2>2. LateInv'
    BY <1>0, <1>1 DEF ContextEnds, LateInv
  <2>3. RetryOutcome'
    BY <1>0, <1>1 DEF ContextEnds, RetryOutcome
  <2> QED
    BY <2>1, <2>2, <2>3 DEF RetryInv
<1>2. CASE AttemptBegins
  <2>1. /\ result' \in Results /\ result'.attempts = infos /\ result'.attempt = attempt
        /\ result'.error = result.error /\ result'.success = result.success
    BY <1>0, <1>2 DEF AttemptBegins, Results
  <2>2. retryPc = "loop" /\ retryPc' = "call" /\ UNCHANGED <<policy, done, attempt>>
    BY <1>2 DEF AttemptBegins
  <2>3. RetryShape'
    BY <1>0, <2>1, <2>2 DEF RetryShape
  <2>4. InfosInv'
    BY <1>0, <2>1, <2>2 DEF InfosInv
  <2>5. LoopInv'
    BY <1>0, <1>2, <2>1, <2>2 DEF LoopInv, AttemptBegins
  <2>6. LateInv'
    BY <1>0, <1>2, <2>2 DEF LateInv, AttemptBegins
  <2>7. RetryOutcome'
    <3>1. retryPc' # "end" /\ lateCalls' <= 1
      BY <2>2, <2>6 DEF LateInv
    <3> QED
      BY <3>1 DEF RetryOutcome
  <2> QED
    BY <2>3, <2>4, <2>5, <2>6, <2>7 DEF RetryInv
<1>3. CASE AttemptSucceeds
  <2>1. /\ result'.attempts = Append(infos, Info("none", 0)) /\ result'.attempt = result.attempt
        /\ result'.error = result.error /\ result'.success
    BY <1>0, <1>3 DEF AttemptSucceeds, Results
  <2>2. retryPc = "call" /\ retryPc' = "end" /\ UNCHANGED <<policy, done, attempt, lateCalls>>
    BY <1>3 DEF AttemptSucceeds
  <2>3. 10 * 0 <= 11 * policy.maxWait
    BY <1>0, PolicyAssumption
  <2>4. /\ infos' \in Seq(InfoRecords) /\ n' = n + 1 /\ infos'[n'].error = "none"
        /\ \A i \in 1..n' : 10 * infos'[i].wait <= 11 * policy'.maxWait
        /\ \A i \in 1..(n' - 1) : infos'[i].error = "transient"
    BY <1>0, <2>1, <2>2, <2>3, AttemptAdded
  <2>5. RetryShape'
    <3>1. result' \in Results
      BY <1>0, <1>3, <2>1, <2>4 DEF AttemptSucceeds, Results
    <3> QED
      BY <1>0, <2>2, <3>1 DEF RetryShape
  <2>6. InfosInv' /\ LoopInv'
    BY <2>2, <2>4 DEF InfosInv, LoopInv
  <2>7. LateInv'
    BY <1>0, <2>2 DEF LateInv
  <2>8. RetryOutcome'
    <3>1. n' = attempt /\ result'.attempt = attempt /\ attempt <= policy.maxAttempts
      BY <1>0, <2>1, <2>2, <2>4 DEF LoopInv
    <3>2. result'.error = IF attempt = 1 THEN "none" ELSE "transient"
      BY <1>0, <2>1, <2>2 DEF LoopInv
    <3>3. lateCalls' <= 1
      BY <2>7 DEF LateInv
    <3> QED
      BY <1>0, <2>1, <2>2, <2>4, <3>1, <3>2, <3>3 DEF RetryOutcome
  <2> QED
    BY <2>5, <2>6, <2>7, <2>8 DEF RetryInv
<1>4. CASE AttemptFails
  <2>1. PICK err \in Errors : result' = [result EXCEPT !.error = err]
    BY <1>4 DEF AttemptFails
  <2>2. /\ result' \in Results /\ result'.attempts = infos /\ result'.attempt = result.attempt
        /\ result'.error \in Errors /\ result'.success = result.success
    BY <1>0, <2>1 DEF Results
  <2>3. retryPc = "call" /\ retryPc' = "failed" /\ UNCHANGED <<policy, done, attempt, lateCalls>>
    BY <1>4 DEF AttemptFails
  <2>4. RetryShape'
    BY <1>0, <2>2, <2>3 DEF RetryShape
  <2>5. InfosInv'
    BY <1>0, <2>2, <2>3 DEF InfosInv
  <2>6. LoopInv'
    BY <1>0, <2>2, <2>3 DEF LoopInv
  <2>7. LateInv'
    BY <1>0, <2>3 DEF LateInv
  <2>8. RetryOutcome'
    BY <2>3, <2>7 DEF RetryOutcome, LateInv
  <2> QED
    BY <2>4, <2>5, <2>6, <2>7, <2>8 DEF RetryInv
<1>5. CASE GivesUp
  <2>1. /\ result'.attempts = Append(infos, Info(result.error, 0))
        /\ result'.attempt = result.attempt
        /\ result'.error = result.error /\ result'.success = result.success
    BY <1>0, <1>5 DEF GivesUp, Results, LastError
  <2>2. retryPc = "failed" /\ retryPc' = "end" /\ UNCHANGED <<policy, done, attempt, lateCalls>>
    BY <1>5 DEF GivesUp
  <2>3. 10 * 0 <= 11 * policy.maxWait
    BY <1>0, PolicyAssumption
  <2>4. result.error \in Errors /\ ~result.success
    BY <1>0, <2>2 DEF LoopInv, InfosInv
  <2>5. /\ infos' \in Seq(InfoRecords) /\ n' = n + 1 /\ infos'[n'].error = result.error
        /\ \A i \in 1..n' : 10 * infos'[i].wait <= 11 * policy'.maxWait
        /\ \A i \in 1..(n' - 1) : infos'[i].error = "transient"
    BY <1>0, <2>1, <2>2, <2>3, <2>4, AttemptAdded
  <2>6. RetryShape'
    <3>1. result' \in Results
      BY <1>0, <1>5, <2>1, <2>5 DEF GivesUp, Results
    <3> QED
      BY <1>0, <2>2, <3>1 DEF RetryShape
  <2>7. InfosInv' /\ LoopInv'
    BY <2>2, <2>5 DEF InfosInv, LoopInv
  <2>8. LateInv'
    BY <1>0, <2>2 DEF LateInv
  <2>9. RetryOutcome'
    <3>1. n' = attempt /\ result'.attempt = attempt /\ attempt <= policy.maxAttempts
      BY <1>0, <2>1, <2>2, <2>5 DEF LoopInv
    <3>2. lateCalls' <= 1
      BY <2>8 DEF LateInv
    <3> QED
      BY <1>0, <2>1, <2>2, <2>4, <2>5, <3>1, <3>2 DEF RetryOutcome, Errors
  <2> QED
    BY <2>6, <2>7, <2>8, <2>9 DEF RetryInv
<1>6. CASE SeesContextDone
  <2>1. /\ result'.attempts = Append(infos, Info(result.error, 0))
        /\ result'.attempt = result.attempt
        /\ result'.error = "context" /\ result'.success = result.success
    BY <1>0, <1>6 DEF SeesContextDone, Results, LastError
  <2>2. /\ retryPc = "failed" /\ retryPc' = "end" /\ UNCHANGED <<policy, done, attempt, lateCalls>>
        /\ done /\ attempt < policy.maxAttempts
    BY <1>6 DEF SeesContextDone, MayRetry
  <2>3. 10 * 0 <= 11 * policy.maxWait
    BY <1>0, PolicyAssumption
  <2>4. result.error \in Errors /\ ~result.success
    BY <1>0, <2>2 DEF LoopInv, InfosInv
  <2>5. /\ infos' \in Seq(InfoRecords) /\ n' = n + 1 /\ infos'[n'].error = result.error
        /\ \A i \in 1..n' : 10 * infos'[i].wait <= 11 * policy'.maxWait
        /\ \A i \in 1..(n' - 1) : infos'[i].error = "transient"
    BY <1>0, <2>1, <2>2, <2>3, <2>4, AttemptAdded
  <2>6. RetryShape'
    <3>1. result' \in Results
      BY <1>0, <1>6, <2>1, <2>5 DEF SeesContextDone, Results
    <3> QED
      BY <1>0, <2>2, <3>1 DEF RetryShape
  <2>7. InfosInv' /\ LoopInv'
    BY <2>2, <2>5 DEF InfosInv, LoopInv
  <2>8. LateInv'
    BY <1>0, <2>2 DEF LateInv
  <2>9. RetryOutcome'
    <3>1. n' = attempt /\ result'.attempt = attempt
      BY <1>0, <2>1, <2>2, <2>5 DEF LoopInv
    <3>2. lateCalls' <= 1
      BY <2>8 DEF LateInv
    <3> QED
      BY <1>0, <2>1, <2>2, <2>4, <2>5, <3>1, <3>2 DEF RetryOutcome, Errors
  <2> QED
    BY <2>6, <2>7, <2>8, <2>9 DEF RetryInv
<1>7. CASE BeginsToWait
  <2>1. PICK wait \in CalculateWait(attempt) :
          result' = [result EXCEPT !.attempts = Append(@, Info(LastError, wait))]
    BY <1>7 DEF BeginsToWait
  <2>2. wait \in Nat /\ 10 * wait <= 11 * policy.maxWait
    BY <1>0, <2>1, WaitBounded
  <2>3. /\ result'.attempts = Append(infos, Info(result.error, wait))
        /\ result'.attempt = result.attempt
        /\ result'.error = result.error /\ result'.success = result.success
    BY <1>0, <2>1 DEF Results, LastError
  <2>4. /\ retryPc = "failed" /\ retryPc' = "wait" /\ UNCHANGED <<policy, done, attempt, lateCalls>>
        /\ ~done /\ attempt < policy.maxAttempts /\ result.error = "transient"
    BY <1>7 DEF BeginsToWait, MayRetry, IsRetryable, LastError
  <2>5. result.error \in Errors /\ ~result.success
    BY <1>0, <2>4 DEF LoopInv, InfosInv
  <2>6. /\ infos' \in Seq(InfoRecords) /\ n' = n + 1 /\ infos'[n'].error = result.error
        /\ \A i \in 1..n' : 10 * infos'[i].wait <= 11 * policy'.maxWait
        /\ \A i \in 1..(n' - 1) : infos'[i].error = "transient"
    BY <1>0, <2>2, <2>3, <2>4, <2>5, AttemptAdded
  <2>7. RetryShape'
    <3>1. result' \in Results
      BY <1>0, <2>1, <2>3, <2>6 DEF Results
    <3> QED
      BY <1>0, <2>4, <3>1 DEF RetryShape
  <2>8. InfosInv'
    <3>1. ~result'.success
      BY <2>3, <2>5
    <3>2. \A i \in 1..n' : infos'[i].error = "transient"
      BY <1>0, <2>4, <2>6
    <3> QED
      BY <2>6, <3>1, <3>2 DEF InfosInv
  <2>9. LoopInv'
    BY <1>0, <2>3, <2>4, <2>6 DEF LoopInv
  <2>10. LateInv'
    BY <1>0, <2>4 DEF LateInv
  <2>11. RetryOutcome'
    BY <2>4, <2>10 DEF RetryOutcome, LateInv
  <2> QED
    BY <2>7, <2>8, <2>9, <2>10, <2>11 DEF RetryInv
<1>8. CASE WaitElapses
  <2>1. /\ retryPc = "wait" /\ retryPc' = "loop" /\ attempt' = attempt + 1
        /\ UNCHANGED <<policy, done, result, lateCalls>>
    BY <1>8 DEF WaitElapses
  <2>2. RetryShape'
    BY <1>0, <2>1 DEF RetryShape
  <2>3. InfosInv'
    BY <1>0, <2>1 DEF InfosInv
  <2>4. LoopInv'
    BY <1>0, <2>1 DEF LoopInv
  <2>5. LateInv'
    BY <1>0, <2>1 DEF LateInv
  <2>6. RetryOutcome'
    BY <2>1, <2>5 DEF RetryOutcome, LateInv
  <2> QED
    BY <2>2, <2>3, <2>4, <2>5, <2>6 DEF RetryInv
<1>9. CASE WaitInterrupted
  <2>1. /\ result' \in Results /\ result'.attempts = infos /\ result'.attempt = result.attempt
        /\ result'.error = "context" /\ result'.success = result.success
    BY <1>0, <1>9 DEF WaitInterrupted, Results
  <2>2. /\ retryPc = "wait" /\ retryPc' = "end" /\ done
        /\ UNCHANGED <<policy, done, attempt, lateCalls>>
    BY <1>9 DEF WaitInterrupted
  <2>3. RetryShape'
    BY <1>0, <2>1, <2>2 DEF RetryShape
  <2>4. InfosInv' /\ LoopInv'
    BY <1>0, <2>1, <2>2 DEF InfosInv, LoopInv
  <2>5. LateInv'
    BY <1>0, <2>2 DEF LateInv
  <2>6. RetryOutcome'
    <3>1. n = attempt /\ result'.attempt = n /\ n < policy.maxAttempts /\ ~result'.success
      BY <1>0, <2>1, <2>2 DEF LoopInv, InfosInv
    <3>2. \A i \in 1..n : infos[i].error = "transient" /\ 10 * infos[i].wait <= 11 * policy.maxWait
      BY <1>0, <2>2 DEF InfosInv
    <3>3. lateCalls' <= 1
      BY <2>5 DEF LateInv
    <3> QED
      BY <1>0, <2>1, <2>2, <3>1, <3>2, <3>3 DEF RetryOutcome
  <2> QED
    BY <2>3, <2>4, <2>5, <2>6 DEF RetryInv
<1>10. CASE NoAttempt
  <2>1. /\ retryPc = "loop" /\ retryPc' \in {"end", "panic"} /\ policy.maxAttempts <= 0
        /\ UNCHANGED <<policy, done, attempt, result, lateCalls>>
    BY <1>10 DEF NoAttempt
  <2>2. RetryShape'
    BY <1>0, <2>1 DEF RetryShape
  <2>3. InfosInv' /\ LoopInv'
    BY <1>0, <2>1 DEF InfosInv, LoopInv
  <2>4. LateInv'
    BY <1>0, <2>1 DEF LateInv
  <2>5. RetryOutcome'
    <3>1. attempt = 1 /\ n = 0 /\ result.attempt = 0 /\ result.error = "none" /\ ~result.success
      BY <1>0, <2>1 DEF LoopInv, InfosInv
    <3>2. lateCalls' <= 1
      BY <2>4 DEF LateInv
    <3> QED
      BY <2>1, <3>1, <3>2 DEF RetryOutcome
  <2> QED
    BY <2>2, <2>3, <2>4, <2>5 DEF RetryInv
<1> QED
  BY <1>1, <1>2, <1>3, <1>4, <1>5, <1>6, <1>7, <1>8, <1>9, <1>10 DEF RetryNext, RetryProceeds

LEMMA RetryStutters ==
  ASSUME RetryInv, UNCHANGED retryVars
  PROVE  RetryInv'
BY DEF retryVars, RetryInv, RetryShape, InfosInv, LoopInv, LateInv, RetryOutcome

\* A part that does not run keeps its first state.
RetryPartInv ==
  /\ part = "retry" => RetryInv
  /\ part # "retry" => retryPc = "loop" /\ lateCalls = 0

\* What the Result of a finished call says is what happened, whatever the policy and the
\* number of attempts, and however the context and the waits race: the attempts it lists
\* are the calls of fn, within the policy, with bounded waits, and a context that is done
\* lets one more attempt begin at most (retry.go:71-222).
THEOREM RetryResult == Spec => []RetryOutcome
<1>1. Init => RetryPartInv
  <2> SUFFICES ASSUME Init PROVE RetryPartInv
    OBVIOUS
  <2>1. RetryInit(InputsOf("retry", Policies))
    BY DEF Init
  <2>2. CASE part = "retry"
    BY <2>1, <2>2, RetryInitInv DEF InputsOf, RetryPartInv
  <2>3. CASE part # "retry"
    BY <2>1, <2>3 DEF RetryPartInv, RetryInit
  <2> QED
    BY <2>2, <2>3
<1>2. RetryPartInv /\ [Next]_servicesVars => RetryPartInv'
  <2> SUFFICES ASSUME RetryPartInv, [Next]_servicesVars PROVE RetryPartInv'
    OBVIOUS
  <2>1. part' = part /\ ((part = "retry" /\ RetryNext) \/ UNCHANGED retryVars)
    BY DEF Next, CreatorRuns, LedgerRuns, StoreRuns, TrackerRuns, RetryRuns, MetricsRun,
       servicesVars
  <2>2. CASE part = "retry"
    BY <2>1, <2>2, RetryKeeps, RetryStutters DEF RetryPartInv
  <2>3. CASE part # "retry"
    BY <2>1, <2>3 DEF RetryPartInv, retryVars
  <2> QED
    BY <2>2, <2>3
<1>3. RetryPartInv => RetryOutcome
  BY DEF RetryPartInv, RetryInv, RetryOutcome
<1> QED
  BY <1>1, <1>2, <1>3, PTL DEF Spec

(***************************************************************************)
(* The buffer's account.                                                   *)
(***************************************************************************)
LedgerShape ==
  /\ currentSize \in Int
  /\ at \in [Workers -> {"idle", "load", "swap"}]
  /\ wants \in [Workers -> Nat] /\ current \in [Workers -> Int]
  /\ reply \in [Workers -> {"none", "yes", "no"}]

\* A worker inside ReserveSpace has no answer yet, and one about to swap found room in
\* what it loaded.
LedgerInv ==
  /\ LedgerShape
  /\ \A w \in Workers : at[w] \in {"load", "swap"} => reply[w] = "none"
  /\ \A w \in Workers : at[w] = "swap" => current[w] + wants[w] <= MaxSize

LEMMA LedgerInitInv ==
  ASSUME LedgerInit
  PROVE  LedgerInv /\ Account!Init
BY DEF LedgerInit, LedgerInv, LedgerShape, Account!Init

\* Every step of the ledger keeps the invariant and is a step of the account, or none.
LEMMA LedgerKeeps ==
  ASSUME LedgerInv, LedgerNext
  PROVE  LedgerInv' /\ [Account!Next]_Account!accountVars
<1>0. LedgerShape /\ MaxSize \in Nat /\ Sizes \subseteq Nat
  BY LedgerAssumption DEF LedgerInv
<1>1. ASSUME NEW w \in Workers, ReserveSpace(w)
      PROVE  LedgerInv' /\ [Account!Next]_Account!accountVars
  <2>1. LedgerInv'
    BY <1>0, <1>1 DEF ReserveSpace, LedgerInv, LedgerShape
  <2>2. Account!Ask(w)
    BY <1>1 DEF ReserveSpace, Account!Ask
  <2> QED
    BY <2>1, <2>2 DEF Account!Next
<1>2. ASSUME NEW w \in Workers, ReservationLoads(w)
      PROVE  LedgerInv' /\ [Account!Next]_Account!accountVars
  <2>1. CASE currentSize + wants[w] > MaxSize
    <3>1. LedgerInv'
      BY <1>0, <1>2, <2>1 DEF ReservationLoads, LedgerInv, LedgerShape
    <3>2. ~Account!Fits(wants[w])
      BY <1>0, <2>1 DEF Account!Fits, LedgerShape
    <3>3. Account!Refuse(w)
      BY <1>2, <2>1, <3>2 DEF ReservationLoads, Account!Refuse, LedgerInv
    <3> QED
      BY <3>1, <3>3 DEF Account!Next
  <2>2. CASE ~(currentSize + wants[w] > MaxSize)
    <3>1. LedgerInv'
      BY <1>0, <1>2, <2>2 DEF ReservationLoads, LedgerInv, LedgerShape
    <3>2. UNCHANGED Account!accountVars
      BY <1>2, <2>2 DEF ReservationLoads, Account!accountVars
    <3> QED
      BY <3>1, <3>2
  <2> QED
    BY <2>1, <2>2
<1>3. ASSUME NEW w \in Workers, ReservationSwaps(w)
      PROVE  LedgerInv' /\ [Account!Next]_Account!accountVars
  <2>1. LedgerInv'
    BY <1>0, <1>3 DEF ReservationSwaps, LedgerInv, LedgerShape
  <2>2. Account!Fits(wants[w])
    BY <1>3 DEF ReservationSwaps, LedgerInv, Account!Fits
  <2>3. Account!Grant(w)
    BY <1>3, <2>2 DEF ReservationSwaps, Account!Grant, LedgerInv
  <2> QED
    BY <2>1, <2>3 DEF Account!Next
<1>4. ASSUME NEW w \in Workers, ReservationRetries(w)
      PROVE  LedgerInv' /\ [Account!Next]_Account!accountVars
  <2>1. LedgerInv'
    BY <1>0, <1>4 DEF ReservationRetries, LedgerInv, LedgerShape
  <2>2. UNCHANGED Account!accountVars
    BY <1>4 DEF ReservationRetries, Account!accountVars
  <2> QED
    BY <2>1, <2>2
<1>5. ASSUME NEW w \in Workers, ReleaseSpace(w)
      PROVE  LedgerInv' /\ [Account!Next]_Account!accountVars
  <2>1. LedgerInv'
    BY <1>0, <1>5 DEF ReleaseSpace, LedgerInv, LedgerShape
  <2>2. Account!Release
    BY <1>5 DEF ReleaseSpace, Account!Release
  <2> QED
    BY <2>1, <2>2 DEF Account!Next
<1>6. CASE LedgerCleanup
  <2>1. LedgerInv'
    BY <1>0, <1>6 DEF LedgerCleanup, LedgerInv, LedgerShape
  <2>2. Account!Empty
    BY <1>6 DEF LedgerCleanup, Account!Empty
  <2> QED
    BY <2>1, <2>2 DEF Account!Next
<1> QED
  BY <1>1, <1>2, <1>3, <1>4, <1>5, <1>6 DEF LedgerNext

LEMMA LedgerStutters ==
  ASSUME LedgerInv, UNCHANGED ledgerVars
  PROVE  LedgerInv' /\ UNCHANGED Account!accountVars
<1>1. LedgerInv'
  BY DEF ledgerVars, LedgerInv, LedgerShape
<1>2. UNCHANGED Account!accountVars
  BY DEF ledgerVars, Account!accountVars
<1> QED
  BY <1>1, <1>2

\* Reservations that race with each other, with releases of any size and with Cleanup are
\* booked exactly if they fit in currentSize at one moment, and no update of it is lost,
\* for any number of workers and any sizes (buffer.go:55-75).
THEOREM LedgerRefines == Spec => LedgerImplementsAccount
<1>1. Init => LedgerInv /\ Account!Init
  BY LedgerInitInv DEF Init
<1>2. LedgerInv /\ [Next]_servicesVars => LedgerInv' /\ [Account!Next]_Account!accountVars
  <2> SUFFICES ASSUME LedgerInv, [Next]_servicesVars
               PROVE  LedgerInv' /\ [Account!Next]_Account!accountVars
    OBVIOUS
  <2>1. LedgerNext \/ UNCHANGED ledgerVars
    BY DEF Next, CreatorRuns, LedgerRuns, StoreRuns, TrackerRuns, RetryRuns, MetricsRun,
       servicesVars
  <2>2. CASE LedgerNext
    BY <2>2, LedgerKeeps
  <2>3. CASE UNCHANGED ledgerVars
    BY <2>3, LedgerStutters
  <2> QED
    BY <2>1, <2>2, <2>3
<1> QED
  BY <1>1, <1>2, PTL DEF Spec, LedgerImplementsAccount, Account!Spec
-----------------------------------------------------------------------------
(***************************************************************************)
(* The manifest creator.  Its loops are folds; each is given here as the   *)
(* run of its loop, from the state before it to the one after the last     *)
(* element.                                                                *)
(***************************************************************************)
Sized == {i \in DOMAIN listing : listing[i] >= 0}

Entries == {Listed(i) : i \in Sized}

\* The loop over find's lines.
LEMMA ScanRuns ==
  ASSUME listing \in Listings, TooLong \notin Range(listing)
  PROVE  \E run : /\ run[0] = <<>>
                  /\ \A k \in 1..Len(listing) : run[k] = ScanLine(run[k - 1], k)
                  /\ FoldLeftDomain(ScanLine, <<>>, listing) = run[Len(listing)]
<1> DEFINE n == Len(listing)
           lines == [i \in DOMAIN listing |-> i]
           A == Seq(Entries)
           Step(g) == [s \in SUBSET DOMAIN lines |->
                         IF s = {} THEN <<>>
                         ELSE ScanLine(g[s \ {Greatest(s)}], lines[Greatest(s)])]
           table == CHOOSE g : g = Step(g)
           step == [i \in 1..n |-> [a \in A |-> ScanLine(a, i)]]
<1>1. FoldLeftDomain(ScanLine, <<>>, listing) = table[DOMAIN lines]
  BY Zenon DEF FoldLeftDomain, FoldLeft, MapThenFoldSet, Max, Greatest
<1>2. n \in Nat /\ DOMAIN listing = 1..n /\ DOMAIN lines = 1..n
  BY CreatorAssumption
<1>3. \A i \in 1..n : Listable(i) => i \in Sized
  BY <1>2, CreatorAssumption DEF Listable, Sized, Range
<1>4. step \in [1..n -> [A -> A]]
  <2>1. ASSUME NEW i \in 1..n, NEW a \in A PROVE ScanLine(a, i) \in A
    BY <1>3, AppendProperties DEF ScanLine, Entries
  <2> QED
    BY <2>1
<1>5. \E g : g = Step(g)
  <2>1. PICK g \in [SUBSET (1..n) -> A] : g = FoldStep(n, <<>>, step, g)
    <3>1. <<>> \in A
      OBVIOUS
    <3> HIDE DEF step, A
    <3> HIDE DEF n
    <3>2. FoldSolvable(A, <<>>, step, n)
      BY <1>2, <1>4, <3>1, FoldTableExists
    <3> QED
      BY <3>2, Zenon DEF FoldSolvable
  <2>2. ASSUME NEW s \in SUBSET (1..n), s # {}
        PROVE  step[Greatest(s)][g[s \ {Greatest(s)}]]
                 = ScanLine(g[s \ {Greatest(s)}], lines[Greatest(s)])
    <3>1. Greatest(s) \in 1..n
      BY <1>2, <2>2, GreatestInside
    <3> QED
      BY <1>2, <2>1, <3>1
  <2>3. g = Step(g)
    <3> HIDE DEF step, lines, A
    <3> QED
      BY <1>2, <2>1, <2>2, Zenon DEF FoldStep
  <2> QED
    BY <2>3, Zenon
<1>6. table = Step(table)
  BY <1>5, Zenon
<1> DEFINE run == [k \in 0..n |-> table[1..k]]
<1> HIDE DEF table
<1>7. run[0] = <<>>
  <2>1. 1..0 = {}
    OBVIOUS
  <2> QED
    BY <1>2, <1>6, <2>1
<1>8. ASSUME NEW k \in 1..n PROVE run[k] = ScanLine(run[k - 1], k)
  <2>1. Greatest(1..k) = k /\ (1..k) \ {k} = 1..(k - 1) /\ 1..k # {}
    BY <1>2, PrefixTop, Zenon
  <2>2. 1..k \in SUBSET DOMAIN lines /\ lines[k] = k /\ k - 1 \in 0..n
    BY <1>2
  <2> HIDE DEF lines
  <2>3. table[1..k] = ScanLine(table[1..(k - 1)], k)
    <3>1. table[1..k]
            = ScanLine(table[(1..k) \ {Greatest(1..k)}], lines[Greatest(1..k)])
      BY <1>6, <2>1, <2>2
    <3> QED
      BY <2>1, <2>2, <3>1, Zenon
  <2> HIDE DEF Step
  <2> QED
    BY <1>2, <2>2, <2>3
<1>9. run[n] = table[DOMAIN lines]
  BY <1>2
<1> QED
  BY <1>1, <1>7, <1>8, <1>9, Zenon

\* What the packing is made of, and what one more file makes of it.
Batch == [files : Seq(Nat), size : Nat]
Packings == Seq(Batch) \ {<<>>}
IsFile(file) == file.name \in Nat /\ file.size \in Nat

LEMMA PackFileMakes ==
  ASSUME NEW packed \in Packings, NEW file, IsFile(file)
  PROVE  LET q == PackFile(packed, file)
             n == Len(packed)
         IN  /\ n \in Nat \ {0} /\ packed[n] \in Batch /\ q \in Packings
             /\ Exceeds(packed[n], file) =>
                  q = Append(packed, PutFile(EmptyBatch, file))
             /\ ~Exceeds(packed[n], file) =>
                  q = Append(SubSeq(packed, 1, n - 1), PutFile(packed[n], file))
             /\ PutFile(EmptyBatch, file) \in Batch /\ PutFile(packed[n], file) \in Batch
<1> DEFINE n == Len(packed)
<1>1. n \in Nat \ {0} /\ packed[n] \in Batch
  BY EmptySeq, LenProperties DEF Packings
<1>2. ASSUME NEW b \in Batch PROVE PutFile(b, file) \in Batch
  <2>1. Append(b.files, file.name) \in Seq(Nat) /\ b.size + file.size \in Nat
    BY DEF Batch, IsFile
  <2> QED
    BY <2>1 DEF PutFile, Batch
<1>3. EmptyBatch \in Batch
  BY DEF EmptyBatch, Batch
<1>4. SubSeq(packed, 1, n - 1) \in Seq(Batch)
  BY <1>1 DEF Packings
<1>5. \A ps \in Seq(Batch), b \in Batch : Append(ps, b) \in Packings
  BY AppendProperties DEF Packings
<1>6. PackFile(packed, file) = IF Exceeds(packed[n], file)
                               THEN Append(packed, PutFile(EmptyBatch, file))
                               ELSE Append(SubSeq(packed, 1, n - 1), PutFile(packed[n], file))
  BY Zenon DEF PackFile, Last, Front
<1>7. PackFile(packed, file) \in Packings
  <2>1. packed \in Seq(Batch)
    BY DEF Packings
  <2>2. PutFile(EmptyBatch, file) \in Batch /\ PutFile(packed[n], file) \in Batch
    BY <1>1, <1>2, <1>3
  <2> HIDE DEF n
  <2> QED
    BY <1>4, <1>5, <1>6, <2>1, <2>2, Zenon
<1> QED
  BY <1>1, <1>2, <1>3, <1>6, <1>7, Zenon

\* The loop of binPackFiles.
LEMMA PackRuns ==
  ASSUME NEW fs, NEW F, fs \in Seq(F), \A file \in F : IsFile(file)
  PROVE  \E run : /\ run[0] = <<EmptyBatch>>
                  /\ \A k \in 1..Len(fs) : run[k] = PackFile(run[k - 1], fs[k])
                  /\ FoldLeft(PackFile, <<EmptyBatch>>, fs) = run[Len(fs)]
<1> DEFINE n == Len(fs)
           A == Packings
           Step(g) == [s \in SUBSET DOMAIN fs |->
                         IF s = {} THEN <<EmptyBatch>>
                         ELSE PackFile(g[s \ {Greatest(s)}], fs[Greatest(s)])]
           table == CHOOSE g : g = Step(g)
           step == [i \in 1..n |-> [a \in A |-> PackFile(a, fs[i])]]
<1>1. FoldLeft(PackFile, <<EmptyBatch>>, fs) = table[DOMAIN fs]
  BY Zenon DEF FoldLeft, MapThenFoldSet, Max, Greatest
<1>2. n \in Nat /\ DOMAIN fs = 1..n
  OBVIOUS
<1>4. step \in [1..n -> [A -> A]]
  <2>1. ASSUME NEW i \in 1..n, NEW a \in A PROVE PackFile(a, fs[i]) \in A
    BY <1>2, PackFileMakes
  <2> QED
    BY <2>1
<1>5. \E g : g = Step(g)
  <2>1. PICK g \in [SUBSET (1..n) -> A] : g = FoldStep(n, <<EmptyBatch>>, step, g)
    <3>1. <<EmptyBatch>> \in A
      BY DEF Packings, Batch, EmptyBatch
    <3> HIDE DEF step, A
    <3> HIDE DEF n
    <3>2. FoldSolvable(A, <<EmptyBatch>>, step, n)
      BY <1>2, <1>4, <3>1, FoldTableExists
    <3> QED
      BY <3>2, Zenon DEF FoldSolvable
  <2>2. ASSUME NEW s \in SUBSET (1..n), s # {}
        PROVE  step[Greatest(s)][g[s \ {Greatest(s)}]]
                 = PackFile(g[s \ {Greatest(s)}], fs[Greatest(s)])
    <3>1. Greatest(s) \in 1..n
      BY <1>2, <2>2, GreatestInside
    <3> QED
      BY <1>2, <2>1, <3>1
  <2>3. g = Step(g)
    <3> HIDE DEF step, A
    <3> QED
      BY <1>2, <2>1, <2>2, Zenon DEF FoldStep
  <2> QED
    BY <2>3, Zenon
<1>6. table = Step(table)
  BY <1>5, Zenon
<1> DEFINE run == [k \in 0..n |-> table[1..k]]
<1> HIDE DEF table
<1>7. run[0] = <<EmptyBatch>>
  <2>1. 1..0 = {}
    OBVIOUS
  <2> QED
    BY <1>2, <1>6, <2>1
<1>8. ASSUME NEW k \in 1..n PROVE run[k] = PackFile(run[k - 1], fs[k])
  <2>1. Greatest(1..k) = k /\ (1..k) \ {k} = 1..(k - 1) /\ 1..k # {}
    BY <1>2, PrefixTop, Zenon
  <2>2. 1..k \in SUBSET DOMAIN fs /\ k - 1 \in 0..n
    BY <1>2
  <2>3. table[1..k] = PackFile(table[1..(k - 1)], fs[k])
    <3>1. table[1..k]
            = PackFile(table[(1..k) \ {Greatest(1..k)}], fs[Greatest(1..k)])
      BY <1>6, <2>1, <2>2
    <3> QED
      BY <2>1, <2>2, <3>1, Zenon
  <2> HIDE DEF Step
  <2> QED
    BY <1>2, <2>2, <2>3
<1>9. run[n] = table[DOMAIN fs]
  BY <1>2
<1> QED
  BY <1>1, <1>7, <1>8, <1>9, Zenon

\* The sizes of files, added up in the order of their names.
TotalOf(sizes, names) == FoldLeft(LAMBDA sum, i : sum + sizes[i], 0, names)

Total(names) == TotalOf(listing, names)

LEMMA TotalRuns ==
  ASSUME NEW ns \in Seq(Nat), \A k \in 1..Len(ns) : listing[ns[k]] \in Nat
  PROVE  \E run : /\ run[0] = 0
                  /\ \A k \in 1..Len(ns) : run[k] = run[k - 1] + listing[ns[k]]
                  /\ Total(ns) = run[Len(ns)]
<1> DEFINE n == Len(ns)
           A == Int
           Step(g) == [s \in SUBSET DOMAIN ns |->
                         IF s = {} THEN 0
                         ELSE g[s \ {Greatest(s)}] + listing[ns[Greatest(s)]]]
           table == CHOOSE g : g = Step(g)
           step == [i \in 1..n |-> [a \in A |-> a + listing[ns[i]]]]
<1>1. Total(ns) = table[DOMAIN ns]
  BY Zenon DEF Total, TotalOf, FoldLeft, MapThenFoldSet, Max, Greatest
<1>2. n \in Nat /\ DOMAIN ns = 1..n
  OBVIOUS
<1>4. step \in [1..n -> [A -> A]]
  <2>1. ASSUME NEW i \in 1..n, NEW a \in A PROVE a + listing[ns[i]] \in A
    BY <1>2
  <2> QED
    BY <2>1
<1>5. \E g : g = Step(g)
  <2>1. PICK g \in [SUBSET (1..n) -> A] : g = FoldStep(n, 0, step, g)
    <3>1. 0 \in A
      OBVIOUS
    <3> HIDE DEF step, A
    <3> HIDE DEF n
    <3>2. FoldSolvable(A, 0, step, n)
      BY <1>2, <1>4, <3>1, FoldTableExists
    <3> QED
      BY <3>2, Zenon DEF FoldSolvable
  <2>2. ASSUME NEW s \in SUBSET (1..n), s # {}
        PROVE  step[Greatest(s)][g[s \ {Greatest(s)}]]
                 = g[s \ {Greatest(s)}] + listing[ns[Greatest(s)]]
    <3>1. Greatest(s) \in 1..n
      BY <1>2, <2>2, GreatestInside
    <3> QED
      BY <1>2, <2>1, <3>1
  <2>3. g = Step(g)
    <3> HIDE DEF step, A
    <3> QED
      BY <1>2, <2>1, <2>2, Zenon DEF FoldStep
  <2> QED
    BY <2>3, Zenon
<1>6. table = Step(table)
  BY <1>5, Zenon
<1> DEFINE run == [k \in 0..n |-> table[1..k]]
<1> HIDE DEF table
<1>7. run[0] = 0
  <2>1. 1..0 = {}
    OBVIOUS
  <2> QED
    BY <1>2, <1>6, <2>1
<1>8. ASSUME NEW k \in 1..n PROVE run[k] = run[k - 1] + listing[ns[k]]
  <2>1. Greatest(1..k) = k /\ (1..k) \ {k} = 1..(k - 1) /\ 1..k # {}
    BY <1>2, PrefixTop, Zenon
  <2>2. 1..k \in SUBSET DOMAIN ns /\ k - 1 \in 0..n
    BY <1>2
  <2>3. table[1..k] = table[1..(k - 1)] + listing[ns[k]]
    <3>1. table[1..k]
            = table[(1..k) \ {Greatest(1..k)}] + listing[ns[Greatest(1..k)]]
      BY <1>6, <2>1, <2>2
    <3> QED
      BY <2>1, <2>2, <3>1, Zenon
  <2> HIDE DEF Step
  <2> QED
    BY <1>2, <2>2, <2>3
<1>9. run[n] = table[DOMAIN ns]
  BY <1>2
<1> QED
  BY <1>1, <1>7, <1>8, <1>9, Zenon

\* One sequence after the other.
LEMMA FlattenRuns ==
  ASSUME NEW X, NEW ss \in Seq(Seq(X))
  PROVE  \E run : /\ run[0] = <<>>
                  /\ \A k \in 1..Len(ss) : run[k] = run[k - 1] \o ss[k]
                  /\ FlattenSeq(ss) = run[Len(ss)]
<1> DEFINE n == Len(ss)
           A == Seq(X)
           Step(g) == [i \in 1..n |-> IF i = 1 THEN ss[i] ELSE g[i - 1] \o ss[i]]
           flatten == CHOOSE g : g = Step(g)
           step == [i \in 1..n |-> [a \in A |-> a \o ss[i]]]
           run == [k \in 0..n |-> IF k = 0 THEN <<>> ELSE flatten[k]]
<1>1. FlattenSeq(ss) = IF n = 0 THEN ss ELSE flatten[n]
  BY Zenon DEF FlattenSeq
<1>2. n \in Nat /\ DOMAIN ss = 1..n /\ <<>> \in A /\ (n = 0 => ss = <<>>)
  BY EmptySeq
<1>3. \E g : g = Step(g)
  <2>1. step \in [1..n -> [A -> A]]
    <3>1. ASSUME NEW i \in 1..n, NEW a \in A PROVE a \o ss[i] \in A
      BY ConcatProperties
    <3> QED
      BY <3>1
  <2>2. PICK t \in [SUBSET (1..n) -> A] : t = FoldStep(n, <<>>, step, t)
    <3> HIDE DEF step, A, n
    <3>1. FoldSolvable(A, <<>>, step, n)
      BY <1>2, <2>1, FoldTableExists
    <3> QED
      BY <3>1, Zenon DEF FoldSolvable
  <2>3. t[{}] = <<>>
    BY <2>2 DEF FoldStep
  <2>4. ASSUME NEW k \in 1..n PROVE t[1..k] = t[1..(k - 1)] \o ss[k]
    <3>1. Greatest(1..k) = k /\ (1..k) \ {k} = 1..(k - 1) /\ 1..k # {}
      BY <1>2, PrefixTop, Zenon
    <3>2. 1..k \in SUBSET (1..n) /\ 1..(k - 1) \in SUBSET (1..n)
      BY <1>2
    <3>3. t[1..k] = step[Greatest(1..k)][t[(1..k) \ {Greatest(1..k)}]]
      <4> HIDE DEF step, A, n
      <4> QED
        BY <2>2, <3>1, <3>2 DEF FoldStep
    <3>4. t[1..k] = step[k][t[1..(k - 1)]]
      BY <3>1, <3>3, Zenon
    <3> QED
      BY <2>2, <3>2, <3>4
  <2> DEFINE g == [i \in 1..n |-> t[1..i]]
  <2>5. ASSUME NEW i \in 1..n
        PROVE  g[i] = IF i = 1 THEN ss[i] ELSE g[i - 1] \o ss[i]
    <3>1. CASE i = 1
      <4>1. 1..(i - 1) = {}
        BY <3>1
      <4>2. t[1..i] = <<>> \o ss[i]
        BY <2>3, <2>4, <4>1, Zenon
      <4>3. ss[i] \in Seq(X)
        OBVIOUS
      <4> QED
        BY <3>1, <4>2, <4>3, ConcatEmptySeq
    <3>2. CASE i # 1
      <4>1. i - 1 \in 1..n
        BY <1>2, <3>2
      <4> QED
        BY <2>4, <3>2, <4>1
    <3> QED
      BY <3>1, <3>2
  <2>6. g = Step(g)
    <3> HIDE DEF n
    <3>1. g = [i \in 1..n |-> g[i]]
      OBVIOUS
    <3> HIDE DEF g
    <3> QED
      BY <2>5, <3>1, Zenon
  <2> QED
    BY <2>6, Zenon
<1>4. flatten = Step(flatten)
  BY <1>3, Zenon
<1> HIDE DEF flatten
<1>5. ASSUME NEW k \in 1..n PROVE run[k] = run[k - 1] \o ss[k]
  <2>1. flatten[k] = IF k = 1 THEN ss[k] ELSE flatten[k - 1] \o ss[k]
    BY <1>4
  <2>2. <<>> \o ss[k] = ss[k]
    BY ConcatEmptySeq
  <2>3. k - 1 \in 0..n /\ k \in 0..n /\ k # 0 /\ (k - 1 = 0 <=> k = 1)
    BY <1>2
  <2> HIDE DEF n
  <2> QED
    BY <2>1, <2>2, <2>3
<1>6. run[0] = <<>> /\ run[n] = FlattenSeq(ss)
  BY <1>1, <1>2
<1> QED
  BY <1>5, <1>6, Zenon

\* What comes last in a concatenation was concatenated last.
LEMMA FlattenAppend ==
  ASSUME NEW X, NEW ss \in Seq(Seq(X)), NEW s \in Seq(X)
  PROVE  /\ FlattenSeq(ss) \in Seq(X)
         /\ FlattenSeq(Append(ss, s)) = FlattenSeq(ss) \o s
<1> DEFINE n == Len(ss)
           longer == Append(ss, s)
<1>1. /\ n \in Nat /\ longer \in Seq(Seq(X)) /\ Len(longer) = n + 1
      /\ longer[n + 1] = s /\ \A k \in 1..n : longer[k] = ss[k] /\ ss[k] \in Seq(X)
  BY AppendProperties
<1>2. PICK r : /\ r[0] = <<>>
               /\ \A k \in 1..Len(ss) : r[k] = r[k - 1] \o ss[k]
               /\ FlattenSeq(ss) = r[Len(ss)]
  BY FlattenRuns
<1> HIDE DEF longer
<1>3. PICK q : /\ q[0] = <<>>
               /\ \A k \in 1..Len(longer) : q[k] = q[k - 1] \o longer[k]
               /\ FlattenSeq(longer) = q[Len(longer)]
  BY <1>1, FlattenRuns
<1> DEFINE T == {k \in Nat : k <= n => q[k] = r[k] /\ r[k] \in Seq(X)}
<1>4. 0 \in T
  <2>1. <<>> \in Seq(X)
    BY EmptySeq
  <2>2. q[0] = r[0] /\ r[0] \in Seq(X)
    BY <1>2, <1>3, <2>1, Zenon
  <2> QED
    BY <2>2
<1>5. ASSUME NEW k \in T PROVE k + 1 \in T
  <2>1. CASE k + 1 <= n
    <3>1. k + 1 \in 1..n /\ k + 1 \in 1..Len(longer) /\ (k + 1) - 1 = k /\ k <= n
      BY <1>1, <2>1
    <3>2. r[k + 1] = r[k] \o ss[k + 1] /\ q[k + 1] = q[k] \o ss[k + 1]
      BY <1>1, <1>2, <1>3, <3>1
    <3>3. r[k] \in Seq(X) /\ q[k] = r[k] /\ ss[k + 1] \in Seq(X)
      BY <1>1, <3>1
    <3>4. r[k] \o ss[k + 1] \in Seq(X)
      BY <3>3, ConcatProperties
    <3>5. r[k + 1] \in Seq(X) /\ q[k + 1] = r[k + 1]
      BY <3>2, <3>3, <3>4, Zenon
    <3> QED
      BY <3>5
  <2>2. CASE ~(k + 1 <= n)
    BY <2>2
  <2> QED
    BY <2>1, <2>2
<1>6. q[n] = r[n] /\ r[n] \in Seq(X)
  <2> HIDE DEF T
  <2>1. T \in SUBSET Nat
    BY DEF T
  <2>2. n \in T
    BY <1>1, <1>4, <1>5, <2>1, AllNaturals
  <2> QED
    BY <1>1, <2>2 DEF T
<1>7. q[n + 1] = q[n] \o s
  <2>1. n + 1 \in 1..Len(longer) /\ (n + 1) - 1 = n
    BY <1>1
  <2> QED
    BY <1>1, <1>3, <2>1
<1> QED
  BY <1>1, <1>2, <1>3, <1>6, <1>7, Zenon DEF longer

\* What is counted last is added last.
LEMMA TotalAppend ==
  ASSUME NEW ns \in Seq(Nat), NEW x \in Nat, listing[x] \in Nat,
         \A k \in 1..Len(ns) : listing[ns[k]] \in Nat
  PROVE  Total(ns) \in Nat /\ Total(Append(ns, x)) = Total(ns) + listing[x]
<1> DEFINE n == Len(ns)
           longer == Append(ns, x)
<1>1. /\ n \in Nat /\ longer \in Seq(Nat) /\ Len(longer) = n + 1
      /\ longer[n + 1] = x /\ \A k \in 1..n : longer[k] = ns[k]
  BY AppendProperties
<1>2. PICK r : /\ r[0] = 0
               /\ \A k \in 1..Len(ns) : r[k] = r[k - 1] + listing[ns[k]]
               /\ Total(ns) = r[Len(ns)]
  BY TotalRuns
<1>3. \A k \in 1..Len(longer) : listing[longer[k]] \in Nat
  <2>1. \A k \in 1..Len(longer) : k \in 1..n \/ k = n + 1
    BY <1>1
  <2> QED
    BY <1>1, <2>1
<1> HIDE DEF longer
<1>4. PICK q : /\ q[0] = 0
               /\ \A k \in 1..Len(longer) : q[k] = q[k - 1] + listing[longer[k]]
               /\ Total(longer) = q[Len(longer)]
  BY <1>1, <1>3, TotalRuns
<1> DEFINE T == {k \in Nat : k <= n => q[k] = r[k] /\ r[k] \in Nat}
<1>5. 0 \in T
  BY <1>2, <1>4
<1>6. ASSUME NEW k \in T PROVE k + 1 \in T
  <2>1. CASE k + 1 <= n
    <3>1. k + 1 \in 1..n /\ k + 1 \in 1..Len(longer) /\ (k + 1) - 1 = k /\ k <= n
      BY <1>1, <2>1
    <3>2. /\ r[k + 1] = r[k] + listing[ns[k + 1]]
          /\ q[k + 1] = q[k] + listing[ns[k + 1]]
      BY <1>1, <1>2, <1>4, <3>1
    <3>3. r[k] \in Nat /\ q[k] = r[k] /\ listing[ns[k + 1]] \in Nat
      BY <1>1, <3>1
    <3> QED
      BY <3>2, <3>3
  <2>2. CASE ~(k + 1 <= n)
    BY <2>2
  <2> QED
    BY <2>1, <2>2
<1>7. q[n] = r[n] /\ r[n] \in Nat
  <2> HIDE DEF T
  <2>1. T \in SUBSET Nat
    BY DEF T
  <2>2. n \in T
    BY <1>1, <1>5, <1>6, <2>1, AllNaturals
  <2> QED
    BY <1>1, <2>2 DEF T
<1>8. q[n + 1] = q[n] + listing[x]
  <2>1. n + 1 \in 1..Len(longer) /\ (n + 1) - 1 = n
    BY <1>1
  <2> QED
    BY <1>1, <1>4, <2>1
<1> QED
  BY <1>1, <1>2, <1>4, <1>7, <1>8, Zenon DEF longer

\* The files found in the first k lines.
FoundUpTo(fs, k) ==
  /\ fs \in Seq(Entries)
  /\ \A j \in 1..Len(fs) : fs[j].name \in Sized /\ fs[j].name <= k
  /\ \A i \in Sized : i <= k => \E j \in 1..Len(fs) : fs[j].name = i
  /\ \A j, l \in 1..Len(fs) : j < l => fs[j].name < fs[l].name

\* An entry has the number and the size of its line.
LEMMA EntryParts ==
  ASSUME listing \in Listings
  PROVE  /\ \A i \in Sized : i \in Nat /\ listing[i] \in Nat /\ Listed(i) \in Entries
         /\ \A i : Listed(i).name = i /\ Listed(i).size = listing[i]
         /\ \A e \in Entries : /\ e.name \in Sized /\ e.size = listing[e.name]
                               /\ e.name \in Nat /\ IsFile(e)
<1>1. \A i \in Sized : i \in Nat /\ listing[i] \in Nat
  BY CreatorAssumption DEF Sized, NoSpace, NoNumber, DotOnly, TooLong
<1>2. \A i : Listed(i).name = i /\ Listed(i).size = listing[i]
  BY DEF Listed
<1>3. ASSUME NEW e \in Entries
      PROVE  e.name \in Sized /\ e.size = listing[e.name] /\ e.name \in Nat /\ IsFile(e)
  <2>1. PICK i \in Sized : e = Listed(i)
    BY DEF Entries
  <2>2. e.name = i /\ e.size = listing[i]
    BY <1>2, <2>1
  <2> QED
    BY <1>1, <2>2 DEF IsFile
<1> QED
  BY <1>1, <1>2, <1>3, Zenon DEF Entries

\* One more line.
LEMMA ScanLineFinds ==
  ASSUME listing \in Listings, TooLong \notin Range(listing),
         NEW k \in Nat, k + 1 \in DOMAIN listing, NEW fs, FoundUpTo(fs, k)
  PROVE  FoundUpTo(ScanLine(fs, k + 1), k + 1)
<1> DEFINE n == Len(fs)
           e == Listed(k + 1)
<1>1. Listable(k + 1) <=> k + 1 \in Sized
  BY CreatorAssumption DEF Listable, Sized, Range, NoSpace, NoNumber, DotOnly, TooLong
<1>2. \A i \in Sized : i \in Nat
  BY EntryParts
<1>3. n \in Nat /\ fs \in Seq(Entries)
  BY DEF FoundUpTo
<1>4. CASE ~Listable(k + 1)
  <2>1. \A i \in Sized : i <= k + 1 => i <= k
    BY <1>1, <1>2, <1>4
  <2>2. \A i \in Nat : i <= k => i <= k + 1
    OBVIOUS
  <2> QED
    BY <1>2, <1>4, <2>1, <2>2 DEF FoundUpTo, ScanLine
<1>5. CASE Listable(k + 1)
  <2> DEFINE more == Append(fs, e)
  <2>1. e \in Entries /\ e.name = k + 1 /\ k + 1 \in Sized
    BY <1>1, <1>5, EntryParts
  <2> HIDE DEF e
  <2>2. /\ more \in Seq(Entries) /\ Len(more) = n + 1 /\ more[n + 1] = e
        /\ \A j \in 1..n : more[j] = fs[j]
    BY <1>3, <2>1, AppendProperties
  <2> HIDE DEF more
  <2>3. \A j \in 1..Len(more) : j \in 1..n \/ j = n + 1
    BY <1>3, <2>2
  <2>4. \A j \in 1..n : more[j].name \in Sized /\ more[j].name \in Nat /\ more[j].name <= k
    BY <1>2, <2>2 DEF FoundUpTo
  <2>5. more[n + 1].name = k + 1
    BY <2>1, <2>2
  <2>6. \A j \in 1..Len(more) : more[j].name \in Sized /\ more[j].name <= k + 1
    BY <2>1, <2>3, <2>4, <2>5
  <2>7. ASSUME NEW i \in Sized, i <= k + 1
        PROVE  \E j \in 1..Len(more) : more[j].name = i
    <3>1. CASE i = k + 1
      BY <1>3, <2>2, <2>5, <3>1
    <3>2. CASE i # k + 1
      <4>1. i <= k
        BY <1>2, <2>7, <3>2
      <4>2. PICK j \in 1..n : fs[j].name = i
        BY <4>1 DEF FoundUpTo
      <4>3. j \in 1..Len(more) /\ more[j].name = i
        BY <1>3, <2>2, <4>2
      <4> QED
        BY <4>3
    <3> QED
      BY <3>1, <3>2
  <2>8. ASSUME NEW j \in 1..Len(more), NEW l \in 1..Len(more), j < l
        PROVE  more[j].name < more[l].name
    <3>1. j \in 1..n
      BY <1>3, <2>2, <2>8
    <3>2. CASE l \in 1..n
      BY <2>2, <2>8, <3>1, <3>2 DEF FoundUpTo
    <3>3. CASE l = n + 1
      BY <2>4, <2>5, <3>1, <3>3
    <3> QED
      BY <2>3, <3>2, <3>3
  <2>9. ScanLine(fs, k + 1) = more
    BY <1>5 DEF ScanLine, more, e
  <2> QED
    BY <2>2, <2>6, <2>7, <2>8, <2>9 DEF FoundUpTo
<1> QED
  BY <1>4, <1>5

\* All lines.
LEMMA ScanFinds ==
  ASSUME listing \in Listings, TooLong \notin Range(listing)
  PROVE  FoundUpTo(FoldLeftDomain(ScanLine, <<>>, listing), Len(listing))
<1> DEFINE n == Len(listing)
<1>1. n \in Nat /\ DOMAIN listing = 1..n
  BY CreatorAssumption
<1>2. PICK run : /\ run[0] = <<>>
                 /\ \A k \in 1..n : run[k] = ScanLine(run[k - 1], k)
                 /\ FoldLeftDomain(ScanLine, <<>>, listing) = run[n]
  BY ScanRuns
<1> DEFINE T == {k \in Nat : k <= n => FoundUpTo(run[k], k)}
<1>3. 0 \in T
  <2>1. FoundUpTo(<<>>, 0)
    <3>1. \A i \in Sized : i \in Nat /\ i >= 1
      BY <1>1 DEF Sized
    <3>2. Len(<<>>) = 0 /\ <<>> \in Seq(Entries)
      OBVIOUS
    <3> QED
      BY <3>1, <3>2 DEF FoundUpTo
  <2> QED
    BY <1>2, <2>1
<1>4. ASSUME NEW k \in T PROVE k + 1 \in T
  <2>1. CASE k + 1 <= n
    <3>1. k + 1 \in DOMAIN listing /\ (k + 1) - 1 = k /\ k <= n
      BY <1>1, <2>1
    <3>2. run[k + 1] = ScanLine(run[k], k + 1)
      BY <1>1, <1>2, <3>1
    <3>3. FoundUpTo(run[k + 1], k + 1)
      BY <3>1, <3>2, ScanLineFinds
    <3> QED
      BY <3>3
  <2>2. CASE ~(k + 1 <= n)
    BY <2>2
  <2> QED
    BY <2>1, <2>2
<1>5. FoundUpTo(run[n], n)
  <2> HIDE DEF T
  <2>1. T \in SUBSET Nat
    BY DEF T
  <2>2. n \in T
    BY <1>1, <1>3, <1>4, <2>1, AllNaturals
  <2> QED
    BY <1>1, <2>2 DEF T
<1> QED
  BY <1>2, <1>5

\* A batch has files of the listing, their size, and is over the limit only by its last.
BatchFine(b) ==
  /\ b \in Batch
  /\ \A k \in 1..Len(b.files) : b.files[k] \in Sized
  /\ b.size = Total(b.files)
  /\ b.size > ChunkSize =>
       Len(b.files) > 0 /\ listing[b.files[Len(b.files)]] = b.size

LEMMA TotalOfNone == Total(<<>>) = 0
<1>1. PICK run : run[0] = 0 /\ Total(<<>>) = run[Len(<<>>)]
  <2>1. <<>> \in Seq(Nat) /\ \A k \in 1..Len(<<>>) : listing[<<>>[k]] \in Nat
    OBVIOUS
  <2> QED
    BY <2>1, TotalRuns
<1> QED
  BY <1>1

LEMMA EmptyFine == BatchFine(EmptyBatch)
BY TotalOfNone, CreatorAssumption DEF BatchFine, EmptyBatch, Batch

\* A file put where it does not exceed the limit, or alone.
LEMMA PutFine ==
  ASSUME listing \in Listings, NEW b, BatchFine(b), NEW file \in Entries, ~Exceeds(b, file)
  PROVE  LET q == PutFile(b, file)
         IN  /\ BatchFine(q) /\ q.files = Append(b.files, file.name)
             /\ q.size = b.size + file.size
             /\ Len(q.files) = Len(b.files) + 1
             /\ q.files[1] = IF Len(b.files) = 0 THEN file.name ELSE b.files[1]
<1> DEFINE q == PutFile(b, file)
           n == Len(b.files)
<1>1. /\ file.name \in Sized /\ file.size = listing[file.name]
      /\ file.name \in Nat /\ file.size \in Nat
      /\ \A i \in Sized : listing[i] \in Nat
  BY EntryParts DEF IsFile
<1>2. q.files = Append(b.files, file.name) /\ q.size = b.size + file.size
  BY DEF PutFile
<1>3. b.files \in Seq(Nat) /\ b.size \in Nat /\ n \in Nat
  BY DEF BatchFine, Batch
<1>4. /\ q.files \in Seq(Nat) /\ Len(q.files) = n + 1 /\ q.files[n + 1] = file.name
      /\ \A k \in 1..n : q.files[k] = b.files[k]
  BY <1>1, <1>2, <1>3, AppendProperties
<1>5. q \in Batch
  BY <1>1, <1>2, <1>3, <1>4 DEF PutFile, Batch
<1> HIDE DEF q
<1>6. \A k \in 1..Len(q.files) : q.files[k] \in Sized
  <2>1. \A k \in 1..Len(q.files) : k \in 1..n \/ k = n + 1
    BY <1>3, <1>4
  <2> QED
    BY <1>1, <1>4, <2>1 DEF BatchFine
<1>7. q.size = Total(q.files)
  <2>1. Total(Append(b.files, file.name)) = Total(b.files) + listing[file.name]
    BY <1>1, <1>3, TotalAppend DEF BatchFine
  <2> QED
    BY <1>1, <1>2, <2>1 DEF BatchFine
<1>8. q.size > ChunkSize => Len(q.files) > 0 /\ listing[q.files[Len(q.files)]] = q.size
  <2>1. q.size > ChunkSize => b.size = 0
    BY <1>1, <1>2, <1>3, CreatorAssumption DEF Exceeds
  <2> QED
    BY <1>1, <1>2, <1>3, <1>4, <2>1
<1>9. q.files[1] = IF n = 0 THEN file.name ELSE b.files[1]
  BY <1>3, <1>4
<1> QED
  BY <1>2, <1>4, <1>5, <1>6, <1>7, <1>8, <1>9, Zenon DEF q, BatchFine

\* The names of the files in all batches, one batch after the other.
NamesOf(packed) == FlattenSeq([b \in DOMAIN packed |-> packed[b].files])

LEMMA NamesAppend ==
  ASSUME NEW packed \in Seq(Batch), NEW b \in Batch
  PROVE  /\ NamesOf(packed) \in Seq(Nat)
         /\ NamesOf(Append(packed, b)) = NamesOf(packed) \o b.files
<1> DEFINE n == Len(packed)
           longer == Append(packed, b)
           ss == [c \in DOMAIN packed |-> packed[c].files]
           tt == [c \in DOMAIN longer |-> longer[c].files]
<1>1. /\ n \in Nat /\ longer \in Seq(Batch) /\ Len(longer) = n + 1
      /\ longer[n + 1] = b /\ \A c \in 1..n : longer[c] = packed[c]
  BY AppendProperties
<1>2. \A c \in Batch : c.files \in Seq(Nat)
  BY DEF Batch
<1>3. ss \in Seq(Seq(Nat)) /\ Len(ss) = n /\ DOMAIN ss = 1..n
  <2>1. DOMAIN packed = 1..n /\ \A c \in 1..n : packed[c] \in Batch
    BY <1>1
  <2>2. ss \in [1..n -> Seq(Nat)]
    BY <1>2, <2>1
  <2> HIDE DEF ss
  <2> QED
    BY <1>1, <2>2
<1> HIDE DEF longer
<1>4. tt = Append(ss, b.files)
  <2>1. DOMAIN longer = 1..(n + 1) /\ \A c \in 1..(n + 1) : longer[c] \in Batch
    BY <1>1
  <2>2. tt \in [1..(n + 1) -> Seq(Nat)]
    BY <1>2, <2>1
  <2>3. \A c \in 1..n : tt[c] = ss[c]
    BY <1>1, <2>1
  <2>4. tt[n + 1] = b.files
    BY <1>1, <2>1
  <2> HIDE DEF tt, ss, n
  <2>5. /\ Append(ss, b.files) \in Seq(Seq(Nat)) /\ Len(Append(ss, b.files)) = n + 1
        /\ \A c \in 1..n : Append(ss, b.files)[c] = ss[c]
        /\ Append(ss, b.files)[n + 1] = b.files
    BY <1>2, <1>3, AppendProperties
  <2>6. tt \in Seq(Seq(Nat)) /\ Len(tt) = n + 1
    BY <1>1, <2>2
  <2>7. \A c \in 1..(n + 1) : c \in 1..n \/ c = n + 1
    BY <1>1
  <2> QED
    BY <2>3, <2>4, <2>5, <2>6, <2>7, SeqEqual
<1> HIDE DEF tt, ss
<1>5. FlattenSeq(ss) \in Seq(Nat) /\ FlattenSeq(tt) = FlattenSeq(ss) \o b.files
  BY <1>2, <1>3, <1>4, FlattenAppend
<1> QED
  BY <1>5, Zenon DEF NamesOf, longer, tt, ss

\* Every batch but the first was opened because its first file had no room before.
Linked(packed) ==
  \A b \in 2..Len(packed) :
    /\ Len(packed[b].files) > 0 /\ packed[b - 1].size > 0
    /\ packed[b - 1].size + listing[packed[b].files[1]] > ChunkSize

\* The packing of the first k files.
PackedUpTo(packed, fs, k) ==
  /\ packed \in Packings /\ \A b \in 1..Len(packed) : BatchFine(packed[b])
  /\ Linked(packed)
  /\ NamesOf(packed) = [j \in 1..k |-> fs[j].name]
  /\ (k = 0 /\ packed = <<EmptyBatch>>) \/ Len(packed[1].files) > 0

LEMMA NoFilesPacked == ASSUME NEW fs PROVE PackedUpTo(<<EmptyBatch>>, fs, 0)
<1>1. EmptyBatch \in Batch /\ EmptyBatch.files = <<>>
  BY DEF EmptyBatch, Batch
<1>2. <<EmptyBatch>> \in Packings /\ Len(<<EmptyBatch>>) = 1 /\ <<EmptyBatch>>[1] = EmptyBatch
  BY <1>1 DEF Packings
<1>3. NamesOf(<<>>) = <<>>
  <2> DEFINE ss == [b \in DOMAIN <<>> |-> <<>>[b].files]
  <2>1. ss \in Seq(Seq(Nat)) /\ Len(ss) = 0
    <3>1. ss = <<>>
      OBVIOUS
    <3> HIDE DEF ss
    <3> QED
      BY <3>1
  <2> HIDE DEF ss
  <2>2. FlattenSeq(ss) = <<>>
    BY <2>1, FlattenRuns
  <2> QED
    BY <2>2, Zenon DEF NamesOf, ss
<1>4. NamesOf(<<EmptyBatch>>) = <<>>
  <2>1. <<EmptyBatch>> = Append(<<>>, EmptyBatch) /\ <<>> \in Seq(Batch)
    OBVIOUS
  <2>2. NamesOf(Append(<<>>, EmptyBatch)) = <<>> \o <<>>
    BY <1>1, <1>3, <2>1, NamesAppend
  <2>3. <<>> \o <<>> = <<>>
    OBVIOUS
  <2> QED
    BY <2>1, <2>2, <2>3, Zenon
<1>5. [j \in 1..0 |-> fs[j].name] = <<>>
  OBVIOUS
<1>6. Linked(<<EmptyBatch>>)
  BY <1>2 DEF Linked
<1>7. \A b \in 1..Len(<<EmptyBatch>>) : BatchFine(<<EmptyBatch>>[b])
  BY <1>2, EmptyFine
<1> QED
  BY <1>2, <1>4, <1>5, <1>6, <1>7, Zenon DEF PackedUpTo

\* A batch of some size has files.
LEMMA SizeMeansFiles ==
  ASSUME NEW b, BatchFine(b), b.size > 0
  PROVE  Len(b.files) > 0
<1>1. b.files \in Seq(Nat) /\ (Len(b.files) = 0 => b.files = <<>>)
  BY EmptySeq DEF BatchFine, Batch
<1> QED
  BY <1>1, TotalOfNone DEF BatchFine

LEMMA ConcatNaturals ==
  ASSUME NEW r \in Seq(Nat), NEW s \in Seq(Nat), NEW t \in Seq(Nat)
  PROVE  (r \o s) \o t = r \o (s \o t)
OBVIOUS

\* One more file.
LEMMA PackFilePacks ==
  ASSUME listing \in Listings, NEW fs \in Seq(Entries), NEW k \in Nat, k + 1 \in 1..Len(fs),
         NEW packed, PackedUpTo(packed, fs, k)
  PROVE  PackedUpTo(PackFile(packed, fs[k + 1]), fs, k + 1)
<1> DEFINE file == fs[k + 1]
           n == Len(packed)
           q == PackFile(packed, file)
           names == [j \in 1..k |-> fs[j].name]
<1>1. /\ file \in Entries /\ IsFile(file) /\ file.name \in Sized
      /\ file.size = listing[file.name] /\ file.name \in Nat /\ file.size \in Nat
  <2>1. file \in Entries
    OBVIOUS
  <2> HIDE DEF file
  <2> QED
    BY <2>1, EntryParts DEF IsFile
<1> HIDE DEF file
<1>2. /\ packed \in Packings /\ packed \in Seq(Batch)
      /\ \A b \in 1..n : BatchFine(packed[b]) /\ packed[b].size \in Nat
      /\ Linked(packed) /\ NamesOf(packed) = names
  BY DEF PackedUpTo, Packings, BatchFine, Batch
<1>3. /\ n \in Nat \ {0} /\ packed[n] \in Batch /\ q \in Packings
      /\ Exceeds(packed[n], file) => q = Append(packed, PutFile(EmptyBatch, file))
      /\ ~Exceeds(packed[n], file) =>
           q = Append(SubSeq(packed, 1, n - 1), PutFile(packed[n], file))
      /\ PutFile(EmptyBatch, file) \in Batch /\ PutFile(packed[n], file) \in Batch
  BY <1>1, <1>2, PackFileMakes
<1>7. n \in Nat /\ n >= 1
  BY <1>3
<1>4. names \in Seq(Nat) /\ Append(names, file.name) = [j \in 1..(k + 1) |-> fs[j].name]
  <2>1. \A j \in 1..(k + 1) : fs[j].name \in Nat
    BY EntryParts
  <2> DEFINE more == [j \in 1..(k + 1) |-> fs[j].name]
  <2>2. names \in Seq(Nat) /\ more \in Seq(Nat) /\ Len(names) = k /\ Len(more) = k + 1
    BY <2>1
  <2>3. (\A j \in 1..k : more[j] = names[j]) /\ more[k + 1] = file.name
    BY DEF file
  <2> HIDE DEF names, more
  <2>4. /\ Append(names, file.name) \in Seq(Nat) /\ Len(Append(names, file.name)) = k + 1
        /\ \A j \in 1..k : Append(names, file.name)[j] = names[j]
        /\ Append(names, file.name)[k + 1] = file.name
    BY <1>1, <2>2, AppendProperties
  <2>5. \A j \in 1..(k + 1) : j \in 1..k \/ j = k + 1
    OBVIOUS
  <2>6. Append(names, file.name) = more
    BY <2>2, <2>3, <2>4, <2>5, SeqEqual
  <2> QED
    BY <2>2, <2>6 DEF more
<1> HIDE DEF q, names
<1>5. CASE Exceeds(packed[n], file)
  <2> DEFINE b == PutFile(EmptyBatch, file)
  <2>1. EmptyBatch.files = <<>> /\ EmptyBatch.size = 0 /\ ~Exceeds(EmptyBatch, file)
    BY DEF EmptyBatch, Exceeds
  <2>2. /\ BatchFine(b) /\ b.files = Append(<<>>, file.name) /\ b.size = file.size
        /\ Len(b.files) = 1 /\ b.files[1] = file.name /\ b \in Batch
    <3>1. Len(EmptyBatch.files) = 0 /\ file.name \in Nat /\ file.size \in Nat
      BY <1>1, <2>1
    <3>2. /\ BatchFine(b) /\ b.files = Append(EmptyBatch.files, file.name)
          /\ b.size = EmptyBatch.size + file.size
          /\ Len(b.files) = Len(EmptyBatch.files) + 1
          /\ b.files[1] = IF Len(EmptyBatch.files) = 0 THEN file.name
                                                       ELSE EmptyBatch.files[1]
      BY <1>1, <2>1, EmptyFine, PutFine, Zenon
    <3>3. b \in Batch
      BY <1>3
    <3> HIDE DEF b
    <3> QED
      BY <2>1, <3>1, <3>2, <3>3
  <2> HIDE DEF b
  <2>3. /\ q = Append(packed, b) /\ Len(q) = n + 1 /\ q[n + 1] = b
        /\ \A c \in 1..n : q[c] = packed[c]
    <3>1. q = Append(packed, b)
      BY <1>3, <1>5 DEF b
    <3>2. packed \in Seq(Batch) /\ b \in Batch
      BY <1>2, <2>2
    <3>3. /\ Len(Append(packed, b)) = Len(packed) + 1
          /\ Append(packed, b)[Len(packed) + 1] = b
          /\ \A c \in 1..Len(packed) : Append(packed, b)[c] = packed[c]
      BY <3>2
    <3> QED
      BY <3>1, <3>3, Zenon
  <2>4. \A c \in 1..Len(q) : c \in 1..n \/ c = n + 1
    BY <1>3, <2>3
  <2>5. \A c \in 1..Len(q) : BatchFine(q[c])
    BY <1>2, <2>2, <2>3, <2>4
  <2>6. Linked(q)
    <3>1. packed[n].size > 0 /\ packed[n].size + file.size > ChunkSize
      BY <1>5 DEF Exceeds
    <3>2. ASSUME NEW c \in 2..n
          PROVE  /\ Len(q[c].files) > 0 /\ q[c - 1].size > 0
                 /\ q[c - 1].size + listing[q[c].files[1]] > ChunkSize
      <4>1. c \in 1..n /\ c - 1 \in 1..n
        BY <1>3
      <4> QED
        BY <1>2, <2>3, <4>1 DEF Linked
    <3>3. q[(n + 1) - 1] = packed[n]
      BY <1>3, <2>3
    <3>4. \A c \in 2..Len(q) : c \in 2..n \/ c = n + 1
      BY <1>3, <2>3
    <3> QED
      BY <1>1, <2>2, <2>3, <3>1, <3>2, <3>3, <3>4 DEF Linked
  <2>7. NamesOf(q) = Append(names, file.name)
    <3>1. NamesOf(q) = names \o Append(<<>>, file.name)
      BY <1>2, <2>2, <2>3, NamesAppend
    <3>2. Append(<<>>, file.name) = <<file.name>>
      OBVIOUS
    <3>3. NamesOf(q) = names \o <<file.name>>
      BY <3>1, <3>2, Zenon
    <3> QED
      BY <1>1, <1>4, <3>3, AppendIsConcat
  <2>8. Len(q[1].files) > 0
    <3>1. 1 \in 1..n /\ q[1] = packed[1]
      BY <1>3, <2>3
    <3>2. packed[1].size > 0
      <4>1. CASE n = 1
        BY <4>1, <1>5 DEF Exceeds
      <4>2. CASE n # 1
        <5>1. 2 \in 2..n /\ 2 - 1 = 1
          <6> HIDE DEF n
          <6> QED
            BY <1>7, <4>2
        <5> QED
          BY <1>2, <5>1 DEF Linked
      <4> QED
        BY <4>1, <4>2
    <3> QED
      BY <1>2, <3>1, <3>2, SizeMeansFiles
  <2> QED
    BY <1>3, <1>4, <2>5, <2>6, <2>7, <2>8 DEF PackedUpTo, q, file
<1>6. CASE ~Exceeds(packed[n], file)
  <2> DEFINE front == SubSeq(packed, 1, n - 1)
             b == PutFile(packed[n], file)
  <2>1. n \in 1..n /\ BatchFine(packed[n])
    BY <1>2, <1>3
  <2>2. /\ BatchFine(b) /\ b.files = Append(packed[n].files, file.name)
        /\ b.size = packed[n].size + file.size
        /\ Len(b.files) = Len(packed[n].files) + 1
        /\ b.files[1] = IF Len(packed[n].files) = 0 THEN file.name ELSE packed[n].files[1]
        /\ b \in Batch
    BY <1>1, <1>3, <1>6, <2>1, PutFine
  <2>3. packed[n].files \in Seq(Nat) /\ Len(packed[n].files) \in Nat
    BY <1>3 DEF Batch
  <2>4. /\ front \in Seq(Batch) /\ Len(front) = n - 1
        /\ \A c \in 1..(n - 1) : front[c] = packed[c]
    <3>1. /\ 1 \in Int /\ n - 1 \in Int
          /\ \A c \in 1..(n - 1) : packed[c] \in Batch
      BY <1>2, <1>7
    <3>2. /\ front \in Seq(Batch) /\ Len(front) = IF 1 <= n - 1 THEN (n - 1) - 1 + 1 ELSE 0
          /\ \A c \in 1..((n - 1) - 1 + 1) : front[c] = packed[1 + c - 1]
      BY <3>1, SubSeqProperties
    <3> HIDE DEF front
    <3>3. Len(front) = n - 1 /\ 1..((n - 1) - 1 + 1) = 1..(n - 1)
      <4> HIDE DEF n
      <4> QED
        BY <1>7, <3>2
    <3>4. \A c \in 1..(n - 1) : 1 + c - 1 = c
      BY <1>7
    <3> QED
      BY <3>2, <3>3, <3>4
  <2> HIDE DEF b, front
  <2>5. /\ q = Append(front, b) /\ Len(q) = n /\ q[n] = b
        /\ \A c \in 1..(n - 1) : q[c] = packed[c]
    <3>1. q = Append(front, b)
      BY <1>3, <1>6 DEF front, b
    <3>2. /\ Len(Append(front, b)) = n /\ Append(front, b)[n] = b
          /\ \A c \in 1..(n - 1) : Append(front, b)[c] = front[c]
      BY <1>3, <2>2, <2>4, AppendProperties
    <3> QED
      BY <2>4, <3>1, <3>2
  <2>6. \A c \in 1..Len(q) : c \in 1..(n - 1) \/ c = n
    BY <1>3, <2>5
  <2>7. \A c \in 1..Len(q) : BatchFine(q[c])
    <3>1. \A c \in 1..(n - 1) : c \in 1..n
      BY <1>3
    <3> QED
      BY <1>2, <2>2, <2>5, <2>6, <3>1
  <2>8. Linked(q)
    <3>1. ASSUME NEW c \in 2..n
          PROVE  /\ Len(q[c].files) > 0 /\ q[c - 1].size > 0
                 /\ q[c - 1].size + listing[q[c].files[1]] > ChunkSize
      <4>1. /\ Len(packed[c].files) > 0 /\ packed[c - 1].size > 0
            /\ packed[c - 1].size + listing[packed[c].files[1]] > ChunkSize
        BY <1>2 DEF Linked
      <4>2. c - 1 \in 1..(n - 1) /\ q[c - 1] = packed[c - 1]
        BY <1>3, <2>5
      <4>3. CASE c = n
        <5>1. Len(b.files) > 0 /\ b.files[1] = packed[n].files[1]
          BY <2>2, <2>3, <4>1, <4>3
        <5> QED
          BY <2>5, <4>1, <4>2, <4>3, <5>1
      <4>4. CASE c # n
        <5>1. q[c] = packed[c]
          BY <1>3, <2>5, <4>4
        <5> QED
          BY <4>1, <4>2, <5>1
      <4> QED
        BY <4>3, <4>4
    <3> QED
      BY <2>5, <3>1 DEF Linked
  <2>9. NamesOf(q) = Append(names, file.name)
    <3>1. packed = Append(front, packed[n])
      <4>1. /\ Append(front, packed[n]) \in Seq(Batch) /\ Len(Append(front, packed[n])) = n
            /\ Append(front, packed[n])[n] = packed[n]
            /\ \A c \in 1..(n - 1) : Append(front, packed[n])[c] = front[c]
        BY <1>3, <2>4, AppendProperties
      <4>2. \A c \in 1..n : c \in 1..(n - 1) \/ c = n
        BY <1>3
      <4> QED
        BY <1>2, <2>4, <4>1, <4>2, SeqEqual
    <3>2. names = NamesOf(front) \o packed[n].files /\ NamesOf(front) \in Seq(Nat)
      BY <1>2, <1>3, <2>4, <3>1, NamesAppend
    <3>3. NamesOf(q) = NamesOf(front) \o Append(packed[n].files, file.name)
      BY <2>2, <2>4, <2>5, NamesAppend
    <3>4. Append(packed[n].files, file.name) = packed[n].files \o <<file.name>>
      BY <1>1, <2>3, AppendIsConcat
    <3>5. <<file.name>> \in Seq(Nat)
      BY <1>1
    <3>6. NamesOf(q) = names \o <<file.name>>
      <4>1. (NamesOf(front) \o packed[n].files) \o <<file.name>>
              = NamesOf(front) \o (packed[n].files \o <<file.name>>)
        BY <2>3, <3>2, <3>5, ConcatNaturals, Zenon
      <4> QED
        BY <3>2, <3>3, <3>4, <4>1, Zenon
    <3> QED
      BY <1>1, <1>4, <3>6, AppendIsConcat
  <2>10. Len(q[1].files) > 0
    <3>1. CASE n = 1
      BY <2>2, <2>3, <2>5, <3>1
    <3>2. CASE n # 1
      <4>1. 1 \in 1..(n - 1) /\ 2 \in 2..n /\ 1 \in 1..n
        <5> HIDE DEF n
        <5> QED
          BY <1>7, <3>2
      <4>2. packed[1].size > 0
        <5>1. packed[2 - 1].size > 0 /\ 2 - 1 = 1
          BY <1>2, <4>1 DEF Linked
        <5> QED
          BY <5>1
      <4> QED
        BY <1>2, <2>5, <4>1, <4>2, SizeMeansFiles
    <3> QED
      BY <3>1, <3>2
  <2> QED
    BY <1>3, <1>4, <2>7, <2>8, <2>9, <2>10 DEF PackedUpTo, q, file
<1> QED
  BY <1>5, <1>6

\* All files.
LEMMA PackPacks ==
  ASSUME listing \in Listings, NEW fs \in Seq(Entries)
  PROVE  PackedUpTo(FoldLeft(PackFile, <<EmptyBatch>>, fs), fs, Len(fs))
<1> DEFINE n == Len(fs)
<1>1. n \in Nat /\ \A e \in Entries : IsFile(e)
  BY EntryParts
<1>2. PICK run : /\ run[0] = <<EmptyBatch>>
                 /\ \A k \in 1..n : run[k] = PackFile(run[k - 1], fs[k])
                 /\ FoldLeft(PackFile, <<EmptyBatch>>, fs) = run[n]
  BY <1>1, PackRuns
<1> DEFINE T == {k \in Nat : k <= n => PackedUpTo(run[k], fs, k)}
<1>3. 0 \in T
  BY <1>2, NoFilesPacked
<1>4. ASSUME NEW k \in T PROVE k + 1 \in T
  <2>1. CASE k + 1 <= n
    <3>1. k + 1 \in 1..n /\ (k + 1) - 1 = k /\ k <= n
      BY <1>1, <2>1
    <3>2. run[k + 1] = PackFile(run[k], fs[k + 1])
      BY <1>2, <3>1
    <3>3. PackedUpTo(run[k + 1], fs, k + 1)
      BY <3>1, <3>2, PackFilePacks
    <3> QED
      BY <3>3
  <2>2. CASE ~(k + 1 <= n)
    BY <2>2
  <2> QED
    BY <2>1, <2>2
<1>5. PackedUpTo(run[n], fs, n)
  <2> HIDE DEF T
  <2>1. T \in SUBSET Nat
    BY DEF T
  <2>2. n \in T
    BY <1>1, <1>3, <1>4, <2>1, AllNaturals
  <2> QED
    BY <1>1, <2>2 DEF T
<1> QED
  BY <1>2, <1>5

\* The size of a batch, by the listing that is given.
LEMMA SizeIsTotal ==
  ASSUME NEW batch
  PROVE  SizeOf(batch) = TotalOf(listing, batch.files)
BY Zenon DEF SizeOf, TotalOf, FoldLeft, MapThenFoldSet

\* What PackingKeepsOrderAndLimit says of the batches, of any packing.
PackedRight(packed) ==
  /\ LET names == NamesOf(packed)
     IN  /\ Range(names) = Sized
         /\ \A j, k \in DOMAIN names : j < k => names[j] < names[k]
  /\ \A b \in DOMAIN packed :
       /\ packed[b].files # <<>> /\ packed[b].size = SizeOf(packed[b])
       /\ packed[b].size > ChunkSize => listing[Last(packed[b].files)] = packed[b].size
       /\ b > 1 => LET before == packed[b - 1].size
                   IN  before > 0 /\ before + listing[Head(packed[b].files)] > ChunkSize

LEMMA ManifestRight ==
  ASSUME listing \in Listings, NEW fs, FoundUpTo(fs, Len(listing)), fs # <<>>
  PROVE  PackedRight(FoldLeft(PackFile, <<EmptyBatch>>, fs))
<1> DEFINE p == FoldLeft(PackFile, <<EmptyBatch>>, fs)
           n == Len(fs)
           names == NamesOf(p)
<1>1. n \in Nat \ {0} /\ fs \in Seq(Entries) /\ DOMAIN fs = 1..n
  BY EmptySeq, LenProperties DEF FoundUpTo
<1>2. PackedUpTo(p, fs, n)
  BY <1>1, PackPacks
<1> HIDE DEF p
<1>3. names = [j \in 1..n |-> fs[j].name]
  BY <1>2 DEF PackedUpTo
<1> HIDE DEF names
<1>4. Range(names) = Sized
  <2>1. \A i \in Sized : i <= Len(listing)
    BY CreatorAssumption DEF Sized
  <2>2. Range(names) = {fs[j].name : j \in 1..n}
    BY <1>3 DEF Range
  <2> QED
    BY <2>1, <2>2 DEF FoundUpTo
<1>5. \A j, k \in DOMAIN names : j < k => names[j] < names[k]
  BY <1>3 DEF FoundUpTo
<1>6. p \in Packings /\ DOMAIN p = 1..Len(p) /\ Len(p) \in Nat
  BY <1>2 DEF PackedUpTo, Packings
<1>7. ASSUME NEW b \in DOMAIN p
      PROVE  /\ p[b].files # <<>> /\ p[b].size = SizeOf(p[b])
             /\ p[b].size > ChunkSize => listing[Last(p[b].files)] = p[b].size
             /\ b > 1 => /\ p[b - 1].size > 0
                         /\ p[b - 1].size + listing[Head(p[b].files)] > ChunkSize
  <2>1. BatchFine(p[b]) /\ p[b].files \in Seq(Nat) /\ b \in 1..Len(p)
    BY <1>2, <1>6 DEF PackedUpTo, BatchFine, Batch
  <2>2. b > 1 => /\ Len(p[b].files) > 0 /\ p[b - 1].size > 0
                 /\ p[b - 1].size + listing[p[b].files[1]] > ChunkSize
    <3>1. b > 1 => b \in 2..Len(p)
      BY <1>6, <2>1
    <3> QED
      BY <1>2, <3>1, Zenon DEF PackedUpTo, Linked
  <2>3. Len(p[b].files) > 0
    <3>1. CASE b > 1
      BY <2>2, <3>1
    <3>2. CASE b = 1
      BY <1>1, <1>2, <3>2 DEF PackedUpTo
    <3> QED
      BY <1>6, <2>1, <3>1, <3>2
  <2>4. p[b].files # <<>> /\ Head(p[b].files) = p[b].files[1]
    BY <2>1, <2>3
  <2>5. p[b].size = SizeOf(p[b])
    BY <2>1, SizeIsTotal, Zenon DEF BatchFine, Total
  <2>6. p[b].size > ChunkSize => listing[Last(p[b].files)] = p[b].size
    BY <2>1 DEF BatchFine, Last
  <2> QED
    BY <2>2, <2>4, <2>5, <2>6
<1> QED
  BY <1>4, <1>5, <1>7, Zenon DEF PackedRight, p, names

\* The files are those of the listing as soon as they are known, and packed when done.
CreatorInv ==
  /\ part = "creator" => listing \in Listings
  /\ part # "creator" => creatorPc = "parse"
  /\ creatorPc = "pack" => files # <<>> /\ FoundUpTo(files, Len(listing))
  /\ PackingKeepsOrderAndLimit

LEMMA CreatorKeeps ==
  ASSUME CreatorInv, part = "creator", part' = part, CreatorNext
  PROVE  CreatorInv'
<1>1. CASE CreatorParses
  BY <1>1 DEF CreatorParses, CreatorInv, PackingKeepsOrderAndLimit
<1>2. CASE EnumeratesFiles
  <2>1. /\ listing' = listing /\ host' = host /\ TooLong \notin Range(listing)
        /\ files' = FoldLeftDomain(ScanLine, <<>>, listing)
        /\ creatorPc' = IF files' = <<>> THEN "error" ELSE "pack"
    BY <1>2 DEF EnumeratesFiles
  <2>2. FoundUpTo(files', Len(listing))
    BY <2>1, ScanFinds DEF CreatorInv
  <2>3. FoundUpTo(files, Len(listing))'
    <3>1. Sized' = Sized
      BY <2>1, Zenon DEF Sized
    <3>2. Entries' = Entries
      BY <2>1, <3>1, Zenon DEF Entries, Listed
    <3> QED
      BY <2>1, <2>2, <3>1, <3>2, Zenon DEF FoundUpTo
  <2> QED
    BY <2>1, <2>3 DEF CreatorInv, PackingKeepsOrderAndLimit
<1>3. CASE EnumerationFails
  BY <1>3 DEF EnumerationFails, CreatorInv, PackingKeepsOrderAndLimit
<1>4. CASE BinPacks
  <2>1. /\ creatorPc = "pack" /\ creatorPc' = "manifest" /\ listing' = listing
        /\ batches' = FoldLeft(PackFile, <<EmptyBatch>>, files)
    BY <1>4 DEF BinPacks
  <2>2. PackedRight(batches')
    BY <2>1, ManifestRight DEF CreatorInv
  <2>3. ASSUME NEW batch PROVE SizeOf(batch)' = SizeOf(batch)
    <3>1. SizeOf(batch)' = TotalOf(listing', batch.files)
      BY Zenon DEF SizeOf, TotalOf, FoldLeft, MapThenFoldSet
    <3> QED
      BY <2>1, <3>1, SizeIsTotal, Zenon
  <2>4. NamesOf(batches)' = NamesOf(batches') /\ Sized' = Sized
    BY <2>1, Zenon DEF NamesOf, Sized
  <2>5. PackingKeepsOrderAndLimit'
    BY <2>1, <2>2, <2>3, <2>4, Zenon DEF PackedRight, PackingKeepsOrderAndLimit, NamesOf, Sized
  <2> QED
    BY <2>1, <2>5 DEF CreatorInv
<1> QED
  BY <1>1, <1>2, <1>3, <1>4 DEF CreatorNext

LEMMA CreatorStutters ==
  ASSUME CreatorInv, UNCHANGED <<creatorVars, part>>
  PROVE  CreatorInv'
<1>1. /\ listing' = listing /\ host' = host /\ files' = files /\ creatorPc' = creatorPc
      /\ batches' = batches /\ part' = part
  BY DEF creatorVars
<1>2. Sized' = Sized
  BY <1>1, Zenon DEF Sized
<1>3. Entries' = Entries
  BY <1>1, <1>2, Zenon DEF Entries, Listed
<1>4. ASSUME NEW batch PROVE SizeOf(batch)' = SizeOf(batch)
  <2>1. SizeOf(batch)' = TotalOf(listing', batch.files)
    BY Zenon DEF SizeOf, TotalOf, FoldLeft, MapThenFoldSet
  <2> QED
    BY <1>1, <2>1, SizeIsTotal, Zenon
<1>5. FoundUpTo(files, Len(listing))' <=> FoundUpTo(files, Len(listing))
  BY <1>1, <1>2, <1>3, Zenon DEF FoundUpTo
<1>6. PackingKeepsOrderAndLimit'
  BY <1>1, <1>4, Zenon DEF CreatorInv, PackingKeepsOrderAndLimit
<1> QED
  BY <1>1, <1>5, <1>6, Zenon DEF CreatorInv

\* Whatever find printed: every file it could name is packed once and in order, and
\* only files that are over the limit alone make a batch that is.
THEOREM PackingRight == Spec => []PackingKeepsOrderAndLimit
<1>1. Init => CreatorInv
  BY DEF Init, CreatorInit, InputsOf, CreatorInv, PackingKeepsOrderAndLimit
<1>2. CreatorInv /\ [Next]_servicesVars => CreatorInv'
  <2> SUFFICES ASSUME CreatorInv, [Next]_servicesVars PROVE CreatorInv'
    OBVIOUS
  <2>1. \/ CreatorNext /\ part = "creator" /\ part' = part
        \/ UNCHANGED <<creatorVars, part>>
    BY DEF Next, CreatorRuns, LedgerRuns, StoreRuns, TrackerRuns, RetryRuns, MetricsRun,
       servicesVars
  <2> QED
    BY <2>1, CreatorKeeps, CreatorStutters
<1>3. CreatorInv => PackingKeepsOrderAndLimit
  BY DEF CreatorInv
<1> QED
  BY <1>1, <1>2, <1>3, PTL DEF Spec
=============================================================================
