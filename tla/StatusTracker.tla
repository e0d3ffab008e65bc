---------------------------- MODULE StatusTracker ----------------------------
(***************************************************************************)
(* pkg/status: the transfers of a tracker, in memory under its mutex and a *)
(* file each, written in place, the errors of which are dropped.  A call   *)
(* changes the memory and then writes the file; a crash comes at any       *)
(* moment, and the next tracker has what it can read.  Of a transfer's     *)
(* status only what the tracker itself looks at, and progress, is kept.    *)
(***************************************************************************)
EXTENDS Integers, FiniteSets, SequencesExt

CONSTANTS
  Ids,     \* the transfers
  Faults   \* how often writing or removing a file fails, or the process ends, at most

ASSUME TrackerAssumption == Faults \in Nat

States == {"queued", "running", "completed", "failed"}
Ends == {"none", "new", "old"}  \* EndTime: none, after or before a Clean's cutoff
Statuses == [state : States, full : BOOLEAN, end : Ends]
NoStatus == [state |-> "none", full |-> FALSE, end |-> "none"]
TornStatus == [NoStatus EXCEPT !.state = "torn"]

VARIABLES
  transfers, \* by id, NoStatus when there is none; when the process has ended, what
             \* they were then
  stateDir,  \* the file of an id; TornStatus is one that does not unmarshal
  saving,    \* the ids whose file is being written, under the mutex
  up,        \* the process lives
  stale,     \* history: the ids whose last write or removal did not succeed
  faults

trackerVars == <<transfers, stateDir, saving, up, stale, faults>>

TrackerTypeOK ==
  /\ transfers \in [Ids -> Statuses \cup {NoStatus}]
  /\ stateDir \in [Ids -> Statuses \cup {NoStatus, TornStatus}]
  /\ saving \subseteq Ids /\ stale \subseteq Ids /\ up \in BOOLEAN /\ faults \in 0..Faults

TrackerInit ==
  /\ transfers = [t \in Ids |-> NoStatus] /\ stateDir = transfers
  /\ saving = {} /\ stale = {} /\ up = TRUE /\ faults = 0

\* loadAll skips the files that do not unmarshal.
LoadAll == [t \in Ids |-> IF stateDir[t] = TornStatus THEN NoStatus ELSE stateDir[t]]

Locked == saving # {}
Exists(t) == transfers[t] # NoStatus
Goes(t, status) == transfers' = [transfers EXCEPT ![t] = status]

-----------------------------------------------------------------------------
\* The calls that save: what they make of a transfer.  None looks at its state.
Registered == [state |-> "queued", full |-> FALSE, end |-> "none"]
Started(s) == [s EXCEPT !.state = "running"]
Updated(s) == {[s EXCEPT !.full = f] : f \in BOOLEAN}
Completed(s) == [s EXCEPT !.state = "completed", !.full = TRUE, !.end = "new"]
Failed(s) == [s EXCEPT !.state = "failed", !.end = "new"]

\* save: WriteFile truncates or creates the file, or cannot open it.
Saves(t) ==
  /\ \/ /\ saving' = {t} /\ stateDir' = [stateDir EXCEPT ![t] = TornStatus]
        /\ UNCHANGED <<stale, faults>>
     \/ /\ faults < Faults /\ faults' = faults + 1
        /\ stale' = stale \cup {t} /\ UNCHANGED <<saving, stateDir>>
  /\ UNCHANGED <<up>>

Register(t) == up /\ ~Locked /\ Goes(t, Registered) /\ Saves(t)

Calls(t) == up /\ ~Locked /\ Exists(t)

Start(t) == Calls(t) /\ Goes(t, Started(transfers[t])) /\ Saves(t)
Update(t) == Calls(t) /\ (\E s \in Updated(transfers[t]) : Goes(t, s)) /\ Saves(t)

\* Mutant: the completed status is not saved.
CompleteUnsaved(t) ==
  /\ Calls(t) /\ Goes(t, Completed(transfers[t]))
  /\ UNCHANGED <<stateDir, saving, up, stale, faults>>

Complete(t) == Calls(t) /\ Goes(t, Completed(transfers[t])) /\ Saves(t)
Fail(t) == Calls(t) /\ Goes(t, Failed(transfers[t])) /\ Saves(t)

SaveSucceeds(t) ==
  /\ up /\ t \in saving /\ saving' = {}
  /\ stateDir' = [stateDir EXCEPT ![t] = transfers[t]]
  /\ stale' = stale \ {t}
  /\ UNCHANGED <<transfers, up, faults>>

\* The write fails: save returns an error and the call drops it.
SaveBreaksOff(t) ==
  /\ up /\ t \in saving /\ saving' = {} /\ faults < Faults
  /\ stale' = stale \cup {t} /\ faults' = faults + 1
  /\ UNCHANGED <<transfers, stateDir, up>>

-----------------------------------------------------------------------------
\* Delete, and Clean of what ended before its cutoff.  A file that cannot be removed
\* stays, of which Delete returns an error and Clean nothing.
Removes(ids) ==
  /\ transfers' = [t \in Ids |-> IF t \in ids THEN NoStatus ELSE transfers[t]]
  /\ \E kept \in SUBSET {t \in ids : stateDir[t] # NoStatus} :
       /\ faults + Cardinality(kept) <= Faults /\ faults' = faults + Cardinality(kept)
       /\ stateDir' = [t \in Ids |-> IF t \in ids \ kept THEN NoStatus ELSE stateDir[t]]
       /\ stale' = (stale \ ids) \cup kept
  /\ UNCHANGED <<saving, up>>

Delete(t) == up /\ ~Locked /\ Removes({t})

Expired(s) == s.state \in {"completed", "failed"} /\ s.end = "old"

Clean == up /\ ~Locked /\ Removes({t \in Ids : Expired(transfers[t])})

Older(s) == IF s.end = "new" THEN [s EXCEPT !.end = "old"] ELSE s

TimePasses ==
  /\ \E t \in Ids : transfers[t].end = "new" \/ stateDir[t].end = "new"
  /\ transfers' = [t \in Ids |-> Older(transfers[t])]
  /\ stateDir' = [t \in Ids |-> Older(stateDir[t])]
  /\ UNCHANGED <<saving, up, stale, faults>>

-----------------------------------------------------------------------------
TrackerCrash ==
  /\ up /\ faults < Faults /\ faults' = faults + 1
  /\ up' = FALSE /\ saving' = {} /\ stale' = stale \cup saving
  /\ UNCHANGED <<transfers, stateDir>>

\* New, after a crash.
TrackerRestarts ==
  /\ ~up /\ up' = TRUE
  /\ transfers' = LoadAll
  /\ UNCHANGED <<stateDir, saving, stale, faults>>

TrackerNext ==
  \/ \E t \in Ids : \/ Register(t) \/ Start(t) \/ Update(t) \/ Complete(t) \/ Fail(t)
                    \/ SaveSucceeds(t) \/ SaveBreaksOff(t) \/ Delete(t)
  \/ Clean \/ TimePasses \/ TrackerCrash \/ TrackerRestarts

\* What a tracker of a later run, or `difpipe status` in a process of its own, reads is
\* what this tracker knows of every transfer whose file is not at work and whose last
\* write or removal succeeded; a transfer it calls ended has an end that Clean can
\* compare, whatever calls came in which order.
TrackerReadsBack ==
  /\ \A t \in Ids \ (stale \cup saving) : LoadAll[t] = transfers[t]
  /\ \A t \in Ids : LoadAll[t].state \in {"completed", "failed"} => LoadAll[t].end # "none"
=============================================================================
