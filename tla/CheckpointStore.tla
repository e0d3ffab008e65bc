--------------------------- MODULE CheckpointStore ---------------------------
(***************************************************************************)
(* pkg/checkpoint: the file of one transfer, the auto saver's goroutine,   *)
(* its owner, and others that load, delete and clean up.  The states of    *)
(* the transfer are numbered in the order in which Update gets them.       *)
(***************************************************************************)
EXTENDS Integers

CONSTANTS
  Updates,  \* how often the owner updates the state, over all restarts
  Crashes   \* the process may end at any moment and be started again

ASSUME StoreAssumption == Updates \in Nat /\ Crashes \in BOOLEAN

Torn == -1    \* a file without its contents: it exists but does not unmarshal
Absent == -2

VARIABLES
  saver,    \* the goroutine: "off", "select", "save", "write" or "ended"
  state,    \* the saver's state
  data,     \* what Save has marshalled
  stopped,  \* the channel done is closed
  lastSave, \* this Save is the one after done
  disk,     \* the checkpoint: Torn, Absent or the number of a state
  sameFile, \* the file Save has opened still has its name
  aged,     \* the file is older than a Clean's cutoff
  cleaning, \* a Clean has seen that, and is about to remove it
  disturbed \* history: since the last Save that succeeded, the file was removed by
             \* others, a Save failed or the process ended

storeVars == <<saver, state, data, stopped, lastSave, disk, sameFile, aged, cleaning,
               disturbed>>

StoreTypeOK ==
  /\ saver \in {"off", "select", "save", "write", "ended"}
  /\ {state, data} \subseteq 0..Updates /\ disk \in {Torn, Absent} \cup 0..Updates
  /\ {stopped, lastSave, sameFile, aged, cleaning, disturbed} \subseteq BOOLEAN

StoreInit ==
  /\ saver = "off" /\ state = 0 /\ data = 0 /\ disk = Absent
  /\ stopped = FALSE /\ lastSave = FALSE /\ sameFile = FALSE
  /\ aged = FALSE /\ cleaning = FALSE /\ disturbed = FALSE

\* Load: the number of the state, or an error, which is a negative number.
Loaded == disk

-----------------------------------------------------------------------------
\* The owner: New, what it can Load of an earlier run, NewAutoSaver and its Start.
SaverStarts ==
  /\ saver = "off"
  /\ state' = IF Loaded >= 0 THEN Loaded ELSE state
  /\ saver' = "select" /\ stopped' = FALSE
  /\ UNCHANGED <<data, lastSave, disk, sameFile, aged, cleaning, disturbed>>

SaverUpdated ==
  /\ saver \in {"select", "save", "write"} /\ ~stopped /\ state < Updates
  /\ state' = state + 1
  /\ UNCHANGED <<saver, data, stopped, lastSave, disk, sameFile, aged, cleaning, disturbed>>

\* Stop closes done and does not wait; to call it twice is a panic.
SaverStopped ==
  /\ saver \in {"select", "save", "write"} /\ ~stopped
  /\ stopped' = TRUE
  /\ UNCHANGED <<saver, state, data, lastSave, disk, sameFile, aged, cleaning, disturbed>>

-----------------------------------------------------------------------------
\* The goroutine of the auto saver: a tick, or done; both call Save, which marshals.
\* Mutant: a tick that is received together with done ends the goroutine as well.
SaverWakesOnce ==
  /\ saver = "select"
  /\ \E l \in BOOLEAN : (l => stopped) /\ lastSave' = l
  /\ data' = state
  /\ saver' = IF stopped /\ ~lastSave' THEN "ended" ELSE "save"
  /\ UNCHANGED <<state, stopped, disk, sameFile, aged, cleaning, disturbed>>

SaverWakes ==
  /\ saver = "select"
  /\ \E l \in BOOLEAN : (l => stopped) /\ lastSave' = l
  /\ data' = state /\ saver' = "save"
  /\ UNCHANGED <<state, stopped, disk, sameFile, aged, cleaning, disturbed>>

SaveEnds == saver' = IF lastSave THEN "ended" ELSE "select"

\* WriteFile opens, truncates or creates the file, and then writes it.
SaveOpens ==
  /\ saver = "save"
  /\ disk' = Torn /\ sameFile' = TRUE /\ aged' = FALSE
  /\ saver' = "write"
  /\ UNCHANGED <<state, data, stopped, lastSave, cleaning, disturbed>>

SaveWrites ==
  /\ saver = "write" /\ SaveEnds
  /\ disk' = IF sameFile THEN data ELSE disk
  /\ disturbed' = (disturbed /\ ~sameFile)
  /\ UNCHANGED <<state, data, stopped, lastSave, sameFile, aged, cleaning>>

\* The error of Save is dropped.
SaveFails ==
  /\ saver \in {"save", "write"} /\ SaveEnds
  /\ disturbed' = TRUE
  /\ UNCHANGED <<state, data, stopped, lastSave, disk, sameFile, aged, cleaning>>

SaverSteps == SaverWakes \/ SaveOpens \/ SaveWrites \/ SaveFails

-----------------------------------------------------------------------------
\* Others: Delete, and Clean, which looks at the file's time before it removes the file.
FileRemoved == disk' = Absent /\ sameFile' = FALSE /\ aged' = FALSE /\ disturbed' = TRUE

StoreDelete ==
  /\ FileRemoved
  /\ UNCHANGED <<saver, state, data, stopped, lastSave, cleaning>>

FileAges ==
  /\ disk # Absent /\ ~aged /\ aged' = TRUE
  /\ UNCHANGED <<saver, state, data, stopped, lastSave, disk, sameFile, cleaning, disturbed>>

CleanLooks ==
  /\ aged /\ ~cleaning /\ cleaning' = TRUE
  /\ UNCHANGED <<saver, state, data, stopped, lastSave, disk, sameFile, aged, disturbed>>

CleanRemoves ==
  /\ cleaning /\ cleaning' = FALSE /\ FileRemoved
  /\ UNCHANGED <<saver, state, data, stopped, lastSave>>

StoreCrash ==
  /\ Crashes /\ saver # "off"
  /\ saver' = "off" /\ sameFile' = FALSE /\ disturbed' = TRUE
  /\ UNCHANGED <<state, data, stopped, lastSave, disk, aged, cleaning>>

StoreNext ==
  \/ SaverStarts \/ SaverUpdated \/ SaverStopped \/ SaverSteps \/ StoreDelete \/ FileAges \/ CleanLooks \/ CleanRemoves \/ StoreCrash

\* Unless others remove the file, a Save fails or the process ends, there is a whole
\* checkpoint whenever no Save is at work: the state the saver marshalled last and, when
\* its goroutine has ended after Stop, the last state that Update was given.
CheckpointIsCurrent ==
  ~disturbed =>
    /\ disk = Torn => saver = "write"
    /\ saver = "select" => disk \in {Absent, data}
    /\ saver = "ended" => disk = state
===============================================================================
