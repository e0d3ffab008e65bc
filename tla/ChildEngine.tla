----------------------------- MODULE ChildEngine -----------------------------
(***************************************************************************)
(* The rsync and rclone engines: a child process, a pipe for each of its   *)
(* outputs and a goroutine that scans it line by line.  A line longer than *)
(* bufio.Scanner accepts ends the goroutine, not the pipe.  What the child *)
(* itself does is external: it writes its lines, moves the data unless     *)
(* told not to, and exits with 0 or not.                                   *)
(***************************************************************************)
EXTENDS EngineCall

CONSTANTS
  Words,      \* the paths and patterns of the calls, none of them an option
  Lines,      \* how many lines the child writes to each pipe at most
  PipeLines,  \* how many of them a pipe holds
  LongLines   \* some lines are longer than a Scanner's token may be

ASSUME PipeAssumption == Lines \in Nat /\ PipeLines \in Nat \ {0} /\ LongLines \in BOOLEAN

ASSUME WordsAssumption ==
  /\ "--dry-run" \notin Words
  /\ \A c \in Calls : c.filters \in Seq(Words) /\ {c.source.path, c.dest.path} \subseteq Words

VARIABLES
  childPc,  \* "call", "wait", "end"
  command,  \* the child's arguments
  proc,     \* "none", "run", "exited", "failed", "killed"
  todo,     \* how many lines the child has yet to write to a pipe
  pipe,     \* the lines in a pipe
  scanner,  \* of each pipe: "off", "scan", "copy" (Estimate's CombinedOutput) or "end"
  pipesOpen,\* the reading ends are open
  moved     \* "nothing", "part" or "all" of the data

childVars == <<childPc, command, proc, todo, pipe, scanner, pipesOpen, moved>>

Pipes == {"stdout", "stderr"}
IsChildEngine == engine \in {"rsync", "rclone"}

ChildTypeOK ==
  /\ childPc \in {"call", "wait", "end"}
  /\ proc \in {"none", "run", "exited", "failed", "killed"}
  /\ todo \in [Pipes -> 0..Lines]
  /\ \A p \in Pipes : Len(pipe[p]) <= PipeLines
  /\ scanner \in [Pipes -> {"off", "scan", "copy", "end"}]
  /\ pipesOpen \in BOOLEAN
  /\ moved \in {"nothing", "part", "all"}

ChildInit ==
  /\ childPc = "call" /\ command = <<>> /\ proc = "none"
  /\ todo \in IF IsChildEngine THEN [Pipes -> 0..Lines] ELSE {[p \in Pipes |-> 0]}
  /\ pipe = [p \in Pipes |-> <<>>]
  /\ scanner = [p \in Pipes |-> "off"]
  /\ pipesOpen = FALSE /\ moved = "nothing"
-----------------------------------------------------------------------------
(***************************************************************************)
(* The command lines.  A path is a record: its kind, and whether a password*)
(* for it is configured.                                                   *)
(***************************************************************************)
If(condition, args) == IF condition THEN args ELSE <<>>

Compresses(opts) == opts.compression \notin {"none", "auto"}

\* rsync: buildCommand.  A slash is appended to both paths, whatever they are.
RsyncArgs(opts) ==
  <<"-a", "-v", "--progress">>
  \o If(Compresses(opts), <<"-z">>)
  \o If(opts.checkpoint, <<"--partial", "--partial-dir">>)
  \o If(opts.dryRun, <<"--dry-run">>)
  \o opts.filters
  \o <<opts.source.path, "/", opts.dest.path, "/">>

\* rclone: convertToSFTP.
ToSFTP(loc) ==
  IF loc.kind = "ssh" THEN <<"sftp", loc.path>> \o If(loc.password, <<"pass">>) ELSE <<loc.path>>

\* rclone: buildCommand.
RcloneArgs(opts) ==
  <<"sync", "--progress", "--stats">>
  \o If(opts.parallel > 0, <<"--transfers">>)
  \o If(Compresses(opts), <<"--compress">>)
  \o If(opts.dryRun, <<"--dry-run">>)
  \o opts.filters
  \o ToSFTP(opts.source) \o ToSFTP(opts.dest)

Args(opts) == IF engine = "rsync" THEN RsyncArgs(opts) ELSE RcloneArgs(opts)

WritesNothing == \E i \in DOMAIN command : command[i] = "--dry-run"
-----------------------------------------------------------------------------
\* Transfer answers a dry run at once, and an Estimate runs a dry run.
ChildDryRun ==
  /\ childPc = "call" /\ Transfers /\ call.dryRun
  /\ childPc' = "end" /\ Answers("nil")
  /\ UNCHANGED <<command, proc, todo, pipe, scanner, pipesOpen, moved>>

ChildFailsToStart ==
  /\ childPc = "call" /\ ~(Transfers /\ call.dryRun)
  /\ childPc' = "end" /\ Answers("error")
  /\ UNCHANGED <<command, proc, todo, pipe, scanner, pipesOpen, moved>>

\* Mutant: Estimate forgets its copy of the options in which DryRun is set.
ChildStartsAsCalled ==
  /\ childPc = "call" /\ ~(Transfers /\ call.dryRun)
  /\ childPc' = "wait" /\ proc' = "run" /\ pipesOpen' = TRUE
  /\ command' = Args(call)
  /\ scanner' = [p \in Pipes |-> IF Transfers THEN "scan" ELSE "copy"]
  /\ UNCHANGED <<callVars, todo, pipe, moved>>

ChildStarts ==
  /\ childPc = "call" /\ ~(Transfers /\ call.dryRun)
  /\ childPc' = "wait" /\ proc' = "run" /\ pipesOpen' = TRUE
  /\ command' = Args([call EXCEPT !.dryRun = @ \/ Estimates])
  /\ scanner' = [p \in Pipes |-> IF Transfers THEN "scan" ELSE "copy"]
  /\ UNCHANGED <<callVars, todo, pipe, moved>>

\* A child that waits for room in a pipe does nothing else.
Waits(p) == todo[p] > 0 /\ Len(pipe[p]) = PipeLines

ProcWrites(p) ==
  /\ proc = "run" /\ todo[p] > 0 /\ Len(pipe[p]) < PipeLines
  /\ todo' = [todo EXCEPT ![p] = @ - 1]
  /\ \E l \in {"short"} \cup (IF LongLines THEN {"long"} ELSE {}) :
       pipe' = [pipe EXCEPT ![p] = Append(@, l)]
  /\ UNCHANGED <<callVars, childPc, command, proc, scanner, pipesOpen, moved>>

ProcExits ==
  /\ proc = "run"
  /\ \/ /\ \A p \in Pipes : todo[p] = 0
        /\ proc' = "exited"
        /\ moved' = IF WritesNothing THEN moved ELSE "all"
     \/ /\ \A p \in Pipes : ~Waits(p)
        /\ proc' = "failed"
        /\ moved' \in IF WritesNothing THEN {moved} ELSE {"nothing", "part"}
  /\ UNCHANGED <<callVars, childPc, command, todo, pipe, scanner, pipesOpen>>

\* exec.CommandContext kills the child when the context is done.
ProcKilled ==
  /\ proc = "run" /\ cancelled
  /\ proc' = "killed"
  /\ moved' \in IF WritesNothing THEN {moved} ELSE {"nothing", "part"}
  /\ UNCHANGED <<callVars, childPc, command, todo, pipe, scanner, pipesOpen>>

\* parseProgress on stdout, the collecting goroutine on stderr; Scan fails at a line
\* that is too long, and nobody reads the pipe from then on.
Scans(p) ==
  /\ scanner[p] \in {"scan", "copy"} /\ pipesOpen /\ pipe[p] # <<>>
  /\ \/ /\ Head(pipe[p]) = "short" \/ scanner[p] = "copy"
        /\ pipe' = [pipe EXCEPT ![p] = Tail(@)] /\ UNCHANGED scanner
     \/ /\ Head(pipe[p]) = "long" /\ scanner[p] = "scan"
        /\ scanner' = [scanner EXCEPT ![p] = "end"] /\ UNCHANGED pipe
  /\ UNCHANGED <<callVars, childPc, command, proc, todo, pipesOpen, moved>>

\* The end of the output, or the pipe closed by Wait under the scanner's hands.
ScanEnds(p) ==
  /\ scanner[p] \in {"scan", "copy"}
  /\ ~pipesOpen \/ (pipe[p] = <<>> /\ proc # "run")
  /\ scanner' = [scanner EXCEPT ![p] = "end"]
  /\ UNCHANGED <<callVars, childPc, command, proc, todo, pipe, pipesOpen, moved>>

\* Mutant: Transfer does not look at what Wait returned.
ChildReturnsNil ==
  /\ childPc = "wait" /\ proc # "run"
  /\ Estimates => \A p \in Pipes : scanner[p] = "end"
  /\ pipesOpen' = FALSE /\ childPc' = "end"
  /\ Answers("nil")
  /\ UNCHANGED <<command, proc, todo, pipe, scanner, moved>>

\* cmd.Wait does not wait for Transfer's scanners, it closes their pipes; that of
\* CombinedOutput waits for the copies to be complete.
ChildReturns ==
  /\ childPc = "wait" /\ proc # "run"
  /\ Estimates => \A p \in Pipes : scanner[p] = "end"
  /\ pipesOpen' = FALSE /\ childPc' = "end"
  /\ Answers(IF proc = "exited" THEN "nil" ELSE "error")
  /\ UNCHANGED <<command, proc, todo, pipe, scanner, moved>>

ChildNext ==
  \/ ChildDryRun \/ ChildFailsToStart \/ ChildStarts \/ ChildReturns
  \/ ProcExits \/ ProcKilled
  \/ \E p \in Pipes : ProcWrites(p) \/ Scans(p) \/ ScanEnds(p)

\* The goroutines run, and the child writes and exits when it can.
ChildFairness ==
  /\ WF_childVars(IsChildEngine /\ (ChildDryRun \/ ChildStarts \/ ChildReturns))
  /\ WF_childVars(IsChildEngine /\ (ProcExits \/ ProcKilled))
  /\ \A p \in Pipes : /\ WF_childVars(IsChildEngine /\ ProcWrites(p))
                      /\ WF_childVars(IsChildEngine /\ (Scans(p) \/ ScanEnds(p)))
-----------------------------------------------------------------------------
\* A call moves all of the data if it is a Transfer that answers nil and is no dry run,
\* and nothing at all if it is a dry run or an Estimate, whichever way the options take
\* to the child (rsync/engine.go:72, 116, 145, 186; rclone/engine.go:78, 120, 149, 196).
ChildMovesWhenAsked ==
  /\ IsChildEngine /\ answer = "nil" /\ Transfers /\ ~call.dryRun => moved = "all"
  /\ Estimates \/ call.dryRun => moved = "nothing"

\* The child waits for room in a pipe that nobody reads any more.
ChildBlocked ==
  /\ childPc = "wait" /\ proc = "run" /\ ~cancelled
  /\ \E p \in Pipes : Waits(p) /\ scanner[p] = "end"
=============================================================================
