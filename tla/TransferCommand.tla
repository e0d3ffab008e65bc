--------------------------- MODULE TransferCommand ---------------------------
(***************************************************************************)
(* One run of `difpipe transfer`: the configuration is put together, the   *)
(* flags are applied, the orchestrator selects a strategy when it is left  *)
(* to it, the engine transfers, the result is printed, the process exits.  *)
(* The engine is what the engines' modules show of it: it fails, or it     *)
(* succeeds, which is worth more of one engine than of another.  The       *)
(* directory may change while it is analyzed.                              *)
(***************************************************************************)
EXTENDS Options, Analyzer

CONSTANTS
  Inputs,        \* config inputs, see LoadConfig
  ArgLists,      \* the arguments: sequences of path kinds
  Environments,  \* what FromEnv finds set
  FlagSets,      \* which flags are given, and their values
  Directories,   \* what is below a local source
  NewThresholds, \* the analyzer's own thresholds
  SomeThresholds \* the thresholds of a config file that has them

ASSUME ThresholdsAssumption ==
  {NewThresholds, SomeThresholds} \subseteq [ThresholdNames -> Nat]
ASSUME PathsAssumption ==
  /\ \A args \in ArgLists : Len(args) <= 3 /\ \A i \in DOMAIN args : args[i] \in PathKinds
  /\ \A input \in Inputs : {input.layer.source, input.layer.dest} \subseteq PathKinds \cup {Silent}
ASSUME FlagsAssumption == \A flags \in FlagSets : DOMAIN flags \subseteq FlagNames
ASSUME DirectoriesAssumption == Directories \subseteq Seq(Nat)

VARIABLES
  input,       \* the config input, NoInput if --config is not given
  args, env, flags,
  files,       \* what is below the source
  pc,          \* where runTransfer is
  cfg,         \* the configuration
  fileCount,   \* what the first walk of analyzeLocal counted
  strategy,    \* opts.Strategy
  destination, \* see Outcomes
  exit         \* the exit code, -1 before the end

inputVars == <<input, args, env, flags>>
cmdVars == <<inputVars, files, pc, cfg, fileCount, strategy, destination, exit>>

Strategies == {"auto", "rclone", "rsync", "tar", "proxy"}

\* What a transfer may leave: nothing, something, or all that was to be moved.
Outcomes == {"untouched", "touched", "complete"}

\* No --config is given.
NoInput == [from |-> "none", holds |-> "empty", layer |-> Zero]

TypeOK ==
  /\ input \in Inputs \cup {NoInput} /\ args \in ArgLists
  /\ env \in Environments /\ flags \in FlagSets /\ files \in Directories
  /\ pc \in {"load", "flags", "transfer", "count", "sample", "engine", "print", "end"}
  /\ DOMAIN cfg = Names
  /\ fileCount \in Nat
  /\ destination \in Outcomes
  /\ exit \in {-1, 0, 1, 2, 10, 30}

Init ==
  /\ input \in Inputs \cup {NoInput} /\ args \in ArgLists
  /\ env \in Environments /\ flags \in FlagSets /\ files \in Directories
  /\ pc = "load" /\ cfg = Zero /\ fileCount = 0 /\ strategy = Silent
  /\ destination = "untouched" /\ exit = -1

Exits(code) == pc' = "end" /\ exit' = code

\* The value of -o, which has a default.
OutputFormat == IF "format" \in DOMAIN flags THEN flags.format ELSE "text"

\* convertThresholds and applyThresholds: all seven or none.
Thresholds == IF cfg.thresholds = Silent THEN NewThresholds ELSE SomeThresholds
-----------------------------------------------------------------------------
\* cobra refuses a third argument; main turns any error of Execute into code 1.
Refuses ==
  /\ pc = "load" /\ Len(args) > 2
  /\ Exits(1)
  /\ UNCHANGED <<inputVars, files, cfg, fileCount, strategy, destination>>

\* loadConfig: the config input before the arguments, both before the environment.
LoadsConfig ==
  /\ pc = "load" /\ Len(args) <= 2
  /\ LET loaded == CASE input.from # "none" -> LoadConfig(input)
                     [] input.from = "none" /\ Len(args) = 2 ->
                          [ok |-> TRUE, layer |-> FromArgs(args, OutputFormat)]
                     [] OTHER -> [ok |-> FALSE, layer |-> Zero]
     IN IF loaded.ok
        THEN /\ cfg' = Merge(<<loaded.layer, FromEnv(env)>>)
             /\ pc' = "flags" /\ UNCHANGED exit
        ELSE Exits(10) /\ UNCHANGED cfg
  /\ UNCHANGED <<inputVars, files, fileCount, strategy, destination>>

\* applyFlags, and the transfer's options taken from the configuration.
AppliesFlags ==
  /\ pc = "flags"
  /\ cfg' = ApplyFlags(flags, cfg)
  /\ strategy' = cfg'.strategy
  /\ pc' = "transfer"
  /\ UNCHANGED <<inputVars, files, fileCount, destination, exit>>

\* Orchestrator.Transfer up to the engine, and of AnalyzeTransfer what needs no walk.
SelectsStrategy ==
  LET auto == strategy \in {"auto", Silent}
      viaSsh == DetectProtocol(cfg.source) = "ssh" /\ DetectProtocol(cfg.dest) = "ssh"
  IN /\ pc = "transfer"
     /\ \/ ~auto /\ pc' = "engine" /\ UNCHANGED strategy
        \/ auto /\ viaSsh /\ strategy' = "proxy" /\ pc' = "engine"
        \/ /\ auto /\ ~viaSsh /\ ~IsLocalPath(cfg.source)
           /\ strategy' = "rclone" /\ pc' = "engine"
        \/ auto /\ IsLocalPath(cfg.source) /\ pc' = "count" /\ UNCHANGED strategy
     /\ UNCHANGED <<inputVars, files, cfg, fileCount, destination, exit>>

\* What WalkDir finds: no file below an empty path, or one of a scheme that is not
\* recognized, as its error for the root is skipped like any other.
Found == IF cfg.source \in {"plain", "at"} THEN files ELSE <<>>

\* The first walk of analyzeLocal.  A maximal sample of 0 is divided by: Go panics.
CountsFiles ==
  /\ pc = "count"
  /\ fileCount' = Len(Found)
  /\ IF Thresholds.sample = 0 /\ fileCount' > 0
     THEN Exits(2)
     ELSE pc' = "sample" /\ UNCHANGED exit
  /\ UNCHANGED <<inputVars, files, cfg, strategy, destination>>

\* Somebody else adds and removes files; only what happens between the walks matters.
DirectoryChanges ==
  /\ pc = "sample"
  /\ files' \in Directories
  /\ UNCHANGED <<inputVars, pc, cfg, fileCount, strategy, destination, exit>>

SampleInterval ==
  IF fileCount > Thresholds.sample THEN fileCount \div Thresholds.sample ELSE 1

\* The second walk, and recommendStrategy.
Samples ==
  /\ pc = "sample"
  /\ strategy' = RecommendStrategy(Analysis(Found, SampleInterval, Thresholds), Thresholds)
  /\ pc' = "engine"
  /\ UNCHANGED <<inputVars, files, cfg, fileCount, destination, exit>>

\* GetEngine: no engine for skopeo, restic or a misspelt name.
NoEngine ==
  /\ pc = "engine" /\ strategy \notin Strategies \ {"auto"}
  /\ Exits(30)
  /\ UNCHANGED <<inputVars, files, cfg, fileCount, strategy, destination>>

\* What the tar engine takes for a local path.
TarTakesAsLocal(path) == path \in {"plain", Silent}

\* An engine that can do nothing with these paths always fails.
MayTransfer ==
  CASE strategy = "tar" -> TarTakesAsLocal(cfg.source) /\ TarTakesAsLocal(cfg.dest)
    [] strategy = "proxy" -> cfg.source = "ssh" /\ cfg.dest = "ssh"
    [] OTHER -> TRUE

\* What an engine that reports success has left.  The closes of tar's archive are
\* deferred and not looked at; the proxy compares neither sizes nor exit statuses.
SuccessLeaves ==
  CASE strategy \in {"rsync", "rclone"} -> {"complete"}
    [] strategy = "tar" -> {"touched", "complete"}
    [] OTHER -> Outcomes

\* Mutant: the engines are not told of a dry run.
EngineTransfersAlways ==
  /\ pc = "engine" /\ strategy \in Strategies \ {"auto"}
  /\ \/ /\ MayTransfer
        /\ destination' \in SuccessLeaves /\ pc' = "print" /\ UNCHANGED exit
     \/ destination' \in Outcomes /\ Exits(30)
  /\ UNCHANGED <<inputVars, files, cfg, fileCount, strategy>>

\* engine.Transfer.  Every engine answers a dry run first, with a success.
EngineTransfers ==
  /\ pc = "engine" /\ strategy \in Strategies \ {"auto"}
  /\ \/ /\ cfg.dryRun
        /\ pc' = "print" /\ UNCHANGED <<destination, exit>>
     \/ /\ ~cfg.dryRun /\ MayTransfer
        /\ destination' \in SuccessLeaves /\ pc' = "print" /\ UNCHANGED exit
     \/ /\ ~cfg.dryRun
        /\ destination' \in Outcomes /\ Exits(30)
  /\ UNCHANGED <<inputVars, files, cfg, fileCount, strategy>>

\* Formatter.Format of a *core.TransferResult: formatCSV does not know the type.
Prints ==
  /\ pc = "print"
  /\ Exits(IF cfg.format \in {"text", "json", "yaml"} THEN 0 ELSE 1)
  /\ UNCHANGED <<inputVars, files, cfg, fileCount, strategy, destination>>

Next ==
  \/ Refuses \/ LoadsConfig \/ AppliesFlags \/ SelectsStrategy \/ CountsFiles
  \/ DirectoryChanges \/ Samples \/ NoEngine \/ EngineTransfers \/ Prints

Spec == Init /\ [][Next]_cmdVars
-----------------------------------------------------------------------------
(***************************************************************************)
(* Properties.                                                             *)
(***************************************************************************)
BaseLayer == IF input.from # "none" THEN input.layer ELSE FromArgs(args, OutputFormat)

\* Who is asked for option n: the flag; the config input, or without one the arguments;
\* the environment; the default.
Asked(n) ==
  CASE n \in DOMAIN flags -> flags[n]
    [] n \notin DOMAIN flags /\ Says(BaseLayer, n) -> BaseLayer[n]
    [] n \notin DOMAIN flags /\ ~Says(BaseLayer, n) ->
         IF n \in DOMAIN env /\ Says(env, n) THEN env[n]
         ELSE IF n \in DOMAIN Defaults THEN Defaults[n] ELSE Zero[n]

\* What loadConfig, Merge and applyFlags (main.go:257-332, config.go:177) come to,
\* option by option: whatever was overlaid in whichever order, an option of the transfer
\* is that of the first in the order of Asked that says something.  A strategy "auto"
\* never says anything, a Boolean of the first layer always does, so that the
\* environment's are never used.  This is not "config file > args > environment"
\* (main.go:261): with --config the arguments are not looked at, and a path that the
\* config file leaves out comes from the environment or from nowhere.
LayersInOrder ==
  pc \in {"transfer", "count", "sample", "engine", "print"} =>
    \A n \in Names : cfg[n] = Asked(n)

\* What exit code 0 tells a script, whatever layers, analyzer and engine did on the way:
\* the strategy was the one asked for, if one was; with a dry run asked for by a flag or
\* the config input, nothing was touched, as by a dry run that failed; without, the
\* engine takes such paths, and by rsync and rclone everything was moved, by tar an
\* archive was begun.  Of the proxy, whose successes may have moved too little, it says
\* no more (proxy/engine.go:148).  The other direction does not hold: a transfer whose
\* result is to be printed as csv (main.go:94) is complete and exits with 1.
ZeroExitPromises ==
  /\ exit = 0 =>
       /\ Asked("strategy") \in {"auto", Silent, strategy}
       /\ ~Asked("dryRun") => /\ MayTransfer
                              /\ strategy \in {"rsync", "rclone"} => destination = "complete"
                              /\ strategy = "tar" => destination # "untouched"
  /\ cfg # Zero /\ Asked("dryRun") => destination = "untouched"

Small == {i \in DOMAIN Found : Found[i] < Thresholds.small}

ManySmall ==
  /\ Len(Found) > Thresholds.many
  /\ Exceeds(Cardinality(Small), Len(Found), Thresholds.smallPercent)

SelectedByWalk ==
  pc = "engine" /\ Asked("strategy") = "auto" /\ IsLocalPath(cfg.source)

\* Tar is selected only for a directory that, as the second walk saw it, has more than
\* manyFilesCount files and more than smallFilePercent of them small (analyzer.go:183),
\* or for 7, 14, 28, 55 and 56 percent, as float64 rounds, exactly as many: a sample, or
\* a count made stale between the walks, must not suggest it for others.
\* It holds of thresholds of 50 percent or more, like the default of 80, and of 0: with
\* one between, a sample of every second file, whose scaled number is rounded down, can
\* suggest tar for a directory that has one small file too few.
TarMeansManySmall == SelectedByWalk /\ strategy = "tar" => ManySmall

\* "1000+ files | >80% small (<10KB) | Tar" (README.md:74).  Violated: of a directory
\* with twice maxSampleSize files or more every second file or fewer are classified,
\* while all are counted, so that at most half of them are ever small.
ManySmallGetTar == SelectedByWalk /\ ManySmall => strategy = "tar"
=============================================================================
