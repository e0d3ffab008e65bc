------------------------------- MODULE Options -------------------------------
(***************************************************************************)
(* Where the options of a transfer come from: pkg/config and the two       *)
(* functions of the command line that call it.  A layer is a function from *)
(* the options' names to values; a value that says nothing is the zero     *)
(* value of its type.  Of the options that Merge treats alike one stands   *)
(* for all: source for the paths and the authentication, include for both  *)
(* filters, stream is treated as dryRun.                                   *)
(***************************************************************************)
EXTENDS Integers, Sequences, SequencesExt, TLC

Booleans == {"checkpoint", "dryRun"}
Texts == {"source", "dest", "compression", "format", "thresholds", "include"}
Names == Booleans \cup Texts \cup {"strategy", "parallel"}

Silent == ""   \* the empty string, the nil pointer and the empty slice alike

Zero == [n \in Names |-> CASE n \in Booleans -> FALSE
                           [] n = "parallel" -> 0
                           [] OTHER -> Silent]

-----------------------------------------------------------------------------
(***************************************************************************)
(* Reading one layer.  A config input is a record: how its bytes are found *)
(* (from), what they hold (holds) and the layer they describe.  FromEnv    *)
(* gets the variables that are set, and can be parsed, as a function.      *)
(***************************************************************************)
Readable(input) == input.from \in {"stdin", "inline", "file"}

\* ParseAuto: JSON if it starts like JSON, else, or if that fails, YAML.
Parses(input) == input.holds \in {"json", "yaml"}

LoadConfig(input) ==
  IF Readable(input) /\ Parses(input) THEN [ok |-> TRUE, layer |-> input.layer]
                                      ELSE [ok |-> FALSE, layer |-> Zero]

EnvDefaults ==
  [Zero EXCEPT !.strategy = "auto", !.parallel = 4, !.checkpoint = TRUE,
               !.compression = "auto", !.format = "text"]

FromEnv(env) == [n \in Names |-> IF n \in DOMAIN env THEN env[n] ELSE EnvDefaults[n]]

\* What loadConfig makes of two arguments.
FromArgs(args, outputFormat) ==
  [Zero EXCEPT !.source = args[1], !.dest = args[2], !.strategy = "auto",
               !.parallel = 4, !.checkpoint = TRUE, !.compression = "auto",
               !.format = outputFormat]

-----------------------------------------------------------------------------
(***************************************************************************)
(* Merge: from the last layer to the first, each overlays what it says on  *)
(* the result so far.  A Boolean always says something, strategy "auto"    *)
(* never does.                                                             *)
(***************************************************************************)
Says(layer, n) ==
  CASE n \in Booleans -> TRUE
    [] n = "strategy" -> layer[n] \notin {Silent, "auto"}
    [] n = "parallel" -> layer[n] > 0
    [] OTHER -> layer[n] # Silent

Overlay(layer, result) == [n \in Names |-> IF Says(layer, n) THEN layer[n] ELSE result[n]]

Defaults == [strategy |-> "auto", parallel |-> 4, compression |-> "auto", format |-> "text"]

WithDefaults(cfg) ==
  [n \in Names |-> IF n \in DOMAIN Defaults /\ cfg[n] = Zero[n] THEN Defaults[n] ELSE cfg[n]]

\* Mutant: the layers are overlaid from the first to the last.
MergeFirstToLast(layers) == WithDefaults(FoldLeft(LAMBDA r, l : Overlay(l, r), Zero, layers))

Merge(layers) == WithDefaults(FoldRight(Overlay, layers, Zero))

\* applyFlags: the flags that were changed, the path options have none.
FlagNames == Names \ {"source", "dest", "thresholds"}

ApplyFlags(flags, cfg) == [n \in Names |-> IF n \in DOMAIN flags THEN flags[n] ELSE cfg[n]]
=============================================================================
