-------------------------- MODULE MCTransferCommand --------------------------
(* Instances of TransferCommand for TLC.  The thresholds are scaled down: 2 files *)
(* are no longer few, 4 are many, more than 4 may be sampled.                     *)
EXTENDS TransferCommand

Full == [Zero EXCEPT !.source = "plain", !.dest = "plain", !.strategy = "rclone",
                     !.parallel = 8, !.format = "csv"]
Partial == [Zero EXCEPT !.source = "plain", !.dest = "s3", !.thresholds = "given",
                        !.dryRun = TRUE, !.strategy = "auto"]

MCInputs ==
  { [from |-> "file", holds |-> "json", layer |-> Full],
    [from |-> "stdin", holds |-> "yaml", layer |-> Partial],
    [from |-> "inline", holds |-> "json", layer |-> Zero],
    [from |-> "inline", holds |-> "broken", layer |-> Zero],
    [from |-> "missing", holds |-> "empty", layer |-> Zero] }

MCArgLists ==
  { <<>>, <<"plain", "plain">>, <<"plain", "s3">>, <<"ssh", "ssh">>, <<"ssh", "plain">>,
    <<"url", "plain">>, <<"at", "plain">>, <<"plain", "plain", "plain">> }

MCEnvironments ==
  { <<>>, [strategy |-> "rsync", dryRun |-> TRUE, source |-> "plain", parallel |-> 2],
    [format |-> "json", parallel |-> -1, checkpoint |-> FALSE, dest |-> "plain"] }

MCFlagSets ==
  { <<>>, [dryRun |-> TRUE], [strategy |-> "tar", dryRun |-> FALSE], [strategy |-> "skopeo"],
    [strategy |-> "proxy", format |-> "json"], [parallel |-> 1, checkpoint |-> FALSE] }

\* Sizes 0, 1 and 2: small, medium, large.
MCDirectories ==
  { <<>>, <<0>>, <<2, 2>>, <<0, 0, 0, 0>>, <<0, 1, 0, 2>>, <<0, 0, 0, 0, 0>>,
    <<2, 2, 2, 0, 0>>, <<0, 0, 0, 0, 0, 0, 0, 0>>, <<1, 0, 1, 0, 1, 0, 2, 0, 2>> }

MCNewThresholds ==
  [small |-> 1, large |-> 1, many |-> 3, few |-> 2, sample |-> 4,
   smallPercent |-> 80, largePercent |-> 50]
MCSomeThresholds == [[n \in ThresholdNames |-> 0] EXCEPT !.small = 1, !.many = 1]
=============================================================================
