------------------------------ MODULE Analyzer ------------------------------
(***************************************************************************)
(* pkg/analyzer: what it makes of a path and of the files below it.  A     *)
(* path is its kind, what the prefixes and separators in it decide; a      *)
(* directory is the sequence of its files' sizes in the order of the walk. *)
(* The state that lives between the two walks is in TransferCommand.       *)
(***************************************************************************)
EXTENDS Integers, Sequences, FiniteSets

\* s3://..., http://..., ftp://..., user@host:path; a name with "@" but no ":";
\* a URL of a scheme detectProtocol does not know; and any other name.
PathKinds == {"s3", "http", "ftp", "ssh", "at", "url", "plain"}

DetectProtocol(path) == IF path \in {"s3", "http", "ftp", "ssh"} THEN path ELSE "local"

IsLocalPath(path) == DetectProtocol(path) = "local"

\* The thresholds are a record: small and large sizes, many and few files, the
\* percentages, and the most files that are all looked at.
ThresholdNames == {"small", "large", "many", "few", "sample", "smallPercent", "largePercent"}

Indices(files, interval) == {i \in 1..Len(files) : i % interval = 0}

CountOf(class, files, interval) == Cardinality({i \in Indices(files, interval) : files[i] \in class})

(***************************************************************************)
(* The second walk of analyzeLocal: every interval-th file is classified.  *)
(* The number of files is scaled up, the counts of the classes are not.    *)
(***************************************************************************)
Analysis(files, interval, t) ==
  [total |-> Cardinality(Indices(files, interval)) * interval,
   small |-> CountOf({s \in Nat : s < t.small}, files, interval),
   large |-> CountOf({s \in Nat : s >= t.small /\ s > t.large}, files, interval)]

(***************************************************************************)
(* float64(part)/float64(total)*100 > percent, of counts below 10^13.      *)
(* Where the ratio is not the percentage, rounding does not hide it; where *)
(* it is, rounding ends above it for five of the whole percentages: 11.0   *)
(* /20*100 is 55.00000000000001.  0/0 is NaN, which is greater than        *)
(* nothing.  A threshold's percentage is a whole number here, float64      *)
(* there.                                                                  *)
(***************************************************************************)
RoundedUp == {7, 14, 28, 55, 56}

Exceeds(part, total, percent) ==
  \/ part * 100 > percent * total
  \/ total # 0 /\ part * 100 = percent * total /\ percent \in RoundedUp

\* Mutant: the percentage of small files alone decides.
RecommendIgnoringMany(a, t) ==
  IF a.total < t.few THEN "rsync"
  ELSE IF Exceeds(a.small, a.total, t.smallPercent) THEN "tar"
  ELSE IF Exceeds(a.large, a.total, t.largePercent) THEN "rsync"
  ELSE "rclone"

\* recommendStrategy.
RecommendStrategy(a, t) ==
  IF a.total < t.few THEN "rsync"
  ELSE IF Exceeds(a.small, a.total, t.smallPercent) /\ a.total > t.many THEN "tar"
  ELSE IF Exceeds(a.large, a.total, t.largePercent) THEN "rsync"
  ELSE "rclone"
=============================================================================
