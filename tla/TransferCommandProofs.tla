------------------------ MODULE TransferCommandProofs ------------------------
(***************************************************************************)
(* Proofs about TransferCommand: the options of a transfer are those of    *)
(* the first layer that says something, in the order of the code; what     *)
(* exit code 0 promises; and the analyzer's sample suggests tar only  *)
(* for directories that have what the thresholds ask for.                  *)
(***************************************************************************)
EXTENDS TransferCommand, InductionLemmas

TwoLayers(first, second) == Overlay(first, Overlay(second, Zero))

\* Merge of two layers overlays the second on nothing, and the first on that.
LEMMA MergeOfTwo ==
  ASSUME NEW first, NEW second
  PROVE  Merge(<<first, second>>) = WithDefaults(TwoLayers(first, second))
<1> DEFINE layers == <<first, second>>
           Least(S) == CHOOSE x \in S : \A y \in S : x <= y
           Step(g) == [s \in SUBSET DOMAIN layers |->
                         IF s = {} THEN Zero ELSE Overlay(layers[Least(s)], g[s \ {Least(s)}])]
           table == CHOOSE g : g = Step(g)
           known == [s \in SUBSET DOMAIN layers |->
                       IF s = {} THEN Zero
                       ELSE IF s = {2} THEN Overlay(second, Zero)
                       ELSE IF s = {1} THEN Overlay(first, Zero)
                       ELSE TwoLayers(first, second)]
<1>1. Merge(layers) = WithDefaults(table[DOMAIN layers])
  BY Zenon DEF Merge, FoldRight, MapThenFoldSet, Min
<1>2. DOMAIN layers = {1, 2}
  OBVIOUS
<1>3. \A s \in SUBSET {1, 2} : s = {} \/ s = {1} \/ s = {2} \/ s = {1, 2}
  OBVIOUS
<1>4. Least({1}) = 1 /\ Least({2}) = 2 /\ Least({1, 2}) = 1
  OBVIOUS
<1>5. known = Step(known)
  <2>1. ASSUME NEW s \in SUBSET DOMAIN layers
        PROVE  known[s] = IF s = {} THEN Zero
                          ELSE Overlay(layers[Least(s)], known[s \ {Least(s)}])
    <3>1. CASE s = {}
      BY <3>1
    <3>2. CASE s = {1}
      BY <3>2, <1>4, <1>2
    <3>3. CASE s = {2}
      BY <3>3, <1>4, <1>2
    <3>4. CASE s = {1, 2}
      BY <3>4, <1>4, <1>2 DEF TwoLayers
    <3> QED
      BY <1>2, <1>3, <3>1, <3>2, <3>3, <3>4
  <2> QED
    BY <2>1, Zenon
<1>6. table = Step(table)
  BY <1>5, Zenon
<1> HIDE DEF table, Least
<1>7. table[{}] = Zero
  BY <1>6, <1>2
<1>8. table[{2}] = Overlay(second, Zero)
  <2>1. {2} \in SUBSET DOMAIN layers /\ {2} # {} /\ {2} \ {2} = {}
    BY <1>2
  <2>2. table[{2}] = Overlay(layers[Least({2})], table[{2} \ {Least({2})}])
    BY <1>6, <2>1, Zenon
  <2>3. layers[2] = second
    OBVIOUS
  <2> HIDE DEF layers
  <2> QED
    BY <2>1, <2>2, <2>3, <1>4, <1>7, Zenon
<1>9. table[{1, 2}] = TwoLayers(first, second)
  <2>1. {1, 2} \in SUBSET DOMAIN layers /\ {1, 2} # {} /\ {1, 2} \ {1} = {2}
    BY <1>2
  <2>2. table[{1, 2}] = Overlay(layers[Least({1, 2})], table[{1, 2} \ {Least({1, 2})}])
    BY <1>6, <2>1, Zenon
  <2>3. layers[1] = first
    OBVIOUS
  <2> HIDE DEF layers
  <2> QED
    BY <2>1, <2>2, <2>3, <1>4, <1>8, Zenon DEF TwoLayers
<1> QED
  BY <1>1, <1>2, <1>9, Zenon
-----------------------------------------------------------------------------
(***************************************************************************)
(* What applyFlags makes of what Merge made of the two layers is what the  *)
(* order of Asked asks for, whatever the layers hold.                      *)
(***************************************************************************)
Merged == Merge(<<BaseLayer, FromEnv(env)>>)

\* Whether a layer says something about an option depends on its value there only.
LEMMA SaysByValue ==
  ASSUME NEW f, NEW g, NEW n, f[n] = g[n]
  PROVE  Says(f, n) <=> Says(g, n)
<1>1. CASE n \in Booleans
  BY <1>1 DEF Says, Booleans
<1>2. CASE n = "strategy"
  BY <1>2 DEF Says, Booleans
<1>3. CASE n = "parallel"
  BY <1>3 DEF Says, Booleans
<1>4. CASE n \notin Booleans \cup {"strategy", "parallel"}
  BY <1>4 DEF Says
<1> QED
  BY <1>1, <1>2, <1>3, <1>4

\* What FromEnv starts from, option by option.
LEMMA EnvDefaultsAt ==
  /\ EnvDefaults.strategy = "auto" /\ EnvDefaults.parallel = 4
  /\ EnvDefaults.compression = "auto" /\ EnvDefaults.format = "text"
  /\ \A n \in {"source", "dest", "thresholds", "include"} : EnvDefaults[n] = Zero[n]
<1>1. DOMAIN Zero = Names
  BY DEF Zero
<1>2. {"strategy", "parallel", "checkpoint", "compression", "format"} \subseteq DOMAIN Zero
  BY <1>1 DEF Names, Texts, Booleans
<1> QED
  BY <1>2 DEF EnvDefaults

\* The merged configuration, option by option.
LEMMA MergedAt ==
  ASSUME NEW n \in Names
  PROVE  Merged[n] = IF Says(BaseLayer, n) THEN BaseLayer[n]
                     ELSE IF n \in DOMAIN env /\ Says(env, n) THEN env[n]
                     ELSE IF n \in DOMAIN Defaults THEN Defaults[n] ELSE Zero[n]
<1> DEFINE fromEnv == FromEnv(env)
           base == BaseLayer
<1>1. Merged = WithDefaults(TwoLayers(base, fromEnv))
  BY MergeOfTwo, Zenon DEF Merged
<1>2. Zero[n] = CASE n \in Booleans -> FALSE [] n = "parallel" -> 0 [] OTHER -> Silent
  BY DEF Zero
<1>3. fromEnv[n] = IF n \in DOMAIN env THEN env[n] ELSE EnvDefaults[n]
  BY DEF FromEnv
<1>4. Says(fromEnv, n) <=> IF n \in DOMAIN env THEN Says(env, n) ELSE Says(EnvDefaults, n)
  BY <1>3, SaysByValue, Zenon
<1> HIDE DEF fromEnv, base
<1>5. TwoLayers(base, fromEnv)[n] = IF Says(base, n) THEN base[n]
                                    ELSE IF Says(fromEnv, n) THEN fromEnv[n] ELSE Zero[n]
  BY Zenon DEF TwoLayers, Overlay
<1>6. Merged[n] = IF n \in DOMAIN Defaults /\ TwoLayers(base, fromEnv)[n] = Zero[n]
                  THEN Defaults[n] ELSE TwoLayers(base, fromEnv)[n]
  BY <1>1, Zenon DEF WithDefaults
<1>7. DOMAIN Defaults = {"strategy", "parallel", "compression", "format"}
  BY DEF Defaults
<1>8. n \in DOMAIN Defaults => \A layer : Says(layer, n) => layer[n] # Zero[n]
  <2>1. CASE n = "strategy"
    BY <2>1, <1>2 DEF Says, Booleans, Silent
  <2>2. CASE n = "parallel"
    BY <2>2, <1>2 DEF Says, Booleans, Silent
  <2>3. CASE n \in {"compression", "format"}
    BY <2>3, <1>2 DEF Says, Booleans, Silent
  <2> QED
    BY <1>7, <2>1, <2>2, <2>3
<1>9. CASE n \in Booleans
  BY <1>5, <1>6, <1>7, <1>9, Zenon DEF Says, Booleans, base
<1>10. CASE n \notin Booleans
  <2>1. n \notin DOMAIN Defaults => ~Says(EnvDefaults, n)
    <3>1. SUFFICES ASSUME n \in {"source", "dest", "thresholds", "include"}
                   PROVE  ~Says(EnvDefaults, n)
      BY <1>10, <1>7 DEF Names, Texts, Booleans
    <3>2. EnvDefaults[n] = Zero[n]
      BY <3>1, EnvDefaultsAt
    <3> QED
      BY <3>1, <3>2, <1>2 DEF Says, Booleans
  <2>2. n \in DOMAIN Defaults => EnvDefaults[n] = Defaults[n]
    BY <1>7, EnvDefaultsAt DEF Defaults
  <2> QED
    BY <1>3, <1>4, <1>5, <1>6, <1>8, <2>1, <2>2, Zenon DEF base
<1> QED
  BY <1>9, <1>10

\* With the flags over it, it is the order of Asked.
LEMMA FlagsOverMerged ==
  ASSUME NEW n \in Names
  PROVE  ApplyFlags(flags, Merged)[n] = Asked(n)
<1>1. ApplyFlags(flags, Merged)[n] = IF n \in DOMAIN flags THEN flags[n] ELSE Merged[n]
  BY Zenon DEF ApplyFlags
<1> QED
  BY <1>1, MergedAt, Zenon DEF Asked
-----------------------------------------------------------------------------
(***************************************************************************)
(* The configuration and the outcome.                                      *)
(***************************************************************************)
Configured == {"transfer", "count", "sample", "engine", "print"}

Applied == \A n \in Names : cfg[n] = Asked(n)

\* Where the configuration stands: empty, merged, merged and overridden by the flags.
ConfigInv ==
  /\ pc = "flags" => cfg = Merged
  /\ pc \in Configured => Applied

\* What a success is worth.
Deserved ==
  /\ cfg.strategy \in {"auto", Silent, strategy}
  /\ ~cfg.dryRun => MayTransfer /\ destination \in SuccessLeaves

\* The data is touched only under a configuration that was asked for and is no dry run,
\* and the command ends successfully only from having done what was asked for, by the
\* strategy that was asked for.
OutcomeInv ==
  /\ destination # "untouched" => Applied /\ ~cfg.dryRun /\ pc \in {"print", "end"}
  /\ pc = "transfer" => strategy = cfg.strategy
  /\ pc \in {"count", "sample"} => cfg.strategy \in {"auto", Silent}
  /\ pc \in {"engine", "print"} => cfg.strategy \in {"auto", Silent, strategy}
  /\ pc = "print" => Deserved
  /\ exit = 0 => pc = "end" /\ Applied /\ Deserved

\* No step changes the inputs, so that what is asked for is settled at the start.
LEMMA InputsKept ==
  ASSUME [Next]_cmdVars
  PROVE  /\ input' = input /\ args' = args /\ env' = env /\ flags' = flags
         /\ \A n : Asked(n)' = Asked(n)
         /\ Merged' = Merged
<1>1. input' = input /\ args' = args /\ env' = env /\ flags' = flags
  BY DEF Next, cmdVars, inputVars, Refuses, LoadsConfig, AppliesFlags, SelectsStrategy,
         CountsFiles, DirectoryChanges, Samples, NoEngine, EngineTransfers, Prints
<1>2. BaseLayer' = BaseLayer
  BY <1>1, Zenon DEF BaseLayer, OutputFormat
<1> QED
  BY <1>1, <1>2, Zenon DEF Asked, Merged

\* As long as the configuration stays, so does its agreement with what was asked.
LEMMA AppliedKept ==
  ASSUME Applied, cfg' = cfg, [Next]_cmdVars
  PROVE  Applied'
BY InputsKept, Zenon DEF Applied

\* Every step keeps the configuration right.
LEMMA ConfigStep ==
  ASSUME ConfigInv, [Next]_cmdVars
  PROVE  ConfigInv'
<1>1. CASE LoadsConfig
  <2>1. CASE pc' = "flags"
    <3>1. PICK loaded : /\ cfg' = Merge(<<loaded.layer, FromEnv(env)>>)
                        /\ loaded = CASE input.from # "none" -> LoadConfig(input)
                             [] input.from = "none" /\ Len(args) = 2 ->
                                  [ok |-> TRUE, layer |-> FromArgs(args, OutputFormat)]
                             [] OTHER -> [ok |-> FALSE, layer |-> Zero]
                        /\ loaded.ok
      BY <1>1, <2>1 DEF LoadsConfig, Exits
    <3>2. loaded.layer = BaseLayer
      <4>1. CASE input.from # "none"
        BY <3>1, <4>1 DEF LoadConfig, BaseLayer
      <4>2. CASE input.from = "none" /\ Len(args) = 2
        BY <3>1, <4>2 DEF BaseLayer
      <4>3. CASE input.from = "none" /\ Len(args) # 2
        BY <3>1, <4>3
      <4> QED
        BY <4>1, <4>2, <4>3
    <3> QED
      BY <2>1, <3>1, <3>2, InputsKept DEF ConfigInv, Merged, Configured
  <2>2. CASE pc' # "flags"
    BY <1>1, <2>2 DEF LoadsConfig, Exits, ConfigInv, Configured
  <2> QED
    BY <2>1, <2>2
<1>2. CASE AppliesFlags
  <2>1. cfg' = ApplyFlags(flags, Merged) /\ pc' = "transfer"
    BY <1>2 DEF AppliesFlags, ConfigInv
  <2>2. \A n \in Names : cfg'[n] = Asked(n)'
    BY <2>1, FlagsOverMerged, InputsKept, Zenon
  <2> QED
    BY <2>1, <2>2 DEF ConfigInv, Applied
<1>3. CASE SelectsStrategy \/ CountsFiles \/ DirectoryChanges \/ Samples
  <2>1. cfg' = cfg /\ pc \in Configured /\ pc' # "flags"
    BY <1>3 DEF SelectsStrategy, CountsFiles, DirectoryChanges, Samples, Configured, Exits
  <2> QED
    BY <2>1, AppliedKept DEF ConfigInv
<1>4. CASE NoEngine \/ EngineTransfers \/ Prints \/ Refuses
  <2>1. cfg' = cfg /\ pc' # "flags" /\ (pc' \in Configured => pc \in Configured)
    BY <1>4 DEF NoEngine, EngineTransfers, Prints, Refuses, Configured, Exits
  <2> QED
    BY <2>1, AppliedKept DEF ConfigInv
<1>5. CASE UNCHANGED cmdVars
  <2>1. cfg' = cfg /\ pc' = pc
    BY <1>5 DEF cmdVars
  <2> QED
    BY <2>1, AppliedKept, InputsKept DEF ConfigInv
<1> QED
  BY <1>1, <1>2, <1>3, <1>4, <1>5 DEF Next

\* What a success is worth depends on the configuration, the strategy and the outcome.
LEMMA DeservedKept ==
  ASSUME Deserved, cfg' = cfg, strategy' = strategy, destination' = destination
  PROVE  Deserved'
BY DEF Deserved, MayTransfer, SuccessLeaves, TarTakesAsLocal

\* Every step keeps the outcome right.
LEMMA OutcomeStep ==
  ASSUME ConfigInv, OutcomeInv, [Next]_cmdVars
  PROVE  OutcomeInv'
<1>1. CASE Refuses \/ LoadsConfig
  <2>1. /\ destination' = destination /\ pc = "load" /\ pc' \in {"flags", "end"}
        /\ exit' = exit \/ exit' \in {1, 10}
    BY <1>1 DEF Refuses, LoadsConfig, Exits
  <2> QED
    BY <2>1 DEF OutcomeInv
<1>2. CASE AppliesFlags
  <2>1. /\ destination' = destination /\ pc = "flags" /\ pc' = "transfer" /\ exit' = exit
        /\ strategy' = cfg'.strategy
    BY <1>2 DEF AppliesFlags
  <2> QED
    BY <2>1 DEF OutcomeInv
<1>3. CASE SelectsStrategy \/ CountsFiles \/ DirectoryChanges \/ Samples \/ NoEngine
  <2>1. /\ destination' = destination /\ cfg' = cfg
        /\ pc \in {"transfer", "count", "sample", "engine"}
        /\ pc' \in {"count", "sample", "engine", "end"}
        /\ exit' = exit \/ exit' \in {2, 30}
    BY <1>3 DEF SelectsStrategy, CountsFiles, DirectoryChanges, Samples, NoEngine, Exits
  <2>2. pc' \in {"count", "sample"} => cfg.strategy \in {"auto", Silent}
    BY <1>3 DEF SelectsStrategy, CountsFiles, DirectoryChanges, Samples, NoEngine, Exits, OutcomeInv
  <2>3. pc' = "engine" => cfg.strategy \in {"auto", Silent, strategy'}
    BY <1>3 DEF SelectsStrategy, CountsFiles, DirectoryChanges, Samples, NoEngine, Exits, OutcomeInv
  <2> QED
    BY <2>1, <2>2, <2>3 DEF OutcomeInv
<1>4. CASE EngineTransfers
  <2>1. /\ pc = "engine" /\ cfg' = cfg /\ strategy' = strategy
        /\ \/ cfg.dryRun /\ pc' = "print" /\ destination' = destination /\ exit' = exit
           \/ /\ ~cfg.dryRun /\ MayTransfer
              /\ destination' \in SuccessLeaves /\ pc' = "print" /\ exit' = exit
           \/ ~cfg.dryRun /\ pc' = "end" /\ exit' = 30
    BY <1>4 DEF EngineTransfers, Exits
  <2>2. Applied'
    BY <2>1, AppliedKept DEF ConfigInv, Configured
  <2>3. destination = "untouched" /\ exit # 0 /\ cfg.strategy \in {"auto", Silent, strategy}
    BY <2>1 DEF OutcomeInv
  <2>4. MayTransfer' = MayTransfer /\ SuccessLeaves' = SuccessLeaves
    BY <2>1 DEF MayTransfer, SuccessLeaves, TarTakesAsLocal
  <2>5. pc' = "print" => Deserved'
    BY <2>1, <2>3, <2>4 DEF Deserved
  <2> QED
    BY <2>1, <2>2, <2>3, <2>5 DEF OutcomeInv
<1>5. CASE Prints
  <2>1. /\ pc = "print" /\ cfg' = cfg /\ strategy' = strategy
        /\ destination' = destination /\ pc' = "end"
    BY <1>5 DEF Prints, Exits
  <2>2. Applied'
    BY <2>1, AppliedKept DEF ConfigInv, Configured
  <2>3. Deserved'
    BY <2>1, DeservedKept DEF OutcomeInv
  <2> QED
    BY <2>1, <2>2, <2>3 DEF OutcomeInv
<1>6. CASE UNCHANGED cmdVars
  <2>1. /\ cfg' = cfg /\ pc' = pc /\ destination' = destination /\ exit' = exit
        /\ strategy' = strategy
    BY <1>6 DEF cmdVars
  <2> QED
    BY <2>1, AppliedKept, DeservedKept DEF OutcomeInv
<1> QED
  BY <1>1, <1>2, <1>3, <1>4, <1>5, <1>6 DEF Next

\* Both hold of every run.
LEMMA CommandInvariants == Spec => [](ConfigInv /\ OutcomeInv)
<1>1. Init => ConfigInv /\ OutcomeInv
  BY DEF Init, ConfigInv, OutcomeInv, Configured
<1>2. ConfigInv /\ OutcomeInv /\ [Next]_cmdVars => (ConfigInv /\ OutcomeInv)'
  BY ConfigStep, OutcomeStep
<1> QED
  BY <1>1, <1>2, PTL DEF Spec

\* Whatever the layers, the environment and the flags hold, the options a transfer
\* runs with are what loadConfig, Merge and applyFlags come to option by option: those
\* of the flag, of the config input or else the arguments, of the environment, of the
\* default (main.go:257-332).  That is the order of the code, not the one of main.go:261.
THEOREM PrecedenceHolds == Spec => []LayersInOrder
<1>1. ConfigInv => LayersInOrder
  BY Zenon DEF ConfigInv, LayersInOrder, Configured, Applied
<1> QED
  BY <1>1, CommandInvariants, PTL

\* Exit code 0 is only given for a dry run that touched nothing, or for a success of an
\* engine that takes such paths: rsync's and rclone's moved everything, tar's began an
\* archive.  The strategy was the one asked for, and no dry run ever touches the data.
THEOREM ZeroIsSuccess == Spec => []ZeroExitPromises
<1>1. ConfigInv /\ OutcomeInv => ZeroExitPromises
  <2>1. "dryRun" \in Names /\ "strategy" \in Names
    BY DEF Names, Booleans
  <2>2. Applied => cfg.dryRun = Asked("dryRun") /\ cfg.strategy = Asked("strategy")
    BY <2>1, Zenon DEF Applied
  <2>3. /\ strategy \in {"rsync", "rclone"} => SuccessLeaves = {"complete"}
        /\ strategy = "tar" => "untouched" \notin SuccessLeaves
    BY DEF SuccessLeaves
  <2> QED
    BY <2>2, <2>3 DEF OutcomeInv, Deserved, ZeroExitPromises
<1> QED
  BY <1>1, CommandInvariants, PTL
-----------------------------------------------------------------------------
(***************************************************************************)
(* The selection from a sample.  Of L files every k-th is looked at.       *)
(***************************************************************************)
LEMMA SampleScaled ==
  ASSUME NEW L \in Nat, NEW k \in Nat \ {0}
  PROVE  /\ IsFiniteSet({i \in 1..L : i % k = 0})
         /\ Cardinality({i \in 1..L : i % k = 0}) \in Nat
         /\ Cardinality({i \in 1..L : i % k = 0}) * k <= L
         /\ k = 1 => Cardinality({i \in 1..L : i % k = 0}) = L
<1> DEFINE sampled == {i \in 1..L : i % k = 0}
           last == L \div k
           place == [i \in sampled |-> i \div k]
<1>1. last \in Nat /\ last * k <= L /\ L < (last + 1) * k
  OBVIOUS
<1>2. ASSUME NEW i \in sampled
      PROVE  i = (i \div k) * k /\ (i \div k) \in 1..last
  <2>1. (i \div k) \in Nat /\ i = (i \div k) * k + (i % k)
    OBVIOUS
  <2>2. i = (i \div k) * k
    BY <2>1
  <2>3. i \div k # 0
    BY <2>2
  <2>4. ASSUME i \div k >= last + 1 PROVE FALSE
    <3>1. \A a, b \in Nat : a >= b => a * k >= b * k
      OBVIOUS
    <3>2. i >= (last + 1) * k
      BY <1>1, <2>1, <2>2, <2>4, <3>1
    <3> QED
      BY <1>1, <3>2
  <2> HIDE DEF last, sampled
  <2>5. \A q \in Nat : q # 0 /\ ~(q >= last + 1) => q \in 1..last
    BY <1>1
  <2>6. (i \div k) \in 1..last
    BY <2>1, <2>3, <2>4, <2>5
  <2> QED
    BY <2>2, <2>6
<1>3. IsFiniteSet(1..last) /\ Cardinality(1..last) = last
  <2> HIDE DEF last
  <2> QED
    BY <1>1, FS_Interval
<1>4. IsFiniteSet(1..L) /\ Cardinality(1..L) = L
  BY FS_Interval
<1>5. IsFiniteSet(sampled) /\ Cardinality(sampled) \in Nat
  BY <1>4, FS_Subset, FS_CardinalityType
<1>6. place \in Injection(sampled, 1..last)
  <2>1. place \in [sampled -> 1..last]
    BY <1>2
  <2>2. \A i, j \in sampled : place[i] = place[j] => i = j
    BY <1>2
  <2> QED
    BY <2>1, <2>2 DEF Injection, IsInjective
<1>7. Cardinality(sampled) <= last
  BY <1>3, <1>6, FS_Injection
<1>8. Cardinality(sampled) * k <= last * k
  <2>1. \A a, b \in Nat : a <= b => a * k <= b * k
    OBVIOUS
  <2> QED
    BY <1>1, <1>5, <1>7, <2>1
<1>9. k = 1 => Cardinality(sampled) = L
  <2>1. k = 1 => sampled = 1..L
    OBVIOUS
  <2> QED
    BY <2>1, <1>4
<1>10. Cardinality(sampled) * k <= L
  <2>1. \A a, b, c \in Int : a <= b /\ b <= c => a <= c
    OBVIOUS
  <2> HIDE DEF sampled, last
  <2>2. Cardinality(sampled) * k \in Int /\ last * k \in Int
    BY <1>1, <1>5
  <2> QED
    BY <1>1, <1>8, <2>1, <2>2
<1> QED
  BY <1>5, <1>9, <1>10

\* A class has no more files in the sample than there are files in the sample, nor than
\* it has in the directory.
LEMMA ClassCounted ==
  ASSUME NEW class, NEW found \in Seq(Nat), NEW k \in Nat \ {0}
  PROVE  /\ CountOf(class, found, k) \in Nat
         /\ CountOf(class, found, k) <= Cardinality(Indices(found, k))
         /\ CountOf(class, found, k) <= Cardinality({i \in DOMAIN found : found[i] \in class})
         /\ Cardinality({i \in DOMAIN found : found[i] \in class}) \in Nat
<1> DEFINE L == Len(found)
           sampled == {i \in 1..L : i % k = 0}
           counted == {i \in Indices(found, k) : found[i] \in class}
           all == {i \in DOMAIN found : found[i] \in class}
<1>1. L \in Nat /\ DOMAIN found = 1..L /\ Indices(found, k) = sampled
  BY DEF Indices
<1>2. IsFiniteSet(Indices(found, k)) /\ IsFiniteSet(1..L)
  <2>1. IsFiniteSet(sampled)
    BY <1>1, SampleScaled
  <2>2. IsFiniteSet(1..L)
    BY <1>1, FS_Interval
  <2> QED
    BY <1>1, <2>1, <2>2, Zenon
<1>3. all \in SUBSET (1..L) /\ counted \in SUBSET Indices(found, k) /\ counted \in SUBSET all
  BY <1>1
<1>4. IsFiniteSet(all) /\ IsFiniteSet(counted)
  BY <1>2, <1>3, FS_Subset
<1> HIDE DEF all, counted
<1>5. /\ Cardinality(counted) \in Nat /\ Cardinality(all) \in Nat
      /\ Cardinality(counted) <= Cardinality(Indices(found, k))
      /\ Cardinality(counted) <= Cardinality(all)
  BY <1>2, <1>3, <1>4, FS_Subset, FS_CardinalityType
<1> QED
  BY <1>5 DEF CountOf, counted, all

\* The analyzer only recommends tar for a directory that has as many small files as the
\* thresholds say, if half of the files being small is never more than enough.
LEMMA TarRecommended ==
  ASSUME NEW found \in Seq(Nat), NEW k \in Nat \ {0}, NEW t \in [ThresholdNames -> Nat],
         t.smallPercent = 0 \/ t.smallPercent >= 50,
         RecommendStrategy(Analysis(found, k, t), t) = "tar"
  PROVE  /\ Len(found) > t.many
         /\ Exceeds(Cardinality({i \in DOMAIN found : found[i] < t.small}), Len(found), t.smallPercent)
<1> DEFINE L == Len(found)
           P == t.smallPercent
           class == {s \in Nat : s < t.small}
           total == Cardinality(Indices(found, k))
           small == CountOf(class, found, k)
           all == Cardinality({i \in DOMAIN found : found[i] < t.small})
<1>1. L \in Nat /\ P \in Nat /\ t.many \in Nat /\ (P = 0 \/ P >= 50)
  BY DEF ThresholdNames
<1>2. Exceeds(small, total * k, P) /\ total * k > t.many
  BY Zenon DEF RecommendStrategy, Analysis
<1>3. total \in Nat /\ total * k <= L /\ (k = 1 => total = L)
  BY <1>1, SampleScaled DEF Indices
<1>4. all = Cardinality({i \in DOMAIN found : found[i] \in class})
  <2>1. {i \in DOMAIN found : found[i] < t.small} = {i \in DOMAIN found : found[i] \in class}
    OBVIOUS
  <2> QED
    BY <2>1, Zenon
<1> HIDE DEF class, P, L, total, small, all
<1>5. small \in Nat /\ small <= total /\ small <= all /\ all \in Nat
  BY <1>4, ClassCounted DEF small, total
<1>6. L > t.many
  BY <1>1, <1>2, <1>3
<1>7. \/ small * 100 > P * (total * k)
      \/ small * 100 = P * (total * k) /\ P \in RoundedUp
  BY <1>2 DEF Exceeds
<1>8. Exceeds(all, L, P)
  <2>1. CASE P = 0
    <3>1. small > 0
      BY <1>3, <1>5, <1>7, <2>1 DEF RoundedUp
    <3> QED
      BY <1>1, <1>5, <2>1, <3>1 DEF Exceeds
  <2>2. CASE k = 1
    <3>1. total * k = L /\ L # 0 /\ P * L \in Nat
      BY <1>1, <1>3, <1>6, <2>2
    <3>2. all * 100 >= small * 100
      BY <1>5
    <3>3. all * 100 > P * L \/ (all * 100 = P * L /\ P \in RoundedUp)
      BY <1>5, <1>7, <3>1, <3>2
    <3> QED
      BY <3>1, <3>3 DEF Exceeds
  <2>3. CASE P >= 50 /\ k >= 2
    <3>1. total * k >= total * 2
      BY <1>3, <2>3
    <3>2. P * (total * k) >= 50 * (total * k)
      BY <1>1, <1>3, <2>3
    <3>3. total * k \in Nat /\ P * (total * k) \in Nat /\ total * k > 0
      BY <1>1, <1>2, <1>3
    <3>4. P = 50 \/ P * (total * k) > 50 * (total * k)
      <4>1. \A n \in Nat : P >= 51 /\ n > 0 => P * n > 50 * n
        BY <1>1
      <4> QED
        BY <1>1, <2>3, <3>3, <4>1
    <3>5. 50 * (total * k) >= 100 * total
      BY <1>3, <3>1, <3>3
    <3>6. small * 100 >= P * (total * k) /\ (P = 50 => small * 100 > P * (total * k))
      BY <1>5, <1>7, <3>3 DEF RoundedUp
    <3>7. \A f, pn, n50, t100 \in Int :
             f >= pn /\ pn >= n50 /\ n50 >= t100 /\ (f > pn \/ pn > n50) => f > t100
      OBVIOUS
    <3>8. small * 100 \in Int /\ 50 * (total * k) \in Int /\ 100 * total \in Int
      BY <1>3, <1>5, <3>3
    <3>9. small * 100 > 100 * total
      BY <3>2, <3>3, <3>4, <3>5, <3>6, <3>7, <3>8
    <3> QED
      BY <1>3, <1>5, <3>9
  <2> QED
    BY <1>1, <2>1, <2>2, <2>3
<1> QED
  BY <1>6, <1>8 DEF L, P, all

\* Both thresholds of the percentage are 0, what a configuration leaves unsaid, or so
\* high that half of the files do not suffice; what a sample sees is never more.
PercentagesHigh ==
  \A t \in {NewThresholds, SomeThresholds} : t.smallPercent = 0 \/ t.smallPercent >= 50

\* Between the two walks there is a sample that can be divided by; after the second one
\* the strategy is what the code selected or what somebody asked for.
SelectionInv ==
  /\ files \in Seq(Nat) /\ fileCount \in Nat
  /\ pc = "transfer" => strategy = cfg.strategy
  /\ pc = "sample" => fileCount = 0 \/ Thresholds.sample > 0
  /\ TarMeansManySmall

\* The thresholds in use are one of the two records.
LEMMA ThresholdsType ==
  /\ Thresholds \in [ThresholdNames -> Nat] /\ Thresholds.sample \in Nat
  /\ PercentagesHigh => Thresholds.smallPercent = 0 \/ Thresholds.smallPercent >= 50
BY ThresholdsAssumption DEF Thresholds, PercentagesHigh, ThresholdNames

\* No division by zero, and the interval is never 0.
LEMMA SampleIntervalType ==
  ASSUME fileCount \in Nat, fileCount = 0 \/ Thresholds.sample > 0
  PROVE  SampleInterval \in Nat \ {0}
<1>1. CASE fileCount > Thresholds.sample
  <2>1. Thresholds.sample \in Nat \ {0}
    BY <1>1, ThresholdsType
  <2>2. \A n \in Nat, s \in Nat \ {0} : n > s => n \div s \in Nat \ {0}
    OBVIOUS
  <2> QED
    BY <1>1, <2>1, <2>2 DEF SampleInterval
<1>2. CASE ~(fileCount > Thresholds.sample)
  BY <1>2 DEF SampleInterval
<1> QED
  BY <1>1, <1>2

\* Every step keeps the selection right.
LEMMA SelectionStep ==
  ASSUME PercentagesHigh, ConfigInv, SelectionInv, [Next]_cmdVars
  PROVE  SelectionInv'
<1>1. CASE Refuses \/ LoadsConfig \/ NoEngine \/ EngineTransfers \/ Prints
  <2>1. /\ files' = files /\ fileCount' = fileCount
        /\ pc' \in {"flags", "print", "end"}
    BY <1>1 DEF Refuses, LoadsConfig, NoEngine, EngineTransfers, Prints, Exits
  <2> QED
    BY <2>1 DEF SelectionInv, TarMeansManySmall, SelectedByWalk
<1>2. CASE AppliesFlags
  BY <1>2 DEF AppliesFlags, SelectionInv, TarMeansManySmall, SelectedByWalk
<1>3. CASE SelectsStrategy
  <2>1. /\ pc = "transfer" /\ pc' \in {"engine", "count"} /\ strategy = cfg.strategy
        /\ files' = files /\ fileCount' = fileCount /\ cfg' = cfg
    BY <1>3 DEF SelectsStrategy, SelectionInv
  <2>2. Asked("strategy")' = strategy
    <3>1. "strategy" \in Names
      BY DEF Names
    <3> QED
      BY <2>1, <3>1, InputsKept, Zenon DEF ConfigInv, Configured, Applied
  <2>3. pc' = "engine" => strategy \notin {"auto", Silent} \/ strategy' \in {"proxy", "rclone"}
    BY <1>3 DEF SelectsStrategy
  <2> QED
    BY <2>1, <2>2, <2>3 DEF SelectionInv, TarMeansManySmall, SelectedByWalk
<1>4. CASE CountsFiles
  <2>1. files' = files /\ cfg' = cfg /\ fileCount' = Len(Found)
    BY <1>4 DEF CountsFiles
  <2>2. fileCount' \in Nat
    BY <2>1 DEF SelectionInv, Found
  <2>3. pc' = "end" \/ (pc' = "sample" /\ (Thresholds.sample # 0 \/ ~(fileCount' > 0)))
    BY <1>4 DEF CountsFiles, Exits
  <2>4. Thresholds' = Thresholds
    BY <2>1 DEF Thresholds
  <2> QED
    BY <2>1, <2>2, <2>3, <2>4, ThresholdsType DEF SelectionInv, TarMeansManySmall, SelectedByWalk
<1>5. CASE DirectoryChanges
  <2>1. /\ files' \in Seq(Nat) /\ fileCount' = fileCount /\ pc' = "sample"
        /\ pc = "sample" /\ cfg' = cfg
    BY <1>5, DirectoriesAssumption DEF DirectoryChanges
  <2> QED
    BY <2>1 DEF SelectionInv, TarMeansManySmall, SelectedByWalk, Thresholds
<1>6. CASE Samples
  <2>1. /\ pc = "sample" /\ pc' = "engine"
        /\ files' = files /\ fileCount' = fileCount /\ cfg' = cfg
        /\ strategy' = RecommendStrategy(Analysis(Found, SampleInterval, Thresholds), Thresholds)
    BY <1>6 DEF Samples
  <2>2. Found' = Found /\ Thresholds' = Thresholds /\ Found \in Seq(Nat)
    BY <2>1 DEF Found, Thresholds, SelectionInv
  <2>3. SampleInterval \in Nat \ {0}
    BY <2>1, SampleIntervalType DEF SelectionInv
  <2>4. strategy' = "tar" => ManySmall
    BY <2>1, <2>2, <2>3, TarRecommended, ThresholdsType DEF ManySmall, Small
  <2>5. ManySmall' = ManySmall
    BY <2>2, Zenon DEF ManySmall, Small
  <2> QED
    BY <2>1, <2>4, <2>5 DEF SelectionInv, TarMeansManySmall
<1>7. CASE UNCHANGED cmdVars
  <2>1. /\ files' = files /\ fileCount' = fileCount /\ cfg' = cfg /\ pc' = pc
        /\ strategy' = strategy
    BY <1>7 DEF cmdVars
  <2>2. Found' = Found /\ Thresholds' = Thresholds
    BY <2>1 DEF Found, Thresholds
  <2>3. ManySmall' = ManySmall
    BY <2>2, Zenon DEF ManySmall, Small
  <2> QED
    BY <2>1, <2>2, <2>3, InputsKept DEF SelectionInv, TarMeansManySmall, SelectedByWalk
<1> QED
  BY <1>1, <1>2, <1>3, <1>4, <1>5, <1>6, <1>7 DEF Next

\* Tar is selected only for a directory with many files, enough of them small, however
\* the directory changed between the walks and whatever part of it the second one saw.
THEOREM TarIsDeserved == PercentagesHigh => (Spec => []TarMeansManySmall)
<1> SUFFICES ASSUME PercentagesHigh PROVE Spec => []TarMeansManySmall
  OBVIOUS
<1>1. Init => SelectionInv
  BY DirectoriesAssumption DEF Init, SelectionInv, TarMeansManySmall, SelectedByWalk
<1>2. SelectionInv /\ ConfigInv /\ [Next]_cmdVars => SelectionInv'
  BY SelectionStep
<1>3. SelectionInv => TarMeansManySmall
  BY DEF SelectionInv
<1> QED
  BY <1>1, <1>2, <1>3, CommandInvariants, PTL DEF Spec
=============================================================================
