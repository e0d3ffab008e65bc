------------------------------ MODULE Services ------------------------------
(***************************************************************************)
(* The parts of difpipe that keep to themselves: the packing of a manifest,*)
(* the buffer's account, the checkpoint file, the status tracker, a retried*)
(* call and the metrics.  None reads what another changes, so a behaviour  *)
(* is one of them, and the states are the sum of theirs, not the product.  *)
(***************************************************************************)
EXTENDS ManifestCreator, SpaceLedger, CheckpointStore, StatusTracker, Retry, MetricsLock

VARIABLE part

Parts == {"creator", "ledger", "store", "tracker", "retry", "metrics"}

servicesVars == <<creatorVars, ledgerVars, storeVars, trackerVars, retryVars, metricsVars, part>>

TypeOK ==
  /\ part \in Parts
  /\ CreatorTypeOK /\ LedgerTypeOK /\ StoreTypeOK /\ TrackerTypeOK /\ RetryTypeOK /\ MetricsTypeOK

\* The inputs of the part that runs, and one for the others.
InputsOf(p, S) == IF part = p THEN S ELSE {CHOOSE x \in S : TRUE}

Init ==
  /\ part \in Parts
  /\ CreatorInit(InputsOf("creator", Locations), InputsOf("creator", Listings))
  /\ LedgerInit /\ StoreInit /\ TrackerInit /\ RetryInit(InputsOf("retry", Policies)) /\ MetricsInit

CreatorRuns ==
  /\ part = "creator" /\ CreatorNext
  /\ UNCHANGED <<ledgerVars, storeVars, trackerVars, retryVars, metricsVars, part>>

LedgerRuns ==
  /\ part = "ledger" /\ LedgerNext
  /\ UNCHANGED <<creatorVars, storeVars, trackerVars, retryVars, metricsVars, part>>

StoreRuns ==
  /\ part = "store" /\ StoreNext
  /\ UNCHANGED <<creatorVars, ledgerVars, trackerVars, retryVars, metricsVars, part>>

TrackerRuns ==
  /\ part = "tracker" /\ TrackerNext
  /\ UNCHANGED <<creatorVars, ledgerVars, storeVars, retryVars, metricsVars, part>>

RetryRuns ==
  /\ part = "retry" /\ RetryNext
  /\ UNCHANGED <<creatorVars, ledgerVars, storeVars, trackerVars, metricsVars, part>>

MetricsRun ==
  /\ part = "metrics" /\ MetricsNext
  /\ UNCHANGED <<creatorVars, ledgerVars, storeVars, trackerVars, retryVars, part>>

Next == CreatorRuns \/ LedgerRuns \/ StoreRuns \/ TrackerRuns \/ RetryRuns \/ MetricsRun

\* Fairness: the goroutines of the metrics, of a retried call and of the auto saver are
\* scheduled, the lock is given to who waits for it, the function that is retried
\* returns, and a select that finds done ready again and again takes it in the end.
Spec ==
  /\ Init /\ [][Next]_servicesVars
  /\ WF_servicesVars(RetryRuns /\ RetryProceeds) /\ WF_servicesVars(MetricsRun)
  /\ WF_servicesVars(StoreRuns /\ SaverSteps)
  /\ SF_servicesVars(StoreRuns /\ SaverWakes /\ lastSave')

\* A retried call returns (or panics at once, with a negative number of attempts), the
\* goroutine of an auto saver ends after Stop if the process does not, and calls of the
\* metrics return but for one case: GetTransferMetrics, which holds the read lock, asks
\* for it again while a writer waits (metrics/collector.go:165).
CallsReturn ==
  /\ part = "retry" => <>(retryPc \in {"end", "panic"})
  /\ stopped ~> (saver \in {"ended", "off"})
  /\ part = "metrics" => <>(finished = Goroutines) \/ <>[]MetricsDeadlocked
=============================================================================
