-------------------------------- MODULE Retry --------------------------------
(***************************************************************************)
(* pkg/retry: Do and DoWithRetryable against a context that may end at any *)
(* moment.  The function that is retried is external: a call of it returns *)
(* nil or an error, and an error is worth a retry or not.  Do is the case  *)
(* in which every error is.  Waits are in tenths of the policy's unit, so  *)
(* that the jitter of at most a tenth of the wait is a number of them.     *)
(***************************************************************************)
EXTENDS Integers, Sequences, SequencesExt

CONSTANTS Policies  \* records maxAttempts, initialWait, maxWait, multiplier, jitter

ASSUME PolicyAssumption ==
  \A p \in Policies : /\ p.maxAttempts \in Int /\ p.jitter \in BOOLEAN
                      /\ {p.initialWait, p.maxWait, p.multiplier} \subseteq Nat

VARIABLES
  policy,
  done,       \* the context is done
  retryPc,    \* "loop", "call" (in fn), "failed" (fn returned an error), "wait", "end" or "panic"
  attempt,    \* the loop's variable
  result,     \* the Result: attempt, success, error, and the attempts with their waits
  lateCalls   \* history: the calls of fn that began when the context was done

retryVars == <<policy, done, retryPc, attempt, result, lateCalls>>

Errors == {"transient", "permanent"}
IsRetryable(err) == err = "transient"

LinearPolicy(n, wait) ==
  [maxAttempts |-> n, initialWait |-> wait, maxWait |-> wait, multiplier |-> 1, jitter |-> FALSE]
ExponentialPolicy(n) ==
  [maxAttempts |-> n, initialWait |-> 10, maxWait |-> 600, multiplier |-> 2, jitter |-> TRUE]
DefaultPolicy == [ExponentialPolicy(3) EXCEPT !.maxWait = 300]

Capped(wait) == IF wait > policy.maxWait THEN policy.maxWait ELSE wait

\* math.Pow, of a natural and a natural.
Power(m, k) == LET power[i \in 0..k] == IF i = 0 THEN 1 ELSE m * power[i - 1] IN power[k]

\* calculateWait: the waits it may return.
CalculateWait(n) ==
  LET wait == Capped(policy.initialWait * Power(policy.multiplier, n - 1))
  IN  IF policy.jitter THEN wait..(wait + wait \div 10) ELSE {wait}

RetryTypeOK ==
  /\ policy \in Policies /\ done \in BOOLEAN
  /\ retryPc \in {"loop", "call", "failed", "wait", "end", "panic"}
  /\ attempt \in Nat /\ lateCalls \in Nat
  /\ result.attempt \in Nat /\ result.success \in BOOLEAN
  /\ result.error \in Errors \cup {"none", "context"}

RetryInit(policies) ==
  /\ policy \in policies /\ done = FALSE
  /\ retryPc = "loop" /\ attempt = 1 /\ lateCalls = 0
  /\ result = [attempt |-> 0, success |-> FALSE, error |-> "none", attempts |-> <<>>]

ContextEnds == ~done /\ done' = TRUE /\ UNCHANGED <<policy, retryPc, attempt, result, lateCalls>>

AttemptBegins ==
  /\ retryPc = "loop" /\ attempt <= policy.maxAttempts
  /\ result' = [result EXCEPT !.attempt = attempt]
  /\ lateCalls' = IF done THEN lateCalls + 1 ELSE lateCalls
  /\ retryPc' = "call" /\ UNCHANGED <<policy, done, attempt>>

Info(err, wait) == [error |-> err, wait |-> wait]

AttemptSucceeds ==
  /\ retryPc = "call"
  /\ result' = [result EXCEPT !.success = TRUE, !.attempts = Append(@, Info("none", 0))]
  /\ retryPc' = "end" /\ UNCHANGED <<policy, done, attempt, lateCalls>>

AttemptFails ==
  /\ retryPc = "call"
  /\ \E err \in Errors : result' = [result EXCEPT !.error = err]
  /\ retryPc' = "failed" /\ UNCHANGED <<policy, done, attempt, lateCalls>>

LastError == result.error

\* Not worth a retry, or no attempt is left.
GivesUp ==
  /\ retryPc = "failed" /\ (~IsRetryable(LastError) \/ attempt >= policy.maxAttempts)
  /\ result' = [result EXCEPT !.attempts = Append(@, Info(LastError, 0))]
  /\ retryPc' = "end" /\ UNCHANGED <<policy, done, attempt, lateCalls>>

MayRetry == retryPc = "failed" /\ IsRetryable(LastError) /\ attempt < policy.maxAttempts

SeesContextDone ==
  /\ MayRetry /\ done
  /\ result' = [result EXCEPT !.error = "context", !.attempts = Append(@, Info(LastError, 0))]
  /\ retryPc' = "end" /\ UNCHANGED <<policy, done, attempt, lateCalls>>

\* Mutant: the context is not looked at before the wait.
WaitsRegardless ==
  /\ MayRetry
  /\ \E wait \in CalculateWait(attempt) :
       result' = [result EXCEPT !.attempts = Append(@, Info(LastError, wait))]
  /\ retryPc' = "wait" /\ UNCHANGED <<policy, done, attempt, lateCalls>>

BeginsToWait ==
  /\ MayRetry /\ ~done
  /\ \E wait \in CalculateWait(attempt) :
       result' = [result EXCEPT !.attempts = Append(@, Info(LastError, wait))]
  /\ retryPc' = "wait" /\ UNCHANGED <<policy, done, attempt, lateCalls>>

\* The select: the timer, even if the context is done too, or the context.
WaitElapses ==
  /\ retryPc = "wait"
  /\ attempt' = attempt + 1
  /\ retryPc' = "loop" /\ UNCHANGED <<policy, done, result, lateCalls>>

WaitInterrupted ==
  /\ retryPc = "wait" /\ done
  /\ result' = [result EXCEPT !.error = "context"]
  /\ retryPc' = "end" /\ UNCHANGED <<policy, done, attempt, lateCalls>>

\* A policy of no attempts at all; of less than none no slice can be made.
NoAttempt ==
  /\ retryPc = "loop" /\ policy.maxAttempts <= 0
  /\ retryPc' = IF policy.maxAttempts = 0 THEN "end" ELSE "panic"
  /\ UNCHANGED <<policy, done, attempt, result, lateCalls>>

RetryProceeds ==
  \/ AttemptBegins \/ AttemptSucceeds \/ AttemptFails \/ GivesUp
  \/ SeesContextDone \/ BeginsToWait \/ WaitElapses \/ WaitInterrupted \/ NoAttempt

RetryNext == RetryProceeds \/ ContextEnds

\* What the Result of a finished call says is what happened: attempts and calls of fn
\* agree and stay within the policy, an error that is not worth a retry is the last
\* one, only a done context is reported as such, a call without a single attempt
\* reports neither success nor error, and a success may carry the error of an earlier
\* attempt.  A context that is done lets at most one more attempt begin.
RetryOutcome ==
  /\ lateCalls <= 1
  /\ retryPc = "end" =>
       LET infos == result.attempts n == Len(infos)
       IN  /\ n = result.attempt /\ (n = 0 \/ n <= policy.maxAttempts)
           /\ result.success <=> n > 0 /\ infos[n].error = "none"
           /\ result.error = "context" => done /\ n < policy.maxAttempts
           /\ result.error = "none" => n = IF result.success THEN 1 ELSE 0
           /\ \A i \in 1..(n - 1) : infos[i].error = "transient"
           /\ \A i \in 1..n : 10 * infos[i].wait <= 11 * policy.maxWait
===============================================================================
