----------------------------- MODULE SpaceLedger -----------------------------
(***************************************************************************)
(* ReserveSpace, ReleaseSpace and Cleanup of pkg/batch/buffer.go, called   *)
(* by several workers at once: the reservation is a loop of a Load and a   *)
(* CompareAndSwap, with anything in between.  A release subtracts whatever *)
(* it is told to: of a batch whose archive outgrew its estimate while      *)
(* ReserveSpace refused the difference (source_worker.go:225), more is     *)
(* released than was ever reserved.                                        *)
(***************************************************************************)
EXTENDS Integers

CONSTANTS
  Workers,  \* the goroutines of both pools
  MaxSize,  \* maxSize
  Sizes,    \* the sizes that are reserved and released
  Lowest    \* bounds releases: currentSize does not fall below it

ASSUME LedgerAssumption ==
  MaxSize \in Nat /\ Sizes \subseteq Nat /\ Lowest \in Int

VARIABLES
  currentSize,
  at,       \* where ReserveSpace is: "idle" (not called), "load" or "swap"
  wants,    \* its argument
  current,  \* its local variable
  reply     \* what it answered, see SpaceAccount

ledgerVars == <<currentSize, at, wants, current, reply>>

LedgerTypeOK ==
  /\ currentSize \in Int
  /\ at \in [Workers -> {"idle", "load", "swap"}]
  /\ wants \in [Workers -> Sizes \cup {0}] /\ current \in [Workers -> Int]
  /\ reply \in [Workers -> {"none", "yes", "no"}]

LedgerInit ==
  /\ currentSize = 0
  /\ at = [w \in Workers |-> "idle"] /\ reply = [w \in Workers |-> "none"]
  /\ wants = [w \in Workers |-> 0] /\ current = wants

ReserveSpace(w) ==
  /\ at[w] = "idle"
  /\ \E s \in Sizes : wants' = [wants EXCEPT ![w] = s]
  /\ at' = [at EXCEPT ![w] = "load"]
  /\ reply' = [reply EXCEPT ![w] = "none"]
  /\ UNCHANGED <<currentSize, current>>

ReservationLoads(w) ==
  /\ at[w] = "load"
  /\ current' = [current EXCEPT ![w] = currentSize]
  /\ IF currentSize + wants[w] > MaxSize
       THEN /\ at' = [at EXCEPT ![w] = "idle"]
            /\ reply' = [reply EXCEPT ![w] = "no"]
       ELSE at' = [at EXCEPT ![w] = "swap"] /\ UNCHANGED reply
  /\ UNCHANGED <<currentSize, wants>>

\* Mutant: a Store in place of the CompareAndSwap.
SwapStores(w) ==
  /\ at[w] = "swap"
  /\ currentSize' = current[w] + wants[w]
  /\ reply' = [reply EXCEPT ![w] = "yes"]
  /\ at' = [at EXCEPT ![w] = "idle"]
  /\ UNCHANGED <<wants, current>>

ReservationSwaps(w) ==
  /\ at[w] = "swap" /\ currentSize = current[w]
  /\ currentSize' = current[w] + wants[w]
  /\ reply' = [reply EXCEPT ![w] = "yes"]
  /\ at' = [at EXCEPT ![w] = "idle"]
  /\ UNCHANGED <<wants, current>>

ReservationRetries(w) ==
  /\ at[w] = "swap" /\ currentSize # current[w]
  /\ at' = [at EXCEPT ![w] = "load"]
  /\ UNCHANGED <<currentSize, wants, current, reply>>

\* ReleaseSpace, and DeleteBatch when it succeeds, of any size.
ReleaseSpace(w) ==
  /\ at[w] = "idle"
  /\ \E s \in Sizes : /\ currentSize - s >= Lowest
                      /\ currentSize' = currentSize - s
  /\ UNCHANGED <<at, wants, current, reply>>

\* Cleanup, at the end or under the feet of the workers after a signal.
LedgerCleanup ==
  /\ currentSize' = 0
  /\ UNCHANGED <<at, wants, current, reply>>

LedgerNext ==
  \/ \E w \in Workers : \/ ReserveSpace(w) \/ ReservationLoads(w) \/ ReservationSwaps(w)
                        \/ ReservationRetries(w) \/ ReleaseSpace(w)
  \/ LedgerCleanup

Account == INSTANCE SpaceAccount WITH account <- currentSize

\* ReserveSpace is atomic for its callers (buffer.go:55-70): however the Loads, swaps,
\* releases and a Cleanup of several workers interleave, each reservation is added to
\* currentSize exactly if it fits there at one moment, and no update is lost.  That the
\* account covers what its users hold is not promised: a release of more than was
\* reserved makes room for a request that should not fit.
LedgerImplementsAccount == Account!Spec
===============================================================================
