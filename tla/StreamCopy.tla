------------------------------ MODULE StreamCopy ------------------------------
(***************************************************************************)
(* What one call of the streaming pipeline's Start promises its caller,    *)
(* the proxy engine: bytes of the source reach the destination in order    *)
(* and each once, so that their number says which; nil means all of them,  *)
(* unless somebody called Stop or had an error forgotten; after the return *)
(* there are no more.  Start need not return.                              *)
(***************************************************************************)
EXTENDS Integers

VARIABLES
  total,      \* how many bytes the source yields before its end
  copied,     \* how many the destination has received
  ended,      \* "none" before Start returns, then "nil", "error" or "ctx"
  interfered  \* Stop was called, or the errorHandler returned nil for an error

copyVars == <<total, copied, ended, interfered>>

CopyInit == total \in Nat /\ copied = 0 /\ ended = "none" /\ interfered = FALSE

Copies ==
  /\ ended = "none"
  /\ copied' \in copied + 1 .. total
  /\ interfered' \in BOOLEAN   \* a write may be short, and its error forgotten
  /\ UNCHANGED <<total, ended>>

Ends ==
  /\ ended = "none"
  /\ \/ (copied = total \/ interfered) /\ ended' = "nil"
     \/ ended' \in {"error", "ctx"}
  /\ interfered' = interfered
  /\ UNCHANGED <<total, copied>>

Interferes ==
  /\ interfered' \in BOOLEAN
  /\ UNCHANGED <<total, copied, ended>>

CopyNext == Copies \/ Ends \/ Interferes

CopySpec == CopyInit /\ [][CopyNext]_copyVars
=============================================================================
