---------------------------- MODULE BatchTransfer ----------------------------
(***************************************************************************)
(* What a batched transfer promises, whatever goroutines carry it out.     *)
(*                                                                         *)
(* A batch is waiting at the source, staged in the disk buffer, delivered  *)
(* to the destination, or lost (an attempt on it failed).  Only a staged   *)
(* batch is delivered, a delivered or lost batch stays so, a transfer      *)
(* reports success only when no batch is still under way, and once it has  *)
(* reported, nothing about any batch changes any more.                     *)
(*                                                                         *)
(* A lost batch does not prevent the report of success: see the property   *)
(* SuccessMeansAllCompleted of module BatchPipeline.                       *)
(***************************************************************************)
CONSTANT Batches

VARIABLES phase, verdict

vars == <<phase, verdict>>

Phase == {"waiting", "staged", "delivered", "lost"}

TypeOK ==
  /\ phase \in [Batches -> Phase]
  /\ verdict \in {"open", "success", "error"}

Init ==
  /\ phase = [b \in Batches |-> "waiting"]
  /\ verdict = "open"

Move(b, from, to) ==
  /\ verdict = "open"
  /\ phase[b] = from
  /\ phase' = [phase EXCEPT ![b] = to]
  /\ UNCHANGED verdict

Stage(b) == Move(b, "waiting", "staged")
Deliver(b) == Move(b, "staged", "delivered")
Lose(b) == Move(b, "waiting", "lost") \/ Move(b, "staged", "lost")

Succeed ==
  /\ verdict = "open"
  /\ \A b \in Batches : phase[b] \in {"delivered", "lost"}
  /\ verdict' = "success"
  /\ UNCHANGED phase

Abort ==
  /\ verdict = "open"
  /\ verdict' = "error"
  /\ UNCHANGED phase

Next ==
  \/ \E b \in Batches : Stage(b) \/ Deliver(b) \/ Lose(b)
  \/ Succeed
  \/ Abort

Spec == Init /\ [][Next]_vars
=============================================================================
