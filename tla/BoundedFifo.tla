----------------------------- MODULE BoundedFifo -----------------------------
(***************************************************************************)
(* What the circular buffer promises to the goroutines that share it: a    *)
(* first-in-first-out queue of at most Capacity bytes.  Bytes enter at one *)
(* end while the queue is open, leave in the order in which they entered,  *)
(* and only a reset drops any.                                             *)
(***************************************************************************)
EXTENDS Naturals, Sequences

CONSTANTS Capacity, Byte

VARIABLES fifo, open

vars == <<fifo, open>>

TypeOK == fifo \in Seq(Byte) /\ Len(fifo) <= Capacity /\ open \in BOOLEAN

Init == fifo = <<>> /\ open = TRUE

Put ==
  /\ open
  /\ fifo' \in Seq(Byte)
  /\ Len(fifo') \in (Len(fifo) + 1)..Capacity
  /\ SubSeq(fifo', 1, Len(fifo)) = fifo
  /\ UNCHANGED open

Get ==
  /\ \E n \in 1..Len(fifo) : fifo' = SubSeq(fifo, n + 1, Len(fifo))
  /\ UNCHANGED open

Close == open /\ open' = FALSE /\ UNCHANGED fifo

Reset == fifo' = <<>> /\ open' = TRUE

Next == Put \/ Get \/ Close \/ Reset

Spec == Init /\ [][Next]_vars
=============================================================================
