----------------------------- MODULE SpaceAccount -----------------------------
(***************************************************************************)
(* What the buffer manager's reservations promise, whoever calls them at   *)
(* once: one account, in which a request is booked if and only if it fits  *)
(* at that moment.  What is released need not have been booked: then the   *)
(* account is lower than what its users hold, or negative.                 *)
(***************************************************************************)
EXTENDS Integers

CONSTANTS Workers, MaxSize, Sizes

VARIABLES
  wants,   \* the size of a worker's last request
  reply,   \* "none" as yet, "yes" or "no"
  account  \* what was booked since it was emptied, less what was released

accountVars == <<wants, reply, account>>

Fits(s) == account + s <= MaxSize

Init ==
  /\ wants = [w \in Workers |-> 0]
  /\ reply = [w \in Workers |-> "none"]
  /\ account = 0

Ask(w) ==
  /\ \E s \in Sizes : wants' = [wants EXCEPT ![w] = s]
  /\ reply' = [reply EXCEPT ![w] = "none"]
  /\ UNCHANGED account

Grant(w) ==
  /\ reply[w] = "none" /\ Fits(wants[w])
  /\ account' = account + wants[w]
  /\ reply' = [reply EXCEPT ![w] = "yes"]
  /\ UNCHANGED wants

Refuse(w) ==
  /\ reply[w] = "none" /\ ~Fits(wants[w])
  /\ reply' = [reply EXCEPT ![w] = "no"]
  /\ UNCHANGED <<wants, account>>

Release ==
  /\ \E s \in Sizes : account' = account - s
  /\ UNCHANGED <<wants, reply>>

Empty == account' = 0 /\ UNCHANGED <<wants, reply>>

Next == (\E w \in Workers : Ask(w) \/ Grant(w) \/ Refuse(w)) \/ Release \/ Empty

Spec == Init /\ [][Next]_accountVars
===============================================================================
