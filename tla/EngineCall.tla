------------------------------ MODULE EngineCall ------------------------------
(***************************************************************************)
(* One call of a transfer engine, as the orchestrator makes it: what every *)
(* engine is called with and answers.  The engines extend this module.     *)
(***************************************************************************)
EXTENDS Integers, Sequences

CONSTANTS
  Calls,   \* the options of the call, records with the fields below
  Cancels  \* the context may be cancelled

CallFields == {"op", "dryRun", "compression", "checkpoint", "parallel", "filters",
               "source", "dest"}

ASSUME CallsAssumption ==
  /\ \A c \in Calls : DOMAIN c = CallFields /\ c.op \in {"transfer", "estimate"}
  /\ Cancels \in BOOLEAN

VARIABLES
  engine,    \* the strategy, by which the orchestrator chose the engine
  call,      \* Transfer or Estimate, and the TransferOptions
  cancelled, \* the context is done
  answer     \* "none" until the engine returns, then "nil" or "error"

callVars == <<engine, call, cancelled, answer>>

CallTypeOK ==
  /\ engine \in {"rsync", "rclone", "tar", "proxy"}
  /\ call \in Calls
  /\ cancelled \in BOOLEAN
  /\ answer \in {"none", "nil", "error"}

CallInit ==
  /\ engine \in {"rsync", "rclone", "tar", "proxy"} /\ call \in Calls
  /\ cancelled = FALSE /\ answer = "none"

Answers(a) == answer = "none" /\ answer' = a /\ UNCHANGED <<engine, call, cancelled>>

Cancel ==
  /\ Cancels /\ ~cancelled
  /\ cancelled' = TRUE
  /\ UNCHANGED <<engine, call, answer>>

Transfers == call.op = "transfer"
Estimates == call.op = "estimate"
=============================================================================
