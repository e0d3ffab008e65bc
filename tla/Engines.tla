------------------------------- MODULE Engines -------------------------------
(***************************************************************************)
(* The engines the orchestrator knows, behind its dispatch: the strategy   *)
(* decides whose Transfer or Estimate is called, the others do nothing.    *)
(***************************************************************************)
EXTENDS ChildEngine, TarStream, ProxyEngine

enginesVars == <<callVars, childVars, tarVars, proxyVars>>

TypeOK == CallTypeOK /\ ChildTypeOK /\ TarTypeOK /\ ProxyTypeOK

Init == CallInit /\ ChildInit /\ TarInit /\ ProxyInit

Cancelled == Cancel /\ UNCHANGED <<childVars, tarVars, proxyVars>>

Next ==
  \/ IsChildEngine /\ ChildNext /\ UNCHANGED <<tarVars, proxyVars>>
  \/ IsTar /\ TarNext /\ UNCHANGED <<childVars, proxyVars>>
  \/ IsProxy /\ ProxyNext /\ UNCHANGED <<childVars, tarVars>>
  \/ Cancelled

Spec == Init /\ [][Next]_enginesVars /\ ChildFairness /\ TarFairness /\ ProxyFairness

\* Whatever fails or is cancelled, the engine answers, but for three ways to wait for
\* ever: the child writes to a pipe whose scanner gave up at a line too long for it
\* (rsync/engine.go:104, 222), the pipeline's source waits for space after the
\* destination failed (stream/pipeline.go:207), and the source's remote command is left
\* with more unread output than its channel takes (transport.go:279).
EngineReturns == <>(answer # "none") \/ <>[](ChildBlocked \/ proxyPc = "stalled" \/ ReaderBlocked)
=============================================================================
