---------------------------- MODULE EnginesProofs ----------------------------
(***************************************************************************)
(* What the engines answer and leave behind, for every option, number of   *)
(* bytes, lines and entries.  A call is made of one engine: an invariant   *)
(* of an engine is kept by its own steps and by Cancelled, and the others' *)
(* steps are those of another call.                                        *)
(***************************************************************************)
EXTENDS Engines, InductionLemmas, SequenceTheorems, TLAPS

LEMMA CallStays ==
  ASSUME Next
  PROVE  UNCHANGED <<engine, call>>
<1>1. CASE ChildNext
  BY <1>1 DEF ChildNext, ChildDryRun, ChildFailsToStart, ChildStarts, ChildReturns, ProcExits,
     ProcKilled, ProcWrites, Scans, ScanEnds, Answers, callVars
<1>2. CASE TarNext
  BY <1>2 DEF TarNext, TarDryRun, TarEstimates, TarRefuses, TarStarts, VisitSkips, VisitAdds,
     VisitFails, WalkEnds, TarCloses, Answers, callVars
<1>3. CASE ProxyNext
  BY <1>3 DEF ProxyNext, ProxyStep, ProxyDryRun, ProxyPrepares, ConnectDials, ConnectReturns,
     ConnectFails, StatStarts, StatReturns, StatGivesUp, StatPart, OpensReader, OpensWriter,
     PipelineCopies, PipelineEnds, PipelineStalls, ClosesWriter, ClosesReader, ClosesClient,
     ProxyReturns, DialStep, NetworkStep, DialEnds, ConnectionLost, KeepaliveEnds, Answers,
     callVars
<1>4. CASE Cancelled
  BY <1>4 DEF Cancelled, Cancel
<1> QED
  BY <1>1, <1>2, <1>3, <1>4 DEF Next

\* A step of the system, as the engine that is called sees it.
LEMMA OwnSteps ==
  ASSUME [Next]_enginesVars
  PROVE  /\ UNCHANGED <<engine, call>>
         /\ IsProxy => ProxyNext \/ UNCHANGED <<answer, proxyVars>>
         /\ IsTar => TarNext \/ UNCHANGED <<answer, tarVars>>
         /\ IsChildEngine => ChildNext \/ UNCHANGED <<answer, childVars>>
<1>1. CASE Next
  <2>1. UNCHANGED <<engine, call>>
    BY <1>1, CallStays
  <2>2. Cancelled => UNCHANGED <<answer, proxyVars, tarVars, childVars>>
    BY DEF Cancelled, Cancel
  <2> QED
    BY <1>1, <2>1, <2>2 DEF Next, IsProxy, IsTar, IsChildEngine
<1>2. CASE UNCHANGED enginesVars
  BY <1>2 DEF enginesVars, callVars
<1> QED
  BY <1>1, <1>2
-----------------------------------------------------------------------------
(***************************************************************************)
(* The proxy engine.                                                       *)
(***************************************************************************)
Deferred(x) == \E k \in 1..Len(deferred) : deferred[k] = x

ProxyShape ==
  /\ SSHTypeOK
  /\ deferred \in Seq(Sides \cup Commands) /\ side \in Sides
  /\ proxyPc \in {"call", "connect", "stat", "reader", "writer", "copy", "stalled", "unwind", "end"}

\* Whatever is open will be closed: a keepalive goroutine and a session with the client
\* of its side, a connection unless it is being made or was given up.
OpenInv ==
  /\ \A s \in Sides : keepalive[s] = "run" => Deferred(s)
  /\ \A s \in Sides \ abandoned :
       dial[s] \in {"dialing", "up"} => Deferred(s) \/ (proxyPc = "connect" /\ side = s)
  /\ \A c \in Commands : session[c] = "open" => Deferred(HostOf[c])

\* Where the engine is and which clients it has by then.
PlaceInv ==
  /\ proxyPc = "call" => side = "source"
  /\ proxyPc = "connect" /\ side = "dest" => Deferred("source") /\ Transfers
  /\ proxyPc \in {"stat", "reader", "writer", "copy", "stalled"} => Deferred("source")
  /\ proxyPc \in {"stat", "reader", "writer", "copy", "stalled"} /\ Transfers => Deferred("dest")
  /\ proxyPc \in {"reader", "writer", "copy", "stalled"} => Transfers
  /\ proxyPc \in {"call", "end"} => deferred = <<>>
  /\ answer # "none" => proxyPc = "end"

\* What is known of the bytes by then.
StreamedInv ==
  /\ proxyPc \in {"unwind", "end"} /\ verdict = "nil" /\ Transfers /\ ~call.dryRun => copied = total
  /\ destCommand = "running" => Deferred("writer")
  /\ destCommand \in {"ok", "failed", "lost"} => proxyPc \in {"unwind", "end"}
  /\ destCommand = "ok" => onDisk = copied
  /\ answer = "nil" /\ ~(Transfers /\ call.dryRun) => verdict = "nil"

ProxyInv == ProxyShape /\ OpenInv /\ PlaceInv /\ StreamedInv

\* The agent's socket is open only for a side that was dialled and authenticates by it.
SocketInv == \A s \in agentSocket : dial[s] # "none" /\ "agent" \in AuthMethods(Location(s))

LEMMA NothingDeferred == ASSUME deferred = <<>>, NEW x PROVE ~Deferred(x)
BY DEF Deferred

LEMMA DeferredGrows ==
  ASSUME deferred \in Seq(Sides \cup Commands), NEW new \in Sides \cup Commands,
         deferred' = Append(deferred, new), NEW x
  PROVE  /\ deferred' \in Seq(Sides \cup Commands)
         /\ Deferred(x)' <=> Deferred(x) \/ x = new
<1>1. /\ deferred' \in Seq(Sides \cup Commands) /\ Len(deferred') = Len(deferred) + 1
      /\ Len(deferred) \in Nat /\ deferred'[Len(deferred) + 1] = new
      /\ \A k \in 1..Len(deferred) : deferred'[k] = deferred[k]
  OBVIOUS
<1> QED
  BY <1>1 DEF Deferred

LEMMA DeferredShrinks ==
  ASSUME deferred \in Seq(Sides \cup Commands), NEW what, Closing(what), Closed, NEW x
  PROVE  /\ deferred' \in Seq(Sides \cup Commands)
         /\ x # what /\ Deferred(x) => Deferred(x)'
         /\ proxyPc = "unwind"
<1>1. /\ Len(deferred) \in Nat \ {0} /\ deferred[Len(deferred)] = what /\ proxyPc = "unwind"
      /\ deferred' = SubSeq(deferred, 1, Len(deferred) - 1)
  BY DEF Closing, Closed
<1>2. /\ deferred' \in Seq(Sides \cup Commands) /\ Len(deferred') = Len(deferred) - 1
      /\ \A k \in 1..(Len(deferred) - 1) : deferred'[k] = deferred[k]
  <2> DEFINE n == Len(deferred) - 1
             front == SubSeq(deferred, 1, n)
  <2>1. n \in Nat /\ \A k \in 1..n : deferred[k] \in Sides \cup Commands
    BY <1>1
  <2>2. /\ front \in Seq(Sides \cup Commands)
        /\ Len(front) = IF 1 <= n THEN n - 1 + 1 ELSE 0
        /\ \A k \in 1..(n - 1 + 1) : front[k] = deferred[1 + k - 1]
    <3> HIDE DEF n
    <3> QED
      BY <2>1, SubSeqProperties
  <2>3. deferred' = front /\ n = Len(deferred) - 1
    BY <1>1
  <2> HIDE DEF n, front
  <2>4. ASSUME NEW k \in 1..n PROVE front[k] = deferred[k]
    <3>1. k \in 1..(n - 1 + 1) /\ 1 + k - 1 = k
      BY <2>1
    <3>2. front[k] = deferred[1 + k - 1]
      BY <2>2, <3>1
    <3> QED
      BY <3>1, <3>2
  <2>5. Len(front) = n
    BY <2>1, <2>2
  <2> QED
    BY <2>2, <2>3, <2>4, <2>5
<1> QED
  BY <1>1, <1>2 DEF Deferred

LEMMA DeferredStays == ASSUME UNCHANGED deferred, NEW x PROVE Deferred(x)' <=> Deferred(x)
BY DEF Deferred

LEMMA ProxyInitInv ==
  ASSUME CallInit, ProxyInit
  PROVE  ProxyInv
<1>1. ProxyShape
  BY DEF ProxyInit, SSHInit, SSHTypeOK, ProxyShape, Sides, Commands
<1>2. OpenInv
  BY DEF ProxyInit, SSHInit, OpenInv
<1>3. PlaceInv
  BY DEF CallInit, ProxyInit, PlaceInv
<1>4. StreamedInv
  BY DEF CallInit, ProxyInit, StreamedInv
<1> QED
  BY <1>1, <1>2, <1>3, <1>4 DEF ProxyInv

LEMMA ProxyKeeps ==
  ASSUME ProxyInv, ProxyNext, UNCHANGED <<engine, call>>
  PROVE  ProxyInv'
<1>0. ProxyShape /\ OpenInv /\ PlaceInv /\ StreamedInv /\ SSHTypeOK
  BY DEF ProxyInv, ProxyShape
<1>1. CASE ProxyDryRun
  <2>0. UNCHANGED deferred /\ \A x : Deferred(x)' <=> Deferred(x)
    BY <1>1, DeferredStays DEF ProxyDryRun
  <2>1. ProxyShape'
    BY <1>0, <1>1, <2>0 DEF ProxyShape, ProxyDryRun, SSHTypeOK,
       Answers, callVars, sshVars, destVars, copyState
  <2>2. OpenInv'
    BY <1>0, <1>1, <2>0 DEF OpenInv, ProxyDryRun, ProxyShape, SSHTypeOK,
       Answers, callVars, sshVars, destVars, copyState
  <2>3. PlaceInv'
    BY <1>0, <1>1, <2>0 DEF PlaceInv, ProxyDryRun, Transfers,
       Answers, callVars, sshVars, destVars, copyState
  <2>4. StreamedInv'
    BY <1>0, <1>1, <2>0 DEF StreamedInv, ProxyDryRun, PlaceInv, Transfers,
       Answers, callVars, sshVars, destVars, copyState
  <2> QED
    BY <2>1, <2>2, <2>3, <2>4 DEF ProxyInv
<1>2. CASE ProxyPrepares
  <2>0. UNCHANGED deferred /\ \A x : Deferred(x)' <=> Deferred(x)
    BY <1>2, DeferredStays DEF ProxyPrepares
  <2>1. ProxyShape'
    BY <1>0, <1>2, <2>0 DEF ProxyShape, ProxyPrepares, SSHTypeOK,
       Goes, Fails, callVars, sshVars, destVars, copyState
  <2>2. OpenInv'
    BY <1>0, <1>2, <2>0 DEF OpenInv, ProxyPrepares, ProxyShape, SSHTypeOK,
       Goes, Fails, callVars, sshVars, destVars, copyState
  <2>3. PlaceInv'
    BY <1>0, <1>2, <2>0 DEF PlaceInv, ProxyPrepares, Transfers,
       Goes, Fails, callVars, sshVars, destVars, copyState
  <2>4. StreamedInv'
    BY <1>0, <1>2, <2>0 DEF StreamedInv, ProxyPrepares, PlaceInv, Transfers,
       Goes, Fails, callVars, sshVars, destVars, copyState
  <2> QED
    BY <2>1, <2>2, <2>3, <2>4 DEF ProxyInv
<1>3. CASE ConnectDials
  <2>0. UNCHANGED deferred /\ \A x : Deferred(x)' <=> Deferred(x)
    BY <1>3, DeferredStays DEF ConnectDials
  <2>1. ProxyShape'
    BY <1>0, <1>3, <2>0 DEF ProxyShape, ConnectDials, SSHTypeOK, SocketsAfterAuth,
       Fails, callVars, destVars, copyState
  <2>2. OpenInv'
    BY <1>0, <1>3, <2>0 DEF OpenInv, ConnectDials, ProxyShape, SSHTypeOK,
       Fails, callVars, destVars, copyState
  <2>3. PlaceInv'
    BY <1>0, <1>3, <2>0 DEF PlaceInv, ConnectDials, Transfers,
       Fails, callVars, destVars, copyState
  <2>4. StreamedInv'
    BY <1>0, <1>3, <2>0 DEF StreamedInv, ConnectDials, PlaceInv, Transfers,
       Fails, callVars, destVars, copyState
  <2> QED
    BY <2>1, <2>2, <2>3, <2>4 DEF ProxyInv
<1>4. CASE ConnectFails
  <2>0. UNCHANGED deferred /\ \A x : Deferred(x)' <=> Deferred(x)
    BY <1>4, DeferredStays DEF ConnectFails
  <2>1. ProxyShape'
    BY <1>0, <1>4, <2>0 DEF ProxyShape, ConnectFails, SSHTypeOK,
       Fails, callVars, destVars, copyState
  <2>2. OpenInv'
    BY <1>0, <1>4, <2>0 DEF OpenInv, ConnectFails, ProxyShape, SSHTypeOK,
       Fails, callVars, destVars, copyState
  <2>3. PlaceInv'
    BY <1>0, <1>4, <2>0 DEF PlaceInv, ConnectFails, Transfers,
       Fails, callVars, destVars, copyState
  <2>4. StreamedInv'
    BY <1>0, <1>4, <2>0 DEF StreamedInv, ConnectFails, PlaceInv, Transfers,
       Fails, callVars, destVars, copyState
  <2> QED
    BY <2>1, <2>2, <2>3, <2>4 DEF ProxyInv
<1>5. CASE StatStarts
  <2>0. UNCHANGED deferred /\ \A x : Deferred(x)' <=> Deferred(x)
    BY <1>5, DeferredStays DEF StatStarts
  <2>1. ProxyShape'
    BY <1>0, <1>5, <2>0 DEF ProxyShape, StatStarts, SSHTypeOK,
       Fails, OpenSession, callVars, sshVars, destVars, copyState, HostOf
  <2>2. OpenInv'
    BY <1>0, <1>5, <2>0 DEF OpenInv, StatStarts, PlaceInv, Commands, ProxyShape, SSHTypeOK,
       Fails, OpenSession, callVars, sshVars, destVars, copyState, HostOf
  <2>3. PlaceInv'
    BY <1>0, <1>5, <2>0 DEF PlaceInv, StatStarts, Transfers,
       Fails, OpenSession, callVars, sshVars, destVars, copyState, HostOf
  <2>4. StreamedInv'
    BY <1>0, <1>5, <2>0 DEF StreamedInv, StatStarts, PlaceInv, Transfers,
       Fails, OpenSession, callVars, sshVars, destVars, copyState, HostOf
  <2> QED
    BY <2>1, <2>2, <2>3, <2>4 DEF ProxyInv
<1>6. ASSUME NEW p \in {"stdout", "stderr", "wait"}, StatPart(p) PROVE ProxyInv'
  <2>0. UNCHANGED deferred /\ \A x : Deferred(x)' <=> Deferred(x)
    BY <1>6, DeferredStays DEF StatPart
  <2>1. ProxyShape'
    BY <1>0, <1>6, <2>0 DEF ProxyShape, StatPart, SSHTypeOK,
       callVars, sshVars, destVars, copyState
  <2>2. OpenInv'
    BY <1>0, <1>6, <2>0 DEF OpenInv, StatPart, ProxyShape, SSHTypeOK,
       callVars, sshVars, destVars, copyState
  <2>3. PlaceInv'
    BY <1>0, <1>6, <2>0 DEF PlaceInv, StatPart, Transfers,
       callVars, sshVars, destVars, copyState
  <2>4. StreamedInv'
    BY <1>0, <1>6, <2>0 DEF StreamedInv, StatPart, PlaceInv, Transfers,
       callVars, sshVars, destVars, copyState
  <2> QED
    BY <2>1, <2>2, <2>3, <2>4 DEF ProxyInv
<1>7. CASE StatReturns
  <2>0. UNCHANGED deferred /\ \A x : Deferred(x)' <=> Deferred(x)
    BY <1>7, DeferredStays DEF StatReturns
  <2>1. ProxyShape'
    BY <1>0, <1>7, <2>0 DEF ProxyShape, StatReturns, SSHTypeOK,
       Fails, Goes, CloseSession, callVars, destVars, copyState
  <2>2. OpenInv'
    BY <1>0, <1>7, <2>0 DEF OpenInv, StatReturns, ProxyShape, SSHTypeOK,
       Fails, Goes, CloseSession, callVars, destVars, copyState
  <2>3. PlaceInv'
    BY <1>0, <1>7, <2>0 DEF PlaceInv, StatReturns, Transfers,
       Fails, Goes, CloseSession, callVars, destVars, copyState
  <2>4. StreamedInv'
    BY <1>0, <1>7, <2>0 DEF StreamedInv, StatReturns, PlaceInv, Transfers,
       Fails, Goes, CloseSession, callVars, destVars, copyState
  <2> QED
    BY <2>1, <2>2, <2>3, <2>4 DEF ProxyInv
<1>8. CASE StatGivesUp
  <2>0. UNCHANGED deferred /\ \A x : Deferred(x)' <=> Deferred(x)
    BY <1>8, DeferredStays DEF StatGivesUp
  <2>1. ProxyShape'
    BY <1>0, <1>8, <2>0 DEF ProxyShape, StatGivesUp, SSHTypeOK,
       Fails, CloseSession, callVars, destVars, copyState
  <2>2. OpenInv'
    BY <1>0, <1>8, <2>0 DEF OpenInv, StatGivesUp, ProxyShape, SSHTypeOK,
       Fails, CloseSession, callVars, destVars, copyState
  <2>3. PlaceInv'
    BY <1>0, <1>8, <2>0 DEF PlaceInv, StatGivesUp, Transfers,
       Fails, CloseSession, callVars, destVars, copyState
  <2>4. StreamedInv'
    BY <1>0, <1>8, <2>0 DEF StreamedInv, StatGivesUp, PlaceInv, Transfers,
       Fails, CloseSession, callVars, destVars, copyState
  <2> QED
    BY <2>1, <2>2, <2>3, <2>4 DEF ProxyInv
<1>9. CASE PipelineCopies
  <2>0. UNCHANGED deferred /\ \A x : Deferred(x)' <=> Deferred(x)
    BY <1>9, DeferredStays DEF PipelineCopies
  <2>1. ProxyShape'
    BY <1>0, <1>9, <2>0 DEF ProxyShape, PipelineCopies, SSHTypeOK,
       callVars, sshVars, destVars
  <2>2. OpenInv'
    BY <1>0, <1>9, <2>0 DEF OpenInv, PipelineCopies, ProxyShape, SSHTypeOK,
       callVars, sshVars, destVars
  <2>3. PlaceInv'
    BY <1>0, <1>9, <2>0 DEF PlaceInv, PipelineCopies, Transfers,
       callVars, sshVars, destVars
  <2>4. StreamedInv'
    BY <1>0, <1>9, <2>0 DEF StreamedInv, PipelineCopies, PlaceInv, Transfers,
       Copy!Copies, callVars, sshVars, destVars
  <2> QED
    BY <2>1, <2>2, <2>3, <2>4 DEF ProxyInv
<1>10. CASE PipelineEnds
  <2>0. UNCHANGED deferred /\ \A x : Deferred(x)' <=> Deferred(x)
    BY <1>10, DeferredStays DEF PipelineEnds
  <2>1. ProxyShape'
    BY <1>0, <1>10, <2>0 DEF ProxyShape, PipelineEnds, SSHTypeOK,
       Copy!Ends, Goes, Fails, callVars, sshVars, destVars
  <2>2. OpenInv'
    BY <1>0, <1>10, <2>0 DEF OpenInv, PipelineEnds, ProxyShape, SSHTypeOK,
       Copy!Ends, Goes, Fails, callVars, sshVars, destVars
  <2>3. PlaceInv'
    BY <1>0, <1>10, <2>0 DEF PlaceInv, PipelineEnds, Transfers,
       Copy!Ends, Goes, Fails, callVars, sshVars, destVars
  <2>4. StreamedInv'
    BY <1>0, <1>10, <2>0 DEF StreamedInv, PipelineEnds, PlaceInv, Transfers,
       Copy!Ends, Goes, Fails, callVars, sshVars, destVars
  <2> QED
    BY <2>1, <2>2, <2>3, <2>4 DEF ProxyInv
<1>11. CASE PipelineStalls
  <2>0. UNCHANGED deferred /\ \A x : Deferred(x)' <=> Deferred(x)
    BY <1>11, DeferredStays DEF PipelineStalls
  <2>1. ProxyShape'
    BY <1>0, <1>11, <2>0 DEF ProxyShape, PipelineStalls, SSHTypeOK,
       Goes, callVars, sshVars, destVars, copyState
  <2>2. OpenInv'
    BY <1>0, <1>11, <2>0 DEF OpenInv, PipelineStalls, ProxyShape, SSHTypeOK,
       Goes, callVars, sshVars, destVars, copyState
  <2>3. PlaceInv'
    BY <1>0, <1>11, <2>0 DEF PlaceInv, PipelineStalls, Transfers,
       Goes, callVars, sshVars, destVars, copyState
  <2>4. StreamedInv'
    BY <1>0, <1>11, <2>0 DEF StreamedInv, PipelineStalls, PlaceInv, Transfers,
       Goes, callVars, sshVars, destVars, copyState
  <2> QED
    BY <2>1, <2>2, <2>3, <2>4 DEF ProxyInv
<1>12. CASE ProxyReturns
  <2>0. UNCHANGED deferred /\ \A x : Deferred(x)' <=> Deferred(x)
    BY <1>12, DeferredStays DEF ProxyReturns
  <2>1. ProxyShape'
    BY <1>0, <1>12, <2>0 DEF ProxyShape, ProxyReturns, SSHTypeOK,
       Answers, callVars, sshVars, destVars, copyState
  <2>2. OpenInv'
    BY <1>0, <1>12, <2>0 DEF OpenInv, ProxyReturns, ProxyShape, SSHTypeOK,
       Answers, callVars, sshVars, destVars, copyState
  <2>3. PlaceInv'
    BY <1>0, <1>12, <2>0 DEF PlaceInv, ProxyReturns, Transfers,
       Answers, callVars, sshVars, destVars, copyState
  <2>4. StreamedInv'
    BY <1>0, <1>12, <2>0 DEF StreamedInv, ProxyReturns, PlaceInv, Transfers,
       Answers, callVars, sshVars, destVars, copyState
  <2> QED
    BY <2>1, <2>2, <2>3, <2>4 DEF ProxyInv
<1>13. ASSUME NEW s \in Sides, DialStep(s) PROVE ProxyInv'
  <2>0. UNCHANGED deferred /\ \A x : Deferred(x)' <=> Deferred(x)
    BY <1>13, DeferredStays DEF DialStep, EngineWaits
  <2>1. ProxyShape'
    BY <1>0, <1>13, <2>0 DEF ProxyShape, DialStep, SSHTypeOK,
       DialEnds, EngineWaits, callVars, destVars, copyState
  <2>2. OpenInv'
    BY <1>0, <1>13, <2>0 DEF OpenInv, DialStep, ProxyShape, SSHTypeOK,
       DialEnds, EngineWaits, callVars, destVars, copyState
  <2>3. PlaceInv'
    BY <1>0, <1>13, <2>0 DEF PlaceInv, DialStep, Transfers,
       DialEnds, EngineWaits, callVars, destVars, copyState
  <2>4. StreamedInv'
    BY <1>0, <1>13, <2>0 DEF StreamedInv, DialStep, PlaceInv, Transfers,
       DialEnds, EngineWaits, callVars, destVars, copyState
  <2> QED
    BY <2>1, <2>2, <2>3, <2>4 DEF ProxyInv
<1>14. ASSUME NEW s \in Sides, NetworkStep(s) PROVE ProxyInv'
  <2>0. UNCHANGED deferred /\ \A x : Deferred(x)' <=> Deferred(x)
    BY <1>14, DeferredStays DEF NetworkStep, EngineWaits
  <2>1. ProxyShape'
    BY <1>0, <1>14, <2>0 DEF ProxyShape, NetworkStep, SSHTypeOK,
       ConnectionLost, KeepaliveEnds, EngineWaits, callVars, destVars, copyState
  <2>2. OpenInv'
    BY <1>0, <1>14, <2>0 DEF OpenInv, NetworkStep, ProxyShape, SSHTypeOK,
       ConnectionLost, KeepaliveEnds, EngineWaits, callVars, destVars, copyState
  <2>3. PlaceInv'
    BY <1>0, <1>14, <2>0 DEF PlaceInv, NetworkStep, Transfers,
       ConnectionLost, KeepaliveEnds, EngineWaits, callVars, destVars, copyState
  <2>4. StreamedInv'
    BY <1>0, <1>14, <2>0 DEF StreamedInv, NetworkStep, PlaceInv, Transfers,
       ConnectionLost, KeepaliveEnds, EngineWaits, callVars, destVars, copyState
  <2> QED
    BY <2>1, <2>2, <2>3, <2>4 DEF ProxyInv
<1>15. CASE ConnectReturns
  <2>0. deferred' \in Seq(Sides \cup Commands) /\ \A x : Deferred(x)' <=> Deferred(x) \/ x = side
    BY <1>0, <1>15, DeferredGrows DEF ConnectReturns, ProxyShape
  <2>1. ProxyShape'
    BY <1>0, <1>15, <2>0 DEF ProxyShape, ConnectReturns, SSHTypeOK, Sides,
       Goes, callVars, destVars, copyState
  <2>2. OpenInv'
    BY <1>0, <1>15, <2>0 DEF OpenInv, ConnectReturns, PlaceInv, ProxyShape, SSHTypeOK, Sides,
       Commands, HostOf,
       Goes, callVars, destVars, copyState
  <2>3. PlaceInv'
    BY <1>0, <1>15, <2>0 DEF PlaceInv, ConnectReturns, Transfers, ProxyShape, Sides,
       Goes, callVars, destVars, copyState
  <2>4. StreamedInv'
    BY <1>0, <1>15, <2>0 DEF StreamedInv, ConnectReturns, PlaceInv, Transfers,
       Goes, callVars, destVars, copyState
  <2> QED
    BY <2>1, <2>2, <2>3, <2>4 DEF ProxyInv
<1>16. CASE OpensReader
  <2>0. /\ deferred' \in Seq(Sides \cup Commands)
        /\ \/ UNCHANGED deferred /\ \A x : Deferred(x)' <=> Deferred(x)
           \/ /\ deferred' = Append(deferred, "reader")
              /\ \A x : Deferred(x)' <=> Deferred(x) \/ x = "reader"
    <3>1. CASE UNCHANGED deferred
      BY <1>0, <3>1, DeferredStays DEF ProxyShape
    <3>2. CASE deferred' = Append(deferred, "reader")
      BY <1>0, <3>2, DeferredGrows DEF ProxyShape, Commands
    <3> QED
      BY <1>16, <3>1, <3>2 DEF OpensReader
  <2>1. ProxyShape'
    BY <1>0, <1>16, <2>0 DEF ProxyShape, OpensReader, SSHTypeOK,
       OpenSession, Goes, Fails, callVars, sshVars, destVars, copyState
  <2>2. OpenInv'
    BY <1>0, <1>16, <2>0 DEF OpenInv, OpensReader, PlaceInv, ProxyShape, SSHTypeOK, Sides,
       Commands, HostOf,
       OpenSession, Goes, Fails, callVars, sshVars, destVars, copyState
  <2>3. PlaceInv'
    BY <1>0, <1>16, <2>0 DEF PlaceInv, OpensReader, Transfers,
       OpenSession, Goes, Fails, callVars, sshVars, destVars, copyState
  <2>4. StreamedInv'
    BY <1>0, <1>16, <2>0 DEF StreamedInv, OpensReader, PlaceInv, Transfers,
       OpenSession, Goes, Fails, callVars, sshVars, destVars, copyState
  <2> QED
    BY <2>1, <2>2, <2>3, <2>4 DEF ProxyInv
<1>17. CASE OpensWriter
  <2>0. /\ deferred' \in Seq(Sides \cup Commands)
        /\ \/ UNCHANGED deferred /\ \A x : Deferred(x)' <=> Deferred(x)
           \/ /\ deferred' = Append(deferred, "writer")
              /\ \A x : Deferred(x)' <=> Deferred(x) \/ x = "writer"
    <3>1. CASE UNCHANGED deferred
      BY <1>0, <3>1, DeferredStays DEF ProxyShape
    <3>2. CASE deferred' = Append(deferred, "writer")
      BY <1>0, <3>2, DeferredGrows DEF ProxyShape, Commands
    <3> QED
      BY <1>17, <3>1, <3>2 DEF OpensWriter
  <2>1. ProxyShape'
    BY <1>0, <1>17, <2>0 DEF ProxyShape, OpensWriter, SSHTypeOK,
       OpenSession, Goes, Fails, callVars, sshVars, destVars, copyState
  <2>2. OpenInv'
    BY <1>0, <1>17, <2>0 DEF OpenInv, OpensWriter, PlaceInv, ProxyShape, SSHTypeOK, Sides,
       Commands, HostOf,
       OpenSession, Goes, Fails, callVars, sshVars, destVars, copyState
  <2>3. PlaceInv'
    BY <1>0, <1>17, <2>0 DEF PlaceInv, OpensWriter, Transfers,
       OpenSession, Goes, Fails, callVars, sshVars, destVars, copyState
  <2>4. StreamedInv'
    BY <1>0, <1>17, <2>0 DEF StreamedInv, OpensWriter, PlaceInv, Transfers,
       OpenSession, Goes, Fails, callVars, sshVars, destVars, copyState
  <2> QED
    BY <2>1, <2>2, <2>3, <2>4 DEF ProxyInv
<1>18. CASE ClosesWriter
  <2>0. /\ deferred' \in Seq(Sides \cup Commands) /\ proxyPc = "unwind" /\ proxyPc' = "unwind"
        /\ \A x : x # "writer" /\ Deferred(x) => Deferred(x)'
    BY <1>0, <1>18, DeferredShrinks DEF ClosesWriter, ProxyShape
  <2>1. ProxyShape'
    BY <1>0, <1>18, <2>0 DEF ProxyShape, ClosesWriter, SSHTypeOK,
       CloseSession, callVars, sshVars, destVars, copyState
  <2>2. OpenInv'
    BY <1>0, <1>18, <2>0 DEF OpenInv, ClosesWriter, PlaceInv, ProxyShape, SSHTypeOK, Sides,
       Commands, HostOf,
       CloseSession, callVars, sshVars, destVars, copyState
  <2>3. PlaceInv'
    BY <1>0, <1>18, <2>0 DEF PlaceInv, ClosesWriter, Transfers,
       CloseSession, callVars, sshVars, destVars, copyState
  <2>4. StreamedInv'
    BY <1>0, <1>18, <2>0 DEF StreamedInv, ClosesWriter, PlaceInv, Transfers,
       CloseSession, callVars, sshVars, destVars, copyState
  <2> QED
    BY <2>1, <2>2, <2>3, <2>4 DEF ProxyInv
<1>19. CASE ClosesReader
  <2>0. /\ deferred' \in Seq(Sides \cup Commands) /\ proxyPc = "unwind" /\ proxyPc' = "unwind"
        /\ \A x : x # "reader" /\ Deferred(x) => Deferred(x)'
    BY <1>0, <1>19, DeferredShrinks DEF ClosesReader, ProxyShape
  <2>1. ProxyShape'
    BY <1>0, <1>19, <2>0 DEF ProxyShape, ClosesReader, SSHTypeOK,
       CloseSession, callVars, sshVars, destVars, copyState
  <2>2. OpenInv'
    BY <1>0, <1>19, <2>0 DEF OpenInv, ClosesReader, PlaceInv, ProxyShape, SSHTypeOK, Sides,
       Commands, HostOf,
       CloseSession, callVars, sshVars, destVars, copyState
  <2>3. PlaceInv'
    BY <1>0, <1>19, <2>0 DEF PlaceInv, ClosesReader, Transfers,
       CloseSession, callVars, sshVars, destVars, copyState
  <2>4. StreamedInv'
    BY <1>0, <1>19, <2>0 DEF StreamedInv, ClosesReader, PlaceInv, Transfers,
       CloseSession, callVars, sshVars, destVars, copyState
  <2> QED
    BY <2>1, <2>2, <2>3, <2>4 DEF ProxyInv
<1>20. ASSUME NEW s \in Sides, ClosesClient(s) PROVE ProxyInv'
  <2>0. /\ deferred' \in Seq(Sides \cup Commands) /\ proxyPc = "unwind" /\ proxyPc' = "unwind"
        /\ \A x : x # s /\ Deferred(x) => Deferred(x)'
    BY <1>0, <1>20, DeferredShrinks DEF ClosesClient, ProxyShape
  <2>1. ProxyShape'
    BY <1>0, <1>20, <2>0 DEF ProxyShape, ClosesClient, SSHTypeOK,
       CloseClient, callVars, sshVars, destVars, copyState
  <2>2. OpenInv'
    BY <1>0, <1>20, <2>0 DEF OpenInv, ClosesClient, PlaceInv, ProxyShape, SSHTypeOK, Sides,
       Commands, HostOf,
       CloseClient, callVars, sshVars, destVars, copyState
  <2>3. PlaceInv'
    BY <1>0, <1>20, <2>0 DEF PlaceInv, ClosesClient, Transfers,
       CloseClient, callVars, sshVars, destVars, copyState
  <2>4. StreamedInv'
    BY <1>0, <1>20, <2>0 DEF StreamedInv, ClosesClient, PlaceInv, Transfers, Sides,
       CloseClient, callVars, sshVars, destVars, copyState
  <2> QED
    BY <2>1, <2>2, <2>3, <2>4 DEF ProxyInv
<1> QED
  BY <1>1, <1>2, <1>3, <1>4, <1>5, <1>6, <1>7, <1>8, <1>9, <1>10, <1>11, <1>12, <1>13, <1>14,
     <1>15, <1>16, <1>17, <1>18, <1>19, <1>20
     DEF ProxyNext, ProxyStep

LEMMA ProxyStutters ==
  ASSUME ProxyInv, UNCHANGED <<engine, call, answer, proxyVars>>
  PROVE  ProxyInv'
<1>0. UNCHANGED <<sshVars, proxyPc, side, deferred, verdict, total, copied, onDisk, destCommand>>
  BY DEF proxyVars, copyState, destVars
<1>1. \A x : Deferred(x)' <=> Deferred(x)
  BY <1>0, DeferredStays
<1> QED
  BY <1>0, <1>1 DEF ProxyInv, ProxyShape, SSHTypeOK, OpenInv, PlaceInv, StreamedInv, Transfers,
     sshVars

\* Only ConnectDials opens a socket, and no dial is undone.
LEMMA SocketsKept ==
  ASSUME ProxyShape, SocketInv, ProxyNext \/ UNCHANGED <<answer, proxyVars>>, UNCHANGED call
  PROVE  SocketInv'
<1>1. \A s : AuthMethods(Location(s))' = AuthMethods(Location(s))
  BY Zenon DEF Location
<1>2. CASE ConnectDials
  <2>1. dial[side] = "none" /\ agentSocket' = SocketsAfterAuth(side)
    BY <1>2 DEF ConnectDials
  <2>2. /\ dial' = dial \/ dial' = [dial EXCEPT ![side] = "dialing"]
        /\ "agent" \in AuthMethods(Location(side)) => dial' = [dial EXCEPT ![side] = "dialing"]
    BY <1>2 DEF ConnectDials
  <2>3. dial \in [Sides -> {"none", "dialing", "up", "failed", "lost", "closed"}] /\ side \in Sides
    BY DEF ProxyShape, SSHTypeOK
  <2>4. agentSocket' = agentSocket \/ (/\ agentSocket' = agentSocket \cup {side}
                                      /\ "agent" \in AuthMethods(Location(side)))
    BY <2>1 DEF SocketsAfterAuth
  <2>5. \A s \in Sides : dial[s] # "none" => dial'[s] # "none"
    BY <2>2, <2>3
  <2>6. agentSocket \subseteq Sides
    BY DEF ProxyShape, SSHTypeOK
  <2> QED
    BY <1>1, <2>2, <2>3, <2>4, <2>5, <2>6 DEF SocketInv
<1>3. CASE ~ConnectDials
  <2>1. agentSocket' = agentSocket
    BY <1>3 DEF ProxyNext, ProxyStep, ProxyDryRun, ProxyPrepares, ConnectReturns, ConnectFails,
       StatStarts, StatReturns, StatGivesUp, StatPart, OpensReader, OpensWriter, PipelineCopies,
       PipelineEnds, PipelineStalls, ClosesWriter, ClosesReader, ClosesClient, ProxyReturns,
       DialStep, NetworkStep, DialEnds, ConnectionLost, KeepaliveEnds, OpenSession, CloseSession,
       CloseClient, proxyVars, sshVars
  <2>2. \/ dial' = dial
        \/ \E s \in Sides, d \in {"up", "failed", "lost", "closed"} : dial' = [dial EXCEPT ![s] = d]
    BY <1>3 DEF ProxyNext, ProxyStep, ProxyDryRun, ProxyPrepares, ConnectReturns, ConnectFails,
       StatStarts, StatReturns, StatGivesUp, StatPart, OpensReader, OpensWriter, PipelineCopies,
       PipelineEnds, PipelineStalls, ClosesWriter, ClosesReader, ClosesClient, ProxyReturns,
       DialStep, NetworkStep, DialEnds, ConnectionLost, KeepaliveEnds, OpenSession, CloseSession,
       CloseClient, proxyVars, sshVars
  <2>3. /\ dial \in [Sides -> {"none", "dialing", "up", "failed", "lost", "closed"}]
        /\ agentSocket \subseteq Sides
    BY DEF ProxyShape, SSHTypeOK
  <2>4. \A s \in Sides : dial[s] # "none" => dial'[s] # "none"
    BY <2>2, <2>3
  <2> QED
    BY <1>1, <2>1, <2>3, <2>4 DEF SocketInv
<1> QED
  BY <1>2, <1>3

LEMMA ProxyAlways == Spec => [](IsProxy => ProxyInv /\ SocketInv)
<1>1. Init => (IsProxy => ProxyInv /\ SocketInv)
  BY ProxyInitInv DEF Init, ProxyInit, SSHInit, SocketInv
<1>2. (IsProxy => ProxyInv /\ SocketInv) /\ [Next]_enginesVars => (IsProxy => ProxyInv /\ SocketInv)'
  <2> SUFFICES ASSUME IsProxy => ProxyInv /\ SocketInv, [Next]_enginesVars, IsProxy'
               PROVE  ProxyInv' /\ SocketInv'
    OBVIOUS
  <2>1. IsProxy /\ UNCHANGED <<engine, call>>
    BY OwnSteps DEF IsProxy
  <2>2. ProxyNext \/ UNCHANGED <<answer, proxyVars>>
    BY <2>1, OwnSteps
  <2>3. ProxyInv'
    BY <2>1, <2>2, ProxyKeeps, ProxyStutters
  <2>4. SocketInv'
    BY <2>1, <2>2, SocketsKept DEF ProxyInv
  <2> QED
    BY <2>3, <2>4
<1> QED
  BY <1>1, <1>2, PTL DEF Spec

\* When the proxy engine has returned, at whichever step something failed or the context
\* ended, no session and no keepalive goroutine is left, no connection to a host but one
\* that Connect gave up (proxy/engine.go:86-122, transport.go:74), and no socket of the
\* agent but that of a side which was dialled and authenticates by it (auth.go:106).
THEOREM ProxyClosesAll == Spec => []NothingElseLeftOpen
<1>1. (IsProxy => ProxyInv /\ SocketInv) => NothingElseLeftOpen
  <2> SUFFICES ASSUME IsProxy, ProxyInv, answer # "none"
               PROVE  /\ \A s \in Sides : keepalive[s] # "run"
                      /\ \A s \in Sides \ abandoned : dial[s] \notin {"dialing", "up"}
                      /\ \A c \in Commands : session[c] # "open"
    BY DEF NothingElseLeftOpen, SocketInv
  <2>1. proxyPc = "end" /\ \A x : ~Deferred(x)
    BY NothingDeferred DEF ProxyInv, PlaceInv
  <2> QED
    BY <2>1 DEF ProxyInv, OpenInv
<1> QED
  BY <1>1, ProxyAlways, PTL

\* A success means that every byte of the source's command was handed to the destination's
\* command and that this one has ended, for a file of any size (proxy/engine.go:148,
\* transport.go:303).
THEOREM ProxyStreams == Spec => []ProxySuccessMeansStreamed
<1>1. (IsProxy => ProxyInv /\ SocketInv) => ProxySuccessMeansStreamed
  <2> SUFFICES ASSUME IsProxy, ProxyInv, answer = "nil", Transfers, ~call.dryRun
               PROVE  /\ copied = total
                      /\ destCommand # "running"
                      /\ total = FileSize /\ destCommand = "ok" => onDisk = FileSize
    BY DEF ProxySuccessMeansStreamed
  <2>1. proxyPc = "end" /\ ~Deferred("writer")
    BY NothingDeferred DEF ProxyInv, PlaceInv
  <2> QED
    BY <2>1 DEF ProxyInv, StreamedInv
<1> QED
  BY <1>1, ProxyAlways, PTL
-----------------------------------------------------------------------------
(***************************************************************************)
(* rsync and rclone.                                                       *)
(***************************************************************************)
PlainArgs ==
  Words \cup {"-a", "-v", "--progress", "-z", "--partial", "--partial-dir", "/", "sync", "--stats",
              "--transfers", "--compress", "sftp", "pass"}

AllArgs == PlainArgs \cup {"--dry-run"}

DryRunIf(b) == If(b, <<"--dry-run">>)

LEMMA ArgsIf ==
  ASSUME NEW S, NEW b, NEW args \in Seq(S)
  PROVE  If(b, args) \in Seq(S)
BY DEF If

LEMMA DryRunIfIsArgs == ASSUME NEW b PROVE DryRunIf(b) \in Seq(AllArgs)
<1>1. <<"--dry-run">> \in Seq(AllArgs)
  BY DEF AllArgs
<1> QED
  BY <1>1, ArgsIf DEF DryRunIf

HasDryRun(args) == \E i \in DOMAIN args : args[i] = "--dry-run"

LEMMA ConcatHas ==
  ASSUME NEW s \in Seq(AllArgs), NEW t \in Seq(AllArgs)
  PROVE  s \o t \in Seq(AllArgs) /\ (HasDryRun(s \o t) <=> HasDryRun(s) \/ HasDryRun(t))
<1> DEFINE st == s \o t
<1>1. /\ st \in Seq(AllArgs) /\ Len(st) = Len(s) + Len(t)
      /\ \A i \in 1..Len(s) : st[i] = s[i]
      /\ \A i \in 1..Len(t) : st[Len(s) + i] = t[i]
  OBVIOUS
<1>2. DOMAIN st = 1..Len(st) /\ DOMAIN s = 1..Len(s) /\ DOMAIN t = 1..Len(t)
  OBVIOUS
<1>3. Len(s) \in Nat /\ Len(t) \in Nat
  OBVIOUS
<1> HIDE DEF st
<1>4. HasDryRun(s) => HasDryRun(st)
  BY <1>1, <1>2, <1>3 DEF HasDryRun
<1>5. HasDryRun(t) => HasDryRun(st)
  <2> SUFFICES ASSUME NEW i \in 1..Len(t), t[i] = "--dry-run" PROVE HasDryRun(st)
    BY <1>2 DEF HasDryRun
  <2>1. Len(s) + i \in DOMAIN st /\ st[Len(s) + i] = "--dry-run"
    BY <1>1, <1>2, <1>3
  <2> QED
    BY <2>1 DEF HasDryRun
<1>6. HasDryRun(st) => HasDryRun(s) \/ HasDryRun(t)
  <2> SUFFICES ASSUME NEW i \in 1..Len(st), st[i] = "--dry-run"
               PROVE  HasDryRun(s) \/ HasDryRun(t)
    BY <1>2 DEF HasDryRun
  <2>1. CASE i <= Len(s)
    BY <1>1, <1>2, <1>3, <2>1 DEF HasDryRun
  <2>2. CASE i > Len(s)
    <3>1. i - Len(s) \in 1..Len(t) /\ i = Len(s) + (i - Len(s))
      BY <1>1, <1>3, <2>2
    <3>2. t[i - Len(s)] = st[i]
      BY <1>1, <3>1
    <3> QED
      BY <1>2, <3>1, <3>2 DEF HasDryRun
  <2> QED
    BY <1>1, <1>3, <2>1, <2>2
<1> QED
  BY <1>1, <1>4, <1>5, <1>6 DEF st

LEMMA PlainHasNot ==
  ASSUME NEW s \in Seq(PlainArgs)
  PROVE  s \in Seq(AllArgs) /\ ~HasDryRun(s)
<1>1. \A i \in DOMAIN s : s[i] \in PlainArgs
  OBVIOUS
<1>2. "--dry-run" \notin PlainArgs
  BY WordsAssumption DEF PlainArgs
<1> QED
  BY <1>1, <1>2 DEF AllArgs, HasDryRun

LEMMA DryRunIfHas == ASSUME NEW b PROVE HasDryRun(DryRunIf(b)) <=> b
<1>1. CASE b
  BY <1>1 DEF DryRunIf, If, HasDryRun
<1>2. CASE ~b
  BY <1>2 DEF DryRunIf, If, HasDryRun
<1> QED
  BY <1>1, <1>2

\* Plain arguments, perhaps the option, and plain arguments.
LEMMA HasIfAsked ==
  ASSUME NEW b, NEW f \in Seq(PlainArgs), NEW w \in Seq(PlainArgs)
  PROVE  LET args == f \o DryRunIf(b) \o w
         IN  args \in Seq(AllArgs) /\ (HasDryRun(args) <=> b)
<1> DEFINE d == DryRunIf(b)
           fd == f \o d
<1>1. d \in Seq(AllArgs) /\ (HasDryRun(d) <=> b)
  BY DryRunIfHas, DryRunIfIsArgs
<1> HIDE DEF d
<1>2. fd \in Seq(AllArgs) /\ (HasDryRun(fd) <=> b)
  BY <1>1, PlainHasNot, ConcatHas
<1> HIDE DEF fd
<1>3. fd \o w \in Seq(AllArgs) /\ (HasDryRun(fd \o w) <=> b)
  BY <1>2, PlainHasNot, ConcatHas
<1> QED
  BY <1>3 DEF fd, d

\* The child is given the option if and only if the options of the call say so.
LEMMA RsyncAsksForDryRun ==
  ASSUME NEW opts, opts.filters \in Seq(Words), opts.source.path \in Words, opts.dest.path \in Words
  PROVE  HasDryRun(RsyncArgs(opts)) <=> opts.dryRun
<1> DEFINE f == <<"-a", "-v", "--progress">>
                  \o If(Compresses(opts), <<"-z">>)
                  \o If(opts.checkpoint, <<"--partial", "--partial-dir">>)
           w == opts.filters
           p == <<opts.source.path, "/", opts.dest.path, "/">>
           fdw == f \o DryRunIf(opts.dryRun) \o w
<1>1. f \in Seq(PlainArgs)
  <2>1. <<"-a", "-v", "--progress">> \in Seq(PlainArgs)
    BY DEF PlainArgs
  <2>2. If(Compresses(opts), <<"-z">>) \in Seq(PlainArgs)
    <3>1. <<"-z">> \in Seq(PlainArgs)
      BY DEF PlainArgs
    <3> QED
      BY <3>1, ArgsIf
  <2>3. If(opts.checkpoint, <<"--partial", "--partial-dir">>) \in Seq(PlainArgs)
    <3>1. <<"--partial", "--partial-dir">> \in Seq(PlainArgs)
      BY DEF PlainArgs
    <3> QED
      BY <3>1, ArgsIf
  <2> QED
    BY <2>1, <2>2, <2>3
<1>2. p \in Seq(PlainArgs) /\ w \in Seq(PlainArgs)
  BY DEF PlainArgs
<1>3. RsyncArgs(opts) = fdw \o p
  BY DEF RsyncArgs, DryRunIf
<1> HIDE DEF f, w, p
<1>4. fdw \in Seq(AllArgs) /\ (HasDryRun(fdw) <=> opts.dryRun)
  BY <1>1, <1>2, HasIfAsked
<1> HIDE DEF fdw
<1>5. HasDryRun(fdw \o p) <=> opts.dryRun
  BY <1>2, <1>4, PlainHasNot, ConcatHas
<1> QED
  BY <1>3, <1>5

LEMMA RcloneAsksForDryRun ==
  ASSUME NEW opts, opts.filters \in Seq(Words), opts.source.path \in Words, opts.dest.path \in Words
  PROVE  HasDryRun(RcloneArgs(opts)) <=> opts.dryRun
<1> DEFINE f == <<"sync", "--progress", "--stats">>
                  \o If(opts.parallel > 0, <<"--transfers">>)
                  \o If(Compresses(opts), <<"--compress">>)
           w == opts.filters
           s == ToSFTP(opts.source)
           t == ToSFTP(opts.dest)
           fdw == f \o DryRunIf(opts.dryRun) \o w
           fdws == fdw \o s
<1>1. f \in Seq(PlainArgs)
  <2>1. <<"sync", "--progress", "--stats">> \in Seq(PlainArgs)
    BY DEF PlainArgs
  <2>2. If(opts.parallel > 0, <<"--transfers">>) \in Seq(PlainArgs)
    <3>1. <<"--transfers">> \in Seq(PlainArgs)
      BY DEF PlainArgs
    <3> QED
      BY <3>1, ArgsIf
  <2>3. If(Compresses(opts), <<"--compress">>) \in Seq(PlainArgs)
    <3>1. <<"--compress">> \in Seq(PlainArgs)
      BY DEF PlainArgs
    <3> QED
      BY <3>1, ArgsIf
  <2> QED
    BY <2>1, <2>2, <2>3
<1>2. ASSUME NEW loc, loc.path \in Words PROVE ToSFTP(loc) \in Seq(PlainArgs)
  <2>1. <<"sftp", loc.path>> \in Seq(PlainArgs) /\ <<loc.path>> \in Seq(PlainArgs)
    BY <1>2 DEF PlainArgs
  <2>2. If(loc.password, <<"pass">>) \in Seq(PlainArgs)
    <3>1. <<"pass">> \in Seq(PlainArgs)
      BY DEF PlainArgs
    <3> QED
      BY <3>1, ArgsIf
  <2> QED
    BY <2>1, <2>2 DEF ToSFTP
<1>3. s \in Seq(PlainArgs) /\ t \in Seq(PlainArgs) /\ w \in Seq(PlainArgs)
  BY <1>2 DEF PlainArgs
<1>4. RcloneArgs(opts) = fdws \o t
  BY DEF RcloneArgs, DryRunIf
<1> HIDE DEF f, w, s, t
<1>5. fdw \in Seq(AllArgs) /\ (HasDryRun(fdw) <=> opts.dryRun)
  BY <1>1, <1>3, HasIfAsked
<1> HIDE DEF fdw
<1>6. fdws \in Seq(AllArgs) /\ (HasDryRun(fdws) <=> opts.dryRun)
  BY <1>3, <1>5, PlainHasNot, ConcatHas
<1> HIDE DEF fdws
<1>7. HasDryRun(fdws \o t) <=> opts.dryRun
  BY <1>3, <1>6, PlainHasNot, ConcatHas
<1> QED
  BY <1>4, <1>7

\* Whether the data is to move.
ForReal == Transfers /\ ~call.dryRun

\* The child is told, it has moved what it was told to when it has exited well, and a
\* success means that it has.
ChildInv ==
  /\ proc \in {"none", "run", "exited", "failed", "killed"}
  /\ childPc = "call" => proc = "none"
  /\ childPc = "end" => proc # "run"
  /\ proc \in {"none", "run"} => moved = "nothing"
  /\ proc # "none" => (WritesNothing <=> ~ForReal)
  /\ proc # "none" /\ ~ForReal => moved = "nothing"
  /\ proc = "exited" /\ ForReal => moved = "all"
  /\ answer = "nil" => childPc = "end" /\ (ForReal => proc = "exited")

LEMMA CommandAsks ==
  ASSUME call \in Calls, NEW opts, opts = [call EXCEPT !.dryRun = @ \/ Estimates]
  PROVE  HasDryRun(Args(opts)) <=> ~ForReal
<1>1. /\ DOMAIN call = CallFields /\ call.op \in {"transfer", "estimate"}
      /\ call.filters \in Seq(Words) /\ call.source.path \in Words /\ call.dest.path \in Words
  BY CallsAssumption, WordsAssumption
<1>2. /\ opts.filters = call.filters /\ opts.source = call.source /\ opts.dest = call.dest
      /\ opts.dryRun = (call.dryRun \/ Estimates)
  BY <1>1 DEF CallFields
<1>3. opts.dryRun <=> ~ForReal
  BY <1>1, <1>2 DEF ForReal, Transfers, Estimates
<1>4. /\ opts.filters \in Seq(Words) /\ opts.source.path \in Words /\ opts.dest.path \in Words
  BY <1>1, <1>2
<1>5. HasDryRun(RsyncArgs(opts)) <=> opts.dryRun
  BY <1>4, RsyncAsksForDryRun
<1>6. HasDryRun(RcloneArgs(opts)) <=> opts.dryRun
  BY <1>4, RcloneAsksForDryRun
<1> QED
  BY <1>3, <1>5, <1>6 DEF Args

LEMMA ChildKeeps ==
  ASSUME ChildInv, call \in Calls, UNCHANGED <<engine, call>>, ChildNext
  PROVE  ChildInv'
<1>0. ForReal' <=> ForReal
  BY DEF ForReal, Transfers
<1>1. CASE ChildDryRun
  BY <1>1 DEF ChildDryRun, ChildInv, ForReal, Transfers, WritesNothing, Answers
<1>2. CASE ChildFailsToStart
  BY <1>2 DEF ChildFailsToStart, ChildInv, ForReal, Transfers, WritesNothing, Answers
<1>3. CASE ChildStarts
  <2>1. command' = Args([call EXCEPT !.dryRun = @ \/ Estimates])
    BY <1>3 DEF ChildStarts
  <2>2. WritesNothing' <=> ~ForReal
    BY <2>1, CommandAsks DEF WritesNothing, HasDryRun
  <2>3. /\ proc = "none" /\ proc' = "run" /\ childPc = "call" /\ childPc' = "wait"
        /\ UNCHANGED <<answer, moved>>
    BY <1>3 DEF ChildStarts, ChildInv, callVars
  <2> QED
    BY <1>0, <2>2, <2>3 DEF ChildInv
<1>4. CASE ChildReturns
  <2>1. WritesNothing' <=> WritesNothing
    BY <1>4 DEF ChildReturns, WritesNothing
  <2>2. /\ childPc' = "end" /\ UNCHANGED <<proc, moved>> /\ proc # "run"
        /\ answer' = IF proc = "exited" THEN "nil" ELSE "error"
    BY <1>4 DEF ChildReturns, Answers
  <2> QED
    BY <1>0, <2>1, <2>2 DEF ChildInv
<1>5. ASSUME ProcExits \/ ProcKilled PROVE ChildInv'
  <2>1. WritesNothing' <=> WritesNothing
    BY <1>5 DEF ProcExits, ProcKilled, WritesNothing
  <2>2. proc = "run" /\ UNCHANGED <<childPc, answer>> /\ childPc # "call" /\ answer # "nil"
    <3>1. proc = "run" /\ UNCHANGED <<childPc, answer>>
      BY <1>5 DEF ProcExits, ProcKilled, callVars
    <3> QED
      BY <3>1 DEF ChildInv
  <2>3. proc' \in {"exited", "failed", "killed"}
    BY <1>5 DEF ProcExits, ProcKilled
  <2>4. /\ ~ForReal => moved' = "nothing"
        /\ proc' = "exited" /\ ForReal => moved' = "all"
    BY <1>5, <2>2 DEF ProcExits, ProcKilled, ChildInv
  <2> QED
    BY <1>0, <2>1, <2>2, <2>3, <2>4 DEF ChildInv
<1>6. ASSUME NEW p \in Pipes, ProcWrites(p) \/ Scans(p) \/ ScanEnds(p) PROVE ChildInv'
  <2>1. UNCHANGED <<answer, childPc, command, proc, moved>>
    BY <1>6 DEF ProcWrites, Scans, ScanEnds, callVars
  <2> QED
    BY <1>0, <2>1 DEF ChildInv, WritesNothing
<1> QED
  BY <1>1, <1>2, <1>3, <1>4, <1>5, <1>6 DEF ChildNext

\* Of a call of another engine the child's variables know nothing.
ChildOrNone ==
  /\ call \in Calls
  /\ IsChildEngine => ChildInv
  /\ ~IsChildEngine => moved = "nothing"

\* A success of rsync or rclone moved all of the data, and a dry run or an Estimate moved
\* nothing, whatever the options and however the child, its pipes and the context race:
\* the option reaches the child exactly when it is asked for (rsync/engine.go:72-218,
\* rclone/engine.go:78-218).
THEOREM ChildMoves == Spec => []ChildMovesWhenAsked
<1>1. Init => ChildOrNone
  BY DEF Init, CallInit, ChildInit, ChildOrNone, ChildInv, IsChildEngine
<1>2. ChildOrNone /\ [Next]_enginesVars => ChildOrNone'
  <2> SUFFICES ASSUME ChildOrNone, [Next]_enginesVars PROVE ChildOrNone'
    OBVIOUS
  <2>1. UNCHANGED <<engine, call>>
    BY OwnSteps
  <2>2. CASE IsChildEngine
    <3>1. ChildNext \/ UNCHANGED <<answer, childVars>>
      BY <2>2, OwnSteps
    <3>2. CASE ChildNext
      BY <2>1, <2>2, <3>2, ChildKeeps DEF ChildOrNone, IsChildEngine
    <3>3. CASE UNCHANGED <<answer, childVars>>
      BY <2>1, <2>2, <3>3 DEF ChildOrNone, ChildInv, childVars, IsChildEngine, WritesNothing,
         ForReal, Transfers
    <3> QED
      BY <3>1, <3>2, <3>3
  <2>3. CASE ~IsChildEngine
    <3>1. UNCHANGED childVars
      BY <2>3 DEF Next, Cancelled, enginesVars
    <3> QED
      BY <2>1, <2>3, <3>1 DEF ChildOrNone, IsChildEngine, childVars
  <2> QED
    BY <2>2, <2>3
<1>3. ChildOrNone => ChildMovesWhenAsked
  <2> SUFFICES ASSUME ChildOrNone PROVE ChildMovesWhenAsked
    OBVIOUS
  <2>1. Estimates => ~Transfers
    BY DEF Estimates, Transfers
  <2>2. IsChildEngine /\ ~ForReal => moved = "nothing"
    BY DEF ChildOrNone, ChildInv
  <2>3. IsChildEngine /\ answer = "nil" /\ ForReal => moved = "all"
    BY DEF ChildOrNone, ChildInv
  <2> QED
    BY <2>1, <2>2, <2>3 DEF ChildMovesWhenAsked, ForReal, ChildOrNone
<1> QED
  BY <1>1, <1>2, <1>3, PTL DEF Spec
-----------------------------------------------------------------------------
(***************************************************************************)
(* The tar engine: first the tree and its lineages.                        *)
(***************************************************************************)
Above(j) == tree[j].parent

TreeInv ==
  /\ Len(tree) \in Nat /\ DOMAIN tree = 1..Len(tree)
  /\ \A i \in 1..Len(tree) :
       /\ Above(i) \in 0..(i - 1) /\ (Above(i) # 0 => tree[Above(i)].dir)
       /\ \A j \in (Above(i) + 1)..(i - 1) : Above(j) >= Above(i)

LineageStep(g) == [j \in 0..Len(tree) |-> IF j = 0 THEN {} ELSE {j} \cup g[tree[j].parent]]

LineageTable == CHOOSE g : g = LineageStep(g)

LEMMA LineageIsInTable ==
  ASSUME NEW i
  PROVE  Lineage(i) = LineageTable[i]
BY Zenon DEF Lineage, LineageTable, LineageStep

LEMMA LineageTableExists ==
  ASSUME TreeInv
  PROVE  LineageTable = LineageStep(LineageTable)
<1> DEFINE N == Len(tree)
           Upto(n) == {j \in 0..N : j <= n}
           T == {n \in Nat : \E g : \A j \in Upto(n) : g[j] = LineageStep(g)[j]}
<1>0. N \in Nat
  BY DEF TreeInv
<1>1. 0 \in T
  <2> DEFINE g == [j \in 0..N |-> {}]
  <2>1. \A j \in Upto(0) : g[j] = LineageStep(g)[j]
    BY <1>0 DEF LineageStep
  <2> QED
    BY <2>1
<1>2. ASSUME NEW n \in T PROVE n + 1 \in T
  <2>1. PICK g : \A j \in Upto(n) : g[j] = LineageStep(g)[j]
    OBVIOUS
  <2> DEFINE h == LineageStep(g)
  <2>2. ASSUME NEW j \in Upto(n + 1) PROVE h[j] = LineageStep(h)[j]
    <3>1. CASE j = 0
      BY <1>0, <3>1 DEF LineageStep
    <3>2. CASE j # 0
      <4>1. j \in 1..N /\ Above(j) \in Upto(n)
        BY <1>0, <3>2 DEF TreeInv
      <4>2. h[Above(j)] = g[Above(j)]
        BY <2>1, <4>1
      <4> QED
        BY <3>2, <4>1, <4>2 DEF LineageStep, Above
    <3> QED
      BY <3>1, <3>2
  <2> QED
    BY <2>2
<1>3. T = Nat
  <2> HIDE DEF T
  <2> QED
    BY <1>1, <1>2, AllNaturals DEF T
<1>4. PICK g : \A j \in Upto(N) : g[j] = LineageStep(g)[j]
  BY <1>0, <1>3
<1> DEFINE h == LineageStep(g)
<1>5. h = LineageStep(h)
  <2>1. \A j \in 0..N : h[j] = g[j]
    BY <1>0, <1>4
  <2>2. ASSUME NEW j \in 0..N PROVE h[j] = LineageStep(h)[j]
    <3>1. CASE j = 0
      BY <3>1 DEF LineageStep
    <3>2. CASE j # 0
      <4>1. Above(j) \in 0..N
        BY <1>0, <3>2 DEF TreeInv
      <4> QED
        BY <2>1, <3>2, <4>1 DEF LineageStep, Above
    <3> QED
      BY <3>1, <3>2
  <2> QED
    BY <2>2 DEF LineageStep
<1> QED
  BY <1>5 DEF LineageTable

LEMMA LineageUnfolds ==
  ASSUME TreeInv
  PROVE  /\ Lineage(0) = {}
         /\ \A i \in 1..Len(tree) : Lineage(i) = {i} \cup Lineage(Above(i))
<1> DEFINE g == LineageTable
<1>1. g = LineageStep(g) /\ Len(tree) \in Nat
  BY LineageTableExists DEF TreeInv
<1>2. \A i : Lineage(i) = g[i]
  BY LineageIsInTable
<1>3. g[0] = {} /\ \A i \in 1..Len(tree) : g[i] = {i} \cup g[tree[i].parent]
  <2> HIDE DEF g
  <2> QED
    BY <1>1 DEF LineageStep
<1> QED
  BY <1>2, <1>3 DEF Above

\* What holds of an entry if it holds of all entries before it holds of every entry.
LEMMA AllEntries ==
  ASSUME TreeInv, NEW P \in SUBSET (0..Len(tree)), 0 \in P,
         \A i \in 1..Len(tree) : (\A j \in 0..(i - 1) : j \in P) => i \in P
  PROVE  P = 0..Len(tree)
<1> SUFFICES ASSUME (0..Len(tree)) \ P # {} PROVE FALSE
  OBVIOUS
<1>1. (0..Len(tree)) \ P \in SUBSET Nat
  BY DEF TreeInv
<1>2. PICK m \in (0..Len(tree)) \ P : \A n \in (0..Len(tree)) \ P : m <= n
  BY <1>1, LeastElement
<1>3. m \in 1..Len(tree) /\ \A j \in 0..(m - 1) : j \in P
  BY <1>2 DEF TreeInv
<1> QED
  BY <1>2, <1>3

\* An entry's lineage are entries up to it, and all but itself are directories.
LEMMA LineageBelow ==
  ASSUME TreeInv
  PROVE  \A i \in 0..Len(tree) :
           Lineage(i) \subseteq 1..i /\ \A a \in Lineage(i) : a # i => tree[a].dir
<1> DEFINE Q(i) == Lineage(i) \subseteq 1..i /\ \A a \in Lineage(i) : a # i => tree[a].dir
           P == {i \in 0..Len(tree) : Q(i)}
<1>1. 0 \in P
  BY LineageUnfolds DEF TreeInv
<1>2. ASSUME NEW i \in 1..Len(tree), \A j \in 0..(i - 1) : j \in P PROVE i \in P
  <2>1. /\ Above(i) \in 0..(i - 1) /\ (Above(i) # 0 => tree[Above(i)].dir)
        /\ Len(tree) \in Nat /\ i \in 0..Len(tree)
    BY DEF TreeInv
  <2>2. Q(Above(i))
    BY <1>2, <2>1
  <2>3. Lineage(i) = {i} \cup Lineage(Above(i))
    BY LineageUnfolds
  <2>4. Lineage(i) \subseteq 1..i
    BY <2>1, <2>2, <2>3
  <2>5. ASSUME NEW a \in Lineage(i), a # i PROVE tree[a].dir
    BY <2>1, <2>2, <2>3, <2>5
  <2> QED
    BY <2>1, <2>4, <2>5
<1> HIDE DEF P
<1>3. P = 0..Len(tree)
  BY <1>1, <1>2, AllEntries DEF P
<1> QED
  BY <1>3 DEF P

LEMMA LineageTransitive ==
  ASSUME TreeInv
  PROVE  \A i \in 0..Len(tree) : \A a \in Lineage(i) : Lineage(a) \subseteq Lineage(i)
<1> DEFINE Q(i) == \A a \in Lineage(i) : Lineage(a) \subseteq Lineage(i)
           P == {i \in 0..Len(tree) : Q(i)}
<1>1. 0 \in P
  BY LineageUnfolds DEF TreeInv
<1>2. ASSUME NEW i \in 1..Len(tree), \A j \in 0..(i - 1) : j \in P PROVE i \in P
  <2>1. Above(i) \in 0..(i - 1) /\ i \in 0..Len(tree)
    BY DEF TreeInv
  <2>2. Q(Above(i))
    BY <1>2, <2>1
  <2>3. Lineage(i) = {i} \cup Lineage(Above(i))
    BY LineageUnfolds
  <2> QED
    BY <2>1, <2>2, <2>3
<1> HIDE DEF P
<1>3. P = 0..Len(tree)
  BY <1>1, <1>2, AllEntries DEF P
<1> QED
  BY <1>3 DEF P

\* What is visited between a directory and the next entry that lies in it lies in it.
LEMMA LineageContiguous ==
  ASSUME TreeInv
  PROVE  \A k \in 0..Len(tree) : \A a \in Lineage(k) : \A j \in a..k : a \in Lineage(j)
<1> DEFINE N == Len(tree)
           Q(k) == \A a \in Lineage(k) : \A j \in a..k : a \in Lineage(j)
           P == {k \in 0..N : Q(k)}
<1>0. /\ N \in Nat /\ Lineage(0) = {}
      /\ \A i \in 1..N : Lineage(i) = {i} \cup Lineage(Above(i))
      /\ \A i \in 1..N : Above(i) \in 0..(i - 1)
      /\ \A i \in 0..N : Lineage(i) \subseteq 1..i
  BY LineageUnfolds, LineageBelow DEF TreeInv
<1>1. 0 \in P
  BY <1>0
<1>2. ASSUME NEW k \in 1..N, \A j \in 0..(k - 1) : j \in P PROVE k \in P
  <2> DEFINE p == Above(k)
  <2>1. /\ p \in 0..(k - 1) /\ \A j \in (p + 1)..(k - 1) : Above(j) >= p
    BY DEF TreeInv
  <2>2. p # 0 => \A j \in p..(k - 1) : p \in Lineage(j)
    <3> SUFFICES ASSUME p # 0 PROVE \A j \in p..(k - 1) : p \in Lineage(j)
      OBVIOUS
    <3> DEFINE R == {j \in 0..N : j \in p..(k - 1) => p \in Lineage(j)}
    <3> HIDE DEF p
    <3>1. 0 \in R
      BY <1>0, <2>1
    <3>2. ASSUME NEW j \in 1..N, \A i \in 0..(j - 1) : i \in R PROVE j \in R
      <4>1. CASE j = p
        BY <1>0, <2>1, <4>1
      <4>2. CASE j # p /\ j \in p..(k - 1)
        <5>1. Above(j) \in p..(k - 1) /\ Above(j) \in 0..(j - 1)
          BY <1>0, <2>1, <4>2
        <5>2. p \in Lineage(Above(j))
          BY <3>2, <5>1
        <5> QED
          BY <1>0, <5>2
      <4>3. CASE j \notin p..(k - 1)
        BY <1>0, <4>3
      <4> QED
        BY <4>1, <4>2, <4>3
    <3> HIDE DEF R
    <3>3. R = 0..N
      BY <3>1, <3>2, AllEntries DEF R
    <3>4. ASSUME NEW j \in p..(k - 1) PROVE p \in Lineage(j)
      <4>1. j \in 0..N
        BY <1>0, <2>1
      <4> QED
        BY <3>3, <4>1 DEF R
    <3> QED
      BY <3>4
  <2>3. ASSUME NEW a \in Lineage(k), NEW j \in a..k PROVE a \in Lineage(j)
    <3>1. k \in Lineage(k) /\ a \in 1..k
      BY <1>0
    <3>2. CASE j = k
      BY <3>2
    <3>3. CASE j # k
      <4>1. a \in Lineage(p) /\ a \in 1..p /\ p # 0
        BY <1>0, <2>1, <3>1, <3>3
      <4>2. CASE j <= p
        <5>1. p \in P
          BY <1>2, <2>1
        <5>2. j \in a..p
          BY <2>1, <3>1, <4>2
        <5> QED
          BY <4>1, <5>1, <5>2
      <4>3. CASE ~(j <= p)
        <5>1. j \in p..(k - 1) /\ j \in 0..N
          BY <1>0, <2>1, <3>1, <3>3, <4>3
        <5>2. p \in Lineage(j)
          BY <2>2, <4>1, <5>1
        <5> QED
          BY <4>1, <5>1, <5>2, LineageTransitive
      <4> QED
        BY <4>2, <4>3
    <3> QED
      BY <3>2, <3>3
  <2> QED
    BY <1>0, <2>3
<1> HIDE DEF P
<1>3. P = 0..N
  BY <1>1, <1>2, AllEntries DEF P
<1> QED
  BY <1>3 DEF P

\* filepath.SkipDir: what follows lies outside the directory, what is left out in it.
LEMMA BehindIs ==
  ASSUME TreeInv, NEW i \in 1..Len(tree)
  PROVE  /\ Behind(i) \in (i + 1)..(Len(tree) + 1)
         /\ \A j \in Behind(i)..Len(tree) : i \notin Lineage(j)
         /\ \A j \in (i + 1)..(Behind(i) - 1) : i \in Lineage(j)
<1> DEFINE N == Len(tree)
           S == {j \in (i + 1)..(N + 1) : j <= N => i \notin Lineage(j)}
           Fits(j) == /\ j <= N => i \notin Lineage(j)
                      /\ \A k \in (i + 1)..(j - 1) : i \in Lineage(k)
<1>0. N \in Nat
  BY DEF TreeInv
<1>1. S \in SUBSET Nat /\ N + 1 \in S
  BY <1>0
<1>2. PICK m \in S : \A n \in S : m <= n
  <2> HIDE DEF S
  <2> QED
    BY <1>1, LeastElement
<1>3. m \in (i + 1)..(N + 1) /\ Fits(m)
  <2>1. ASSUME NEW k \in (i + 1)..(m - 1) PROVE i \in Lineage(k)
    <3>1. k \notin S /\ k \in (i + 1)..(N + 1) /\ k <= N
      BY <1>0, <1>2
    <3> QED
      BY <3>1
  <2> QED
    BY <1>2, <2>1
<1>4. Behind(i) = CHOOSE j \in (i + 1)..(N + 1) : Fits(j)
  BY DEF Behind
<1>5. Behind(i) \in (i + 1)..(N + 1) /\ Fits(Behind(i))
  <2> HIDE DEF Fits
  <2> QED
    BY <1>3, <1>4
<1>6. ASSUME NEW j \in Behind(i)..N PROVE i \notin Lineage(j)
  <2>1. j \in 0..N /\ Behind(i) \in i..j /\ Behind(i) <= N
    BY <1>0, <1>5
  <2> QED
    BY <1>5, <2>1, LineageContiguous
<1> QED
  BY <1>5, <1>6
-----------------------------------------------------------------------------
(***************************************************************************)
(* The archive the walk writes.                                            *)
(***************************************************************************)
\* What the filters leave in: the entry and every directory above it match.
Kept(i) == \A a \in Lineage(i) : Matches(a)

\* Before pos the walk has written what is kept, and from pos on nothing lies in what was
\* left out: it is the second part that lets VisitAdds look at the entry's own name only.
Walked ==
  /\ pos \in 1..(Len(tree) + 1)
  /\ headers \in Seq(Nat) /\ filesDone = Len(headers)
  /\ \A k \in 1..Len(headers) : \E i \in 1..(pos - 1) : Kept(i) /\ headers[k] = i
  /\ \A i \in 1..(pos - 1) : Kept(i) => \E k \in 1..Len(headers) : headers[k] = i
  /\ \A k \in 1..(Len(headers) - 1) : headers[k] < headers[k + 1]
  /\ contents = {i \in 1..(pos - 1) : Kept(i) /\ ~tree[i].dir}
  /\ \A a \in 1..(pos - 1) : ~Matches(a) => \A j \in pos..Len(tree) : a \notin Lineage(j)

Complete == (tarPc = "close" /\ tarErr = "nil") \/ (tarPc = "end" /\ answer = "nil" /\ ForReal)

TarInv ==
  /\ tree \in Trees
  /\ tarPc = "call" => /\ pos = 1 /\ headers = <<>> /\ contents = {} /\ filesDone = 0
                       /\ tarErr = "nil"
  /\ tarPc \in {"walk", "close"} => ForReal
  /\ answer # "none" => tarPc = "end"
  /\ tarPc = "walk" => Walked /\ tarErr = "nil"
  /\ Complete => Walked /\ pos = Len(tree) + 1
  /\ ~ForReal => headers = <<>>

TarOrNone == IF IsTar THEN TarInv ELSE headers = <<>>

LEMMA TreesAreOrdered ==
  ASSUME tree \in Trees
  PROVE  TreeInv
<1>1. /\ tree \in Seq([parent : Nat, dir : BOOLEAN])
      /\ \A i \in DOMAIN tree :
           LET above == tree[i].parent
           IN  /\ above < i /\ (above # 0 => tree[above].dir)
               /\ \A j \in above + 1 .. i - 1 : tree[j].parent >= above
  BY TreesAssumption
<1> DEFINE Entries == [parent : Nat, dir : BOOLEAN]
<1>2. /\ Len(tree) \in Nat /\ DOMAIN tree = 1..Len(tree)
      /\ \A i \in 1..Len(tree) : tree[i] \in Entries
  <2> HIDE DEF Entries
  <2>1. tree \in Seq(Entries)
    BY <1>1 DEF Entries
  <2> QED
    BY <2>1
<1>3. \A i \in 1..Len(tree) : tree[i].parent \in Nat
  BY <1>2
<1> QED
  BY <1>1, <1>2, <1>3 DEF TreeInv, Above

\* The tree and the filters are the walk's input.
LEMMA InputStays ==
  ASSUME UNCHANGED walkVars
  PROVE  /\ tree' = tree /\ \A i : Matches(i)' = Matches(i)
         /\ \A i : Lineage(i)' = Lineage(i)
<1>1. tree' = tree /\ filters' = filters
  BY DEF walkVars
<1>2. \A i : Matches(i)' = Matches(i)
  BY <1>1 DEF Matches
<1>3. \A i : Lineage(i)' = Lineage(i)
  BY <1>1, Zenon DEF Lineage
<1> QED
  BY <1>1, <1>2, <1>3

LEMMA KeptStays ==
  ASSUME UNCHANGED walkVars, NEW i
  PROVE  Kept(i)' = Kept(i)
<1>1. Lineage(i)' = Lineage(i) /\ \A a : Matches(a)' = Matches(a)
  BY InputStays
<1> QED
  BY <1>1 DEF Kept

LEMMA AddsKeepsWalked ==
  ASSUME TreeInv, Walked, VisitAdds
  PROVE  Walked'
<1> DEFINE N == Len(tree)
<1>1. /\ N \in Nat /\ pos \in 1..N /\ Matches(pos) /\ UNCHANGED walkVars /\ tree' = tree
      /\ pos' = pos + 1 /\ headers' = Append(headers, pos) /\ filesDone' = filesDone + 1
      /\ contents' = IF tree[pos].dir THEN contents ELSE contents \cup {pos}
  BY DEF VisitAdds, Visiting, Walked, TreeInv, walkVars
<1>2. /\ headers \in Seq(Nat) /\ headers' \in Seq(Nat) /\ Len(headers') = Len(headers) + 1
      /\ Len(headers) \in Nat /\ headers'[Len(headers) + 1] = pos
      /\ \A k \in 1..Len(headers) : headers'[k] = headers[k]
  BY <1>1 DEF Walked
<1>3. /\ \A i : Kept(i)' = Kept(i)
      /\ \A i : Lineage(i)' = Lineage(i)
      /\ \A i : Matches(i)' = Matches(i)
  BY <1>1, InputStays, KeptStays
<1>4. Kept(pos)
  <2>1. Lineage(pos) \subseteq 1..pos
    BY <1>1, LineageBelow
  <2>2. ASSUME NEW a \in Lineage(pos), a # pos PROVE Matches(a)
    <3>1. a \in 1..(pos - 1) /\ pos \in pos..N
      BY <1>1, <2>1, <2>2
    <3> QED
      BY <2>2, <3>1 DEF Walked
  <2> QED
    BY <1>1, <2>2 DEF Kept
<1>5. \A k \in 1..Len(headers') : \E i \in 1..(pos' - 1) : Kept(i)' /\ headers'[k] = i
  <2> SUFFICES ASSUME NEW k \in 1..Len(headers')
               PROVE  \E i \in 1..(pos' - 1) : Kept(i) /\ headers'[k] = i
    BY <1>3
  <2>1. CASE k = Len(headers) + 1
    BY <1>1, <1>2, <1>4, <2>1
  <2>2. CASE k \in 1..Len(headers)
    BY <1>1, <1>2, <2>2 DEF Walked
  <2> QED
    BY <1>2, <2>1, <2>2
<1>6. \A i \in 1..(pos' - 1) : Kept(i)' => \E k \in 1..Len(headers') : headers'[k] = i
  <2> SUFFICES ASSUME NEW i \in 1..(pos' - 1), Kept(i)
               PROVE  \E k \in 1..Len(headers') : headers'[k] = i
    BY <1>3
  <2>1. CASE i = pos
    BY <1>2, <2>1
  <2>2. CASE i \in 1..(pos - 1)
    BY <1>2, <2>2 DEF Walked
  <2> QED
    BY <1>1, <2>1, <2>2
<1>7. \A k \in 1..(Len(headers') - 1) : headers'[k] < headers'[k + 1]
  <2> SUFFICES ASSUME NEW k \in 1..(Len(headers') - 1) PROVE headers'[k] < headers'[k + 1]
    OBVIOUS
  <2>1. CASE k = Len(headers)
    BY <1>1, <1>2, <2>1 DEF Walked
  <2>2. CASE k \in 1..(Len(headers) - 1)
    BY <1>2, <2>2 DEF Walked
  <2> QED
    BY <1>2, <2>1, <2>2
<1>8. contents' = {i \in 1..(pos' - 1) : Kept(i)' /\ ~tree'[i].dir}
  <2>1. contents = {i \in 1..(pos - 1) : Kept(i) /\ ~tree[i].dir}
    BY DEF Walked
  <2>2. 1..(pos' - 1) = (1..(pos - 1)) \cup {pos} /\ pos \notin 1..(pos - 1)
    BY <1>1
  <2>3. contents' = {i \in 1..(pos' - 1) : Kept(i) /\ ~tree[i].dir}
    BY <1>1, <1>4, <2>1, <2>2
  <2> QED
    BY <1>1, <1>3, <2>3
<1>9. \A a \in 1..(pos' - 1) : ~Matches(a)' => \A j \in pos'..N : a \notin Lineage(j)'
  <2> SUFFICES ASSUME NEW a \in 1..(pos' - 1), ~Matches(a), NEW j \in pos'..N
               PROVE  a \notin Lineage(j)
    BY <1>3
  <2>1. a \in 1..(pos - 1) /\ j \in pos..N
    BY <1>1
  <2> QED
    BY <2>1 DEF Walked
<1>10. pos' \in 1..(N + 1) /\ filesDone' = Len(headers')
  BY <1>1, <1>2 DEF Walked
<1> QED
  BY <1>1, <1>2, <1>5, <1>6, <1>7, <1>8, <1>9, <1>10 DEF Walked

LEMMA SkipsKeepsWalked ==
  ASSUME TreeInv, Walked, VisitSkips
  PROVE  Walked'
<1> DEFINE N == Len(tree)
<1>1. /\ N \in Nat /\ pos \in 1..N /\ ~Matches(pos) /\ UNCHANGED walkVars /\ tree' = tree
      /\ pos' = IF tree[pos].dir THEN Behind(pos) ELSE pos + 1
      /\ UNCHANGED <<headers, contents, filesDone>>
  BY DEF VisitSkips, Visiting, Walked, TreeInv, walkVars
<1>2. /\ \A i : Kept(i)' = Kept(i)
      /\ \A i : Lineage(i)' = Lineage(i)
      /\ \A i : Matches(i)' = Matches(i)
  BY <1>1, InputStays, KeptStays
<1>3. /\ pos' \in (pos + 1)..(N + 1)
      /\ \A j \in pos'..N : pos \notin Lineage(j)
      /\ \A j \in (pos + 1)..(pos' - 1) : pos \in Lineage(j)
  <2>1. CASE tree[pos].dir
    BY <1>1, <2>1, BehindIs
  <2>2. CASE ~tree[pos].dir
    <3>1. ASSUME NEW j \in (pos + 1)..N PROVE pos \notin Lineage(j)
      <4>1. j \in 0..N /\ pos # j
        BY <1>1
      <4> QED
        BY <2>2, <4>1, LineageBelow
    <3> QED
      BY <1>1, <2>2, <3>1
  <2> QED
    BY <2>1, <2>2
<1>4. ASSUME NEW i \in pos..(pos' - 1) PROVE ~Kept(i)
  <2>1. i \in 0..N /\ pos \in 1..N
    BY <1>1, <1>3
  <2>2. pos \in Lineage(i)
    <3>1. CASE i = pos
      BY <1>1, <3>1, LineageUnfolds
    <3>2. CASE i # pos
      BY <1>1, <1>3, <3>2
    <3> QED
      BY <3>1, <3>2
  <2> QED
    BY <1>1, <2>2 DEF Kept
<1>5. ASSUME NEW i \in 1..(pos' - 1), Kept(i) PROVE i \in 1..(pos - 1)
  BY <1>1, <1>3, <1>4, <1>5
<1>6. 1..(pos - 1) \subseteq 1..(pos' - 1)
  BY <1>1, <1>3
<1>7. \A k \in 1..Len(headers') : \E i \in 1..(pos' - 1) : Kept(i)' /\ headers'[k] = i
  BY <1>1, <1>2, <1>6 DEF Walked
<1>8. \A i \in 1..(pos' - 1) : Kept(i)' => \E k \in 1..Len(headers') : headers'[k] = i
  BY <1>1, <1>2, <1>5 DEF Walked
<1>9. contents' = {i \in 1..(pos' - 1) : Kept(i)' /\ ~tree'[i].dir}
  <2>1. contents = {i \in 1..(pos - 1) : Kept(i) /\ ~tree[i].dir}
    BY DEF Walked
  <2>2. contents' = {i \in 1..(pos' - 1) : Kept(i) /\ ~tree[i].dir}
    BY <1>1, <1>5, <1>6, <2>1
  <2> QED
    BY <1>1, <1>2, <2>2
<1>10. \A a \in 1..(pos' - 1) : ~Matches(a)' => \A j \in pos'..N : a \notin Lineage(j)'
  <2> SUFFICES ASSUME NEW a \in 1..(pos' - 1), ~Matches(a), NEW j \in pos'..N
               PROVE  a \notin Lineage(j)
    BY <1>2
  <2>1. j \in 0..N /\ j \in pos..N
    BY <1>1, <1>3
  <2>2. CASE a \in 1..(pos - 1)
    BY <2>1, <2>2 DEF Walked
  <2>3. CASE a = pos
    BY <1>3, <2>3
  <2>4. CASE a \in (pos + 1)..(pos' - 1)
    BY <1>3, <2>1, <2>4, LineageTransitive
  <2> QED
    BY <1>1, <1>3, <2>2, <2>3, <2>4
<1>11. /\ pos' \in 1..(N + 1) /\ headers' \in Seq(Nat) /\ filesDone' = Len(headers')
       /\ \A k \in 1..(Len(headers') - 1) : headers'[k] < headers'[k + 1]
  BY <1>1, <1>3 DEF Walked
<1> QED
  BY <1>1, <1>7, <1>8, <1>9, <1>10, <1>11 DEF Walked

\* Nothing is written, skipped or answered.
LEMMA WalkedStays ==
  ASSUME Walked, UNCHANGED <<walkVars, pos, headers, contents, filesDone>>
  PROVE  Walked'
<1>1. /\ \A i : Kept(i)' = Kept(i)
      /\ \A i : Lineage(i)' = Lineage(i)
      /\ \A i : Matches(i)' = Matches(i) /\ tree' = tree
  BY InputStays, KeptStays
<1>2. contents' = {i \in 1..(pos' - 1) : Kept(i)' /\ ~tree'[i].dir}
  <2>1. contents = {i \in 1..(pos - 1) : Kept(i) /\ ~tree[i].dir}
    BY DEF Walked
  <2> QED
    BY <1>1, <2>1
<1> QED
  BY <1>1, <1>2 DEF Walked

LEMMA TarBegins ==
  ASSUME TarInit, answer = "none", IsTar
  PROVE  TarInv
BY DEF TarInit, TarInv, Complete, Walked

LEMMA TarKeeps ==
  ASSUME TarInv, TarNext, UNCHANGED <<engine, call>>
  PROVE  TarInv'
<1>1. TreeInv
  BY TreesAreOrdered DEF TarInv
<1>2. (ForReal' <=> ForReal) /\ (Estimates => ~ForReal) /\ Len(tree) \in Nat
  BY <1>1 DEF ForReal, Transfers, Estimates, TreeInv
<1>3. CASE TarDryRun
  BY <1>2, <1>3 DEF TarDryRun, TarInv, Complete, Answers, walkVars, ForReal
<1>4. CASE TarEstimates
  BY <1>2, <1>4 DEF TarEstimates, TarInv, Complete, Answers, walkVars
<1>5. CASE TarRefuses
  BY <1>2, <1>5 DEF TarRefuses, TarInv, Complete, Answers, walkVars
<1>6. CASE TarStarts
  <2>1. ForReal /\ tarPc = "call" /\ tarPc' = "walk" /\ UNCHANGED <<walkVars, pos, headers,
                                                                    contents, filesDone, tarErr,
                                                                    answer>>
    BY <1>6 DEF TarStarts, callVars, ForReal
  <2>2. pos = 1 /\ headers = <<>> /\ contents = {} /\ filesDone = 0 /\ tarErr = "nil"
        /\ tree \in Trees /\ answer = "none"
    BY <2>1 DEF TarInv
  <2>3. Walked
    BY <1>2, <2>2 DEF Walked
  <2>4. Walked'
    BY <2>1, <2>3, WalkedStays
  <2> QED
    BY <1>2, <2>1, <2>2, <2>4 DEF TarInv, Complete, walkVars
<1>7. CASE VisitSkips
  <2>1. Walked'
    BY <1>1, <1>7, SkipsKeepsWalked DEF TarInv, VisitSkips, Visiting
  <2> QED
    BY <1>2, <1>7, <2>1 DEF VisitSkips, Visiting, TarInv, Complete, callVars, walkVars
<1>8. CASE VisitAdds
  <2>1. Walked'
    BY <1>1, <1>8, AddsKeepsWalked DEF TarInv, VisitAdds, Visiting
  <2> QED
    BY <1>2, <1>8, <2>1 DEF VisitAdds, Visiting, TarInv, Complete, callVars, walkVars
<1>9. CASE VisitFails
  BY <1>2, <1>9 DEF VisitFails, Visiting, TarInv, Complete, callVars, walkVars
<1>10. CASE WalkEnds
  <2>1. Walked /\ UNCHANGED <<walkVars, pos, headers, contents, filesDone>>
    BY <1>10 DEF WalkEnds, TarInv
  <2>2. Walked'
    BY <2>1, WalkedStays
  <2>3. pos = Len(tree) + 1
    BY <1>2, <1>10, <2>1 DEF WalkEnds, Walked
  <2> QED
    BY <1>2, <1>10, <2>2, <2>3 DEF WalkEnds, TarInv, Complete, callVars, walkVars
<1>11. CASE TarCloses
  <2>1. tarPc = "close" /\ tarPc' = "end" /\ answer' = tarErr /\ ForReal
        /\ UNCHANGED <<walkVars, pos, headers, contents, filesDone, tarErr>>
    BY <1>11 DEF TarCloses, TarInv, Answers
  <2>2. CASE tarErr = "nil"
    <3>1. Walked /\ pos = Len(tree) + 1
      BY <2>1, <2>2 DEF TarInv, Complete
    <3>2. Walked'
      BY <2>1, <3>1, WalkedStays
    <3> QED
      BY <1>2, <2>1, <3>1, <3>2 DEF TarInv, Complete, walkVars
  <2>3. CASE tarErr # "nil"
    BY <1>2, <2>1, <2>3 DEF TarInv, Complete, walkVars
  <2> QED
    BY <2>2, <2>3
<1> QED
  BY <1>3, <1>4, <1>5, <1>6, <1>7, <1>8, <1>9, <1>10, <1>11 DEF TarNext

\* An archive that is reported as complete holds exactly what the filters leave in, for
\* every tree a walk can have and all filters (tarstream/engine.go:164-243).
THEOREM TarArchives == Spec => []ArchiveIsFilteredWalk
<1>1. Init => TarOrNone
  BY TarBegins DEF Init, CallInit, TarInit, TarOrNone
<1>2. TarOrNone /\ [Next]_enginesVars => TarOrNone'
  <2> SUFFICES ASSUME TarOrNone, [Next]_enginesVars PROVE TarOrNone'
    OBVIOUS
  <2>1. UNCHANGED <<engine, call>> /\ (IsTar' <=> IsTar) /\ (ForReal' <=> ForReal)
    BY OwnSteps DEF IsTar, ForReal, Transfers
  <2>2. CASE IsTar
    <3>1. CASE TarNext
      BY <2>1, <2>2, <3>1, TarKeeps DEF TarOrNone
    <3>2. CASE UNCHANGED <<answer, tarVars>>
      <4>1. UNCHANGED <<walkVars, pos, headers, contents, filesDone, tarPc, tree, tarErr, answer>>
        BY <3>2 DEF tarVars, walkVars
      <4>2. Walked => Walked'
        BY <4>1, WalkedStays
      <4> QED
        BY <2>1, <2>2, <4>1, <4>2 DEF TarOrNone, TarInv, Complete
    <3> QED
      BY <2>2, <3>1, <3>2, OwnSteps
  <2>3. CASE ~IsTar
    <3>1. UNCHANGED headers
      BY <2>3 DEF Next, Cancelled, enginesVars, tarVars
    <3> QED
      BY <2>1, <2>3, <3>1 DEF TarOrNone
  <2> QED
    BY <2>2, <2>3
<1>3. TarOrNone => ArchiveIsFilteredWalk
  <2> SUFFICES ASSUME TarOrNone PROVE ArchiveIsFilteredWalk
    OBVIOUS
  <2>1. Estimates \/ call.dryRun => ~ForReal
    BY DEF Estimates, ForReal, Transfers
  <2>2. ~ForReal => headers = <<>>
    BY DEF TarOrNone, TarInv
  <2>3. ASSUME IsTar, answer = "nil", Transfers, ~call.dryRun
        PROVE  LET kept == {i \in DOMAIN tree : \A a \in Lineage(i) : Matches(a)}
               IN /\ {headers[k] : k \in DOMAIN headers} = kept
                  /\ \A k \in 1 .. Len(headers) - 1 : headers[k] < headers[k + 1]
                  /\ contents = {i \in kept : ~tree[i].dir}
                  /\ filesDone = Len(headers)
    <3> DEFINE kept == {i \in DOMAIN tree : \A a \in Lineage(i) : Matches(a)}
    <3>1. Walked /\ pos = Len(tree) + 1 /\ TreeInv
      BY <2>3, TreesAreOrdered DEF TarOrNone, TarInv, Complete, ForReal
    <3>2. /\ DOMAIN tree = 1..(pos - 1) /\ DOMAIN headers = 1..Len(headers)
          /\ \A i : Kept(i) <=> \A a \in Lineage(i) : Matches(a)
      BY <3>1 DEF Walked, TreeInv, Kept
    <3>3. kept = {i \in 1..(pos - 1) : Kept(i)}
      BY <3>2
    <3> HIDE DEF kept
    <3>4. {headers[k] : k \in DOMAIN headers} = kept
      <4>1. \A k \in DOMAIN headers : headers[k] \in kept
        BY <3>1, <3>2, <3>3 DEF Walked
      <4>2. \A i \in kept : \E k \in DOMAIN headers : headers[k] = i
        BY <3>1, <3>2, <3>3 DEF Walked
      <4> QED
        BY <4>1, <4>2
    <3>5. contents = {i \in kept : ~tree[i].dir}
      BY <3>1, <3>3 DEF Walked
    <3> QED
      BY <3>1, <3>4, <3>5 DEF Walked, kept
  <2> QED
    BY <2>1, <2>2, <2>3 DEF ArchiveIsFilteredWalk
<1> QED
  BY <1>1, <1>2, <1>3, PTL DEF Spec
=============================================================================
