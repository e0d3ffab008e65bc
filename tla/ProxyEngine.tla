----------------------------- MODULE ProxyEngine -----------------------------
(***************************************************************************)
(* The proxy engine: `cat file` on the source host, `cat > file` on the    *)
(* destination host, and the streaming pipeline in between, of which only  *)
(* the promise StreamCopy is used.  Whatever was opened is closed by the   *)
(* deferred calls, the last one first.                                     *)
(***************************************************************************)
EXTENDS SSHTransport

CONSTANTS
  FileSize,  \* how many bytes the file has
  Window     \* how many unread bytes an SSH channel lets the remote side send

ASSUME FileAssumption == FileSize \in Nat /\ Window \in Nat

VARIABLES
  proxyPc,   \* "call", "connect", "stat", "reader", "writer", "copy", "stalled", "unwind", "end"
  side,      \* the side that is being connected
  statParts, \* what ExecuteCommand has of the stat command: "stdout", "stderr", "wait"
  deferred,  \* the closes that are deferred, the latest last
  verdict,   \* what is going to be returned
  total, copied, ended, \* the pipeline, see StreamCopy
  unread,    \* how many bytes the source's command has yet to get rid of
  destCommand, \* cat > file: "none", "running", "ok", "failed", or "lost" with its connection
  onDisk     \* how many bytes it left in the file

copyState == <<total, copied, ended>>
destVars == <<destCommand, onDisk>>
proxyVars == <<sshVars, proxyPc, side, statParts, deferred, verdict, copyState, unread, destVars>>

Copy == INSTANCE StreamCopy WITH interfered <- FALSE   \* no errorHandler, no Stop

IsProxy == engine = "proxy"

ProxyTypeOK ==
  /\ SSHTypeOK
  /\ proxyPc \in {"call", "connect", "stat", "reader", "writer", "copy", "stalled", "unwind", "end"}
  /\ side \in Sides /\ statParts \subseteq {"stdout", "stderr", "wait"}
  /\ deferred \in Seq(Sides \cup Commands) /\ verdict \in {"nil", "error"}
  /\ {total, copied, unread, onDisk} \subseteq 0..FileSize
  /\ ended \in {"none", "nil", "error", "ctx"}
  /\ destCommand \in {"none", "running", "ok", "failed", "lost"}

ProxyInit ==
  /\ SSHInit
  /\ proxyPc = "call" /\ side = "source" /\ statParts = {} /\ deferred = <<>>
  /\ verdict = "nil" /\ total = 0 /\ copied = 0 /\ ended = "none" /\ unread = 0
  /\ destCommand = "none" /\ onDisk = 0

Fails == proxyPc' = "unwind" /\ verdict' = "error"
Goes(pc) == proxyPc' = pc /\ UNCHANGED verdict
-----------------------------------------------------------------------------
ProxyDryRun ==
  /\ proxyPc = "call" /\ Transfers /\ call.dryRun
  /\ proxyPc' = "end" /\ Answers("nil")
  /\ UNCHANGED <<sshVars, side, statParts, deferred, verdict, copyState, unread, destVars>>

\* ParseRemotePath and getAuthentication; an Estimate asks for the source only.
ProxyPrepares ==
  /\ proxyPc = "call" /\ ~(Transfers /\ call.dryRun)
  /\ IF \A s \in (IF Transfers THEN Sides ELSE {"source"}) :
          IsRemotePath(Location(s)) /\ AuthOf(Location(s)) # {}
     THEN Goes("connect") ELSE Fails
  /\ UNCHANGED <<callVars, sshVars, side, statParts, deferred, copyState, unread, destVars>>

\* Connect up to the start of its goroutine.
ConnectDials ==
  /\ proxyPc = "connect" /\ dial[side] = "none"
  /\ agentSocket' = SocketsAfterAuth(side)
  /\ IF AuthMethods(Location(side)) = {}
     THEN Fails /\ UNCHANGED dial
     ELSE dial' = [dial EXCEPT ![side] = "dialing"] /\ UNCHANGED <<proxyPc, verdict>>
  /\ UNCHANGED <<callVars, abandoned, keepalive, session, side, statParts, deferred, copyState,
                 unread, destVars>>

\* Mutant: the connection to the destination is not deferred to be closed.
ConnectReturnsUndeferred ==
  /\ proxyPc = "connect" /\ dial[side] \in {"up", "lost"}
  /\ keepalive' = [keepalive EXCEPT ![side] = "run"]
  /\ deferred' = IF side = "source" THEN Append(deferred, side) ELSE deferred
  /\ IF side = "source" /\ Transfers THEN side' = "dest" /\ Goes("connect")
                                     ELSE UNCHANGED side /\ Goes("stat")
  /\ UNCHANGED <<callVars, dial, abandoned, session, agentSocket, statParts, copyState, unread,
                 destVars>>

\* Connect returns the client, with its keepalive goroutine.
ConnectReturns ==
  /\ proxyPc = "connect" /\ dial[side] \in {"up", "lost"}
  /\ keepalive' = [keepalive EXCEPT ![side] = "run"]
  /\ deferred' = Append(deferred, side)
  /\ IF side = "source" /\ Transfers THEN side' = "dest" /\ Goes("connect")
                                     ELSE UNCHANGED side /\ Goes("stat")
  /\ UNCHANGED <<callVars, dial, abandoned, session, agentSocket, statParts, copyState, unread,
                 destVars>>

\* The dial fails; or the context ends and select takes that case, also if the dial
\* has ended as well: then nobody ever closes the connection.
ConnectFails ==
  /\ proxyPc = "connect"
  /\ \/ dial[side] = "failed" /\ UNCHANGED abandoned
     \/ cancelled /\ dial[side] # "none" /\ abandoned' = abandoned \cup {side}
  /\ Fails
  /\ UNCHANGED <<callVars, dial, keepalive, session, agentSocket, side, statParts, deferred,
                 copyState, unread, destVars>>
-----------------------------------------------------------------------------
(***************************************************************************)
(* GetFileSize: ExecuteCommand with a goroutine for each output and one    *)
(* for session.Wait.                                                       *)
(***************************************************************************)
StatStarts ==
  /\ proxyPc = "stat" /\ session["stat"] = "none"
  /\ \/ dial["source"] = "up" /\ OpenSession("stat") /\ UNCHANGED <<proxyPc, verdict>>
     \/ Fails /\ UNCHANGED sshVars
  /\ UNCHANGED <<callVars, side, statParts, deferred, copyState, unread, destVars>>

StatPart(p) ==
  /\ proxyPc = "stat" /\ session["stat"] = "open" /\ p \notin statParts
  /\ statParts' = statParts \cup {p}
  /\ UNCHANGED <<callVars, sshVars, proxyPc, side, deferred, verdict, copyState, unread, destVars>>

\* After Wait both outputs are waited for; the size is parsed from them, or there is none.
StatReturns ==
  /\ proxyPc = "stat" /\ session["stat"] = "open" /\ statParts = {"stdout", "stderr", "wait"}
  /\ CloseSession("stat")
  /\ \/ dial["source"] = "up" /\ Goes(IF Transfers THEN "reader" ELSE "unwind")
     \/ Fails
  /\ UNCHANGED <<callVars, side, statParts, deferred, copyState, unread, destVars>>

StatGivesUp ==
  /\ proxyPc = "stat" /\ session["stat"] = "open" /\ cancelled
  /\ CloseSession("stat") /\ Fails
  /\ UNCHANGED <<callVars, side, statParts, deferred, copyState, unread, destVars>>
-----------------------------------------------------------------------------
\* StreamCommand of cat: it is going to deliver the file, or less if it fails.
OpensReader ==
  /\ proxyPc = "reader"
  /\ \/ /\ dial["source"] = "up" /\ OpenSession("reader")
        /\ total' \in 0..FileSize /\ unread' = total'
        /\ deferred' = Append(deferred, "reader") /\ Goes("writer")
     \/ Fails /\ UNCHANGED <<sshVars, total, unread, deferred>>
  /\ UNCHANGED <<callVars, side, statParts, copied, ended, destVars>>

\* StreamWrite of cat > file.
OpensWriter ==
  /\ proxyPc = "writer"
  /\ \/ /\ dial["dest"] = "up" /\ OpenSession("writer")
        /\ deferred' = Append(deferred, "writer") /\ Goes("copy")
        /\ destCommand' = "running"
     \/ Fails /\ UNCHANGED <<sshVars, deferred, destCommand>>
  /\ UNCHANGED <<callVars, side, statParts, copyState, unread, onDisk>>

PipelineCopies ==
  /\ proxyPc = "copy" /\ Copy!Copies
  /\ unread' \in 0 .. total - copied'   \* the pipeline's buffer holds the rest
  /\ unread' <= unread
  /\ UNCHANGED <<callVars, sshVars, proxyPc, side, statParts, deferred, verdict, destVars>>

\* Mutant: the error of Start is not looked at.
PipelineEndsWell ==
  /\ proxyPc = "copy" /\ Copy!Ends /\ (ended' = "ctx" => cancelled)
  /\ Goes("unwind")
  /\ UNCHANGED <<callVars, sshVars, side, statParts, deferred, unread, destVars>>

PipelineEnds ==
  /\ proxyPc = "copy" /\ Copy!Ends /\ (ended' = "ctx" => cancelled)
  /\ IF ended' = "nil" THEN Goes("unwind") ELSE Fails
  /\ unread' \in 0..unread   \* what was read and not written
  /\ UNCHANGED <<callVars, sshVars, side, statParts, deferred, destVars>>

\* The destination fails while the source waits for space: Start does not return.
PipelineStalls ==
  /\ proxyPc = "copy" /\ copied < total
  /\ Goes("stalled")
  /\ UNCHANGED <<callVars, sshVars, side, statParts, deferred, copyState, unread, destVars>>
-----------------------------------------------------------------------------
(***************************************************************************)
(* The deferred closes.                                                    *)
(***************************************************************************)
Closing(what) == proxyPc = "unwind" /\ deferred # <<>> /\ deferred[Len(deferred)] = what
Closed == deferred' = SubSeq(deferred, 1, Len(deferred) - 1)

\* Mutant: Close waits for the command before it ends its input.
ClosesWriterWaitsFirst ==
  /\ Closing("writer") /\ Closed
  /\ destCommand # "running"
  /\ CloseSession("writer")
  /\ UNCHANGED <<callVars, proxyPc, side, statParts, verdict, copyState, unread, destVars>>

\* streamWriter.Close: over a lost connection the end of the input cannot be sent, and
\* it returns without waiting; else cat ends, well or not, its status is not looked at.
ClosesWriter ==
  /\ Closing("writer") /\ Closed
  /\ \/ dial["dest"] = "lost" /\ destCommand' = "lost" /\ UNCHANGED sshVars
     \/ dial["dest"] # "lost" /\ destCommand' \in {"ok", "failed"} /\ CloseSession("writer")
  /\ IF destCommand' = "ok" THEN onDisk' = copied ELSE onDisk' \in 0..copied
  /\ UNCHANGED <<callVars, proxyPc, side, statParts, verdict, copyState, unread>>

\* streamReader.Close waits for cat, which ends when it is rid of its output.
ClosesReader ==
  /\ Closing("reader") /\ Closed
  /\ unread <= Window \/ dial["source"] = "lost"
  /\ CloseSession("reader")
  /\ UNCHANGED <<callVars, proxyPc, side, statParts, verdict, copyState, unread, destVars>>

ClosesClient(s) ==
  /\ Closing(s) /\ Closed
  /\ CloseClient(s)
  /\ UNCHANGED <<callVars, proxyPc, side, statParts, verdict, copyState, unread, destVars>>

ProxyReturns ==
  /\ proxyPc = "unwind" /\ deferred = <<>>
  /\ proxyPc' = "end" /\ Answers(verdict)
  /\ UNCHANGED <<sshVars, side, statParts, deferred, verdict, copyState, unread, destVars>>

EngineWaits == UNCHANGED <<proxyPc, side, statParts, deferred, verdict, copyState, unread, destVars>>

DialStep(s) == DialEnds(s) /\ EngineWaits
NetworkStep(s) == (ConnectionLost(s) \/ KeepaliveEnds(s)) /\ EngineWaits

ProxyStep ==
  \/ ProxyDryRun \/ ProxyPrepares \/ ConnectDials \/ ConnectReturns \/ ConnectFails
  \/ StatStarts \/ StatReturns \/ StatGivesUp \/ \E p \in {"stdout", "stderr", "wait"} : StatPart(p)
  \/ OpensReader \/ OpensWriter \/ PipelineCopies \/ PipelineEnds
  \/ ClosesWriter \/ ClosesReader \/ (\E s \in Sides : ClosesClient(s)) \/ ProxyReturns

ProxyNext == ProxyStep \/ PipelineStalls \/ \E s \in Sides : DialStep(s) \/ NetworkStep(s)

\* A dial ends by its Timeout; the engine's goroutine runs, a remote command makes
\* progress.  No connection has to be lost.
ProxyFairness ==
  /\ WF_proxyVars(IsProxy /\ ProxyStep)
  /\ \A s \in Sides : WF_proxyVars(IsProxy /\ DialStep(s))
-----------------------------------------------------------------------------
\* What a success of the proxy engine is worth: the destination's command was handed
\* every byte the source's command delivered, and has ended.  If those are the file's
\* size, which the engine does not compare (proxy/engine.go:148), and if the command
\* ended well, which streamWriter.Close does not look at (transport.go:303), then the
\* file is complete.
ProxySuccessMeansStreamed ==
  IsProxy /\ answer = "nil" /\ Transfers /\ ~call.dryRun =>
    /\ copied = total
    /\ destCommand # "running"
    /\ total = FileSize /\ destCommand = "ok" => onDisk = FileSize

\* When the engine has returned, sessions are closed and no keepalive goroutine is left
\* (proxy/engine.go:86-122).  Two things may be left open and nothing else: a connection
\* to a host, open or being made, if the context ended before Connect took it
\* (transport.go:74), and of a side that authenticates by it, the agent's socket
\* (auth.go:106).
NothingElseLeftOpen ==
  IsProxy /\ answer # "none" =>
    /\ \A s \in Sides : keepalive[s] # "run"
    /\ \A s \in Sides \ abandoned : dial[s] \notin {"dialing", "up"}
    /\ \A c \in Commands : session[c] # "open"
    /\ \A s \in agentSocket : dial[s] # "none" /\ "agent" \in AuthMethods(Location(s))

\* cat waits for the window of its channel to open, and Close waits for cat.
ReaderBlocked == Closing("reader") /\ unread > Window /\ dial["source"] # "lost"
=============================================================================
