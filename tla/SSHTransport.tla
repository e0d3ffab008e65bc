----------------------------- MODULE SSHTransport -----------------------------
(***************************************************************************)
(* The SSH connections of the proxy engine, one to the source host and one *)
(* to the destination host: pkg/transport.  The network and the hosts are  *)
(* external: a connection may be refused or lost, but a lost one is noticed*)
(* by whoever uses it.  So is the SSH agent, which is reached by a socket. *)
(***************************************************************************)
EXTENDS EngineCall

VARIABLES
  dial,      \* of each side: "none", "dialing", "up", "failed", "lost", "closed"
  abandoned, \* the sides whose dial was given up, nobody has its connection
  keepalive, \* of each side, the goroutine: "off", "run", "done"
  session,   \* of the three commands: "none", "open", "closed"
  agentSocket \* the sides for which the agent's socket is open

sshVars == <<dial, abandoned, keepalive, session, agentSocket>>

Sides == {"source", "dest"}
Commands == {"stat", "reader", "writer"}
HostOf == [stat |-> "source", reader |-> "source", writer |-> "dest"]

SSHTypeOK ==
  /\ dial \in [Sides -> {"none", "dialing", "up", "failed", "lost", "closed"}]
  /\ abandoned \subseteq Sides
  /\ keepalive \in [Sides -> {"off", "run", "done"}]
  /\ session \in [Commands -> {"none", "open", "closed"}]
  /\ agentSocket \subseteq Sides

SSHInit ==
  /\ dial = [s \in Sides |-> "none"] /\ abandoned = {}
  /\ keepalive = [s \in Sides |-> "off"]
  /\ session = [c \in Commands |-> "none"] /\ agentSocket = {}
-----------------------------------------------------------------------------
(***************************************************************************)
(* Authentication.  A location has the keys of its auth section, whether a *)
(* password is in the environment, and usable: the methods that would work *)
(* on this machine ("agent" if a socket is set, "defaultKey" if one of the *)
(* usual key files exists and can be parsed).                              *)
(***************************************************************************)
\* ParseRemotePath, for the kinds of paths that are told apart here.
IsRemotePath(loc) == loc.kind = "ssh"

\* AuthFromConfig; {} is its error.
FromConfig(loc) ==
  CASE "password" \in loc.auth -> {"password"}
    [] "key" \in loc.auth /\ "password" \notin loc.auth -> {"key"}
    [] "agent" \in loc.auth /\ loc.auth \cap {"password", "key"} = {} -> {"agent"}
    [] OTHER -> loc.usable \cap {"agent", "defaultKey"}

\* getAuthentication, for one side.
AuthOf(loc) ==
  CASE loc.password -> {"password"}
    [] ~loc.password /\ loc.auth # {} -> FromConfig(loc)
    [] OTHER -> {"agent"}

\* SSHAuthMethods of them all: methods that fail are skipped, none left is an error.
AuthMethods(loc) == AuthOf(loc) \cap (loc.usable \cup {"password"})

Location(s) == IF s = "source" THEN call.source ELSE call.dest

\* Asking the agent for its method connects to its socket.  Nobody keeps that connection
\* to close it; only the garbage collector may, some time.
SocketsAfterAuth(s) ==
  IF "agent" \in AuthMethods(Location(s)) THEN agentSocket \cup {s} ELSE agentSocket
-----------------------------------------------------------------------------
\* The goroutine of Connect: ssh.Dial ends, whether Connect still waits for it or not.
DialEnds(s) ==
  /\ dial[s] = "dialing"
  /\ \E d \in {"up", "failed"} : dial' = [dial EXCEPT ![s] = d]
  /\ UNCHANGED <<callVars, abandoned, keepalive, session, agentSocket>>

ConnectionLost(s) ==
  /\ dial[s] = "up" /\ s \notin abandoned
  /\ dial' = [dial EXCEPT ![s] = "lost"]
  /\ UNCHANGED <<callVars, abandoned, keepalive, session, agentSocket>>

\* A keepalive request over a lost connection fails, and its goroutine ends.
KeepaliveEnds(s) ==
  /\ keepalive[s] = "run" /\ dial[s] = "lost"
  /\ keepalive' = [keepalive EXCEPT ![s] = "done"]
  /\ UNCHANGED <<callVars, dial, abandoned, session, agentSocket>>

\* Close: stopKeepalive ends the goroutine and waits for it, and with the connection
\* go the sessions that are left on it.
CloseClient(s) ==
  /\ keepalive' = [keepalive EXCEPT ![s] = "done"]
  /\ dial' = [dial EXCEPT ![s] = "closed"]
  /\ session' = [c \in Commands |->
                   IF HostOf[c] = s /\ session[c] = "open" THEN "closed" ELSE session[c]]
  /\ UNCHANGED <<abandoned, agentSocket>>

OpenSession(c) ==
  /\ session' = [session EXCEPT ![c] = "open"]
  /\ UNCHANGED <<dial, abandoned, keepalive, agentSocket>>

CloseSession(c) ==
  /\ session' = [session EXCEPT ![c] = "closed"]
  /\ UNCHANGED <<dial, abandoned, keepalive, agentSocket>>
=============================================================================
