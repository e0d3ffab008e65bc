------------------------------ MODULE MCEngines ------------------------------
(* An instance of Engines for TLC. *)
EXTENDS Engines

Loc(kind, password, auth, usable) ==
  [kind |-> kind, path |-> "p", password |-> password, auth |-> auth, usable |-> usable]

Here == Loc("plain", FALSE, {}, {})
There == Loc("ssh", FALSE, {"key"}, {"key"})
WithPassword == Loc("ssh", TRUE, {}, {})
BadKey == Loc("ssh", FALSE, {"key"}, {})
NoAuth == Loc("ssh", FALSE, {"user"}, {})
Agent == Loc("ssh", FALSE, {}, {"agent"})

Call(op, dryRun, source, dest) ==
  [op |-> op, dryRun |-> dryRun, source |-> source, dest |-> dest, compression |-> "auto",
   checkpoint |-> TRUE, parallel |-> 4, filters |-> <<>>]

MCCalls ==
  { Call("transfer", FALSE, Here, Here), Call("transfer", TRUE, Here, There),
    Call("transfer", FALSE, There, WithPassword), Call("transfer", FALSE, Agent, BadKey),
    Call("transfer", FALSE, NoAuth, There), Call("estimate", FALSE, There, Here),
    [Call("estimate", TRUE, Here, There) EXCEPT !.compression = "zstd"] }

\* a, a/b, a/b/c, a/d, e with directories a and a/b; a lone file; nothing at all.
File(p) == [parent |-> p, dir |-> FALSE]
Dir(p) == [parent |-> p, dir |-> TRUE]
MCTrees == { <<Dir(0), Dir(1), File(2), File(1), File(0)>>, <<File(0)>>, <<>> }

MCFilters ==
  { [includes |-> i, included |-> m, excluded |-> x] :
      i \in BOOLEAN, m \in {{1, 3, 4}, {3, 5}, {1, 2, 3}}, x \in {{}, {1}, {2}, {4, 5}} }
=============================================================================
