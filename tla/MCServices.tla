----------------------------- MODULE MCServices -----------------------------
(* An instance of Services for TLC. *)
EXTENDS Services

CONSTANTS w1, w2, t1, t2, r1, r2, g1

MCWorkers == {w1, w2}
MCIds == {t1, t2}
MCRecorders == {r1, r2}
MCGetters == {g1}

\* A configuration file cannot hold a negative number.
MCLowest == -4

Location(slash, at_, colon) == [slash |-> slash, at |-> at_, colon |-> colon]

\* /data, host:/data, user@host:/data, host:/a@b, /data/a@b:c and /data/b:c.
MCLocations ==
  { Location(TRUE, 0, 0), Location(FALSE, 0, 5), Location(FALSE, 5, 10),
    Location(FALSE, 8, 5), Location(TRUE, 8, 10), Location(TRUE, 0, 8) }

MCListings == UNION {[1..n -> {0, 1, 2, 3, NoSpace, NoNumber, DotOnly, TooLong}] : n \in 0..3}
              \cup [1..4 -> 0..3]

MCPolicies ==
  { DefaultPolicy, ExponentialPolicy(2), LinearPolicy(3, 20), LinearPolicy(1, 5),
    LinearPolicy(0, 5), LinearPolicy(-1, 5), [ExponentialPolicy(3) EXCEPT !.maxWait = 15] }
=============================================================================
