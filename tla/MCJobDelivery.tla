---------------------------- MODULE MCJobDelivery ----------------------------
(* Instances of JobDelivery for TLC: two jobs at most.                      *)
EXTENDS JobDelivery

Case(a, b, t, s, f, n) ==
    [kind |-> [j \in Jobs |-> IF j = 1 THEN a ELSE b],
     ticks |-> t, sessions |-> s, faults |-> f, journal |-> n]

\* An update or a trial alone meets restarts and a failed write, with more
\* restarts or more time; two jobs compete for the journal and for the reply,
\* through a restart or for longer.
Mixed == {Case("update", "none", 3, 2, 1, 1), Case("update", "none", 2, 3, 1, 1),
          Case("trial", "none", 3, 2, 1, 1), Case("trial", "none", 2, 3, 1, 1),
          Case("collect", "restart", 1, 2, 0, 1), Case("collect", "restart", 2, 1, 0, 1),
          Case("direct", "update", 1, 2, 0, 2), Case("direct", "update", 2, 1, 0, 2)}
Direct == {Case("direct", "none", 3, 2, 1, 1)}
Collection == {Case("collect", "none", 3, 1, 0, 1)}
=============================================================================
