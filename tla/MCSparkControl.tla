--------------------------- MODULE MCSparkControl ---------------------------
(* Model values and plans for SparkControl. *)
EXTENDS SparkControl, TLC

CONSTANTS pa, pb, j1, j2, j3, c1, c2

Job(action, profile, parent, local) ==
  [action |-> action, profile |-> profile, parent |-> parent, local |-> local]

Plan(a, b, c, use, up, t, s) ==
  [jobs |-> (j1 :> a @@ j2 :> b @@ j3 :> c), use |-> use, up |-> up,
   trouble |-> t, snaps |-> s]

Start(f) == Job("start", f, None, FALSE)
Stop(f) == Job("stop", f, None, FALSE)
Restart(f) == Job("restart", f, None, FALSE)
LinkedTo(j, f) == Job("start", f, j, FALSE)
Locally(job) == [job EXCEPT !.local = TRUE]

Two == {j1, j2}
Three == {j1, j2, j3}

\* Everyday runs of three jobs, restarts with their linked start, the machine's
\* administrator, and two jobs with one piece of trouble.
MCPlans ==
  { Plan(Start(pa), Stop(pa), Start(pa), Three, {{}}, 0, 1),
    Plan(Restart(pa), LinkedTo(j1, pa), Locally(Stop(pa)), Three, {{pa}}, 0, 1),
    Plan(Restart(pa), LinkedTo(j1, pa), Start(pb), Three, {{pa}}, 0, 1),
    Plan(Start(pa), Locally(Stop(pa)), Stop(pa), Two, {{}}, 0, 1),
    Plan(Start(pa), Stop(pa), Stop(pa), Two, {{}}, 1, 1),
    Plan(Start(pa), Start(pb), Stop(pa), Two, {{}}, 1, 0),
    Plan(Restart(pa), LinkedTo(j1, pa), Stop(pa), Two, {{pa}}, 1, 1),
    Plan(Locally(Restart(pa)), Locally(LinkedTo(j1, pa)), Stop(pa), Two, {{pa}}, 1, 0) }
OneGroup == {<<pa, pb>>, <<pb, pa>>}

Sym == Permutations(Calls)
=============================================================================
