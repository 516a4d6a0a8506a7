---------------------------- MODULE RolloutWaves ----------------------------
(***************************************************************************)
(* The frozen order of a batched update (assignWaves in                    *)
(* internal/storage/rollouts.go).  P gives the platform of every member of *)
(* the rollout, b is the batch size.  Platforms and agent identifiers are  *)
(* numbers, ordered as the strings are.                                    *)
(***************************************************************************)
EXTENDS Naturals, FiniteSets

Precedes(P, m, n) == P[m] < P[n] \/ (P[m] = P[n] /\ m < n)

\* The first agent of every platform is a wave of its own.
Canaries(P) == {m \in DOMAIN P : \A n \in DOMAIN P : P[n] = P[m] => m <= n}

WaveUnseparated(P, b, m) ==
    Cardinality({n \in DOMAIN P : Precedes(P, n, m)}) \div b

Wave(P, b, m) ==
    LET first == Canaries(P)
    IN  IF m \in first
        THEN Cardinality({n \in first : Precedes(P, n, m)})
        ELSE Cardinality(first)
             + (Cardinality({n \in DOMAIN P \ first : Precedes(P, n, m)}) \div b)

=============================================================================
