--------------------------- MODULE WaveAssignment ---------------------------
(***************************************************************************)
(* assignWaves (internal/storage/rollouts.go) as its loops compute it, for *)
(* every assignment of platforms to agents and every batch size: the       *)
(* members in the sorted order, first the loop that separates the first    *)
(* agent of every platform from the rest, then the loops that number the   *)
(* waves.                                                                  *)
(***************************************************************************)
EXTENDS RolloutWaves, SequencesExt

CONSTANTS Agents, Platforms, BatchSizes

VARIABLES platform, batch, i, first, rest, wave

vars == <<platform, batch, i, first, rest, wave>>

Order == SetToSortSeq(DOMAIN platform, LAMBDA m, n : Precedes(platform, m, n))

Init ==
    /\ \E S \in SUBSET Agents \ {{}} : platform \in [S -> Platforms]
    /\ batch \in BatchSizes
    /\ i = 1 /\ first = <<>> /\ rest = <<>> /\ wave = <<>>

SeparateLast ==
    /\ i <= Len(Order) /\ i' = i + 1
    /\ IF i > 1 /\ platform[Order[i - 1]] = platform[Order[i]] /\ Len(rest) = 0
       THEN rest' = Append(rest, Order[i]) /\ UNCHANGED first
       ELSE first' = Append(first, Order[i]) /\ UNCHANGED rest
    /\ UNCHANGED <<platform, batch, wave>>

Separate ==
    /\ i <= Len(Order) /\ i' = i + 1
    /\ IF \E k \in 1 .. Len(first) : platform[first[k]] = platform[Order[i]]
       THEN rest' = Append(rest, Order[i]) /\ UNCHANGED first
       ELSE first' = Append(first, Order[i]) /\ UNCHANGED rest
    /\ UNCHANGED <<platform, batch, wave>>

NumberFromOne ==
    /\ i > Len(Order) /\ wave = <<>>
    /\ wave' = [m \in DOMAIN platform |->
                  IF Contains(first, m) THEN (CHOOSE k \in DOMAIN first : first[k] = m) - 1
                  ELSE Len(first) + ((CHOOSE k \in DOMAIN rest : rest[k] = m) \div batch)]
    /\ UNCHANGED <<platform, batch, i, first, rest>>

Number ==
    /\ i > Len(Order) /\ wave = <<>>
    /\ wave' = [m \in DOMAIN platform |->
                  IF Contains(first, m) THEN (CHOOSE k \in DOMAIN first : first[k] = m) - 1
                  ELSE Len(first) + (((CHOOSE k \in DOMAIN rest : rest[k] = m) - 1) \div batch)]
    /\ UNCHANGED <<platform, batch, i, first, rest>>

Next == Separate \/ Number

Spec == Init /\ [][Next]_vars

-----------------------------------------------------------------------------
\* The loops of assignWaves compute the waves that the rollout is modelled with.
LoopComputesWaves ==
    wave # <<>> => \A m \in DOMAIN platform : wave[m] = Wave(platform, batch, m)

\* The waves that assignWaves numbers are one canary of each platform, then
\* batches of at most the batch size, without a gap: advanceRolloutTx, which
\* counts the wave up by one, meets members in every wave until the last.
WavesWellFormed ==
    wave # <<>> =>
        LET members(w) == {m \in DOMAIN platform : wave[m] = w}
            last == CHOOSE w \in {wave[m] : m \in DOMAIN platform} :
                       \A m \in DOMAIN platform : wave[m] <= w
            canaries == Cardinality({platform[m] : m \in DOMAIN platform})
        IN  /\ \A w \in 0 .. last :
                  Cardinality(members(w)) \in 1 .. (IF w < canaries THEN 1 ELSE batch)
            /\ \A w \in 0 .. canaries - 1 : \A m \in members(w) : \A n \in DOMAIN platform :
                  platform[n] = platform[m] => wave[n] = w \/ wave[n] >= canaries

=============================================================================
