----------------------------- MODULE RolloutPlan -----------------------------
(***************************************************************************)
(* A rollout from its plan on: PublishBatchedUpdatePlan sorts the chosen   *)
(* agents into waves with the loops of assignWaves (WaveAssignment), for   *)
(* whatever agents, platforms and batch size the owner chose, and freezes  *)
(* the result, which Rollout then releases wave by wave.  A plan other     *)
(* than the one Rollout is instantiated for is only computed.              *)
(***************************************************************************)
EXTENDS Rollout, TLC

CONSTANTS Agents, Platforms, BatchSizes

VARIABLES platform, batch, i, first, rest, assigned

loops == <<platform, batch, i, first, rest, assigned>>

W == INSTANCE WaveAssignment WITH wave <- assigned

\* The loops are done and the plan is the one that is published.
Planned == assigned # <<>> /\ platform = Platform /\ batch = BatchSize

PlanInit == Init /\ W!Init

PlanNext ==
    \/ ~Planned /\ W!Next /\ UNCHANGED vars
    \/ Planned /\ Next /\ UNCHANGED loops

PlanSpec == PlanInit /\ [][PlanNext]_<<vars, loops>>

\* One canary, then a batch.
OnePlatform == [m \in Members |-> 1]

\* The loops of assignWaves compute the waves that the rollout is modelled with
\* (checked before the rollout begins: the plan does not change afterwards).
LoopComputesWaves == Init => W!LoopComputesWaves

\* assignWaves numbers one canary of each platform, then batches of at most the
\* batch size, without a gap.
WavesWellFormed == Init => W!WavesWellFormed

\* The assignment of waves is right: its loops compute the reference waves, none
\* of them empty (assignWaves).
PlanSound == LoopComputesWaves /\ WavesWellFormed
=============================================================================
