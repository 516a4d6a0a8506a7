------------------------------ MODULE MCRollout ------------------------------
(* A rollout to a canary and a regular agent, and the waves of up to five   *)
(* agents, for TLC.                                                        *)
EXTENDS RolloutPlan

CONSTANT MaxTurns   \* bound: time, the owner's actions and faults together

\* Time alone is bounded by MaxTime; no action that is fair spends a turn.
MCNext ==
    /\ PlanNext
    /\ controls' + faults' > 0 => now' + controls' + faults' <= MaxTurns

MCSpec == PlanInit /\ [][MCNext]_<<vars, loops>> /\ Fairness
=============================================================================
