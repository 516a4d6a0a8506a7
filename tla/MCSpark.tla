------------------------------- MODULE MCSpark -------------------------------
(***************************************************************************)
(* Models on a Spark machine, for TLC: the broker's control of one request  *)
(* after another, and an owner's operation on its way through controller,   *)
(* worker and broker.  They share no state; `part' says which of them a     *)
(* behaviour is about.                                                     *)
(***************************************************************************)
EXTENDS MCSparkControl, ModelOperations

VARIABLE part

sparkVars == <<vars, modelVars, part>>

MCInit ==
    /\ part \in {"control", "operations"}
    /\ Init /\ ModelInit
    /\ part # "control" => plan = CHOOSE p \in MCPlans : TRUE

MCNext ==
    \/ part = "control" /\ Next /\ UNCHANGED <<modelVars, part>>
    \/ part = "operations" /\ ModelNext /\ UNCHANGED <<vars, part>>

MCSpec == MCInit /\ [][MCNext]_sparkVars

\* What is over stays over: a refused, cancelled or superseded job of the
\* broker, and a restart that a safety stop superseded on the way to it.
NothingRevived == RefusalStays /\ SupersededIsOver
=============================================================================
