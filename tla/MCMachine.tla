------------------------------ MODULE MCMachine ------------------------------
(***************************************************************************)
(* The software of one machine, for TLC: the service host that updates the  *)
(* worker, the signed releases it comes from, the installer, the move to    *)
(* another controller endpoint and the rotation of receipts.  They share no *)
(* state; `part' says which of them a behaviour is about.                  *)
(***************************************************************************)
EXTENDS UpdateHost, MCInstallation, MCMigration, ReceiptBatch, Releases

VARIABLE part

machineVars == <<vars, installVars, migrationVars, receiptVars, releaseVars, part>>

MCInit ==
    /\ part \in {"update", "install", "rebind", "receipts", "releases"}
    /\ Init /\ InstallInit /\ MigrationInit /\ ReceiptInit /\ ReleasesInit
    /\ part # "rebind" => script = CHOOSE s \in MCScripts : TRUE
    /\ part # "receipts" => watched = CHOOSE i \in Ids : TRUE

MCNext ==
    \/ part = "update" /\ Next /\ UNCHANGED <<installVars, migrationVars, receiptVars, releaseVars, part>>
    \/ part = "install" /\ InstallNext /\ UNCHANGED <<vars, migrationVars, receiptVars, releaseVars, part>>
    \/ part = "rebind" /\ MigrationNext /\ UNCHANGED <<vars, installVars, receiptVars, releaseVars, part>>
    \/ part = "receipts" /\ ReceiptNext /\ UNCHANGED <<vars, installVars, migrationVars, releaseVars, part>>
    \/ part = "releases" /\ ReleasesNext /\ UNCHANGED <<vars, installVars, migrationVars, receiptVars, part>>

\* The fairness of UpdateHost, Migration and ReceiptBatch, each for its own
\* behaviours.
MCSpec ==
    /\ MCInit /\ [][MCNext]_machineVars
    /\ WF_vars(part = "update" /\ HostStep)
    /\ WF_migrationVars(part = "rebind" /\ AgentStep)
    /\ SF_migrationVars(part = "rebind" /\ Elapse)
    /\ WF_migrationVars(part = "rebind" /\ OpenAgent)
    /\ WF_receiptVars(part = "receipts" /\ SendBatch)

\* In the service host's behaviours every transaction, recovery and shutdown
\* ends, a down host comes back, and the worker runs for good once requests,
\* faults and exits stop (Settles, WorkerRuns).
HostLives == part = "update" => Settles /\ WorkerRuns
=============================================================================
