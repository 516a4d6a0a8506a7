---------------------------- MODULE Installation ----------------------------
(***************************************************************************)
(* The elevated local installer of an agent: install, rollback, uninstall. *)
(*                                                                         *)
(* installLinux replaces supervisor, command-line worker, active worker,   *)
(* configuration and unit, one atomic file after the other, after          *)
(* saveRecovery has kept a previous-good snapshot; recovery.json names the  *)
(* snapshot and the candidate and is settled when the candidate runs.      *)
(* RollbackLinux writes the snapshot back, also file by file.  One          *)
(* operation runs at a time (lockNativeInstall); it may stop after any     *)
(* file, by an error or with the machine.  A package is its worker, its    *)
(* supervisor (0 for the direct Spark worker) and its flavour; a unit's    *)
(* text is its flavour; 0 is a missing file.                               *)
(***************************************************************************)
EXTENDS Naturals

CONSTANTS
    Packages,       \* [worker, host, flavor] an owner may install
    SignedWorkers,  \* workers a signed update may put into the active slot
    MaxOperations   \* bound: installer operations

\* 0 is a missing file: every package and every signed update has a worker.
ASSUME InstallConstants ==
    /\ Packages \subseteq [worker : Nat \ {0}, host : Nat, flavor : {"general", "spark"}]
    /\ SignedWorkers \subseteq Nat \ {0}

VARIABLES
    disk,       \* worker, prefix (CLI), host, unit, flavor and managed of agent.json
    point,      \* recovery.json with its snapshot, or NoPoint
    service,    \* monik-agent.service runs
    op,         \* the installer operation in progress: what, pkg, at
    operations,
    whole,      \* ghost: combinations of files that were published to the last one
    tangled     \* ghost: a rollback of a settled point was left half done, and
                \* none has restored a complete installation since

installVars == <<disk, point, service, op, operations, whole, tangled>>

NoPackage == [worker |-> 0, host |-> 0, flavor |-> "general"]
NoPoint == [kept |-> FALSE, settled |-> TRUE, files |-> NoPackage, unit |-> "none", prefix |-> 0, cand |-> NoPackage]
NoOperation == [what |-> "none", pkg |-> NoPackage, at |-> "idle"]

Files(d) == [worker |-> d.worker, host |-> d.host, unit |-> d.unit, flavor |-> d.flavor]
Snapshot(p) == [worker |-> p.files.worker, host |-> p.files.host, unit |-> p.unit, flavor |-> p.files.flavor]

\* The supervisor a Spark unit does not use does not belong to what runs.
Runs(f) == IF f.flavor = "spark" THEN [f EXCEPT !.host = 0] ELSE f

-----------------------------------------------------------------------------
(* saveRecovery *)

Pending(p) == p.kept /\ ~p.settled

\* The candidate changes nothing that runs.
SameInstallation(d, pkg) ==
    /\ d.worker = pkg.worker
    /\ d.flavor = pkg.flavor
    /\ d.unit \in {"none", pkg.flavor}
    /\ pkg.flavor = "general" => d.host = pkg.host

\* Preserved as it is, and so a refusal: an unfinished installation of another
\* candidate, an unmanaged worker, files that cannot all be backed up.
Refused(d, p, pkg) ==
    IF Pending(p) THEN p.cand # pkg
    ELSE /\ d.worker # 0
         /\ \/ ~d.managed /\ (d.worker # pkg.worker \/ d.flavor # pkg.flavor)
            \/ ~SameInstallation(d, pkg) /\ (d.unit = "none" \/ (d.flavor = "general" /\ d.host = 0))

\* Mutant: a retry takes a new snapshot of what it finds.
RecoveryAnew(d, p, pkg) ==
    IF d.worker = 0 \/ SameInstallation(d, pkg) THEN p
    ELSE [kept |-> TRUE, settled |-> FALSE, unit |-> d.unit, prefix |-> d.prefix, cand |-> pkg,
          files |-> [worker |-> d.worker, host |-> IF d.flavor = "general" THEN d.host ELSE 0, flavor |-> d.flavor]]

\* The recovery point an accepted candidate leaves.
Recovery(d, p, pkg) ==
    IF Pending(p) \/ d.worker = 0 \/ SameInstallation(d, pkg) THEN p
    ELSE [kept |-> TRUE, settled |-> FALSE, unit |-> d.unit, prefix |-> d.prefix, cand |-> pkg,
          files |-> [worker |-> d.worker, host |-> IF d.flavor = "general" THEN d.host ELSE 0, flavor |-> d.flavor]]

\* settleRecovery: only the point of this candidate.
Settled(p, pkg) == IF p.kept /\ p.cand = pkg THEN [p EXCEPT !.settled = TRUE] ELSE p

-----------------------------------------------------------------------------
(* The operations, one durable step at a time. *)

Begin(what, pkg) ==
    /\ op.at = "idle"
    /\ operations < MaxOperations
    /\ operations' = operations + 1
    /\ op' = [what |-> what, pkg |-> pkg, at |-> "stop"]
    /\ UNCHANGED <<disk, point, service, whole, tangled>>

\* InstallLinux, InstallSparkLinux: the preflight; another flavour needs the
\* owner's explicit conversion, so it is a choice like the package.
BeginInstall == \E pkg \in Packages : Begin("install", pkg)

\* RollbackLinux: the preflight; a managed snapshot must be there.
BeginRollback == point.kept /\ Begin("rollback", point.cand)

BeginUninstall == disk.unit # "none" /\ Begin("uninstall", NoPackage)

Continue(at) == op' = [op EXCEPT !.at = at]

\* systemctl stop, and the backup before the first replacement; a refusal
\* starts the service again.
StopService ==
    /\ op.at = "stop"
    /\ \/ /\ op.what = "install" /\ Refused(disk, point, op.pkg)
          /\ op' = NoOperation /\ service' = (disk.unit # "none") /\ UNCHANGED point
       \/ /\ op.what = "install" /\ ~Refused(disk, point, op.pkg)
          /\ Continue("host") /\ service' = FALSE /\ point' = Recovery(disk, point, op.pkg)
       \/ /\ op.what = "rollback"
          /\ Continue("worker") /\ service' = FALSE /\ UNCHANGED point
       \/ /\ op.what = "uninstall"
          /\ Continue("unit") /\ service' = FALSE /\ UNCHANGED point
    /\ UNCHANGED <<disk, operations, whole, tangled>>

\* The files of installLinux in their order.
InstallFile ==
    /\ op.what = "install"
    /\ \/ op.at = "host" /\ Continue("prefix")
          /\ disk' = [disk EXCEPT !.host = IF op.pkg.flavor = "general" THEN op.pkg.host ELSE @]
       \/ op.at = "prefix" /\ Continue("worker") /\ disk' = [disk EXCEPT !.prefix = op.pkg.worker]
       \/ op.at = "worker" /\ Continue("config") /\ disk' = [disk EXCEPT !.worker = op.pkg.worker]
       \/ op.at = "config" /\ Continue("unit")
          /\ disk' = [disk EXCEPT !.flavor = op.pkg.flavor, !.managed = TRUE]
       \/ op.at = "unit" /\ Continue("start") /\ disk' = [disk EXCEPT !.unit = op.pkg.flavor]
    /\ whole' = IF op.at = "unit" THEN whole \cup {Runs(Files(disk'))} ELSE whole
    /\ UNCHANGED <<point, service, operations, tangled>>

\* The files of RollbackLinux in their order; a part the snapshot does not
\* hold is left alone.
RestoreFile ==
    /\ op.what = "rollback"
    /\ LET kept == point.files
       IN  \/ op.at = "worker" /\ Continue("prefix") /\ disk' = [disk EXCEPT !.worker = kept.worker]
           \/ op.at = "prefix" /\ Continue("host")
              /\ disk' = [disk EXCEPT !.prefix = IF point.prefix # 0 THEN point.prefix ELSE @]
           \/ op.at = "host" /\ Continue("config")
              /\ disk' = [disk EXCEPT !.host = IF kept.host # 0 THEN kept.host ELSE @]
           \/ op.at = "config" /\ Continue("unit") /\ disk' = [disk EXCEPT !.flavor = kept.flavor]
           \/ op.at = "unit" /\ Continue("start") /\ disk' = [disk EXCEPT !.unit = point.unit]
    /\ UNCHANGED <<point, service, operations, whole, tangled>>

\* UninstallLinux: disable, remove the unit, reload.
RemoveUnit ==
    /\ op.what = "uninstall" /\ op.at = "unit"
    /\ op' = NoOperation
    /\ disk' = [disk EXCEPT !.unit = "none"]
    /\ UNCHANGED <<point, service, operations, whole, tangled>>

\* daemon-reload, enable, restart, is-active.
StartService ==
    /\ op.at = "start"
    /\ Continue("settle")
    /\ service' = TRUE
    /\ UNCHANGED <<disk, point, operations, whole, tangled>>

SettleRecovery ==
    /\ op.at = "settle"
    /\ op' = NoOperation
    /\ point' = Settled(point, op.pkg)
    /\ tangled' = (tangled /\ ~(op.what = "rollback" /\ Runs(Files(disk)) \in whole))
    /\ UNCHANGED <<disk, service, operations, whole>>

\* An error return or a stop of the machine after any step; the unit there is
\* starts with the machine.
Interrupted ==
    /\ op.at \notin {"idle", "stop"}
    /\ op' = NoOperation
    /\ tangled' = (tangled \/ (op.what = "rollback" /\ point.settled))
    /\ service' \in {FALSE, disk.unit # "none"}
    /\ UNCHANGED <<disk, point, operations, whole>>

\* A signed worker update through the service host (general flavour).
SignedUpdate ==
    /\ op.at = "idle"
    /\ service
    /\ disk.flavor = "general"
    /\ \E w \in SignedWorkers \ {disk.worker} :
           /\ disk' = [disk EXCEPT !.worker = w]
           /\ whole' = IF Runs(Files(disk)) \in whole THEN whole \cup {Runs(Files(disk'))} ELSE whole
    /\ UNCHANGED <<point, service, op, operations, tangled>>

-----------------------------------------------------------------------------
\* Enrolled, nothing installed.
InstallInit ==
    /\ disk = [worker |-> 0, prefix |-> 0, host |-> 0, unit |-> "none", flavor |-> "general", managed |-> FALSE]
    /\ point = NoPoint
    /\ service = FALSE
    /\ op = NoOperation
    /\ operations = 0
    /\ whole = {}
    /\ tangled = FALSE

InstallNext ==
    \/ BeginInstall \/ BeginRollback \/ BeginUninstall
    \/ StopService \/ InstallFile \/ RestoreFile \/ RemoveUnit \/ StartService \/ SettleRecovery
    \/ Interrupted \/ SignedUpdate

InstallSpec == InstallInit /\ [][InstallNext]_installVars

-----------------------------------------------------------------------------
\* The files on disk are a complete installation, but for a removed unit.
DiskIsGood == \E f \in whole : f = Runs([Files(disk) EXCEPT !.unit = f.unit])

\* Once there was an installation there is a way back: wherever an operation
\* stops, the files are one complete installation, not a mixture, or the
\* recovery point holds one (saveRecovery, RollbackLinux).  A half-done rollback
\* of a settled point is the exception SnapshotIsWhole is about.
WayBack ==
    whole # {} /\ ~tangled => DiskIsGood \/ (point.kept /\ Runs(Snapshot(point)) \in whole)

\* saveRecovery: "Do not replace the previous-good snapshot with partially
\* published bytes": what a new recovery point keeps is one complete installation.
SnapshotIsWhole ==
    [][point' # point /\ ~point'.settled => Runs(Snapshot(point')) \in whole]_installVars
=============================================================================
