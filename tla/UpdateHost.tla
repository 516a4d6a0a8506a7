----------------------------- MODULE UpdateHost -----------------------------
(***************************************************************************)
(* The service host that supervises the agent worker and replaces its      *)
(* binary (internal/servicehost/host.go) with the update journal and the   *)
(* binary slots (internal/update/tx.go).                                   *)
(*                                                                         *)
(* The host serialises activate, rollback, restart and the reaper's start  *)
(* with updateMu: pc is where the holder is, "idle" when it is free.  A    *)
(* file has the content the next read sees (now) and the one a power       *)
(* failure may bring back (safe); AtomicWrite can fail before its rename   *)
(* or after it, when only the directory sync failed.  A digest identifies  *)
(* a build, so a build stands for its bytes.                               *)
(***************************************************************************)
EXTENDS Naturals

CONSTANTS
  Builds,      \* worker builds
  Initial,     \* the installed build
  None,        \* no file, no process
  MaxRequests, \* requests in a behaviour (bound)
  MaxFaults,   \* failing disk writes and process starts (bound)
  MaxCrashes,  \* power failures and shutdowns (bound)
  MaxExits     \* worker exits (bound)

ASSUME UpdateHostConstants ==
  /\ Initial \in Builds /\ None \notin Builds
  /\ MaxRequests \in Nat /\ MaxFaults \in Nat
  /\ MaxCrashes \in Nat /\ MaxExits \in Nat

VARIABLES
  journal,   \* update-journal.json
  cur,       \* the worker binary (WorkerBin)
  prev,      \* updates/prev.bin
  pc,        \* where the host is
  tx,        \* the transaction's journal value in memory (j)
  worker,    \* the build the child process runs, or None
  stopping,  \* Host.stopping
  reply,     \* the stage of the last response
  good,      \* history: builds that ran before or survived a probation
  stranded,  \* history: a restore of the previous build was reported as failed
  requests, faults, crashes, exits

files == <<journal, cur, prev>>
host == <<pc, tx, worker, stopping, reply>>
bounds == <<requests, faults, crashes, exits>>
vars == <<files, host, good, stranded, bounds>>

Stages == {"idle", "staged", "switching", "local_probation", "confirmed", "rolled_back"}
Slot(S) == [now : S, safe : S]
Journals == [stage : Stages, old : Builds \cup {None}, new : Builds \cup {None}]
NoJournal == [stage |-> "idle", old |-> None, new |-> None]

\* A file both visible and durable.
Durable(v) == [now |-> v, safe |-> v]

Init ==
  /\ journal = Durable(NoJournal) /\ cur = Durable(Initial) /\ prev = Durable(None)
  /\ pc = "down" /\ tx = NoJournal /\ worker = None /\ stopping = FALSE
  /\ reply = "none" /\ good = {Initial} /\ stranded = FALSE
  /\ requests = 0 /\ faults = 0 /\ crashes = 0 /\ exits = 0

----------------------------------------------------------------------------
(* Writes *)

Ok == UNCHANGED faults
Fault == faults < MaxFaults /\ faults' = faults + 1

\* AtomicWrite of v over the file f succeeds, or reports an error.
Written(f, v) == Ok /\ f' = Durable(v)
NotWritten(f, v) == Fault /\ f' \in {f, [f EXCEPT !.now = v]}

\* The journal saved at stage s; the transaction keeps the stage in memory.
At(s) == [tx EXCEPT !.stage = s]
Save(s) == Written(journal, At(s)) /\ tx' = At(s)
NotSaved(s) == NotWritten(journal, At(s)) /\ tx' = At(s)

\* The transaction ends with the response r.
Respond(r) == pc' = "idle" /\ reply' = r

----------------------------------------------------------------------------
(* Start of the host: recoverJournal, then the first startWorker *)

HostStart ==
  /\ pc = "down"
  /\ pc' = "recover" /\ tx' = journal.now
  /\ UNCHANGED <<files, worker, stopping, reply, good, stranded, bounds>>

\* Mutant of Recover: a transaction interrupted in probation is left as it is.
RecoverSwitchingOnly ==
  /\ pc = "recover"
  /\ IF tx.stage = "switching" /\ cur.now # tx.old
     THEN Written(cur, tx.old) /\ pc' = "recover_save"
     ELSE Ok /\ UNCHANGED cur /\ pc' = "boot"
  /\ UNCHANGED <<journal, prev, tx, worker, stopping, reply, good, stranded,
                 requests, crashes, exits>>

\* An interrupted transaction is undone from the verified previous slot; an
\* unverifiable slot or a failing write ends the process.
Recover ==
  /\ pc = "recover"
  /\ \/ /\ tx.stage \notin {"switching", "local_probation"}
        /\ pc' = "boot" /\ Ok /\ UNCHANGED cur
     \/ /\ tx.stage \in {"switching", "local_probation"} /\ cur.now = tx.old
        /\ pc' = "recover_save" /\ Ok /\ UNCHANGED cur
     \/ /\ tx.stage \in {"switching", "local_probation"} /\ cur.now # tx.old
        /\ \/ prev.now = tx.old /\ Written(cur, tx.old) /\ pc' = "recover_save"
           \/ prev.now = tx.old /\ NotWritten(cur, tx.old) /\ pc' = "down"
           \/ prev.now # tx.old /\ Ok /\ UNCHANGED cur /\ pc' = "down"
  /\ stranded' = (stranded \/ pc' = "down")
  /\ UNCHANGED <<journal, prev, tx, worker, stopping, reply, good, requests,
                 crashes, exits>>

RecoverSave ==
  /\ pc = "recover_save"
  /\ \/ Save("rolled_back") /\ pc' = "boot"
     \/ NotSaved("rolled_back") /\ pc' = "down"
  /\ UNCHANGED <<cur, prev, worker, stopping, reply, good, stranded, requests,
                 crashes, exits>>

Boot ==
  /\ pc = "boot"
  /\ \/ Ok /\ worker' = cur.now /\ pc' = "idle"
     \/ Fault /\ UNCHANGED worker /\ pc' = "down"
  /\ UNCHANGED <<files, tx, stopping, reply, good, stranded, requests, crashes,
                 exits>>

----------------------------------------------------------------------------
(* activateUpdate *)

\* dispatch takes updateMu for one mutating request at a time.
Accept ==
  /\ pc = "idle" /\ ~stopping /\ requests < MaxRequests
  /\ requests' = requests + 1

\* The candidate is copied to next.bin and verified, and the current binary
\* is hashed; the journal of the previous transaction is only replaced later.
Activate(b) ==
  /\ Accept
  /\ \/ /\ Ok /\ pc' = "stage" /\ reply' = "none"
        /\ tx' = [stage |-> "staged", old |-> cur.now, new |-> b]
     \/ Fault /\ Respond("idle") /\ UNCHANGED tx
  /\ UNCHANGED <<files, worker, stopping, good, stranded, crashes, exits>>

SaveStaged ==
  /\ pc = "stage"
  /\ \/ Save("staged") /\ pc' = "switch" /\ UNCHANGED reply
     \/ NotSaved("staged") /\ Respond("error")
  /\ UNCHANGED <<cur, prev, worker, stopping, good, stranded, requests, crashes,
                 exits>>

\* The worker is stopped only once the switch is journalled.
SaveSwitching ==
  /\ pc = "switch"
  /\ \/ Save("switching") /\ worker' = None /\ pc' = "backup" /\ UNCHANGED reply
     \/ NotSaved("switching") /\ Respond("error") /\ UNCHANGED worker
  /\ UNCHANGED <<cur, prev, stopping, good, stranded, requests, crashes, exits>>

\* Mutant of Backup: the error of the backup write is ignored.
BackupIgnored ==
  /\ pc = "backup"
  /\ Written(prev, cur.now) \/ NotWritten(prev, cur.now)
  /\ pc' = "replace"
  /\ UNCHANGED <<journal, cur, tx, worker, stopping, reply, good, stranded,
                 requests, crashes, exits>>

Backup ==
  /\ pc = "backup"
  /\ \/ Written(prev, cur.now) /\ pc' = "replace"
     \/ NotWritten(prev, cur.now) /\ pc' = "fail"
  /\ UNCHANGED <<journal, cur, tx, worker, stopping, reply, good, stranded,
                 requests, crashes, exits>>

Replace ==
  /\ pc = "replace"
  /\ \/ Written(cur, tx.new) /\ pc' = "probation_save"
     \/ NotWritten(cur, tx.new) /\ pc' = "fail"
  /\ UNCHANGED <<journal, prev, tx, worker, stopping, reply, good, stranded,
                 requests, crashes, exits>>

SaveProbation ==
  /\ pc = "probation_save"
  /\ \/ Save("local_probation") /\ pc' = "launch"
     \/ NotSaved("local_probation") /\ pc' = "fail"
  /\ UNCHANGED <<cur, prev, worker, stopping, reply, good, stranded, requests,
                 crashes, exits>>

\* Mutant of Launch: the refusal while the host is stopping is not handled.
LaunchWaits ==
  /\ pc = "launch" /\ ~stopping
  /\ \/ Ok /\ worker' = cur.now /\ pc' = "probation"
     \/ Fault /\ UNCHANGED worker /\ pc' = "fail"
  /\ UNCHANGED <<files, tx, stopping, reply, good, stranded, requests, crashes,
                 exits>>

\* startWorker refuses while the host is stopping.
Launch ==
  /\ pc = "launch"
  /\ \/ ~stopping /\ Ok /\ worker' = cur.now /\ pc' = "probation"
     \/ stopping /\ Ok /\ UNCHANGED worker /\ pc' = "fail"
     \/ ~stopping /\ Fault /\ UNCHANGED worker /\ pc' = "fail"
  /\ UNCHANGED <<files, tx, stopping, reply, good, stranded, requests, crashes,
                 exits>>

\* Mutant of Probation: the timer alone decides.
ProbationTimer ==
  /\ pc = "probation"
  /\ pc' = "confirm"
  /\ good' = IF worker = None THEN good ELSE good \cup {tx.new}
  /\ UNCHANGED <<files, tx, worker, stopping, reply, stranded, bounds>>

\* The candidate exits, or is alive when the probation timer fires.
Probation ==
  /\ pc = "probation"
  /\ IF worker = None
     THEN pc' = "fail" /\ UNCHANGED good
     ELSE pc' = "confirm" /\ good' = good \cup {tx.new}
  /\ UNCHANGED <<files, tx, worker, stopping, reply, stranded, bounds>>

Confirm ==
  /\ pc = "confirm"
  /\ \/ Save("confirmed") /\ Respond("confirmed")
     \/ NotSaved("confirmed") /\ Respond("local_probation")
  /\ UNCHANGED <<cur, prev, worker, stopping, good, stranded, requests, crashes,
                 exits>>

----------------------------------------------------------------------------
(* failedActivation *)

\* restoreJournaledWorker: nothing to do when the old build is in place.
Fail ==
  /\ pc = "fail"
  /\ worker' = None
  /\ \/ /\ cur.now = tx.old /\ Ok /\ UNCHANGED cur
        /\ pc' = "fail_save" /\ UNCHANGED <<reply, stranded>>
     \/ /\ cur.now # tx.old /\ prev.now = tx.old /\ Written(cur, tx.old)
        /\ pc' = "fail_save" /\ UNCHANGED <<reply, stranded>>
     \/ /\ cur.now # tx.old /\ prev.now = tx.old /\ NotWritten(cur, tx.old)
        /\ Respond("recovery_failed") /\ stranded' = TRUE
     \/ /\ cur.now # tx.old /\ prev.now # tx.old /\ Ok /\ UNCHANGED cur
        /\ Respond("recovery_failed") /\ stranded' = TRUE
  /\ UNCHANGED <<journal, prev, tx, stopping, good, requests, crashes, exits>>

\* Mutant of FailSave: the error of the journal write is ignored.
FailSaveIgnored ==
  /\ pc = "fail_save"
  /\ Save("rolled_back") \/ NotSaved("rolled_back")
  /\ reply' = "rolled_back" /\ pc' = "resume"
  /\ UNCHANGED <<cur, prev, worker, stopping, good, stranded, requests, crashes,
                 exits>>

\* Durable recovery is claimed only once the journal says so.
FailSave ==
  /\ pc = "fail_save"
  /\ \/ Save("rolled_back") /\ reply' = "rolled_back"
     \/ NotSaved("rolled_back") /\ reply' = "recovery_failed"
  /\ pc' = "resume"
  /\ UNCHANGED <<cur, prev, worker, stopping, good, stranded, requests, crashes,
                 exits>>

\* The final startWorker of a transaction, of restart_worker and of the reaper.
Resume ==
  /\ pc \in {"resume", "restart"}
  /\ pc' = "idle"
  /\ \/ ~stopping /\ Ok /\ worker' = cur.now /\ UNCHANGED reply
     \/ stopping /\ Ok /\ UNCHANGED <<worker, reply>>
     \/ /\ ~stopping /\ Fault /\ UNCHANGED worker
        /\ reply' = IF pc = "resume" THEN "recovery_failed" ELSE reply
  /\ UNCHANGED <<files, tx, stopping, good, stranded, requests, crashes, exits>>

----------------------------------------------------------------------------
(* rollbackUpdate, restart_worker, reap *)

\* Only the journalled previous build in a verified slot can be restored.
Rollback ==
  /\ Accept
  /\ \/ /\ journal.now.stage # "idle" /\ prev.now = journal.now.old
        /\ tx' = journal.now /\ worker' = None /\ pc' = "undo" /\ reply' = "none"
     \/ /\ journal.now.stage = "idle" \/ prev.now # journal.now.old
        /\ Respond("error") /\ UNCHANGED <<tx, worker>>
  /\ UNCHANGED <<files, stopping, good, stranded, faults, crashes, exits>>

Undo ==
  /\ pc = "undo"
  /\ \/ Written(cur, tx.old) /\ pc' = "undo_save" /\ UNCHANGED reply
     \/ NotWritten(cur, tx.old) /\ pc' = "restart" /\ reply' = "error"
  /\ UNCHANGED <<journal, prev, tx, worker, stopping, good, stranded, requests,
                 crashes, exits>>

UndoSave ==
  /\ pc = "undo_save"
  /\ \/ Save("rolled_back") /\ reply' = "rolled_back"
     \/ NotSaved("rolled_back") /\ reply' = "recovery_failed"
  /\ pc' = "restart"
  /\ UNCHANGED <<cur, prev, worker, stopping, good, stranded, requests, crashes,
                 exits>>

RestartWorker ==
  /\ Accept
  /\ worker' = None /\ pc' = "restart" /\ reply' = "none"
  /\ UNCHANGED <<files, tx, stopping, good, stranded, faults, crashes, exits>>

\* Mutants of Reap: without updateMu; only under a confirmed journal.
ReapUnlocked ==
  /\ pc # "down" /\ worker = None /\ ~stopping
  /\ worker' = cur.now
  /\ UNCHANGED <<files, pc, tx, stopping, reply, good, stranded, bounds>>

ReapConfirmed ==
  /\ pc = "idle" /\ worker = None /\ ~stopping /\ journal.now.stage = "confirmed"
  /\ pc' = "restart"
  /\ UNCHANGED <<files, tx, worker, stopping, reply, good, stranded, bounds>>

\* The reaper starts a dead worker only when it gets updateMu.
Reap ==
  /\ pc = "idle" /\ worker = None /\ ~stopping
  /\ pc' = "restart"
  /\ UNCHANGED <<files, tx, worker, stopping, reply, good, stranded, bounds>>

----------------------------------------------------------------------------
(* Environment *)

WorkerExit ==
  /\ worker # None /\ exits < MaxExits
  /\ worker' = None /\ exits' = exits + 1
  /\ UNCHANGED <<files, pc, tx, stopping, reply, good, stranded, requests, faults,
                 crashes>>

\* The host is asked to stop: it waits for the request in flight.
Shutdown ==
  /\ pc \notin {"down", "recover", "recover_save", "boot"} /\ ~stopping
  /\ crashes < MaxCrashes /\ crashes' = crashes + 1
  /\ stopping' = TRUE
  /\ UNCHANGED <<files, pc, tx, worker, reply, good, stranded, requests, faults,
                 exits>>

HostExit ==
  /\ pc = "idle" /\ stopping
  /\ pc' = "down" /\ worker' = None /\ stopping' = FALSE
  /\ UNCHANGED <<files, tx, reply, good, stranded, bounds>>

\* The host is killed, or the machine loses power: an unsynced rename then
\* survives or not.
Crash ==
  /\ pc # "down" /\ crashes < MaxCrashes /\ crashes' = crashes + 1
  /\ \/ UNCHANGED files
     \/ /\ \E j \in {journal.now, journal.safe} : journal' = Durable(j)
        /\ \E c \in {cur.now, cur.safe} : cur' = Durable(c)
        /\ \E p \in {prev.now, prev.safe} : prev' = Durable(p)
  /\ pc' = "down" /\ worker' = None /\ stopping' = FALSE
  /\ reply' = "none" /\ tx' = NoJournal
  /\ UNCHANGED <<good, stranded, requests, faults, exits>>

HostStep ==
  \/ HostStart \/ Recover \/ RecoverSave \/ Boot
  \/ SaveStaged \/ SaveSwitching \/ Backup \/ Replace \/ SaveProbation
  \/ Launch \/ Probation \/ Confirm \/ Fail \/ FailSave \/ Resume
  \/ Undo \/ UndoSave \/ Reap \/ HostExit

Next ==
  \/ HostStep \/ (\E b \in Builds : Activate(b)) \/ Rollback \/ RestartWorker
  \/ WorkerExit \/ Shutdown \/ Crash

Spec == Init /\ [][Next]_vars

\* The host's goroutines keep running, probation ends by a timer, and systemd
\* or the service manager starts a host that is down.
FairSpec == Spec /\ WF_vars(HostStep)

----------------------------------------------------------------------------
(* Properties *)

\* The three files, the transaction and the host's fields have the values the
\* code gives them; in particular a rollback finds the builds its journal names.
TypeOK ==
  /\ journal \in Slot(Journals)
  /\ cur \in Slot(Builds) /\ prev \in Slot(Builds \cup {None})
  /\ pc \in {"down", "recover", "recover_save", "boot", "idle", "stage", "switch",
             "backup", "replace", "probation_save", "launch", "probation", "confirm",
             "fail", "fail_save", "resume", "undo", "undo_save", "restart"}
  /\ tx \in Journals /\ worker \in Builds \cup {None} /\ stopping \in BOOLEAN
  /\ reply \in {"none", "idle", "error", "confirmed", "local_probation",
                "rolled_back", "recovery_failed"}
  /\ good \subseteq Builds /\ stranded \in BOOLEAN
  /\ requests \in 0 .. MaxRequests /\ faults \in 0 .. MaxFaults
  /\ crashes \in 0 .. MaxCrashes /\ exits \in 0 .. MaxExits

\* Unless a restore was reported as failed, recoverJournal can
\* put the journalled previous build back whatever a power failure leaves of the
\* three files: "previous-good binary cannot be verified", which would keep the
\* host from ever starting, does not happen.
Recoverable ==
  ~stranded =>
    \A j \in {journal.now, journal.safe}, c \in {cur.now, cur.safe},
       p \in {prev.now, prev.safe} :
      j.stage \in {"switching", "local_probation"} => j.old \in {c, p}

\* The running worker is the binary on disk: the reaper, a restart or a late
\* request never runs a build while activateUpdate or rollbackUpdate replaces it.
WorkerIsCurrent ==
  /\ worker # None => worker = cur.now
  /\ pc \in {"down", "recover", "recover_save", "boot", "backup", "replace",
             "probation_save", "launch", "fail_save", "undo", "undo_save"}
       => worker = None

\* A journal that says confirmed names a build that survived its probation.
ConfirmedSurvived ==
  \A j \in {journal.now, journal.safe} : j.stage = "confirmed" => j.new \in good

\* A response that claims a rollback was made only after the old build was in
\* place and the journal durably said so.
RollbackHonest ==
  reply = "rolled_back" => /\ journal.safe.stage = "rolled_back"
                           /\ cur.now = journal.safe.old

\* Unless a restore was reported as failed, the host never boots
\* into a build that did not survive a probation.
BootsGood == pc = "boot" /\ ~stranded => cur.now \in good

\* Some build known to run is in the current or the previous slot.
RunnableKept == good \cap {cur.now, prev.now} # {}

\* The journalled previous build is in neither slot: recoverJournal refuses to
\* start the host.  By Recoverable this takes a restore reported as failed.
Stuck ==
  /\ journal.now.stage \in {"switching", "local_probation"}
  /\ journal.now.old \notin {cur.now, prev.now}

\* Every transaction, recovery and shutdown ends, and a down host comes back,
\* unless recoverJournal has nothing to restore.
Settles == pc # "idle" ~> pc = "idle" \/ Stuck

\* Once requests, faults and exits stop, the worker runs for good, unless
\* recoverJournal has nothing to restore.
WorkerRuns == <>[](worker # None \/ Stuck)

\* What the host does with binaries is sound: the worker runs the one on disk,
\* a confirmed build survived its probation, a rollback is reported when the old
\* build is back, and the host boots into a good build (activateUpdate,
\* rollbackUpdate, recoverJournal, reap).
HostSound == TypeOK /\ WorkerIsCurrent /\ ConfirmedSurvived /\ RollbackHonest /\ BootsGood
=============================================================================
