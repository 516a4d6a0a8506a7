-------------------------- MODULE UpdateHostProofs --------------------------
(* Proofs about UpdateHost: an interrupted update can always be undone, and *)
(* the host only boots into and confirms builds that survived a probation,  *)
(* for any number of builds, requests, faults, crashes and worker exits.    *)
EXTENDS UpdateHost, TLAPS

----------------------------------------------------------------------------
(* The inductive invariant *)

InFlight(j) == j.stage \in {"switching", "local_probation"}

Journalled == {journal.now, journal.safe}

\* The journal names builds once a transaction has been written to it.
JournalInv ==
  \A j \in Journalled : j.stage # "idle" => j.old \in Builds /\ j.new \in Builds

\* What the transaction in progress knows of the files.
Transacting == {"stage", "switch", "backup", "replace", "probation_save", "launch",
                "probation", "confirm", "fail", "fail_save"}

TxInv ==
  /\ pc \in Transacting => tx.old \in Builds /\ tx.new \in Builds
  /\ pc \in {"stage", "switch", "backup", "replace", "fail_save"} => tx.old = cur.now
  /\ pc = "switch" => journal = Durable(tx) /\ tx.stage = "staged"
  /\ pc \in {"backup", "replace"} => journal = Durable(tx) /\ tx.stage = "switching"
  /\ pc \in {"replace", "probation_save", "launch", "probation", "confirm"} =>
        prev = Durable(tx.old)
  /\ pc \in {"probation_save", "launch", "probation", "confirm"} =>
        cur = Durable(tx.new)
  /\ pc \in {"probation_save", "launch", "probation", "confirm", "fail", "fail_save"}
       => \A j \in Journalled : InFlight(j) /\ j.old = tx.old
  /\ pc = "confirm" => tx.new \in good
  /\ pc \in {"undo", "undo_save"} =>
        /\ journal.now.stage # "idle" /\ tx.old = journal.now.old
        /\ tx.new = journal.now.new /\ prev.now = tx.old
  /\ pc = "undo_save" => cur.now = tx.old
  /\ pc = "recover" => tx = journal.now
  /\ pc = "recover_save" => /\ InFlight(journal.now) /\ tx.old = journal.now.old
                            /\ tx.new = journal.now.new /\ cur.now = tx.old

\* A slot whose last rename is not durable is backed by the other slot.
SlotInv ==
  ~stranded =>
    /\ cur.now # cur.safe =>
         \/ prev = Durable(cur.now)
         \/ /\ pc \in {"fail", "down", "recover"}
            /\ \A j \in Journalled : InFlight(j) /\ prev = Durable(j.old)
    /\ prev.now # prev.safe => cur = Durable(prev.now)

\* Undoing the visible journal agrees with an older one still in flight.
UndoInv ==
  ~stranded =>
    \A j \in Journalled :
      /\ InFlight(j) /\ journal.now.stage # "idle"
      /\ prev.now = journal.now.old
      => j.old = prev.now

\* A build that has not survived a probation is current only under a journal
\* that is in flight, and no journal names one as the old build.
GoodInv ==
  ~stranded =>
    /\ \A j \in Journalled : j.stage # "idle" => j.old \in good
    /\ pc \in Transacting => tx.old \in good
    /\ cur.now \in good => cur.safe \in good
    /\ cur.now \notin good \/ cur.safe \notin good =>
         /\ pc \in {"probation_save", "launch", "probation", "fail", "down", "recover"}
         /\ \A j \in Journalled : InFlight(j)

HonestInv ==
  reply = "rolled_back" =>
    /\ pc \in {"resume", "restart", "idle", "down", "recover", "boot"}
    /\ journal.now = journal.safe /\ journal.safe.stage = "rolled_back"
    /\ cur.now = journal.safe.old

IInv ==
  /\ TypeOK /\ JournalInv /\ TxInv /\ SlotInv /\ UndoInv /\ Recoverable
  /\ GoodInv /\ WorkerIsCurrent /\ ConfirmedSurvived /\ HonestInv

----------------------------------------------------------------------------
(* The invariant is inductive: one lemma per action *)

\* The installed host satisfies the invariant.
LEMMA InitIInv == Init => IInv
<1> SUFFICES ASSUME Init PROVE IInv OBVIOUS
<1> USE UpdateHostConstants DEF Init, Durable, NoJournal, Journalled, InFlight, Transacting
<1>1. TypeOK
  <2>1. NoJournal \in Journals BY DEF Journals, Stages
  <2>2. journal \in Slot(Journals) /\ cur \in Slot(Builds)
        /\ prev \in Slot(Builds \cup {None})
    BY <2>1 DEF Slot
  <2>3. requests \in 0 .. MaxRequests /\ faults \in 0 .. MaxFaults
        /\ crashes \in 0 .. MaxCrashes /\ exits \in 0 .. MaxExits
    OBVIOUS
  <2>4. stopping \in BOOLEAN /\ stranded \in BOOLEAN OBVIOUS
  <2>5. tx \in Journals /\ worker \in Builds \cup {None} /\ good \subseteq Builds
    BY <2>1
  <2>6. QED BY <2>2, <2>3, <2>4, <2>5 DEF TypeOK
<1>2. JournalInv /\ TxInv /\ SlotInv /\ UndoInv
  BY DEF JournalInv, TxInv, SlotInv, UndoInv
<1>3. Recoverable /\ GoodInv BY DEF Recoverable, GoodInv
<1>4. WorkerIsCurrent /\ ConfirmedSurvived /\ HonestInv
  BY DEF WorkerIsCurrent, ConfirmedSurvived, HonestInv
<1>5. QED BY <1>1, <1>2, <1>3, <1>4 DEF IInv

\* The host reads its journal.
LEMMA HostStartIInv == IInv /\ HostStart => IInv'
<1> SUFFICES ASSUME IInv, HostStart PROVE IInv' OBVIOUS
<1> USE DEF IInv, HostStart, files, bounds, Journalled
<1>1. TypeOK' BY UpdateHostConstants DEF TypeOK, Slot, Journals
<1>2. JournalInv' BY DEF JournalInv, TypeOK, Slot, Journals, TxInv, InFlight,
         Transacting
<1>3. TxInv' BY UpdateHostConstants DEF TxInv, JournalInv, TypeOK, Slot, Journals,
         Transacting, InFlight
<1>4. SlotInv' BY Zenon DEF SlotInv, TxInv, TypeOK, Slot, InFlight
<1>5. UndoInv' BY Zenon DEF UndoInv, TxInv, TypeOK, Slot, Journals, Recoverable, InFlight
<1>6. Recoverable' BY DEF Recoverable, TxInv, SlotInv, UndoInv, TypeOK, Slot,
         Journals, InFlight
<1>7. GoodInv' BY DEF GoodInv, TxInv, TypeOK, Slot, Journals, Transacting, InFlight
<1>8. WorkerIsCurrent' BY UpdateHostConstants DEF WorkerIsCurrent, TypeOK, Slot
<1>9. ConfirmedSurvived' BY DEF ConfirmedSurvived, TxInv, TypeOK, Slot, Journals,
         Journalled, InFlight
<1>10. HonestInv' BY DEF HonestInv, TxInv, TypeOK, Slot, Journals
<1>11. QED BY <1>1, <1>2, <1>3, <1>4, <1>5, <1>6, <1>7, <1>8, <1>9, <1>10

\* recoverJournal restores the old build from the previous slot.
LEMMA RecoverIInv == IInv /\ Recover => IInv'
<1> SUFFICES ASSUME IInv, Recover PROVE IInv' OBVIOUS
<1> USE DEF IInv, Recover, files, bounds, Journalled, Written, NotWritten, Ok,
         Fault, Durable
<1>1. TypeOK'
  <2>1. journal' \in Slot(Journals) /\ tx' \in Journals
    BY UpdateHostConstants DEF TypeOK, Slot, Journals, Stages, TxInv, Transacting
  <2>2. cur' \in Slot(Builds) /\ prev' \in Slot(Builds \cup {None})
    BY DEF TypeOK, Slot, Journals, JournalInv, TxInv, InFlight, Transacting
  <2>3. faults' \in 0 .. MaxFaults BY UpdateHostConstants DEF TypeOK
  <2>4. worker' \in Builds \cup {None} BY DEF TypeOK, Slot
  <2>5. QED BY <2>1, <2>2, <2>3, <2>4, UpdateHostConstants DEF TypeOK
<1>2. JournalInv' BY DEF JournalInv, TypeOK, Slot, Journals, TxInv, InFlight,
         Transacting
<1>3. TxInv' BY UpdateHostConstants DEF TxInv, JournalInv, TypeOK, Slot, Journals,
         Transacting, InFlight
<1>4. SlotInv' BY DEF SlotInv, TxInv, TypeOK, Slot, InFlight
<1>5. UndoInv' BY Zenon DEF UndoInv, TxInv, TypeOK, Slot, Journals, Recoverable, InFlight
<1>6. Recoverable' BY DEF Recoverable, TxInv, SlotInv, UndoInv, TypeOK, Slot,
         Journals, InFlight
<1>7. GoodInv'
  <2> SUFFICES ASSUME ~stranded' PROVE GoodInv' BY DEF GoodInv
  <2>1. ~stranded /\ tx = journal.now /\ pc' # "down" BY Zenon DEF TxInv
  <2>2. CASE tx.stage \notin {"switching", "local_probation"}
    BY <2>1, <2>2 DEF GoodInv, InFlight, Transacting
  <2>3. CASE tx.stage \in {"switching", "local_probation"} /\ cur.now = tx.old
    <3>1. cur.now \in good /\ cur.safe \in good BY <2>1, <2>3 DEF GoodInv
    <3>2. cur' = cur /\ pc' = "recover_save" BY <2>3
    <3>3. QED BY <2>1, <3>1, <3>2 DEF GoodInv, Transacting
  <2>4. CASE tx.stage \in {"switching", "local_probation"} /\ cur.now # tx.old
    <3>1. tx.old \in good BY <2>1, <2>4 DEF GoodInv
    <3>2. cur' = Durable(tx.old) /\ pc' = "recover_save" BY <2>1, <2>4
    <3>3. QED BY <2>1, <3>1, <3>2 DEF GoodInv, Transacting
  <2>5. QED BY <2>2, <2>3, <2>4
<1>8. WorkerIsCurrent' BY UpdateHostConstants DEF WorkerIsCurrent, TypeOK, Slot
<1>9. ConfirmedSurvived' BY DEF ConfirmedSurvived, TxInv, TypeOK, Slot, Journals,
         Journalled, InFlight
<1>10. HonestInv' BY DEF HonestInv, TxInv, TypeOK, Slot, Journals
<1>11. QED BY <1>1, <1>2, <1>3, <1>4, <1>5, <1>6, <1>7, <1>8, <1>9, <1>10

\* recoverJournal records the rollback.
LEMMA RecoverSaveIInv == IInv /\ RecoverSave => IInv'
<1> SUFFICES ASSUME IInv, RecoverSave PROVE IInv' OBVIOUS
<1> USE DEF IInv, RecoverSave, files, bounds, Journalled, Written, NotWritten, Ok,
         Fault, Durable, Save, NotSaved, At
<1>1. TypeOK'
  <2>1. journal' \in Slot(Journals) /\ tx' \in Journals
    BY UpdateHostConstants DEF TypeOK, Slot, Journals, Stages, TxInv, Transacting
  <2>2. cur' \in Slot(Builds) /\ prev' \in Slot(Builds \cup {None})
    BY DEF TypeOK, Slot, Journals, JournalInv, TxInv, InFlight, Transacting
  <2>3. faults' \in 0 .. MaxFaults BY UpdateHostConstants DEF TypeOK
  <2>4. worker' \in Builds \cup {None} BY DEF TypeOK, Slot
  <2>5. QED BY <2>1, <2>2, <2>3, <2>4, UpdateHostConstants DEF TypeOK
<1>2. JournalInv' BY DEF JournalInv, TypeOK, Slot, Journals, TxInv, InFlight,
         Transacting
<1>3. TxInv' BY UpdateHostConstants DEF TxInv, JournalInv, TypeOK, Slot, Journals,
         Transacting, InFlight
<1>4. SlotInv' BY DEF SlotInv, TxInv, TypeOK, Slot, InFlight
<1>5. UndoInv' BY DEF UndoInv, TxInv, TypeOK, Slot, Journals, Recoverable, InFlight
<1>6. Recoverable' BY DEF Recoverable, TxInv, SlotInv, UndoInv, TypeOK, Slot,
         Journals, InFlight
<1>7. GoodInv' BY DEF GoodInv, TxInv, TypeOK, Slot, Journals, Transacting, InFlight
<1>8. WorkerIsCurrent' BY UpdateHostConstants DEF WorkerIsCurrent, TypeOK, Slot
<1>9. ConfirmedSurvived' BY DEF ConfirmedSurvived, TxInv, TypeOK, Slot, Journals,
         Journalled, InFlight
<1>10. HonestInv' BY DEF HonestInv, TxInv, TypeOK, Slot, Journals
<1>11. QED BY <1>1, <1>2, <1>3, <1>4, <1>5, <1>6, <1>7, <1>8, <1>9, <1>10

\* The host starts its first worker.
LEMMA BootIInv == IInv /\ Boot => IInv'
<1> SUFFICES ASSUME IInv, Boot PROVE IInv' OBVIOUS
<1> USE DEF IInv, Boot, files, bounds, Journalled, Ok, Fault
<1>1. TypeOK'
  <2>1. journal' \in Slot(Journals) /\ tx' \in Journals
    BY UpdateHostConstants DEF TypeOK, Slot, Journals, Stages, TxInv, Transacting
  <2>2. cur' \in Slot(Builds) /\ prev' \in Slot(Builds \cup {None})
    BY DEF TypeOK, Slot, Journals, JournalInv, TxInv, InFlight, Transacting
  <2>3. faults' \in 0 .. MaxFaults BY UpdateHostConstants DEF TypeOK
  <2>4. worker' \in Builds \cup {None} BY DEF TypeOK, Slot
  <2>5. QED BY <2>1, <2>2, <2>3, <2>4, UpdateHostConstants DEF TypeOK
<1>2. JournalInv' BY Zenon DEF JournalInv, TypeOK, Slot, Journals, TxInv, InFlight,
         Transacting
<1>3. TxInv' BY UpdateHostConstants DEF TxInv, JournalInv, TypeOK, Slot, Journals,
         Transacting, InFlight
<1>4. SlotInv' BY Zenon DEF SlotInv, TxInv, TypeOK, Slot, InFlight
<1>5. UndoInv' BY Zenon DEF UndoInv, TxInv, TypeOK, Slot, Journals, Recoverable, InFlight
<1>6. Recoverable' BY DEF Recoverable, TxInv, SlotInv, UndoInv, TypeOK, Slot,
         Journals, InFlight
<1>7. GoodInv' BY DEF GoodInv, TxInv, TypeOK, Slot, Journals, Transacting, InFlight
<1>8. WorkerIsCurrent' BY UpdateHostConstants DEF WorkerIsCurrent, TypeOK, Slot
<1>9. ConfirmedSurvived' BY DEF ConfirmedSurvived, TxInv, TypeOK, Slot, Journals,
         Journalled, InFlight
<1>10. HonestInv' BY DEF HonestInv, TxInv, TypeOK, Slot, Journals
<1>11. QED BY <1>1, <1>2, <1>3, <1>4, <1>5, <1>6, <1>7, <1>8, <1>9, <1>10

\* An update is accepted: the current build becomes its old build.
LEMMA ActivateIInv == \A b \in Builds : IInv /\ Activate(b) => IInv'
<1> SUFFICES ASSUME NEW b \in Builds, IInv, Activate(b) PROVE IInv' OBVIOUS
<1> USE DEF IInv, Activate, files, bounds, Journalled, Accept, Respond, Ok, Fault
<1>1. TypeOK'
  <2>1. journal' \in Slot(Journals) /\ tx' \in Journals
    BY UpdateHostConstants DEF TypeOK, Slot, Journals, Stages, TxInv, Transacting
  <2>2. cur' \in Slot(Builds) /\ prev' \in Slot(Builds \cup {None})
    BY Zenon DEF TypeOK, Slot, Journals, JournalInv, TxInv, InFlight, Transacting
  <2>3. faults' \in 0 .. MaxFaults BY UpdateHostConstants DEF TypeOK
  <2>4. worker' \in Builds \cup {None} BY Zenon DEF TypeOK, Slot
  <2>5. QED BY <2>1, <2>2, <2>3, <2>4, UpdateHostConstants DEF TypeOK
<1>2. JournalInv' BY Zenon DEF JournalInv, TypeOK, Slot, Journals, TxInv, InFlight,
         Transacting
<1>3. TxInv' BY UpdateHostConstants DEF TxInv, JournalInv, TypeOK, Slot, Journals,
         Transacting, InFlight
<1>4. SlotInv' BY Zenon DEF SlotInv, TxInv, TypeOK, Slot, InFlight
<1>5. UndoInv' BY DEF UndoInv, TxInv, TypeOK, Slot, Journals, Recoverable, InFlight
<1>6. Recoverable' BY DEF Recoverable, TxInv, SlotInv, UndoInv, TypeOK, Slot,
         Journals, InFlight
<1>7. GoodInv' BY DEF GoodInv, TxInv, TypeOK, Slot, Journals, Transacting, InFlight
<1>8. WorkerIsCurrent' BY UpdateHostConstants DEF WorkerIsCurrent, TypeOK, Slot
<1>9. ConfirmedSurvived' BY DEF ConfirmedSurvived, TxInv, TypeOK, Slot, Journals,
         Journalled, InFlight
<1>10. HonestInv' BY DEF HonestInv, TxInv, TypeOK, Slot, Journals
<1>11. QED BY <1>1, <1>2, <1>3, <1>4, <1>5, <1>6, <1>7, <1>8, <1>9, <1>10

\* The staged journal replaces the previous one.
LEMMA SaveStagedIInv == IInv /\ SaveStaged => IInv'
<1> SUFFICES ASSUME IInv, SaveStaged PROVE IInv' OBVIOUS
<1> USE DEF IInv, SaveStaged, files, bounds, Journalled, Written, NotWritten, Ok,
         Fault, Durable, Save, NotSaved, At, Respond
<1>1. TypeOK'
  <2>1. journal' \in Slot(Journals) /\ tx' \in Journals
    BY UpdateHostConstants DEF TypeOK, Slot, Journals, Stages, TxInv, Transacting
  <2>2. cur' \in Slot(Builds) /\ prev' \in Slot(Builds \cup {None})
    BY DEF TypeOK, Slot, Journals, JournalInv, TxInv, InFlight, Transacting
  <2>3. faults' \in 0 .. MaxFaults BY UpdateHostConstants DEF TypeOK
  <2>4. worker' \in Builds \cup {None} BY DEF TypeOK, Slot
  <2>5. QED BY <2>1, <2>2, <2>3, <2>4, UpdateHostConstants DEF TypeOK
<1>2. JournalInv' BY DEF JournalInv, TypeOK, Slot, Journals, TxInv, InFlight,
         Transacting
<1>3. TxInv' BY UpdateHostConstants DEF TxInv, JournalInv, TypeOK, Slot, Journals,
         Transacting, InFlight
<1>4. SlotInv' BY Zenon DEF SlotInv, TxInv, TypeOK, Slot, InFlight
<1>5. UndoInv' BY DEF UndoInv, TxInv, TypeOK, Slot, Journals, Recoverable, InFlight
<1>6. Recoverable' BY DEF Recoverable, TxInv, SlotInv, UndoInv, TypeOK, Slot,
         Journals, InFlight
<1>7. GoodInv' BY DEF GoodInv, TxInv, TypeOK, Slot, Journals, Transacting, InFlight
<1>8. WorkerIsCurrent' BY UpdateHostConstants DEF WorkerIsCurrent, TypeOK, Slot
<1>9. ConfirmedSurvived' BY DEF ConfirmedSurvived, TxInv, TypeOK, Slot, Journals,
         Journalled, InFlight
<1>10. HonestInv' BY DEF HonestInv, TxInv, TypeOK, Slot, Journals
<1>11. QED BY <1>1, <1>2, <1>3, <1>4, <1>5, <1>6, <1>7, <1>8, <1>9, <1>10

\* The switch is journalled before the worker stops.
LEMMA SaveSwitchingIInv == IInv /\ SaveSwitching => IInv'
<1> SUFFICES ASSUME IInv, SaveSwitching PROVE IInv' OBVIOUS
<1> USE DEF IInv, SaveSwitching, files, bounds, Journalled, Written, NotWritten, Ok,
         Fault, Durable, Save, NotSaved, At, Respond
<1>1. TypeOK'
  <2>1. journal' \in Slot(Journals) /\ tx' \in Journals
    BY UpdateHostConstants DEF TypeOK, Slot, Journals, Stages, TxInv, Transacting
  <2>2. cur' \in Slot(Builds) /\ prev' \in Slot(Builds \cup {None})
    BY DEF TypeOK, Slot, Journals, JournalInv, TxInv, InFlight, Transacting
  <2>3. faults' \in 0 .. MaxFaults BY UpdateHostConstants DEF TypeOK
  <2>4. worker' \in Builds \cup {None} BY DEF TypeOK, Slot
  <2>5. QED BY <2>1, <2>2, <2>3, <2>4, UpdateHostConstants DEF TypeOK
<1>2. JournalInv' BY DEF JournalInv, TypeOK, Slot, Journals, TxInv, InFlight,
         Transacting
<1>3. TxInv' BY UpdateHostConstants DEF TxInv, JournalInv, TypeOK, Slot, Journals,
         Transacting, InFlight
<1>4. SlotInv' BY Zenon DEF SlotInv, TxInv, TypeOK, Slot, InFlight
<1>5. UndoInv' BY DEF UndoInv, TxInv, TypeOK, Slot, Journals, Recoverable, InFlight
<1>6. Recoverable' BY DEF Recoverable, TxInv, SlotInv, UndoInv, TypeOK, Slot,
         Journals, InFlight
<1>7. GoodInv' BY DEF GoodInv, TxInv, TypeOK, Slot, Journals, Transacting, InFlight
<1>8. WorkerIsCurrent' BY UpdateHostConstants DEF WorkerIsCurrent, TypeOK, Slot
<1>9. ConfirmedSurvived' BY DEF ConfirmedSurvived, TxInv, TypeOK, Slot, Journals,
         Journalled, InFlight
<1>10. HonestInv' BY DEF HonestInv, TxInv, TypeOK, Slot, Journals
<1>11. QED BY <1>1, <1>2, <1>3, <1>4, <1>5, <1>6, <1>7, <1>8, <1>9, <1>10

\* The current build is copied to the previous slot.
LEMMA BackupIInv == IInv /\ Backup => IInv'
<1> SUFFICES ASSUME IInv, Backup PROVE IInv' OBVIOUS
<1> USE DEF IInv, Backup, files, bounds, Journalled, Written, NotWritten, Ok, Fault,
         Durable
<1>1. TypeOK'
  <2>1. journal' \in Slot(Journals) /\ tx' \in Journals
    BY UpdateHostConstants DEF TypeOK, Slot, Journals, Stages, TxInv, Transacting
  <2>2. cur' \in Slot(Builds) /\ prev' \in Slot(Builds \cup {None})
    BY DEF TypeOK, Slot, Journals, JournalInv, TxInv, InFlight, Transacting
  <2>3. faults' \in 0 .. MaxFaults BY UpdateHostConstants DEF TypeOK
  <2>4. worker' \in Builds \cup {None} BY DEF TypeOK, Slot
  <2>5. QED BY <2>1, <2>2, <2>3, <2>4, UpdateHostConstants DEF TypeOK
<1>2. JournalInv' BY Zenon DEF JournalInv, TypeOK, Slot, Journals, TxInv, InFlight,
         Transacting
<1>3. TxInv' BY UpdateHostConstants DEF TxInv, JournalInv, TypeOK, Slot, Journals,
         Transacting, InFlight
<1>4. SlotInv' BY DEF SlotInv, TxInv, TypeOK, Slot, InFlight
<1>5. UndoInv' BY DEF UndoInv, TxInv, TypeOK, Slot, Journals, Recoverable, InFlight
<1>6. Recoverable' BY DEF Recoverable, TxInv, SlotInv, UndoInv, TypeOK, Slot,
         Journals, InFlight
<1>7. GoodInv' BY DEF GoodInv, TxInv, TypeOK, Slot, Journals, Transacting, InFlight
<1>8. WorkerIsCurrent' BY UpdateHostConstants DEF WorkerIsCurrent, TypeOK, Slot
<1>9. ConfirmedSurvived' BY DEF ConfirmedSurvived, TxInv, TypeOK, Slot, Journals,
         Journalled, InFlight
<1>10. HonestInv' BY DEF HonestInv, TxInv, TypeOK, Slot, Journals
<1>11. QED BY <1>1, <1>2, <1>3, <1>4, <1>5, <1>6, <1>7, <1>8, <1>9, <1>10

\* The candidate replaces the current build.
LEMMA ReplaceIInv == IInv /\ Replace => IInv'
<1> SUFFICES ASSUME IInv, Replace PROVE IInv' OBVIOUS
<1> USE DEF IInv, Replace, files, bounds, Journalled, Written, NotWritten, Ok,
         Fault, Durable
<1>1. TypeOK'
  <2>1. journal' \in Slot(Journals) /\ tx' \in Journals
    BY UpdateHostConstants DEF TypeOK, Slot, Journals, Stages, TxInv, Transacting
  <2>2. cur' \in Slot(Builds) /\ prev' \in Slot(Builds \cup {None})
    BY DEF TypeOK, Slot, Journals, JournalInv, TxInv, InFlight, Transacting
  <2>3. faults' \in 0 .. MaxFaults BY UpdateHostConstants DEF TypeOK
  <2>4. worker' \in Builds \cup {None} BY DEF TypeOK, Slot
  <2>5. QED BY <2>1, <2>2, <2>3, <2>4, UpdateHostConstants DEF TypeOK
<1>2. JournalInv' BY DEF JournalInv, TypeOK, Slot, Journals, TxInv, InFlight,
         Transacting
<1>3. TxInv' BY UpdateHostConstants DEF TxInv, JournalInv, TypeOK, Slot, Journals,
         Transacting, InFlight
<1>4. SlotInv' BY DEF SlotInv, TxInv, TypeOK, Slot, InFlight
<1>5. UndoInv' BY DEF UndoInv, TxInv, TypeOK, Slot, Journals, Recoverable, InFlight
<1>6. Recoverable' BY DEF Recoverable, TxInv, SlotInv, UndoInv, TypeOK, Slot,
         Journals, InFlight
<1>7. GoodInv' BY DEF GoodInv, TxInv, TypeOK, Slot, Journals, Transacting, InFlight
<1>8. WorkerIsCurrent' BY UpdateHostConstants DEF WorkerIsCurrent, TypeOK, Slot
<1>9. ConfirmedSurvived' BY DEF ConfirmedSurvived, TxInv, TypeOK, Slot, Journals,
         Journalled, InFlight
<1>10. HonestInv' BY DEF HonestInv, TxInv, TypeOK, Slot, Journals
<1>11. QED BY <1>1, <1>2, <1>3, <1>4, <1>5, <1>6, <1>7, <1>8, <1>9, <1>10

\* The probation is journalled.
LEMMA SaveProbationIInv == IInv /\ SaveProbation => IInv'
<1> SUFFICES ASSUME IInv, SaveProbation PROVE IInv' OBVIOUS
<1> USE DEF IInv, SaveProbation, files, bounds, Journalled, Written, NotWritten, Ok,
         Fault, Durable, Save, NotSaved, At
<1>1. TypeOK'
  <2>1. journal' \in Slot(Journals) /\ tx' \in Journals
    BY UpdateHostConstants DEF TypeOK, Slot, Journals, Stages, TxInv, Transacting
  <2>2. cur' \in Slot(Builds) /\ prev' \in Slot(Builds \cup {None})
    BY DEF TypeOK, Slot, Journals, JournalInv, TxInv, InFlight, Transacting
  <2>3. faults' \in 0 .. MaxFaults BY UpdateHostConstants DEF TypeOK
  <2>4. worker' \in Builds \cup {None} BY DEF TypeOK, Slot
  <2>5. QED BY <2>1, <2>2, <2>3, <2>4, UpdateHostConstants DEF TypeOK
<1>2. JournalInv' BY DEF JournalInv, TypeOK, Slot, Journals, TxInv, InFlight,
         Transacting
<1>3. TxInv' BY UpdateHostConstants DEF TxInv, JournalInv, TypeOK, Slot, Journals,
         Transacting, InFlight
<1>4. SlotInv' BY Zenon DEF SlotInv, TxInv, TypeOK, Slot, InFlight
<1>5. UndoInv' BY DEF UndoInv, TxInv, TypeOK, Slot, Journals, Recoverable, InFlight
<1>6. Recoverable' BY DEF Recoverable, TxInv, SlotInv, UndoInv, TypeOK, Slot,
         Journals, InFlight
<1>7. GoodInv' BY DEF GoodInv, TxInv, TypeOK, Slot, Journals, Transacting, InFlight
<1>8. WorkerIsCurrent' BY Zenon, UpdateHostConstants DEF WorkerIsCurrent, TypeOK, Slot
<1>9. ConfirmedSurvived' BY DEF ConfirmedSurvived, TxInv, TypeOK, Slot, Journals,
         Journalled, InFlight
<1>10. HonestInv' BY DEF HonestInv, TxInv, TypeOK, Slot, Journals
<1>11. QED BY <1>1, <1>2, <1>3, <1>4, <1>5, <1>6, <1>7, <1>8, <1>9, <1>10

\* The candidate is started.
LEMMA LaunchIInv == IInv /\ Launch => IInv'
<1> SUFFICES ASSUME IInv, Launch PROVE IInv' OBVIOUS
<1> USE DEF IInv, Launch, files, bounds, Journalled, Ok, Fault
<1>1. TypeOK'
  <2>1. journal' \in Slot(Journals) /\ tx' \in Journals
    BY UpdateHostConstants DEF TypeOK, Slot, Journals, Stages, TxInv, Transacting
  <2>2. cur' \in Slot(Builds) /\ prev' \in Slot(Builds \cup {None})
    BY DEF TypeOK, Slot, Journals, JournalInv, TxInv, InFlight, Transacting
  <2>3. faults' \in 0 .. MaxFaults BY UpdateHostConstants DEF TypeOK
  <2>4. worker' \in Builds \cup {None} BY DEF TypeOK, Slot
  <2>5. QED BY Zenon, <2>1, <2>2, <2>3, <2>4, UpdateHostConstants DEF TypeOK
<1>2. JournalInv' BY Zenon DEF JournalInv, TypeOK, Slot, Journals, TxInv, InFlight,
         Transacting
<1>3. TxInv' BY UpdateHostConstants DEF TxInv, JournalInv, TypeOK, Slot, Journals,
         Transacting, InFlight
<1>4. SlotInv' BY Zenon DEF SlotInv, TxInv, TypeOK, Slot, InFlight
<1>5. UndoInv' BY Zenon DEF UndoInv, TxInv, TypeOK, Slot, Journals, Recoverable, InFlight
<1>6. Recoverable' BY Zenon DEF Recoverable, TxInv, SlotInv, UndoInv, TypeOK, Slot,
         Journals, InFlight
<1>7. GoodInv' BY DEF GoodInv, TxInv, TypeOK, Slot, Journals, Transacting, InFlight
<1>8. WorkerIsCurrent' BY Zenon, UpdateHostConstants DEF WorkerIsCurrent, TypeOK, Slot
<1>9. ConfirmedSurvived' BY DEF ConfirmedSurvived, TxInv, TypeOK, Slot, Journals,
         Journalled, InFlight
<1>10. HonestInv' BY DEF HonestInv, TxInv, TypeOK, Slot, Journals
<1>11. QED BY <1>1, <1>2, <1>3, <1>4, <1>5, <1>6, <1>7, <1>8, <1>9, <1>10

\* The probation ends.
LEMMA ProbationIInv == IInv /\ Probation => IInv'
<1> SUFFICES ASSUME IInv, Probation PROVE IInv' OBVIOUS
<1> USE DEF IInv, Probation, files, bounds, Journalled
<1>1. TypeOK'
  <2>1. /\ requests' \in 0 .. MaxRequests /\ faults' \in 0 .. MaxFaults
        /\ crashes' \in 0 .. MaxCrashes /\ exits' \in 0 .. MaxExits
    BY UpdateHostConstants DEF TypeOK
  <2>2. good' \subseteq Builds BY DEF TypeOK, TxInv, Transacting
  <2>3. QED BY <2>1, <2>2 DEF TypeOK
<1>2. JournalInv' BY Zenon DEF JournalInv, TypeOK, Slot, Journals, TxInv, InFlight,
         Transacting
<1>3. TxInv' BY UpdateHostConstants DEF TxInv, JournalInv, TypeOK, Slot, Journals,
         Transacting, InFlight
<1>4. SlotInv' BY Zenon DEF SlotInv, TxInv, TypeOK, Slot, InFlight
<1>5. UndoInv' BY Zenon DEF UndoInv, TxInv, TypeOK, Slot, Journals, Recoverable, InFlight
<1>6. Recoverable' BY DEF Recoverable, TxInv, SlotInv, UndoInv, TypeOK, Slot,
         Journals, InFlight
<1>7. GoodInv'
  <2> SUFFICES ASSUME ~stranded PROVE GoodInv' BY Zenon DEF GoodInv
  <2>1. /\ \A j \in Journalled : InFlight(j) /\ (j.stage # "idle" => j.old \in good)
        /\ tx.old \in good /\ cur.now = tx.new /\ cur.safe = tx.new
    BY DEF GoodInv, TxInv, Transacting, Durable
  <2>2. CASE worker = None BY <2>1, <2>2 DEF GoodInv, InFlight
  <2>3. CASE worker # None BY <2>1, <2>3 DEF GoodInv
  <2>4. QED BY Zenon, <2>2, <2>3
<1>8. WorkerIsCurrent' BY Zenon, UpdateHostConstants DEF WorkerIsCurrent, TypeOK, Slot
<1>9. ConfirmedSurvived' BY DEF ConfirmedSurvived, TxInv, TypeOK, Slot, Journals,
         Journalled, InFlight
<1>10. HonestInv' BY DEF HonestInv, TxInv, TypeOK, Slot, Journals
<1>11. QED BY <1>1, <1>2, <1>3, <1>4, <1>5, <1>6, <1>7, <1>8, <1>9, <1>10

\* The update is confirmed.
LEMMA ConfirmIInv == IInv /\ Confirm => IInv'
<1> SUFFICES ASSUME IInv, Confirm PROVE IInv' OBVIOUS
<1> USE DEF IInv, Confirm, files, bounds, Journalled, Written, NotWritten, Ok,
         Fault, Durable, Save, NotSaved, At, Respond
<1>1. TypeOK'
  <2>1. journal' \in Slot(Journals) /\ tx' \in Journals
    BY UpdateHostConstants DEF TypeOK, Slot, Journals, Stages, TxInv, Transacting
  <2>2. cur' \in Slot(Builds) /\ prev' \in Slot(Builds \cup {None})
    BY DEF TypeOK, Slot, Journals, JournalInv, TxInv, InFlight, Transacting
  <2>3. faults' \in 0 .. MaxFaults BY UpdateHostConstants DEF TypeOK
  <2>4. worker' \in Builds \cup {None} BY DEF TypeOK, Slot
  <2>5. QED BY <2>1, <2>2, <2>3, <2>4, UpdateHostConstants DEF TypeOK
<1>2. JournalInv' BY DEF JournalInv, TypeOK, Slot, Journals, TxInv, InFlight,
         Transacting
<1>3. TxInv' BY UpdateHostConstants DEF TxInv, JournalInv, TypeOK, Slot, Journals,
         Transacting, InFlight
<1>4. SlotInv' BY Zenon DEF SlotInv, TxInv, TypeOK, Slot, InFlight
<1>5. UndoInv' BY DEF UndoInv, TxInv, TypeOK, Slot, Journals, Recoverable, InFlight
<1>6. Recoverable' BY DEF Recoverable, TxInv, SlotInv, UndoInv, TypeOK, Slot,
         Journals, InFlight
<1>7. GoodInv' BY DEF GoodInv, TxInv, TypeOK, Slot, Journals, Transacting, InFlight
<1>8. WorkerIsCurrent' BY UpdateHostConstants DEF WorkerIsCurrent, TypeOK, Slot
<1>9. ConfirmedSurvived' BY DEF ConfirmedSurvived, TxInv, TypeOK, Slot, Journals,
         Journalled, InFlight
<1>10. HonestInv' BY DEF HonestInv, TxInv, TypeOK, Slot, Journals
<1>11. QED BY <1>1, <1>2, <1>3, <1>4, <1>5, <1>6, <1>7, <1>8, <1>9, <1>10

\* failedActivation restores the old build.
LEMMA FailIInv == IInv /\ Fail => IInv'
<1> SUFFICES ASSUME IInv, Fail PROVE IInv' OBVIOUS
<1> USE DEF IInv, Fail, files, bounds, Journalled, Written, NotWritten, Ok, Fault,
         Durable, Respond
<1>1. TypeOK'
  <2>1. journal' \in Slot(Journals) /\ tx' \in Journals
    BY UpdateHostConstants DEF TypeOK, Slot, Journals, Stages, TxInv, Transacting
  <2>2. cur' \in Slot(Builds) /\ prev' \in Slot(Builds \cup {None})
    BY DEF TypeOK, Slot, Journals, JournalInv, TxInv, InFlight, Transacting
  <2>3. faults' \in 0 .. MaxFaults BY UpdateHostConstants DEF TypeOK
  <2>4. worker' \in Builds \cup {None} BY DEF TypeOK, Slot
  <2>5. QED BY Zenon, <2>1, <2>2, <2>3, <2>4, UpdateHostConstants DEF TypeOK
<1>2. JournalInv' BY Zenon DEF JournalInv, TypeOK, Slot, Journals, TxInv, InFlight,
         Transacting
<1>3. TxInv' BY UpdateHostConstants DEF TxInv, JournalInv, TypeOK, Slot, Journals,
         Transacting, InFlight
<1>4. SlotInv' BY DEF SlotInv, TxInv, TypeOK, Slot, InFlight
<1>5. UndoInv' BY Zenon DEF UndoInv, TxInv, TypeOK, Slot, Journals, Recoverable, InFlight
<1>6. Recoverable' BY DEF Recoverable, TxInv, SlotInv, UndoInv, TypeOK, Slot,
         Journals, InFlight
<1>7. GoodInv' BY DEF GoodInv, TxInv, TypeOK, Slot, Journals, Transacting, InFlight
<1>8. WorkerIsCurrent' BY Zenon, UpdateHostConstants DEF WorkerIsCurrent, TypeOK, Slot
<1>9. ConfirmedSurvived' BY DEF ConfirmedSurvived, TxInv, TypeOK, Slot, Journals,
         Journalled, InFlight
<1>10. HonestInv' BY DEF HonestInv, TxInv, TypeOK, Slot, Journals
<1>11. QED BY <1>1, <1>2, <1>3, <1>4, <1>5, <1>6, <1>7, <1>8, <1>9, <1>10

\* failedActivation records the rollback.
LEMMA FailSaveIInv == IInv /\ FailSave => IInv'
<1> SUFFICES ASSUME IInv, FailSave PROVE IInv' OBVIOUS
<1> USE DEF IInv, FailSave, files, bounds, Journalled, Written, NotWritten, Ok,
         Fault, Durable, Save, NotSaved, At
<1>1. TypeOK'
  <2>1. journal' \in Slot(Journals) /\ tx' \in Journals
    BY UpdateHostConstants DEF TypeOK, Slot, Journals, Stages, TxInv, Transacting
  <2>2. cur' \in Slot(Builds) /\ prev' \in Slot(Builds \cup {None})
    BY DEF TypeOK, Slot, Journals, JournalInv, TxInv, InFlight, Transacting
  <2>3. faults' \in 0 .. MaxFaults BY UpdateHostConstants DEF TypeOK
  <2>4. worker' \in Builds \cup {None} BY DEF TypeOK, Slot
  <2>5. QED BY <2>1, <2>2, <2>3, <2>4, UpdateHostConstants DEF TypeOK
<1>2. JournalInv' BY DEF JournalInv, TypeOK, Slot, Journals, TxInv, InFlight,
         Transacting
<1>3. TxInv' BY UpdateHostConstants DEF TxInv, JournalInv, TypeOK, Slot, Journals,
         Transacting, InFlight
<1>4. SlotInv' BY Zenon DEF SlotInv, TxInv, TypeOK, Slot, InFlight
<1>5. UndoInv' BY DEF UndoInv, TxInv, TypeOK, Slot, Journals, Recoverable, InFlight
<1>6. Recoverable' BY DEF Recoverable, TxInv, SlotInv, UndoInv, TypeOK, Slot,
         Journals, InFlight
<1>7. GoodInv' BY DEF GoodInv, TxInv, TypeOK, Slot, Journals, Transacting, InFlight
<1>8. WorkerIsCurrent' BY UpdateHostConstants DEF WorkerIsCurrent, TypeOK, Slot
<1>9. ConfirmedSurvived' BY DEF ConfirmedSurvived, TxInv, TypeOK, Slot, Journals,
         Journalled, InFlight
<1>10. HonestInv' BY DEF HonestInv, TxInv, TypeOK, Slot, Journals
<1>11. QED BY <1>1, <1>2, <1>3, <1>4, <1>5, <1>6, <1>7, <1>8, <1>9, <1>10

\* The worker is started again.
LEMMA ResumeIInv == IInv /\ Resume => IInv'
<1> SUFFICES ASSUME IInv, Resume PROVE IInv' OBVIOUS
<1> USE DEF IInv, Resume, files, bounds, Journalled, Ok, Fault
<1>1. TypeOK'
  <2>1. journal' \in Slot(Journals) /\ tx' \in Journals
    BY UpdateHostConstants DEF TypeOK, Slot, Journals, Stages, TxInv, Transacting
  <2>2. cur' \in Slot(Builds) /\ prev' \in Slot(Builds \cup {None})
    BY DEF TypeOK, Slot, Journals, JournalInv, TxInv, InFlight, Transacting
  <2>3. faults' \in 0 .. MaxFaults BY UpdateHostConstants DEF TypeOK
  <2>4. worker' \in Builds \cup {None} BY DEF TypeOK, Slot
  <2>5. QED BY <2>1, <2>2, <2>3, <2>4, UpdateHostConstants DEF TypeOK
<1>2. JournalInv' BY Zenon DEF JournalInv, TypeOK, Slot, Journals, TxInv, InFlight,
         Transacting
<1>3. TxInv' BY Zenon, UpdateHostConstants DEF TxInv, JournalInv, TypeOK, Slot, Journals,
         Transacting, InFlight
<1>4. SlotInv' BY Zenon DEF SlotInv, TxInv, TypeOK, Slot, InFlight
<1>5. UndoInv' BY Zenon DEF UndoInv, TxInv, TypeOK, Slot, Journals, Recoverable, InFlight
<1>6. Recoverable' BY SMTT(30) DEF Recoverable, TxInv, SlotInv, UndoInv, TypeOK, Slot,
         Journals, InFlight
<1>7. GoodInv' BY DEF GoodInv, TxInv, TypeOK, Slot, Journals, Transacting, InFlight
<1>8. WorkerIsCurrent' BY Zenon, UpdateHostConstants DEF WorkerIsCurrent, TypeOK, Slot
<1>9. ConfirmedSurvived' BY Zenon DEF ConfirmedSurvived, TxInv, TypeOK, Slot, Journals,
         Journalled, InFlight
<1>10. HonestInv' BY Zenon DEF HonestInv, TxInv, TypeOK, Slot, Journals
<1>11. QED BY <1>1, <1>2, <1>3, <1>4, <1>5, <1>6, <1>7, <1>8, <1>9, <1>10

\* A rollback is accepted.
LEMMA RollbackIInv == IInv /\ Rollback => IInv'
<1> SUFFICES ASSUME IInv, Rollback PROVE IInv' OBVIOUS
<1> USE DEF IInv, Rollback, files, bounds, Journalled, Accept, Respond
<1>1. TypeOK'
  <2>1. journal' \in Slot(Journals) /\ tx' \in Journals
    BY UpdateHostConstants DEF TypeOK, Slot, Journals, Stages, TxInv, Transacting
  <2>2. cur' \in Slot(Builds) /\ prev' \in Slot(Builds \cup {None})
    BY DEF TypeOK, Slot, Journals, JournalInv, TxInv, InFlight, Transacting
  <2>3. faults' \in 0 .. MaxFaults BY Zenon, UpdateHostConstants DEF TypeOK
  <2>4. worker' \in Builds \cup {None} BY Zenon DEF TypeOK, Slot
  <2>5. QED BY <2>1, <2>2, <2>3, <2>4, UpdateHostConstants DEF TypeOK
<1>2. JournalInv' BY Zenon DEF JournalInv, TypeOK, Slot, Journals, TxInv, InFlight,
         Transacting
<1>3. TxInv' BY Zenon, UpdateHostConstants DEF TxInv, JournalInv, TypeOK, Slot, Journals,
         Transacting, InFlight
<1>4. SlotInv' BY Zenon DEF SlotInv, TxInv, TypeOK, Slot, InFlight
<1>5. UndoInv' BY Zenon DEF UndoInv, TxInv, TypeOK, Slot, Journals, Recoverable, InFlight
<1>6. Recoverable' BY SMTT(30) DEF Recoverable, TxInv, SlotInv, UndoInv, TypeOK, Slot,
         Journals, InFlight
<1>7. GoodInv' BY DEF GoodInv, TxInv, TypeOK, Slot, Journals, Transacting, InFlight
<1>8. WorkerIsCurrent' BY Zenon, UpdateHostConstants DEF WorkerIsCurrent, TypeOK, Slot
<1>9. ConfirmedSurvived' BY Zenon DEF ConfirmedSurvived, TxInv, TypeOK, Slot, Journals,
         Journalled, InFlight
<1>10. HonestInv' BY DEF HonestInv, TxInv, TypeOK, Slot, Journals
<1>11. QED BY Zenon, <1>1, <1>2, <1>3, <1>4, <1>5, <1>6, <1>7, <1>8, <1>9, <1>10

\* rollbackUpdate restores the old build.
LEMMA UndoIInv == IInv /\ Undo => IInv'
<1> SUFFICES ASSUME IInv, Undo PROVE IInv' OBVIOUS
<1> USE DEF IInv, Undo, files, bounds, Journalled, Written, NotWritten, Ok, Fault,
         Durable
<1>1. TypeOK'
  <2>1. journal' \in Slot(Journals) /\ tx' \in Journals
    BY UpdateHostConstants DEF TypeOK, Slot, Journals, Stages, TxInv, Transacting
  <2>2. cur' \in Slot(Builds) /\ prev' \in Slot(Builds \cup {None})
    BY DEF TypeOK, Slot, Journals, JournalInv, TxInv, InFlight, Transacting
  <2>3. faults' \in 0 .. MaxFaults BY UpdateHostConstants DEF TypeOK
  <2>4. worker' \in Builds \cup {None} BY DEF TypeOK, Slot
  <2>5. QED BY <2>1, <2>2, <2>3, <2>4, UpdateHostConstants DEF TypeOK
<1>2. JournalInv' BY DEF JournalInv, TypeOK, Slot, Journals, TxInv, InFlight,
         Transacting
<1>3. TxInv' BY UpdateHostConstants DEF TxInv, JournalInv, TypeOK, Slot, Journals,
         Transacting, InFlight
<1>4. SlotInv' BY DEF SlotInv, TxInv, TypeOK, Slot, InFlight
<1>5. UndoInv' BY Zenon DEF UndoInv, TxInv, TypeOK, Slot, Journals, Recoverable, InFlight
<1>6. Recoverable' BY DEF Recoverable, TxInv, SlotInv, UndoInv, TypeOK, Slot,
         Journals, InFlight
<1>7. GoodInv' BY DEF GoodInv, TxInv, TypeOK, Slot, Journals, Transacting, InFlight
<1>8. WorkerIsCurrent' BY UpdateHostConstants DEF WorkerIsCurrent, TypeOK, Slot
<1>9. ConfirmedSurvived' BY DEF ConfirmedSurvived, TxInv, TypeOK, Slot, Journals,
         Journalled, InFlight
<1>10. HonestInv' BY DEF HonestInv, TxInv, TypeOK, Slot, Journals
<1>11. QED BY <1>1, <1>2, <1>3, <1>4, <1>5, <1>6, <1>7, <1>8, <1>9, <1>10

\* rollbackUpdate records the rollback.
LEMMA UndoSaveIInv == IInv /\ UndoSave => IInv'
<1> SUFFICES ASSUME IInv, UndoSave PROVE IInv' OBVIOUS
<1> USE DEF IInv, UndoSave, files, bounds, Journalled, Written, NotWritten, Ok,
         Fault, Durable, Save, NotSaved, At
<1>1. TypeOK'
  <2>1. journal' \in Slot(Journals) /\ tx' \in Journals
    BY UpdateHostConstants DEF TypeOK, Slot, Journals, Stages, TxInv, Transacting
  <2>2. cur' \in Slot(Builds) /\ prev' \in Slot(Builds \cup {None})
    BY DEF TypeOK, Slot, Journals, JournalInv, TxInv, InFlight, Transacting
  <2>3. faults' \in 0 .. MaxFaults BY UpdateHostConstants DEF TypeOK
  <2>4. worker' \in Builds \cup {None} BY DEF TypeOK, Slot
  <2>5. QED BY Zenon, <2>1, <2>2, <2>3, <2>4, UpdateHostConstants DEF TypeOK
<1>2. JournalInv' BY DEF JournalInv, TypeOK, Slot, Journals, TxInv, InFlight,
         Transacting
<1>3. TxInv' BY UpdateHostConstants DEF TxInv, JournalInv, TypeOK, Slot, Journals,
         Transacting, InFlight
<1>4. SlotInv' BY Zenon DEF SlotInv, TxInv, TypeOK, Slot, InFlight
<1>5. UndoInv' BY DEF UndoInv, TxInv, TypeOK, Slot, Journals, Recoverable, InFlight
<1>6. Recoverable' BY DEF Recoverable, TxInv, SlotInv, UndoInv, TypeOK, Slot,
         Journals, InFlight
<1>7. GoodInv' BY DEF GoodInv, TxInv, TypeOK, Slot, Journals, Transacting, InFlight
<1>8. WorkerIsCurrent' BY Zenon, UpdateHostConstants DEF WorkerIsCurrent, TypeOK, Slot
<1>9. ConfirmedSurvived' BY DEF ConfirmedSurvived, TxInv, TypeOK, Slot, Journals,
         Journalled, InFlight
<1>10. HonestInv' BY DEF HonestInv, TxInv, TypeOK, Slot, Journals
<1>11. QED BY <1>1, <1>2, <1>3, <1>4, <1>5, <1>6, <1>7, <1>8, <1>9, <1>10

\* The worker is stopped for a restart.
LEMMA RestartWorkerIInv == IInv /\ RestartWorker => IInv'
<1> SUFFICES ASSUME IInv, RestartWorker PROVE IInv' OBVIOUS
<1> USE DEF IInv, RestartWorker, files, bounds, Journalled, Accept
<1>1. TypeOK'
  <2>1. journal' \in Slot(Journals) /\ tx' \in Journals
    BY UpdateHostConstants DEF TypeOK, Slot, Journals, Stages, TxInv, Transacting
  <2>2. cur' \in Slot(Builds) /\ prev' \in Slot(Builds \cup {None})
    BY DEF TypeOK, Slot, Journals, JournalInv, TxInv, InFlight, Transacting
  <2>3. faults' \in 0 .. MaxFaults BY UpdateHostConstants DEF TypeOK
  <2>4. worker' \in Builds \cup {None} BY Zenon DEF TypeOK, Slot
  <2>5. QED BY <2>1, <2>2, <2>3, <2>4, UpdateHostConstants DEF TypeOK
<1>2. JournalInv' BY Zenon DEF JournalInv, TypeOK, Slot, Journals, TxInv, InFlight,
         Transacting
<1>3. TxInv' BY Zenon, UpdateHostConstants DEF TxInv, JournalInv, TypeOK, Slot, Journals,
         Transacting, InFlight
<1>4. SlotInv' BY Zenon DEF SlotInv, TxInv, TypeOK, Slot, InFlight
<1>5. UndoInv' BY Zenon DEF UndoInv, TxInv, TypeOK, Slot, Journals, Recoverable, InFlight
<1>6. Recoverable' BY SMTT(30) DEF Recoverable, TxInv, SlotInv, UndoInv, TypeOK, Slot,
         Journals, InFlight
<1>7. GoodInv' BY DEF GoodInv, TxInv, TypeOK, Slot, Journals, Transacting, InFlight
<1>8. WorkerIsCurrent' BY Zenon, UpdateHostConstants DEF WorkerIsCurrent, TypeOK, Slot
<1>9. ConfirmedSurvived' BY Zenon DEF ConfirmedSurvived, TxInv, TypeOK, Slot, Journals,
         Journalled, InFlight
<1>10. HonestInv' BY DEF HonestInv, TxInv, TypeOK, Slot, Journals
<1>11. QED BY <1>1, <1>2, <1>3, <1>4, <1>5, <1>6, <1>7, <1>8, <1>9, <1>10

\* The reaper takes the lock.
LEMMA ReapIInv == IInv /\ Reap => IInv'
<1> SUFFICES ASSUME IInv, Reap PROVE IInv' OBVIOUS
<1>1. /\ journal' = journal /\ cur' = cur /\ prev' = prev /\ pc = "idle" /\ pc' = "restart"
      /\ tx' = tx /\ worker = None /\ worker' = worker /\ stopping' = stopping
      /\ reply' = reply /\ good' = good /\ stranded' = stranded
      /\ UNCHANGED <<requests, faults, crashes, exits>>
  BY Zenon DEF Reap, files, bounds
<1>2. TypeOK /\ JournalInv /\ TxInv /\ SlotInv /\ UndoInv /\ Recoverable
      /\ GoodInv /\ WorkerIsCurrent /\ ConfirmedSurvived /\ HonestInv
  BY Zenon DEF IInv
<1>3. TypeOK' BY <1>1, <1>2 DEF TypeOK
<1>4. JournalInv' BY <1>1, <1>2 DEF JournalInv, Journalled
<1>5. TxInv' BY <1>1 DEF TxInv, Transacting
<1>6. SlotInv' BY <1>1, <1>2 DEF SlotInv
<1>7. UndoInv' BY <1>1, <1>2 DEF UndoInv, Journalled
<1>8. Recoverable' BY <1>1, <1>2 DEF Recoverable
<1>9. GoodInv' BY <1>1, <1>2 DEF GoodInv, Journalled, Transacting
<1>10. WorkerIsCurrent' BY <1>1 DEF WorkerIsCurrent
<1>11. ConfirmedSurvived' BY <1>1, <1>2 DEF ConfirmedSurvived
<1>12. HonestInv' BY <1>1, <1>2 DEF HonestInv
<1>13. QED
  BY Zenon, <1>3, <1>4, <1>5, <1>6, <1>7, <1>8, <1>9, <1>10, <1>11, <1>12 DEF IInv

\* A step that leaves the files, the transaction and its place alone keeps the
\* invariant; it may lose the worker.
LEMMA QuietIInv ==
  ASSUME IInv, TypeOK', worker' \in {worker, None},
         journal' = journal, cur' = cur, prev' = prev, pc' = pc, tx' = tx,
         reply' = reply, good' = good, stranded' = stranded
  PROVE  IInv'
<1>1. TypeOK /\ JournalInv /\ TxInv /\ SlotInv /\ UndoInv /\ Recoverable
      /\ GoodInv /\ WorkerIsCurrent /\ ConfirmedSurvived /\ HonestInv
  BY Zenon DEF IInv
<1>2. JournalInv' BY <1>1 DEF JournalInv, Journalled
<1>3. TxInv' BY <1>1 DEF TxInv, Journalled
<1>4. SlotInv' BY <1>1 DEF SlotInv, Journalled
<1>5. UndoInv' BY <1>1 DEF UndoInv, Journalled
<1>6. Recoverable' BY <1>1 DEF Recoverable
<1>7. GoodInv' BY <1>1 DEF GoodInv, Journalled
<1>8. WorkerIsCurrent' BY <1>1 DEF WorkerIsCurrent
<1>9. ConfirmedSurvived' BY <1>1 DEF ConfirmedSurvived
<1>10. HonestInv' BY <1>1 DEF HonestInv
<1>11. QED BY Zenon, <1>2, <1>3, <1>4, <1>5, <1>6, <1>7, <1>8, <1>9, <1>10 DEF IInv

\* The worker exits.
LEMMA WorkerExitIInv == IInv /\ WorkerExit => IInv'
<1> SUFFICES ASSUME IInv, WorkerExit PROVE IInv' OBVIOUS
<1>1. /\ journal' = journal /\ cur' = cur /\ prev' = prev /\ pc' = pc /\ tx' = tx
      /\ worker' = None /\ stopping' = stopping /\ reply' = reply /\ good' = good
      /\ stranded' = stranded /\ requests' = requests /\ faults' = faults
      /\ crashes' = crashes /\ exits < MaxExits /\ exits' = exits + 1
  BY Zenon DEF WorkerExit, files
<1>2. TypeOK'
  <2>1. TypeOK BY Zenon DEF IInv
  <2>2. exits' \in 0 .. MaxExits BY <1>1, <2>1, UpdateHostConstants DEF TypeOK
  <2>3. QED BY Zenon, <1>1, <2>1, <2>2 DEF TypeOK
<1>3. QED BY Zenon, <1>1, <1>2, QuietIInv

\* The host is asked to stop.
LEMMA ShutdownIInv == IInv /\ Shutdown => IInv'
<1> SUFFICES ASSUME IInv, Shutdown PROVE IInv' OBVIOUS
<1>1. /\ journal' = journal /\ cur' = cur /\ prev' = prev /\ pc' = pc /\ tx' = tx
      /\ worker' = worker /\ stopping' = TRUE /\ reply' = reply /\ good' = good
      /\ stranded' = stranded /\ requests' = requests /\ faults' = faults
      /\ exits' = exits /\ crashes < MaxCrashes /\ crashes' = crashes + 1
  BY Zenon DEF Shutdown, files
<1>2. TypeOK'
  <2>1. TypeOK BY Zenon DEF IInv
  <2>2. crashes' \in 0 .. MaxCrashes BY <1>1, <2>1, UpdateHostConstants DEF TypeOK
  <2>3. QED BY Zenon, <1>1, <2>1, <2>2 DEF TypeOK
<1>3. QED BY Zenon, <1>1, <1>2, QuietIInv

\* The host stops.
LEMMA HostExitIInv == IInv /\ HostExit => IInv'
<1> SUFFICES ASSUME IInv, HostExit PROVE IInv' OBVIOUS
<1> USE DEF IInv, HostExit, files, bounds, Journalled
<1>1. TypeOK'
  <2>1. /\ requests' \in 0 .. MaxRequests /\ faults' \in 0 .. MaxFaults
        /\ crashes' \in 0 .. MaxCrashes /\ exits' \in 0 .. MaxExits
    BY Zenon, UpdateHostConstants DEF TypeOK
  <2>2. QED BY Zenon, <2>1 DEF TypeOK
<1>2. JournalInv' BY DEF JournalInv, TypeOK, Slot, Journals, TxInv, InFlight,
         Transacting
<1>3. TxInv' BY UpdateHostConstants DEF TxInv, JournalInv, TypeOK, Slot, Journals,
         Transacting, InFlight
<1>4. SlotInv' BY Zenon DEF SlotInv, TxInv, TypeOK, Slot, InFlight
<1>5. UndoInv' BY Zenon DEF UndoInv, TxInv, TypeOK, Slot, Journals, Recoverable, InFlight
<1>6. Recoverable' BY SMTT(30) DEF Recoverable, TxInv, SlotInv, UndoInv, TypeOK, Slot,
         Journals, InFlight
<1>7. GoodInv' BY Zenon DEF GoodInv, TxInv, TypeOK, Slot, Journals, Transacting, InFlight
<1>8. WorkerIsCurrent' BY Zenon, UpdateHostConstants DEF WorkerIsCurrent, TypeOK, Slot
<1>9. ConfirmedSurvived' BY DEF ConfirmedSurvived, TxInv, TypeOK, Slot, Journals,
         Journalled, InFlight
<1>10. HonestInv' BY DEF HonestInv, TxInv, TypeOK, Slot, Journals
<1>11. QED BY <1>1, <1>2, <1>3, <1>4, <1>5, <1>6, <1>7, <1>8, <1>9, <1>10

\* The host is killed or the machine loses power.
LEMMA CrashIInv == IInv /\ Crash => IInv'
<1> SUFFICES ASSUME IInv, Crash PROVE IInv' OBVIOUS
<1> USE DEF IInv, Journalled
<1>1. /\ pc' = "down" /\ worker' = None /\ stopping' = FALSE /\ reply' = "none"
      /\ tx' = NoJournal /\ crashes < MaxCrashes /\ crashes' = crashes + 1
      /\ UNCHANGED <<good, stranded, requests, faults, exits>>
  BY DEF Crash
<1>2. journal' \in Slot(Journals) /\ cur' \in Slot(Builds) /\ prev' \in Slot(Builds \cup {None})
        => TypeOK'
  <2>1. tx' \in Journals BY <1>1, UpdateHostConstants DEF NoJournal, Journals, Stages
  <2>2. crashes' \in 0 .. MaxCrashes BY <1>1, UpdateHostConstants DEF TypeOK
  <2>3. requests' \in 0 .. MaxRequests /\ faults' \in 0 .. MaxFaults /\ exits' \in 0 .. MaxExits
        /\ good' \subseteq Builds /\ worker' \in Builds \cup {None}
    BY <1>1 DEF TypeOK
  <2>4. stopping' \in BOOLEAN BY Zenon, <1>1
  <2>5. stranded' \in BOOLEAN BY <1>1 DEF TypeOK
  <2>6. QED BY <1>1, <2>1, <2>2, <2>3, <2>4, <2>5 DEF TypeOK
<1>3. CASE UNCHANGED files
  <2> USE <1>1, <1>3 DEF files
  <2>1. TypeOK' BY <1>2 DEF TypeOK
  <2>2. JournalInv' BY DEF JournalInv, TypeOK, Slot, Journals, TxInv, InFlight, Transacting
  <2>3. TxInv' BY Zenon DEF TxInv, Transacting
  <2>4. SlotInv' BY SMTT(60) DEF SlotInv, TxInv, InFlight
  <2>5. UndoInv' BY SMTT(30) DEF UndoInv, TxInv, InFlight
  <2>6. Recoverable' BY SMTT(30) DEF Recoverable, TxInv, SlotInv, UndoInv, InFlight
  <2>7. GoodInv' BY SMTT(30) DEF GoodInv, TxInv, Transacting, InFlight
  <2>8. WorkerIsCurrent' /\ HonestInv' BY DEF WorkerIsCurrent, HonestInv
  <2>9. ConfirmedSurvived' BY DEF ConfirmedSurvived
  <2>10. QED BY <2>1, <2>2, <2>3, <2>4, <2>5, <2>6, <2>7, <2>8, <2>9
<1>4. CASE ~ UNCHANGED files
  <2>1. PICK j \in {journal.now, journal.safe}, c \in {cur.now, cur.safe},
             p \in {prev.now, prev.safe} :
           journal' = Durable(j) /\ cur' = Durable(c) /\ prev' = Durable(p)
    BY Zenon, <1>4 DEF Crash
  <2> HIDE DEF IInv
  <2>2. /\ journal'.now = j /\ journal'.safe = j /\ cur'.now = c /\ cur'.safe = c
        /\ prev'.now = p /\ prev'.safe = p
    BY <2>1 DEF Durable
  <2>3. TypeOK /\ JournalInv /\ UndoInv /\ Recoverable /\ GoodInv /\ ConfirmedSurvived
    BY Zenon DEF IInv
  <2>4. TypeOK'
    <3>1. j \in Journals /\ c \in Builds /\ p \in Builds \cup {None} BY <2>3 DEF TypeOK, Slot
    <3>2. journal' \in Slot(Journals) /\ cur' \in Slot(Builds) /\ prev' \in Slot(Builds \cup {None})
      BY Zenon, <2>1, <3>1 DEF Slot, Durable
    <3>3. QED BY Zenon, <1>2, <3>2
  <2>5. JournalInv' BY <2>2, <2>3 DEF JournalInv
  <2>6. TxInv' BY <1>1 DEF TxInv, Transacting
  <2>7. SlotInv' BY <2>2 DEF SlotInv
  <2>8. UndoInv' BY <2>2 DEF UndoInv
  <2>9. Recoverable' BY <1>1, <2>2, <2>3 DEF Recoverable
  <2>10. GoodInv' BY <1>1, <2>2, <2>3 DEF GoodInv, Transacting
  <2>11. WorkerIsCurrent' /\ HonestInv' BY <1>1 DEF WorkerIsCurrent, HonestInv
  <2>12. ConfirmedSurvived' BY <1>1, <2>2, <2>3 DEF ConfirmedSurvived
  <2>13. QED
    BY Zenon, <2>4, <2>5, <2>6, <2>7, <2>8, <2>9, <2>10, <2>11, <2>12 DEF IInv
<1>5. QED BY Zenon, <1>3, <1>4

\* A step that changes nothing keeps the invariant.
LEMMA StutterIInv == IInv /\ UNCHANGED vars => IInv'
<1> SUFFICES ASSUME IInv, UNCHANGED vars PROVE IInv' OBVIOUS
<1>1. /\ journal' = journal /\ cur' = cur /\ prev' = prev /\ pc' = pc /\ tx' = tx
      /\ worker' = worker /\ stopping' = stopping /\ reply' = reply /\ good' = good
      /\ stranded' = stranded /\ requests' = requests /\ faults' = faults
      /\ crashes' = crashes /\ exits' = exits
  BY Zenon DEF vars, files, host, bounds
<1>2. TypeOK' BY <1>1 DEF IInv, TypeOK
<1>3. QED BY Zenon, <1>1, <1>2, QuietIInv

----------------------------------------------------------------------------
(* Theorems *)

\* Every reachable state of the host satisfies the inductive invariant.
THEOREM UpdateHostInvariant == Spec => []IInv
<1>1. IInv /\ [Next]_vars => IInv'
  <2> SUFFICES ASSUME IInv, [Next]_vars PROVE IInv' OBVIOUS
  <2>1. CASE HostStep
    BY <2>1, HostStartIInv, RecoverIInv, RecoverSaveIInv, BootIInv, SaveStagedIInv,
       SaveSwitchingIInv, BackupIInv, ReplaceIInv, SaveProbationIInv, LaunchIInv,
       ProbationIInv, ConfirmIInv, FailIInv, FailSaveIInv, ResumeIInv, UndoIInv,
       UndoSaveIInv, ReapIInv, HostExitIInv DEF HostStep
  <2>2. CASE (\E b \in Builds : Activate(b)) \/ Rollback \/ RestartWorker
    BY <2>2, ActivateIInv, RollbackIInv, RestartWorkerIInv
  <2>3. CASE WorkerExit \/ Shutdown \/ Crash
    BY <2>3, WorkerExitIInv, ShutdownIInv, CrashIInv
  <2>4. CASE UNCHANGED vars BY <2>4, StutterIInv
  <2>5. QED BY <2>1, <2>2, <2>3, <2>4 DEF Next
<1>2. QED BY InitIInv, <1>1, PTL DEF Spec

\* The host's variables keep their types.
THEOREM UpdateHostTypeOK == Spec => []TypeOK
<1>1. IInv => TypeOK BY DEF IInv
<1>2. QED BY UpdateHostInvariant, <1>1, PTL

\* recoverJournal never meets a previous slot it cannot verify, unless a restore
\* was reported as failed.
THEOREM UpdateHostRecoverable == Spec => []Recoverable
<1>1. IInv => Recoverable BY DEF IInv
<1>2. QED BY UpdateHostInvariant, <1>1, PTL

\* A worker runs only the binary on disk, and none while it is being replaced.
THEOREM UpdateHostWorkerIsCurrent == Spec => []WorkerIsCurrent
<1>1. IInv => WorkerIsCurrent BY DEF IInv
<1>2. QED BY UpdateHostInvariant, <1>1, PTL

\* activateUpdate confirms only a build that survived its probation.
THEOREM UpdateHostConfirmedSurvived == Spec => []ConfirmedSurvived
<1>1. IInv => ConfirmedSurvived BY DEF IInv
<1>2. QED BY UpdateHostInvariant, <1>1, PTL

\* A rollback response follows a durable journal and the old build in place.
THEOREM UpdateHostRollbackHonest == Spec => []RollbackHonest
<1>1. IInv => RollbackHonest BY DEF IInv, HonestInv, RollbackHonest
<1>2. QED BY UpdateHostInvariant, <1>1, PTL

\* The host boots only into a build that survived a probation.
THEOREM UpdateHostBootsGood == Spec => []BootsGood
<1>1. IInv => BootsGood BY DEF IInv, GoodInv, BootsGood
<1>2. QED BY UpdateHostInvariant, <1>1, PTL

\* All of these together: the host's handling of binaries is sound.
THEOREM UpdateHostSound == Spec => []HostSound
<1>1. TypeOK /\ WorkerIsCurrent /\ ConfirmedSurvived /\ RollbackHonest /\ BootsGood => HostSound
  BY DEF HostSound
<1>2. QED BY UpdateHostTypeOK, UpdateHostWorkerIsCurrent, UpdateHostConfirmedSurvived,
             UpdateHostRollbackHonest, UpdateHostBootsGood, <1>1, PTL
=============================================================================
