---------------------------- MODULE SpoolProofs ----------------------------
(* Proofs about Spool: the loss ledger counts every retired record exactly *)
(* once, no written record disappears uncounted and nothing counted as     *)
(* lost is sent, for any number of reports, disk errors and power failures. *)
EXTENDS Spool, FiniteSetTheorems, WellFoundedInduction, TLAPS

----------------------------------------------------------------------------
(* The inductive invariant *)

Counts(v) == v.dropped = Cardinality(lost \cup v.pending)

\* Both ledgers a restart may read, and the running Store, count what is lost.
CountInv ==
  /\ Counts(ledger) /\ Counts(stable)
  /\ pc # "down" => Counts(mem)

\* What the Store is about to remove is already counted by both ledgers.
PendingInv ==
  /\ pc # "down" => /\ mem.pending \subseteq lost \cup ledger.pending
                    /\ mem.pending \subseteq lost \cup stable.pending
  /\ pc = "down" => ledger.pending \subseteq lost \cup stable.pending
  /\ (op = "open" /\ pc \in {"remove", "clear"}) =>
        ledger.pending \subseteq lost \cup stable.pending
  /\ pc \in {"trim", "retire", "drain", "drop"} => mem.pending = {}

\* A retired record that is, or may after a power failure be, on disk again is
\* still on every pending list.
ReplayInv ==
  /\ (files \cup limbo) \cap lost \subseteq ledger.pending \cap stable.pending
  /\ pc # "down" => (files \cup limbo) \cap lost \subseteq mem.pending

FinishInv ==
  /\ pc = "remove" => /\ todo \subseteq mem.pending
                      /\ mem.pending \ todo \subseteq lost \ files
  /\ pc = "clear" => mem.pending \subseteq lost \ files /\ limbo = {}

RetireInv ==
  /\ retiring \subseteq files \ (lost \cup mem.pending)
  /\ pc \in {"down", "idle", "trim", "drain", "drop"} => retiring = {}
  /\ (pc \in {"remove", "clear"} /\ ret # "retire") => retiring = {}

DrainInv ==
  /\ pc \in {"drain", "drop"} => items \subseteq files
  /\ pc = "drop" => items # {}
  /\ pc \in {"trim", "retire", "drain", "drop"} => op # "open"
  /\ (pc \in {"remove", "clear"} /\ ret # "idle") => op # "open"

RangeInv ==
  /\ saved \cup files \cup limbo \cup lost \subseteq 1 .. next
  /\ ledger.pending \cup stable.pending \cup mem.pending \subseteq 1 .. next

KeptInv ==
  /\ NoSilentLoss
  /\ limbo \cap saved \subseteq acked \cup lost
  /\ pc = "drop" => First(items) \in acked

IInv ==
  /\ TypeOK /\ CountInv /\ PendingInv /\ ReplayInv /\ FinishInv /\ RetireInv
  /\ DrainInv /\ RangeInv /\ KeptInv

\* The visible ledger may be ahead of the Store after a save that failed late.
\* What it then lists beyond the Store's own list is still due for retention,
\* so nothing is listed for sending before it has been retired again.
AheadInv ==
  /\ pc # "down" /\ mem.pending # {} => ledger.pending \subseteq mem.pending
  /\ pc \in {"remove", "clear"} => mem.pending # {}
  /\ pc \in {"idle", "trim"} /\ mem.pending = {} =>
        ledger.pending \cap files \subseteq Retirable
  /\ pc = "retire" => ledger.pending \cap files \subseteq retiring
  /\ pc \in {"drain", "drop"} => ledger.pending \cap files = {}

\* Retention goes from the oldest record on, so that removing a batch leaves
\* the records after it due.
OrderInv ==
  /\ pc = "retire" \/ (pc \in {"remove", "clear"} /\ ret = "retire") =>
        retiring \subseteq Retirable
  /\ pc \in {"remove", "clear"} /\ ret = "retire" =>
        \A p \in mem.pending, r \in retiring : p < r

SendInv == AheadInv /\ OrderInv

----------------------------------------------------------------------------
(* Facts about finite sets of reports *)

\* Every set of reports is finite; a disjoint batch adds its size.
LEMMA ReportSets ==
  /\ \A S \in SUBSET Reports : IsFiniteSet(S) /\ Cardinality(S) \in Nat
  /\ \A S, T \in SUBSET Reports :
        S \cap T = {} => Cardinality(S \cup T) = Cardinality(S) + Cardinality(T)
  /\ Cardinality({}) = 0
<1>1. IsFiniteSet(Reports)
  BY FS_Interval, SpoolConstants DEF Reports
<1>2. \A S \in SUBSET Reports : IsFiniteSet(S) /\ Cardinality(S) \in Nat
  BY <1>1, FS_Subset, FS_CardinalityType
<1>3. Cardinality({}) = 0
  BY FS_EmptySet
<1>4. ASSUME NEW S \in SUBSET Reports, NEW T \in SUBSET Reports, S \cap T = {}
      PROVE  Cardinality(S \cup T) = Cardinality(S) + Cardinality(T)
  <2>1. Cardinality(S \cup T) = Cardinality(S) + Cardinality(T) - Cardinality(S \cap T)
    BY <1>2, FS_Union
  <2>2. QED BY <2>1, <1>2, <1>3, <1>4
<1>5. QED BY <1>2, <1>3, <1>4

\* Oldest picks from its argument.
LEMMA OldestSubset == \A S, k : Oldest(S, k) \subseteq S
  BY DEF Oldest

\* A nonempty set of reports has an oldest one, and First returns it.
LEMMA FirstMember == \A S \in SUBSET Reports : S # {} => First(S) \in S
<1> SUFFICES ASSUME NEW S \in SUBSET Reports, S # {} PROVE First(S) \in S
  OBVIOUS
<1>0. S \subseteq Nat BY SpoolConstants DEF Reports
<1>1. PICK x \in S : \A y \in S : ~ (<<y, x>> \in OpToRel(<, Nat))
  <2>1. IsWellFoundedOn(OpToRel(<, Nat), Nat) BY NatLessThanWellFounded
  <2>2. QED BY <1>0, <2>1, WFMin
<1>2. \A y \in S : y \in Nat /\ x \in Nat /\ ~ (y < x)
  BY Zenon, <1>0, <1>1 DEF OpToRel
<1>3. \A y \in S : x <= y BY <1>0, <1>2
<1>4. QED BY <1>3 DEF First

----------------------------------------------------------------------------
(* The invariant is inductive: one lemma per action *)

\* The initial state satisfies the invariant.
LEMMA InitIInv == Init => IInv
<1> SUFFICES ASSUME Init PROVE IInv OBVIOUS
<1>1. TypeOK BY SpoolConstants DEF Init, TypeOK, Ledgers, NoLoss, Reports
<1>2. CountInv BY ReportSets DEF Init, CountInv, Counts, NoLoss
<1>3. PendingInv /\ ReplayInv /\ FinishInv /\ RetireInv /\ DrainInv /\ RangeInv /\ KeptInv
  BY DEF Init, PendingInv, ReplayInv, FinishInv, RetireInv, DrainInv, RangeInv, KeptInv,
         NoSilentLoss, NoLoss
<1>4. QED BY <1>1, <1>2, <1>3 DEF IInv

\* Open reads the ledger and enters finishLossLocked.
LEMMA OpenIInv == IInv /\ Open => IInv'
<1> SUFFICES ASSUME IInv, Open PROVE IInv' OBVIOUS
<1> USE DEF IInv, Open, EnterFinish, disk, hist
<1>1. TypeOK' BY DEF TypeOK, Ledgers
<1>2. CountInv' BY DEF CountInv, Counts
<1>3. PendingInv' BY DEF PendingInv, TypeOK
<1>4. ReplayInv' BY DEF ReplayInv
<1>5. FinishInv' BY DEF FinishInv
<1>6. RetireInv' BY DEF RetireInv
<1>d. DrainInv' BY DEF DrainInv
<1>7. RangeInv' BY DEF RangeInv
<1>8. KeptInv' BY DEF KeptInv, NoSilentLoss
<1>9. QED BY <1>1, <1>2, <1>3, <1>4, <1>5, <1>6, <1>7, <1>8, <1>d

\* Removing one pending path moves it from a pending list to lost.
LEMMA RemoveIInv == \A r \in Reports : IInv /\ RemovePending(r) => IInv'
<1> SUFFICES ASSUME NEW r \in Reports, IInv, RemovePending(r) PROVE IInv'
  OBVIOUS
<1> USE DEF IInv, RemovePending
<1>a. CASE Abort /\ UNCHANGED <<files, limbo, lost>> /\ Fault
  <2> USE <1>a DEF Abort, Fault
  <2>1. TypeOK' BY SpoolConstants DEF TypeOK, NoLoss, Ledgers
  <2>2. CountInv' BY DEF CountInv, Counts, TypeOK
  <2>3. PendingInv' BY DEF PendingInv, TypeOK
  <2>4. ReplayInv' BY DEF ReplayInv
  <2>5. FinishInv' /\ RetireInv' BY DEF FinishInv, RetireInv
  <2>d. DrainInv' BY DEF DrainInv
  <2>6. RangeInv' BY DEF RangeInv, NoLoss
  <2>7. KeptInv' BY DEF KeptInv, NoSilentLoss
  <2>8. QED BY <2>1, <2>2, <2>3, <2>4, <2>5, <2>6, <2>7, <2>d
<1>b. CASE /\ Ok /\ files' = files \ {r}
           /\ limbo' = IF r \in files THEN limbo \cup {r} ELSE limbo
           /\ lost' = lost \cup {r} /\ todo' = todo \ {r}
           /\ UNCHANGED <<mem, pc, retiring, op, ret, items>>
  <2> USE <1>b DEF Ok
  <2>0. /\ r \in mem.pending /\ mem.pending \subseteq lost \cup ledger.pending
        /\ mem.pending \subseteq lost \cup stable.pending
    BY DEF FinishInv, PendingInv
  <2>1. TypeOK' BY DEF TypeOK, Ledgers
  <2>2. CountInv'
    <3>1. /\ lost' \cup ledger.pending = lost \cup ledger.pending
          /\ lost' \cup stable.pending = lost \cup stable.pending
          /\ lost' \cup mem.pending = lost \cup mem.pending
      BY <2>0
    <3>2. QED BY Zenon, <3>1 DEF CountInv, Counts
  <2>3. PendingInv' BY DEF PendingInv
  <2>4. ReplayInv' BY <2>0 DEF ReplayInv, FinishInv
  <2>5. FinishInv' BY Zenon DEF FinishInv
  <2>6. RetireInv' BY <2>0 DEF RetireInv
  <2>d. DrainInv' BY DEF DrainInv
  <2>7. RangeInv' BY <2>0 DEF RangeInv
  <2>8. KeptInv' BY DEF KeptInv, NoSilentLoss
  <2>9. QED BY <2>1, <2>2, <2>3, <2>4, <2>5, <2>6, <2>7, <2>8, <2>d
<1>c. QED BY <1>a, <1>b

\* The directory sync makes the removals durable.
LEMMA SyncIInv == IInv /\ SyncDeletions => IInv'
<1> SUFFICES ASSUME IInv, SyncDeletions PROVE IInv' OBVIOUS
<1> USE DEF IInv, SyncDeletions, Abort, Ok, Fault, hist, disk
<1>1. TypeOK' BY SpoolConstants DEF TypeOK, Ledgers, NoLoss
<1>2. CountInv' BY Zenon DEF CountInv, Counts, TypeOK
<1>3. PendingInv' BY Zenon DEF PendingInv, TypeOK
<1>4. ReplayInv' BY DEF ReplayInv, PendingInv, FinishInv, RangeInv
<1>5. FinishInv' BY DEF FinishInv
<1>6. RetireInv' BY DEF RetireInv
<1>d. DrainInv' BY Zenon DEF DrainInv
<1>7. RangeInv' BY DEF RangeInv, NoLoss
<1>8. KeptInv' BY DEF KeptInv, NoSilentLoss
<1>9. QED BY <1>1, <1>2, <1>3, <1>4, <1>5, <1>6, <1>7, <1>8, <1>d

\* Clearing the pending list leaves the count of what is lost.
LEMMA ClearIInv == IInv /\ ClearPending => IInv'
<1> SUFFICES ASSUME IInv, ClearPending PROVE IInv' OBVIOUS
<1> USE DEF IInv, ClearPending, Abort, Ok, Fault, hist, disk, LedgerOk, LedgerBefore, LedgerAfter
<1>0. lost \cup mem.pending = lost /\ lost \cup {} = lost BY DEF FinishInv
<1>1. TypeOK' BY SpoolConstants DEF TypeOK, Ledgers, NoLoss
<1>2. CountInv' BY Zenon, <1>0 DEF CountInv, Counts, TypeOK, Ledgers
<1>3. PendingInv' BY Zenon DEF PendingInv, TypeOK, Ledgers, FinishInv
<1>4. ReplayInv' BY DEF ReplayInv, FinishInv, TypeOK, Ledgers
<1>5. FinishInv' BY Zenon DEF FinishInv, TypeOK
<1>6. RetireInv' BY DEF RetireInv, TypeOK, Ledgers
<1>d. DrainInv' BY Zenon DEF DrainInv, TypeOK
<1>7. RangeInv' BY DEF RangeInv, NoLoss, TypeOK, Ledgers
<1>8. KeptInv' BY DEF KeptInv, TypeOK, NoSilentLoss
<1>9. QED BY <1>1, <1>2, <1>3, <1>4, <1>5, <1>6, <1>7, <1>8, <1>d

\* ListLimit enters trimLocked.
LEMMA ListIInv == IInv /\ List => IInv'
<1> SUFFICES ASSUME IInv, List PROVE IInv' OBVIOUS
<1> USE DEF IInv, List, EnterFinish, hist, disk
<1>1. TypeOK' BY SpoolConstants DEF TypeOK, Ledgers, NoLoss, Reports
<1>2. CountInv' BY DEF CountInv, Counts, TypeOK
<1>3. PendingInv' BY DEF PendingInv, TypeOK
<1>4. ReplayInv' BY DEF ReplayInv, PendingInv, FinishInv, RangeInv
<1>5. FinishInv' BY DEF FinishInv
<1>6. RetireInv' BY DEF RetireInv
<1>d. DrainInv' BY DEF DrainInv
<1>7. RangeInv' BY DEF RangeInv, NoLoss
<1>8. KeptInv' BY DEF KeptInv, NoSilentLoss
<1>9. QED BY <1>1, <1>2, <1>3, <1>4, <1>5, <1>6, <1>7, <1>8, <1>d

\* trimLocked selects the records to retire.
LEMMA TrimIInv == IInv /\ Trim => IInv'
<1> SUFFICES ASSUME IInv, Trim PROVE IInv' OBVIOUS
<1> USE DEF IInv, Trim, hist, disk, Retirable
<1>1. TypeOK' BY Zenon, SpoolConstants DEF TypeOK, Ledgers, NoLoss, Reports
<1>2. CountInv' BY DEF CountInv, Counts, TypeOK
<1>3. PendingInv' BY DEF PendingInv, TypeOK
<1>4. ReplayInv' BY DEF ReplayInv, PendingInv, FinishInv, RangeInv
<1>5. FinishInv' BY DEF FinishInv
<1>6. RetireInv' BY DEF RetireInv, ReplayInv, PendingInv
<1>d. DrainInv' BY DEF DrainInv
<1>7. RangeInv' BY DEF RangeInv, NoLoss
<1>8. KeptInv' BY DEF KeptInv, NoSilentLoss
<1>9. QED BY <1>1, <1>2, <1>3, <1>4, <1>5, <1>6, <1>7, <1>8, <1>d

\* trimLocked is done.
LEMMA TrimmedIInv == IInv /\ Trimmed => IInv'
<1> SUFFICES ASSUME IInv, Trimmed PROVE IInv' OBVIOUS
<1> USE DEF IInv, Trimmed, hist, disk
<1>0. Oldest(files, ListMax) \subseteq files BY Zenon, OldestSubset
<1>1. TypeOK' BY Zenon, <1>0 DEF TypeOK
<1>2. CountInv' BY Zenon DEF CountInv, Counts, TypeOK
<1>3. PendingInv' BY Zenon DEF PendingInv, TypeOK
<1>4. ReplayInv' BY DEF ReplayInv, PendingInv, FinishInv, RangeInv
<1>5. FinishInv' BY DEF FinishInv
<1>6. RetireInv' BY Zenon DEF RetireInv
<1>d. DrainInv' BY <1>0 DEF DrainInv
<1>7. RangeInv' BY DEF RangeInv, NoLoss
<1>8. KeptInv' BY Zenon DEF KeptInv, NoSilentLoss
<1>9. QED BY <1>1, <1>2, <1>3, <1>4, <1>5, <1>6, <1>7, <1>8, <1>d

\* drain sends the oldest listed report.
LEMMA SendIInv == IInv /\ Send => IInv'
<1> SUFFICES ASSUME IInv, Send PROVE IInv' OBVIOUS
<1> USE DEF IInv, Send, disk
<1>0. First(items) \in items /\ First(items) \in Reports
  BY FirstMember DEF TypeOK
<1>1. TypeOK' BY <1>0 DEF TypeOK
<1>2. CountInv' BY Zenon DEF CountInv, Counts, TypeOK
<1>3. PendingInv' BY Zenon DEF PendingInv, TypeOK
<1>4. ReplayInv' BY Zenon DEF ReplayInv, PendingInv, FinishInv, RangeInv
<1>5. FinishInv' BY DEF FinishInv
<1>6. RetireInv' BY Zenon DEF RetireInv
<1>d. DrainInv' BY Zenon DEF DrainInv
<1>7. RangeInv' BY DEF RangeInv, NoLoss
<1>8. KeptInv' BY DEF KeptInv, NoSilentLoss
<1>9. QED BY <1>1, <1>2, <1>3, <1>4, <1>5, <1>6, <1>7, <1>8, <1>d

\* DropReport removes an acknowledged record.
LEMMA DropIInv == IInv /\ DropReport => IInv'
<1> SUFFICES ASSUME IInv, DropReport PROVE IInv' OBVIOUS
<1> USE DEF IInv, DropReport, Abort, Ok, Fault, hist, disk
<1>0. /\ First(items) \in items /\ First(items) \in files
      /\ First(items) \in Reports /\ First(items) \in acked
      /\ First(items) \in 1 .. next /\ First(items) \notin lost
  BY FirstMember DEF TypeOK, DrainInv, KeptInv, ReplayInv, PendingInv, RangeInv
<1>1. TypeOK' BY <1>0, SpoolConstants DEF TypeOK, Ledgers, NoLoss
<1>2. CountInv' BY Zenon DEF CountInv, Counts, TypeOK
<1>3. PendingInv' BY DEF DrainInv, PendingInv, TypeOK
<1>4. ReplayInv' BY <1>0 DEF ReplayInv, PendingInv, FinishInv, RangeInv
<1>5. FinishInv' BY DEF FinishInv
<1>6. RetireInv' BY DEF RetireInv
<1>d. DrainInv' BY <1>0 DEF DrainInv
<1>7. RangeInv' BY <1>0 DEF RangeInv, NoLoss
<1>8. KeptInv' BY <1>0 DEF KeptInv, NoSilentLoss
<1>9. QED BY <1>1, <1>2, <1>3, <1>4, <1>5, <1>6, <1>7, <1>8, <1>d

\* drain has sent everything it listed.
LEMMA DrainedIInv == IInv /\ Drained => IInv'
<1> SUFFICES ASSUME IInv, Drained PROVE IInv' OBVIOUS
<1> USE DEF IInv, Drained, Abort, Ok, Fault, hist, disk
<1>1. TypeOK' BY SpoolConstants DEF TypeOK, Ledgers, NoLoss, Reports
<1>2. CountInv' BY Zenon DEF CountInv, Counts, TypeOK
<1>3. PendingInv' BY Zenon DEF PendingInv, TypeOK
<1>4. ReplayInv' BY DEF ReplayInv, PendingInv, FinishInv, RangeInv
<1>5. FinishInv' BY DEF FinishInv
<1>6. RetireInv' BY DEF RetireInv
<1>d. DrainInv' BY DEF DrainInv
<1>7. RangeInv' BY DEF RangeInv, NoLoss
<1>8. KeptInv' BY DEF KeptInv, NoSilentLoss
<1>9. QED BY <1>1, <1>2, <1>3, <1>4, <1>5, <1>6, <1>7, <1>8, <1>d

\* Time passes.
LEMMA AgeIInv == IInv /\ Age => IInv'
<1> SUFFICES ASSUME IInv, Age PROVE IInv' OBVIOUS
<1> USE DEF IInv, Age, disk, work, hist
<1>1. TypeOK' BY SpoolConstants DEF TypeOK, Ledgers, NoLoss, Reports
<1>2. CountInv' BY Zenon DEF CountInv, Counts, TypeOK
<1>3. PendingInv' BY Zenon DEF PendingInv, TypeOK
<1>4. ReplayInv' BY Zenon DEF ReplayInv, PendingInv, FinishInv, RangeInv
<1>5. FinishInv' BY DEF FinishInv
<1>6. RetireInv' BY Zenon DEF RetireInv
<1>d. DrainInv' BY Zenon DEF DrainInv
<1>7. RangeInv' BY DEF RangeInv, NoLoss
<1>8. KeptInv' BY Zenon DEF KeptInv, NoSilentLoss
<1>9. QED BY Zenon, <1>1, <1>2, <1>3, <1>4, <1>5, <1>6, <1>7, <1>8, <1>d

\* Push writes a report number no earlier record has.
LEMMA PushIInv == IInv /\ Push => IInv'
<1> SUFFICES ASSUME IInv, Push PROVE IInv' OBVIOUS
<1> USE DEF IInv, Push, EnterFinish, Ok, Fault
<1>0. /\ next + 1 \in Reports /\ 1 .. next \subseteq 1 .. (next + 1)
      /\ next + 1 \in 1 .. (next + 1) /\ next + 1 \in 0 .. N
      /\ next + 1 \notin 1 .. next
  BY SpoolConstants DEF TypeOK, Reports
<1>a. next + 1 \notin lost BY Zenon, <1>0 DEF RangeInv
<1>b. faults' \in 0 .. MaxFaults BY SpoolConstants DEF TypeOK
<1>1. TypeOK'
  <2> HIDE DEF Fault, Ok
  <2>1. pc' \in {"idle", "remove", "trim"} /\ ret' \in {"idle", "trim", "retire"}
    BY Zenon DEF TypeOK
  <2>2. todo' \subseteq Reports BY Zenon DEF TypeOK, Ledgers
  <2>3. files' \subseteq Reports /\ limbo' \subseteq Reports
    BY Zenon, <1>0 DEF TypeOK
  <2>4. saved' \subseteq Reports /\ acked' \subseteq Reports BY Zenon, <1>0 DEF TypeOK
  <2>5. QED BY Zenon, <1>0, <1>b, <2>1, <2>2, <2>3, <2>4 DEF TypeOK
<1>2. CountInv' BY Zenon DEF CountInv, Counts, TypeOK
<1>3. PendingInv' BY Zenon DEF PendingInv, TypeOK
<1>4. ReplayInv' BY Zenon, <1>a DEF ReplayInv
<1>5. FinishInv' BY Zenon DEF FinishInv
<1>6. RetireInv' BY Zenon DEF RetireInv
<1>d. DrainInv' BY Zenon DEF DrainInv
<1>7. RangeInv' BY Zenon, <1>0 DEF RangeInv
<1>8. KeptInv'
  <2>1. next + 1 \notin saved BY <1>0 DEF RangeInv
  <2>2. QED BY Zenon, <2>1 DEF KeptInv, NoSilentLoss
<1>9. QED BY <1>1, <1>2, <1>3, <1>4, <1>5, <1>6, <1>7, <1>8, <1>d

\* retireLossLocked counts a batch no ledger has counted yet.
LEMMA RetireIInv == IInv /\ Retire => IInv'
<1> SUFFICES ASSUME IInv, Retire PROVE IInv' OBVIOUS
<1> DEFINE batch == Oldest(retiring, BatchLimit)
           v == [dropped |-> mem.dropped + Cardinality(batch), pending |-> batch]
<1>0. /\ batch \subseteq retiring /\ batch \in SUBSET Reports
      /\ batch \cap lost = {} /\ batch \subseteq 1 .. next
      /\ mem.pending = {} /\ pc = "retire" /\ op # "open" /\ op' = op
  BY OldestSubset
  DEF IInv, TypeOK, RetireInv, RangeInv, PendingInv, DrainInv, Retire, Abort
<1>c. /\ v.pending = batch
      /\ v.dropped = Cardinality(lost \cup batch)
      /\ v.dropped \in Nat
  <2>1. mem.dropped = Cardinality(lost)
    <3>1. lost \cup mem.pending = lost BY <1>0
    <3>2. QED BY <3>1, <1>0 DEF IInv, CountInv, Counts
  <2>2. Cardinality(lost \cup batch) = Cardinality(lost) + Cardinality(batch)
    BY <1>0, ReportSets DEF IInv, TypeOK
  <2>3. Cardinality(batch) \in Nat /\ Cardinality(lost) \in Nat
    BY Zenon, <1>0, ReportSets DEF IInv, TypeOK
  <2>4. QED BY <2>1, <2>2, <2>3
<1> HIDE DEF batch
<1>s. /\ (ledger' = ledger \/ (v.dropped <= MaxDropped /\ ledger' = v))
      /\ (stable' = stable \/ (v.dropped <= MaxDropped /\ ledger' = v /\ stable' = v))
      /\ \/ /\ v.dropped <= MaxDropped /\ mem' = v /\ ledger' = v /\ stable' = v
            /\ todo' = batch
            /\ ret' = "retire" /\ retiring' = retiring \ batch
            /\ pc' = (IF batch # {} THEN "remove" ELSE "retire")
            /\ items' = items
         \/ /\ mem' = mem /\ pc' = "idle" /\ todo' = {} /\ retiring' = {}
            /\ items' = {} /\ ret' = ret
      /\ faults' \in {faults, faults + 1} /\ (faults' # faults => faults < MaxFaults)
      /\ UNCHANGED <<files, limbo, horizon, next, saved, acked, lost, crashes>>
  BY <1>0 DEF Retire, LedgerOk, LedgerBefore, LedgerAfter, Abort, EnterFinish, Ok,
              Fault, hist, batch
<1> HIDE DEF v
<1>t. v.dropped <= MaxDropped => v \in Ledgers
  <2> SUFFICES ASSUME v.dropped <= MaxDropped PROVE v \in Ledgers OBVIOUS
  <2>1. mem.dropped + Cardinality(batch) \in 0 .. MaxDropped
    BY SMTT(30), <1>c, SpoolConstants DEF v
  <2>2. QED BY <2>1, <1>0 DEF v, Ledgers
<1> USE DEF IInv
<1>b. faults' \in 0 .. MaxFaults BY <1>s, SpoolConstants DEF TypeOK
<1>1. TypeOK'
  <2>1. ledger' \in Ledgers /\ stable' \in Ledgers /\ mem' \in Ledgers
    BY <1>s, <1>t DEF TypeOK
  <2>2. todo' \subseteq Reports /\ retiring' \subseteq Reports
    BY Zenon, <1>0, <1>s DEF TypeOK
  <2>3. QED BY Zenon, <1>0, <1>s, <1>b, <2>1, <2>2 DEF TypeOK
<1>2. CountInv' BY Zenon, <1>0, <1>s, <1>c DEF CountInv, Counts
<1>3. PendingInv' BY <1>0, <1>s, <1>c DEF PendingInv
<1>4. ReplayInv' BY Zenon, <1>0, <1>s, <1>c DEF ReplayInv
<1>5. FinishInv' BY Zenon, <1>0, <1>s, <1>c DEF FinishInv
<1>6. RetireInv' BY Zenon, <1>0, <1>s, <1>c DEF RetireInv
<1>d. DrainInv' BY <1>0, <1>s DEF DrainInv
<1>7. RangeInv' BY Zenon, <1>0, <1>s, <1>c DEF RangeInv
<1>8. KeptInv' BY <1>0, <1>s DEF KeptInv, NoSilentLoss
<1>9. QED BY <1>1, <1>2, <1>3, <1>4, <1>5, <1>6, <1>7, <1>8, <1>d

\* After a power failure either ledger still counts what is lost.
LEMMA CrashIInv == IInv /\ Crash => IInv'
<1> SUFFICES ASSUME IInv, Crash PROVE IInv' OBVIOUS
<1> USE DEF IInv, Crash, hist
<1>1. TypeOK' BY SMTT(30), SpoolConstants DEF TypeOK, Ledgers, NoLoss
<1>2. CountInv' BY Zenon DEF CountInv, Counts
<1>3. PendingInv' BY Zenon DEF PendingInv
<1>4. ReplayInv' BY DEF ReplayInv
<1>5. FinishInv' BY DEF FinishInv
<1>6. RetireInv' BY DEF RetireInv
<1>d. DrainInv' BY DEF DrainInv
<1>7. RangeInv' BY DEF RangeInv, NoLoss
<1>8. KeptInv' BY DEF KeptInv, NoSilentLoss
<1>9. QED BY <1>1, <1>2, <1>3, <1>4, <1>5, <1>6, <1>7, <1>8, <1>d

\* A step that changes nothing keeps the invariant.
LEMMA StutterIInv == IInv /\ UNCHANGED vars => IInv'
<1> SUFFICES ASSUME IInv, UNCHANGED vars PROVE IInv' OBVIOUS
<1> USE DEF IInv, vars, disk, work, hist
<1>1. TypeOK' /\ CountInv' BY Zenon DEF TypeOK, CountInv, Counts
<1>2. PendingInv' /\ ReplayInv' /\ FinishInv'
  BY Zenon DEF PendingInv, ReplayInv, FinishInv
<1>3. RetireInv' /\ DrainInv' /\ RangeInv' /\ KeptInv'
  BY DEF RetireInv, DrainInv, RangeInv, KeptInv, NoSilentLoss
<1>4. QED BY <1>1, <1>2, <1>3

----------------------------------------------------------------------------
(* Nothing counted as lost is sent: SendInv is inductive relative to IInv *)

\* A record due for retention stays due while the records from it on stay.
LEMMA StillRetirable ==
  ASSUME TypeOK, TypeOK', horizon <= horizon', NEW r \in Retirable,
         {x \in files : x >= r} \subseteq files'
  PROVE  r \in Retirable'
<1> DEFINE S == {x \in files : x >= r}
           T == {x \in files' : x >= r}
<1>1. r \in files /\ r \in Reports /\ r \in Nat BY SpoolConstants DEF Retirable, TypeOK, Reports
<1>2. r \in S /\ r \in files' BY <1>1
<1>3. S \subseteq T /\ T \in SUBSET Reports BY Zenon DEF TypeOK
<1>4. Cardinality(S) <= Cardinality(T) /\ Cardinality(S) \in Nat /\ Cardinality(T) \in Nat
  <2>1. IsFiniteSet(T) BY <1>3, ReportSets
  <2>2. S \in SUBSET Reports BY <1>3
  <2>3. QED BY <2>1, <2>2, <1>3, FS_Subset, ReportSets
<1>5. CASE r <= horizon
  <2>1. r <= horizon' BY <1>1, <1>5, SpoolConstants DEF TypeOK
  <2>2. QED BY <1>2, <2>1 DEF Retirable
<1>6. CASE Cardinality(S) > MaxItems
  <2>1. Cardinality(T) > MaxItems BY <1>4, <1>6, SpoolConstants
  <2>2. QED BY <1>2, <2>1 DEF Retirable
<1>7. QED BY Zenon, <1>5, <1>6 DEF Retirable

\* Where no record disappears, what is due stays due.
LEMMA RetirableGrows ==
  ASSUME TypeOK, TypeOK', horizon <= horizon', files \subseteq files'
  PROVE  Retirable \subseteq Retirable'
BY StillRetirable

\* Oldest takes records before the ones it leaves.
LEMMA OldestBelow ==
  ASSUME NEW S \in SUBSET Reports, NEW k \in Nat,
         NEW p \in Oldest(S, k), NEW r \in S \ Oldest(S, k)
  PROVE  p < r
<1> DEFINE Below(z) == {x \in S : x < z}
<1>1. p \in Nat /\ r \in Nat /\ S \subseteq Nat BY SpoolConstants DEF Oldest, Reports
<1>2. SUFFICES ASSUME r <= p PROVE FALSE BY <1>1
<1>3. Below(r) \subseteq Below(p)
  <2>1. \A x \in S : x < r => x < p
    <3>1. ASSUME NEW x \in Nat, x < r PROVE x < p BY <1>1, <1>2, <3>1
    <3>2. QED BY Zenon, <1>1, <3>1
  <2>2. QED BY Zenon, <2>1
<1>4. Cardinality(Below(r)) <= Cardinality(Below(p))
  <2>1. Below(p) \in SUBSET Reports OBVIOUS
  <2>2. IsFiniteSet(Below(p)) BY <2>1, ReportSets
  <2>3. QED BY <2>2, <1>3, FS_Subset
<1>5. Cardinality(Below(r)) \in Nat /\ Cardinality(Below(p)) \in Nat
  <2>1. Below(p) \in SUBSET Reports /\ Below(r) \in SUBSET Reports OBVIOUS
  <2>2. QED BY <2>1, ReportSets
<1>6. Cardinality(Below(p)) < k BY Zenon DEF Oldest
<1>7. Cardinality(Below(r)) < k BY <1>4, <1>5, <1>6
<1>8. QED BY <1>7 DEF Oldest

\* Open takes the visible ledger over, so that it is not ahead.
LEMMA OpenSendInv == IInv /\ IInv' /\ SendInv /\ Open => SendInv'
<1> SUFFICES ASSUME Open PROVE SendInv' BY Zenon
<1>1. mem' = ledger /\ ledger' = ledger /\ ret' = "idle" /\ pc' = (IF ledger.pending # {} THEN "remove" ELSE "idle")
  BY Zenon DEF Open, EnterFinish, disk
<1>2. AheadInv'
  <2>1. CASE ledger.pending # {}
    <3>1. pc' = "remove" BY Zenon, <1>1, <2>1
    <3>2. QED BY <1>1, <2>1, <3>1 DEF AheadInv
  <2>2. CASE ledger.pending = {}
    <3>1. pc' = "idle" BY Zenon, <1>1, <2>2
    <3>2. QED BY <1>1, <2>2, <3>1 DEF AheadInv
  <2>3. QED BY <2>1, <2>2
<1>3. OrderInv' BY <1>1 DEF OrderInv
<1>4. QED BY Zenon, <1>2, <1>3 DEF SendInv

\* Removing a pending record leaves everything younger that was due.
LEMMA RemoveSendInv ==
  \A r \in Reports : IInv /\ IInv' /\ SendInv /\ RemovePending(r) => SendInv'
<1> SUFFICES ASSUME NEW r \in Reports, IInv, IInv', SendInv, RemovePending(r) PROVE SendInv'
  OBVIOUS
<1>0. mem.pending # {} /\ ledger.pending \subseteq mem.pending /\ ledger' = ledger
  BY DEF SendInv, AheadInv, RemovePending
<1>1. CASE Abort
  BY <1>0, <1>1 DEF SendInv, AheadInv, OrderInv, RemovePending, Abort, NoLoss
<1>2. CASE ~Abort
  <2>1. /\ files' = files \ {r} /\ r \in todo /\ pc = "remove"
        /\ UNCHANGED <<mem, pc, retiring, ret, horizon>>
    BY <1>2 DEF RemovePending
  <2>2. AheadInv' BY <1>0, <2>1 DEF AheadInv
  <2>3. ASSUME ret = "retire", NEW q \in retiring PROVE q \in Retirable'
    <3>1. r \in mem.pending BY Zenon, <2>1 DEF IInv, FinishInv
    <3>2. r < q /\ r \in Nat /\ q \in Nat /\ q \in Retirable
      BY <2>1, <2>3, <3>1, SpoolConstants DEF SendInv, OrderInv, IInv, TypeOK, Reports
    <3>3. {x \in files : x >= q} \subseteq files' BY <2>1, <3>2
    <3>4. horizon <= horizon' BY <2>1, SpoolConstants DEF IInv, TypeOK
    <3>5. QED BY Zenon, <3>2, <3>3, <3>4, StillRetirable DEF IInv
  <2>4. OrderInv' BY Zenon, <2>1, <2>3 DEF SendInv, OrderInv
  <2>5. QED BY <2>2, <2>4 DEF SendInv
<1>3. QED BY <1>1, <1>2

\* Neither the directory sync nor its failure changes what is due.
LEMMA SyncSendInv == IInv /\ IInv' /\ SendInv /\ SyncDeletions => SendInv'
BY DEF SendInv, AheadInv, OrderInv, SyncDeletions, Abort, NoLoss, hist, Retirable

\* The cleared ledger lists nothing, even when its save failed late.
LEMMA ClearSendInv == IInv /\ IInv' /\ SendInv /\ ClearPending => SendInv'
<1> SUFFICES ASSUME IInv, IInv', SendInv, ClearPending PROVE SendInv' OBVIOUS
<1>0. mem.pending # {} /\ ledger.pending \subseteq mem.pending /\ pc = "clear"
  BY Zenon DEF SendInv, AheadInv, ClearPending
<1>1. CASE Abort
  <2>1. ledger'.pending \subseteq mem.pending
    BY <1>0 DEF ClearPending, LedgerOk, LedgerBefore, LedgerAfter, IInv, TypeOK, Ledgers
  <2>2. QED BY Zenon, <1>0, <1>1, <2>1 DEF SendInv, AheadInv, OrderInv, Abort, NoLoss
<1>2. CASE ~Abort
  <2>1. /\ ledger'.pending = {} /\ mem'.pending = {} /\ pc' = ret
        /\ UNCHANGED <<files, horizon, retiring, ret>>
    BY Zenon, <1>2 DEF ClearPending, LedgerOk, IInv, TypeOK, Ledgers
  <2>2. ret \in {"idle", "trim", "retire"} BY DEF IInv, TypeOK
  <2>3. AheadInv' BY <2>1, <2>2 DEF AheadInv
  <2>4. OrderInv' BY <1>0, <2>1, <2>2 DEF SendInv, OrderInv, Retirable
  <2>5. QED BY Zenon, <2>3, <2>4 DEF SendInv
<1>3. QED BY <1>1, <1>2

\* ListLimit goes through retention before it lists.
LEMMA ListSendInv == IInv /\ IInv' /\ SendInv /\ List => SendInv'
BY DEF SendInv, AheadInv, OrderInv, List, EnterFinish, disk, Retirable

\* A new record is younger than all others.
LEMMA PushSendInv == IInv /\ IInv' /\ SendInv /\ Push => SendInv'
<1> SUFFICES ASSUME IInv, IInv', SendInv, Push PROVE SendInv' OBVIOUS
<1>1. /\ pc = "idle" /\ files \subseteq files' /\ files' \subseteq files \cup {next + 1}
      /\ UNCHANGED <<ledger, mem, retiring, horizon>>
      /\ pc' \in {"idle", "trim", "remove"}
      /\ pc' = "remove" => mem.pending # {} /\ ret' = "trim"
  BY Zenon DEF Push, EnterFinish
<1>2. next + 1 \notin ledger.pending
  <2>1. next \in 0 .. N /\ ledger.pending \subseteq 1 .. next BY Zenon DEF IInv, RangeInv, TypeOK
  <2>2. next \in Nat BY <2>1, SpoolConstants
  <2>3. next + 1 \notin 1 .. next BY <2>2
  <2>4. QED BY Zenon, <2>1, <2>3
<1>3. Retirable \subseteq Retirable'
  <2>1. TypeOK /\ TypeOK' /\ horizon \in 0 .. N BY Zenon DEF IInv, TypeOK
  <2>2. horizon <= horizon' BY <1>1, <2>1, SpoolConstants
  <2>3. QED BY Zenon, <1>1, <2>1, <2>2, RetirableGrows
<1>4. AheadInv' BY <1>1, <1>2, <1>3 DEF SendInv, AheadInv
<1>5. OrderInv' BY <1>1 DEF OrderInv
<1>6. QED BY <1>4, <1>5 DEF SendInv

\* trimLocked selects everything that is due.
LEMMA TrimSendInv == IInv /\ IInv' /\ SendInv /\ Trim => SendInv'
<1> SUFFICES ASSUME IInv, IInv', SendInv, Trim PROVE SendInv' OBVIOUS
<1>1. mem.pending = {} BY DEF IInv, PendingInv, Trim
<1>2. Retirable' = Retirable BY DEF Trim, disk, Retirable
<1>3. QED BY <1>1, <1>2 DEF SendInv, AheadInv, OrderInv, Trim, disk

\* A batch is counted in the order of age; where its save fails the whole of
\* it is still due.
LEMMA RetireSendInv == IInv /\ IInv' /\ SendInv /\ Retire => SendInv'
<1> SUFFICES ASSUME IInv, IInv', SendInv, Retire PROVE SendInv' OBVIOUS
<1> DEFINE batch == Oldest(retiring, BatchLimit)
<1>0. /\ pc = "retire" /\ mem.pending = {} /\ op # "open"
      /\ batch \subseteq retiring /\ retiring \subseteq Retirable
      /\ ledger.pending \cap files \subseteq retiring
  BY OldestSubset DEF Retire, IInv, PendingInv, DrainInv, SendInv, AheadInv, OrderInv
<1>1. Retirable' = Retirable BY Zenon DEF Retire, Retirable
<1>2. CASE Abort
  <2>1. ledger'.pending \cap files \subseteq Retirable /\ files' = files
    <3>1. DEFINE v == [dropped |-> mem.dropped + Cardinality(batch), pending |-> batch]
    <3>2. v.pending = batch OBVIOUS
    <3>3. files' = files /\ (ledger' = ledger \/ ledger' = v)
      BY Zenon DEF Retire, LedgerOk, LedgerBefore, LedgerAfter
    <3>4. QED BY Zenon, <1>0, <3>2, <3>3
  <2>2. pc' = "idle" /\ mem' = mem BY <1>0, <1>2 DEF Abort
  <2>3. QED BY Zenon, <1>0, <1>1, <2>1, <2>2 DEF SendInv, AheadInv, OrderInv
<1>3. CASE ~Abort
  <2>1. /\ ledger'.pending = batch /\ mem'.pending = batch
        /\ pc' = (IF batch # {} THEN "remove" ELSE "retire")
        /\ retiring' = retiring \ batch
    <3>1. DEFINE v == [dropped |-> mem.dropped + Cardinality(batch), pending |-> batch]
    <3>2. v.pending = batch OBVIOUS
    <3>3. /\ ledger' = v /\ mem' = v /\ retiring' = retiring \ batch
          /\ pc' = (IF batch # {} THEN "remove" ELSE "retire")
      BY Zenon, <1>3 DEF Retire, LedgerOk, EnterFinish
    <3>4. QED BY Zenon, <3>2, <3>3
  <2>2. AheadInv' BY Zenon, <2>1 DEF AheadInv
  <2>3. \A p \in batch, r \in retiring \ batch : p < r
    BY OldestBelow, SpoolConstants DEF IInv, TypeOK
  <2>4. OrderInv' BY <1>0, <1>1, <2>1, <2>3 DEF OrderInv
  <2>5. QED BY Zenon, <2>2, <2>4 DEF SendInv
<1>4. QED BY Zenon, <1>2, <1>3

\* Nothing due is left when ListLimit lists.
LEMMA TrimmedSendInv == IInv /\ IInv' /\ SendInv /\ Trimmed => SendInv'
BY DEF SendInv, AheadInv, OrderInv, Trimmed, disk

\* Sending and dropping touch no record the ledger lists.
LEMMA DrainSendInv ==
  IInv /\ IInv' /\ SendInv /\ (Send \/ DropReport \/ Drained) => SendInv'
<1> SUFFICES ASSUME IInv, IInv', SendInv, Send \/ DropReport \/ Drained PROVE SendInv' OBVIOUS
<1>1. ledger' = ledger /\ files' \subseteq files /\ ledger.pending \cap files = {}
  BY Zenon DEF SendInv, AheadInv, Send, DropReport, Drained, disk
<1>2. pc \in {"drain", "drop"} /\ mem.pending = {} /\ op # "open" /\ mem' = mem
  BY Zenon DEF IInv, PendingInv, DrainInv, Send, DropReport, Drained, Abort
<1>3. pc' \in {"idle", "drain", "drop"}
  BY <1>2 DEF Send, DropReport, Drained, Abort
<1>4. QED BY <1>1, <1>2, <1>3 DEF SendInv, AheadInv, OrderInv

\* What is past the age cut stays past it.
LEMMA AgeSendInv == IInv /\ IInv' /\ SendInv /\ Age => SendInv'
<1> SUFFICES ASSUME IInv, IInv', SendInv, Age PROVE SendInv' OBVIOUS
<1>1. Retirable \subseteq Retirable'
  <2>1. TypeOK /\ TypeOK' /\ horizon \in 0 .. N /\ horizon' = horizon + 1 /\ files' = files
    BY Zenon DEF IInv, TypeOK, Age, disk
  <2>2. horizon <= horizon' BY <2>1, SpoolConstants
  <2>3. QED BY Zenon, <2>1, <2>2, RetirableGrows
<1>2. UNCHANGED <<files, ledger, mem, pc, retiring, ret>> BY DEF Age, disk, work
<1>3. QED BY Zenon, <1>1, <1>2 DEF SendInv, AheadInv, OrderInv

\* After a power failure the Store is gone.
LEMMA CrashSendInv == SendInv /\ Crash => SendInv'
BY DEF SendInv, AheadInv, OrderInv, Crash

\* A step that changes nothing keeps SendInv.
LEMMA StutterSendInv == SendInv /\ UNCHANGED vars => SendInv'
BY DEF SendInv, AheadInv, OrderInv, Retirable, vars, disk, work

\* Initially the Store is down.
LEMMA InitSendInv == Init => SendInv
BY DEF Init, SendInv, AheadInv, OrderInv

----------------------------------------------------------------------------
(* Theorems *)

\* Every reachable state of the spool satisfies the inductive invariant.
THEOREM SpoolInvariant == Spec => []IInv
<1>1. IInv /\ [Next]_vars => IInv'
  <2> SUFFICES ASSUME IInv, [Next]_vars PROVE IInv' OBVIOUS
  <2>1. CASE Step
    BY <2>1, OpenIInv, RemoveIInv, SyncIInv, ClearIInv, ListIInv, TrimIInv,
       RetireIInv, TrimmedIInv, SendIInv, DropIInv, DrainedIInv DEF Step
  <2>2. CASE Push \/ Age \/ Crash BY <2>2, PushIInv, AgeIInv, CrashIInv
  <2>3. CASE UNCHANGED vars BY <2>3, StutterIInv
  <2>4. QED BY <2>1, <2>2, <2>3 DEF Next
<1>2. QED BY InitIInv, <1>1, PTL DEF Spec

\* The spool's variables keep their types for any number of reports and faults.
THEOREM SpoolTypeOK == Spec => []TypeOK
<1>1. IInv => TypeOK BY DEF IInv
<1>2. QED BY SpoolInvariant, <1>1, PTL

\* finishLossLocked and retireLossLocked count every retired record exactly once
\* in both the visible and the durable ledger, whatever fails or crashes.
THEOREM SpoolLossCountedOnce == Spec => []LossCountedOnce
<1>1. IInv => LossCountedOnce BY DEF IInv, CountInv, Counts, LossCountedOnce
<1>2. QED BY SpoolInvariant, <1>1, PTL

\* A report whose Push succeeded is on disk, committed or counted as lost.
THEOREM SpoolNoSilentLoss == Spec => []NoSilentLoss
<1>1. IInv => NoSilentLoss BY DEF IInv, KeptInv
<1>2. QED BY SpoolInvariant, <1>1, PTL

\* drain never sends a record that the ledger counts as lost, although the
\* visible ledger may be ahead of the Store after a save that failed late.
THEOREM SpoolLostNeverSent == Spec => []LostNeverSent
<1>1. IInv /\ IInv' /\ SendInv /\ [Next]_vars => SendInv'
  <2> SUFFICES ASSUME IInv, IInv', SendInv, [Next]_vars PROVE SendInv' OBVIOUS
  <2>1. CASE Step
    BY <2>1, OpenSendInv, RemoveSendInv, SyncSendInv, ClearSendInv, ListSendInv, TrimSendInv,
       RetireSendInv, TrimmedSendInv, DrainSendInv DEF Step
  <2>2. CASE Push \/ Age \/ Crash BY <2>2, PushSendInv, AgeSendInv, CrashSendInv
  <2>3. CASE UNCHANGED vars BY <2>3, StutterSendInv
  <2>4. QED BY <2>1, <2>2, <2>3 DEF Next
<1>2. Spec => []SendInv BY SpoolInvariant, InitSendInv, <1>1, PTL DEF Spec
<1>3. IInv /\ SendInv => LostNeverSent
  BY DEF IInv, SendInv, AheadInv, DrainInv, ReplayInv, PendingInv, LostNeverSent
<1>4. QED BY SpoolInvariant, <1>2, <1>3, PTL

\* The loss ledger is exact, whatever fails or crashes: each retired record is
\* counted once, the counter keeps its range, and nothing counted is sent.
THEOREM SpoolLedgerExact == Spec => []LedgerExact
<1>1. TypeOK /\ LossCountedOnce /\ LostNeverSent => LedgerExact BY DEF LedgerExact
<1>2. QED BY SpoolTypeOK, SpoolLossCountedOnce, SpoolLostNeverSent, <1>1, PTL
=============================================================================
