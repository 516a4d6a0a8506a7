--------------------------- MODULE RolloutProofs ---------------------------
(***************************************************************************)
(* Proofs about Rollout: the order of the waves, the observation between   *)
(* them, the gate before every dispatch and the owner's controls, for any  *)
(* number of agents, platforms, controls and faults, any batch size and    *)
(* any observation time.                                                   *)
(***************************************************************************)
EXTENDS Rollout, TLAPS, FiniteSetTheorems

-----------------------------------------------------------------------------
(* The inductive invariant.                                                *)

Dispatched == {"queued", "delivered", "accepted", "succeeded", "unknown"}

\* The present wave separates the confirmed members from the held ones.
Ordered ==
    /\ state = "none" => wave = 0
    /\ \A n \in Members : WaveOf[n] < wave => job[n] = "succeeded"
    /\ \A m \in Members : job[m] \in Dispatched => WaveOf[m] <= wave

\* The persisted observation stands for observations that were made.
Watching ==
    since # 0 =>
        /\ last # 0 /\ since <= last /\ last <= now /\ last \in seen
        /\ \A t \in since .. last : \E o \in seen : o <= t /\ t - o <= Gap

\* What AdvanceRollouts checked still holds when the claim runs.
Gated == step = "claim" /\ state = "running" => ~Failed

\* A revision names one state and one wave.
Viewed ==
    /\ view.rev <= rev
    /\ view.rev = rev => view.state = state /\ view.wave = wave

IInv ==
    /\ TypeOK
    /\ Ordered
    /\ CompletedMeansAll
    /\ OperationCurrent
    /\ CancelHolds
    /\ Watching
    /\ Gated
    /\ Viewed

-----------------------------------------------------------------------------
(* Waves and statuses.                                                     *)

\* The canaries and the members before a member are finite sets, so
\* assignWaves numbers every member with a natural number, and no regular
\* member is in a canary's wave or before it.
LEMMA WaveFacts ==
    /\ \A m \in Members : WaveOf[m] \in Nat
    /\ \A m \in Members \ Canaries(Platform), n \in Canaries(Platform) :
            n \in Members /\ WaveOf[n] < WaveOf[m]
<1> DEFINE first == Canaries(Platform)
<1>1. DOMAIN Platform = Members /\ IsFiniteSet(Members) /\ BatchSize \in Nat \ {0}
  BY RolloutConstants
<1>2. first \subseteq Members
  BY <1>1 DEF Canaries
<1>3. IsFiniteSet(first) /\ Cardinality(first) \in Nat
  BY <1>1, <1>2, FS_Subset, FS_CardinalityType
<1>4. ASSUME NEW m \in first
      PROVE  /\ Cardinality({n \in first : Precedes(Platform, n, m)}) \in Nat
             /\ Cardinality({n \in first : Precedes(Platform, n, m)}) < Cardinality(first)
  <2> DEFINE before == {n \in first : Precedes(Platform, n, m)}
  <2>1. before \in SUBSET first
    OBVIOUS
  <2>2. IsFiniteSet(before) /\ Cardinality(before) <= Cardinality(first)
        /\ (Cardinality(first) = Cardinality(before) => first = before)
    BY <1>3, <2>1, FS_Subset
  <2>3. Platform[m] \in Nat /\ m \in Nat
    BY <1>2, RolloutConstants
  <2>4. m \notin before
    BY <2>3 DEF Precedes
  <2>5. Cardinality(before) \in Nat
    BY <2>2, FS_CardinalityType
  <2> QED
    BY <1>3, <2>2, <2>4, <2>5
<1>5. ASSUME NEW m \in Members
      PROVE  Cardinality({n \in DOMAIN Platform \ first : Precedes(Platform, n, m)})
                 \div BatchSize \in Nat
  <2> DEFINE before == {n \in DOMAIN Platform \ first : Precedes(Platform, n, m)}
  <2>1. before \in SUBSET Members
    BY <1>1
  <2>2. Cardinality(before) \in Nat
    BY <1>1, <2>1, FS_Subset, FS_CardinalityType
  <2> QED
    BY <1>1, <2>2
<1>6. \A m \in first : WaveOf[m] \in Nat /\ WaveOf[m] < Cardinality(first)
  BY <1>2, <1>4 DEF WaveOf, Wave
<1>7. \A m \in Members \ first : WaveOf[m] \in Nat /\ Cardinality(first) <= WaveOf[m]
  <2> TAKE m \in Members \ first
  <2> DEFINE d == Cardinality({n \in DOMAIN Platform \ first : Precedes(Platform, n, m)})
                      \div BatchSize
  <2>1. d \in Nat
    BY <1>5
  <2>2. WaveOf[m] = Cardinality(first) + d
    BY DEF WaveOf, Wave
  <2> HIDE DEF d
  <2> QED
    BY <1>3, <2>1, <2>2
<1> QED
  BY <1>2, <1>3, <1>6, <1>7

\* refreshOperationTx knows no other status.
LEMMA AggregateType == \A j, s : Aggregate(j, s) \in OpStatuses
BY DEF Aggregate, OpStatuses

\* The parent of a running rollout runs, whatever its targets.
LEMMA AggregateRunning == \A j : Aggregate(j, "running") = "running"
BY Zenon DEF Aggregate

\* What a release of wave w over the statuses j does: it runs or blocks, under
\* a new revision, and hands out only held members of that wave.
Released(w, j) ==
    /\ state' \in {"running", "blocked"} /\ rev' = rev + 1
    /\ since' = 0 /\ seen' = {} /\ last' \in Nat
    /\ op' = Aggregate(job', state')
    /\ job' \in [Members -> JobStatuses]
    /\ released' \subseteq Members /\ due' \subseteq Members
    /\ \A m \in Members : \/ job'[m] = j[m]
                          \/ j[m] = "held" /\ job'[m] = "queued" /\ WaveOf[m] = w

LEMMA ReleaseEffect ==
    ASSUME TypeOK, NEW w \in Nat, NEW j \in [Members -> JobStatuses], ReleaseWave(w, j)
    PROVE  Released(w, j)
<1> USE DEF TypeOK, ReleaseWave, JobStatuses, Open, Released
<1> DEFINE S == InWave(w) \ released
<1>1. CASE metaDue \/ planDue \/ \E m \in S : j[m] # "held" \/ m \in unfit
  BY <1>1 DEF SetState
<1>2. CASE ~(metaDue \/ planDue \/ \E m \in S : j[m] # "held" \/ m \in unfit)
  <2>1. S \subseteq Members /\ \A m \in S : WaveOf[m] = w /\ j[m] = "held"
    BY Zenon, <1>2 DEF InWave
  <2>2. /\ job' = [m \in Members |-> IF m \in S THEN "queued" ELSE j[m]]
        /\ released' = released \cup S /\ due' = due \ S
        /\ state' = "running" /\ rev' = rev + 1 /\ since' = 0 /\ last' = now
        /\ seen' = {} /\ op' = Aggregate(job', "running")
    BY <1>2
  <2> HIDE DEF S, ReleaseWave
  <2> QED
    BY Zenon, <2>1, <2>2
<1> QED
  BY Zenon, <1>1, <1>2

-----------------------------------------------------------------------------
(* The invariant is inductive.                                             *)

\* The outcomes of advanceRolloutTx, one per exit of the code.
Healthy == state = "running" /\ ~Troubled /\ WaveSucceeded
Stay == /\ Healthy
        /\ now - WatchedSince < Observe
        /\ since' = WatchedSince /\ last' = now /\ seen' = seen \cup {now}
        /\ UNCHANGED <<state, rev, wave, job, released, op, due>>
Complete == /\ Healthy /\ now - WatchedSince >= Observe /\ LastWave
            /\ UNCHANGED <<wave, job, released, due>> /\ SetState("completed")
Proceed == /\ Healthy /\ now - WatchedSince >= Observe
           /\ wave' = wave + 1 /\ ReleaseWave(wave + 1, job)
Quiet == Idle /\ ~(state = "running" /\ Troubled)

LEMMA InitIInv == Init => IInv
<1> SUFFICES ASSUME Init PROVE IInv OBVIOUS
<1> USE DEF Init
<1>1. TypeOK
  <2>1. 0 \in 0 .. MaxControls /\ 0 \in 0 .. MaxFaults
    BY RolloutConstants
  <2>2. view \in [rev : Nat, state : States, wave : Nat]
    BY DEF States
  <2>3. job \in [Members -> JobStatuses]
    BY DEF JobStatuses, Open
  <2>4. state \in States /\ op \in OpStatuses
    BY DEF States, OpStatuses
  <2>5. planDue \in BOOLEAN /\ metaDue \in BOOLEAN
    BY Zenon
  <2>6. /\ {rev, wave, since, last} \subseteq Nat /\ now \in Nat \ {0} /\ seen \subseteq Nat
        /\ controls = 0 /\ faults = 0 /\ step = "idle" /\ poll = 0
        /\ released = {} /\ due = {} /\ lost = {} /\ unfit = {}
    OBVIOUS
  <2> HIDE DEF Init
  <2> QED
    BY <2>1, <2>2, <2>3, <2>4, <2>5, <2>6 DEF TypeOK
<1>2. Ordered
  BY WaveFacts DEF Ordered, Dispatched
<1> QED
  BY <1>1, <1>2 DEF IInv, CompletedMeansAll, OperationCurrent, CancelHolds, Watching, Gated,
     Viewed

LEMMA RejectPlanIInv == IInv /\ RejectPlan => IInv'
<1> SUFFICES ASSUME IInv, RejectPlan PROVE IInv' OBVIOUS
<1> USE DEF IInv, RejectPlan, plan, flags, lock, bounds
<1>1. TypeOK'
  BY Zenon, RolloutConstants, AggregateType DEF TypeOK, States, JobStatuses, Open, Failure
<1>2. Ordered'
  BY WaveFacts DEF TypeOK, Ordered, Dispatched
<1>3. CompletedMeansAll'
  BY DEF TypeOK, CompletedMeansAll
<1>4. OperationCurrent'
  BY DEF TypeOK, OperationCurrent
<1>5. CancelHolds'
  BY DEF TypeOK, CancelHolds
<1>6. Watching'
  BY RolloutConstants DEF TypeOK, Watching
<1>7. Gated'
  BY DEF TypeOK, Gated, Failed, Failure
<1>8. Viewed'
  BY DEF TypeOK, Viewed
<1> QED
  BY <1>1, <1>2, <1>3, <1>4, <1>5, <1>6, <1>7, <1>8

LEMMA BeginIInv == \A p \in Members \cup {0} : IInv /\ Begin(p) => IInv'
<1> SUFFICES ASSUME NEW p \in Members \cup {0}, IInv, Begin(p) PROVE IInv' OBVIOUS
<1> USE DEF IInv, Begin, plan, flags, bounds, ExpiredJobs
<1>1. TypeOK'
  <2>1. TypeOK
    BY Zenon
  <2>2. job' \in [Members -> JobStatuses]
    BY <2>1 DEF TypeOK, JobStatuses, Open, Failure
  <2>3. op' \in OpStatuses
    BY Zenon, <2>1, AggregateType DEF TypeOK
  <2> QED
    BY Zenon, <2>1, <2>2, <2>3 DEF TypeOK
<1>2. Ordered'
  BY WaveFacts DEF TypeOK, Ordered, Dispatched
<1>3. CompletedMeansAll'
  BY Zenon DEF TypeOK, CompletedMeansAll
<1>4. OperationCurrent'
  BY Zenon DEF TypeOK, OperationCurrent
<1>5. CancelHolds'
  BY Zenon DEF TypeOK, CancelHolds
<1>6. Watching'
  BY Zenon, RolloutConstants DEF TypeOK, Watching
<1>7. Gated'
  BY DEF TypeOK, Gated, Failed, Failure
<1>8. Viewed'
  BY DEF TypeOK, Viewed
<1> QED
  BY <1>1, <1>2, <1>3, <1>4, <1>5, <1>6, <1>7, <1>8

LEMMA ClaimIInv == IInv /\ Claim => IInv'
<1> SUFFICES ASSUME IInv, Claim PROVE IInv' OBVIOUS
<1> USE DEF IInv, Claim, plan, flags, bounds
<1>1. TypeOK'
  BY Zenon, RolloutConstants, AggregateType DEF TypeOK, States, JobStatuses, Open, Failure
<1>2. Ordered'
  BY Zenon, WaveFacts DEF TypeOK, Ordered, Dispatched
<1>3. CompletedMeansAll'
  BY DEF TypeOK, CompletedMeansAll
<1>4. OperationCurrent'
  <2>1. job' = job \/ state = "running"
    OBVIOUS
  <2> QED
    BY <2>1, AggregateRunning DEF OperationCurrent
<1>5. CancelHolds'
  BY Zenon DEF TypeOK, CancelHolds
<1>6. Watching'
  BY Zenon, RolloutConstants DEF TypeOK, Watching
<1>7. Gated'
  BY DEF TypeOK, Gated, Failed, Failure
<1>8. Viewed'
  BY DEF TypeOK, Viewed
<1> QED
  BY <1>1, <1>2, <1>3, <1>4, <1>5, <1>6, <1>7, <1>8

LEMMA InterruptedIInv == IInv /\ Interrupted => IInv'
<1> SUFFICES ASSUME IInv, Interrupted PROVE IInv' OBVIOUS
<1> USE DEF IInv, Interrupted, plan, flags
<1>1. TypeOK'
  BY RolloutConstants, AggregateType DEF TypeOK, States, JobStatuses, Open, Failure
<1>2. Ordered'
  BY WaveFacts DEF TypeOK, Ordered, Dispatched
<1>3. CompletedMeansAll'
  BY DEF TypeOK, CompletedMeansAll
<1>4. OperationCurrent'
  BY DEF TypeOK, OperationCurrent
<1>5. CancelHolds'
  BY DEF TypeOK, CancelHolds
<1>6. Watching'
  BY RolloutConstants DEF TypeOK, Watching
<1>7. Gated'
  BY DEF TypeOK, Gated, Failed, Failure
<1>8. Viewed'
  BY DEF TypeOK, Viewed
<1> QED
  BY <1>1, <1>2, <1>3, <1>4, <1>5, <1>6, <1>7, <1>8

LEMMA ReceiptIInv == \A m \in Members, s \in JobStatuses : IInv /\ Receipt(m, s) => IInv'
<1> SUFFICES ASSUME NEW m \in Members, NEW s \in JobStatuses, IInv, Receipt(m, s) PROVE IInv' OBVIOUS
<1> USE DEF IInv, Receipt, plan, lock, bounds
<1>1. TypeOK'
  BY RolloutConstants, AggregateType DEF TypeOK, States, JobStatuses, Open, Failure
<1>2. Ordered'
  BY WaveFacts DEF TypeOK, Ordered, Dispatched
<1>3. CompletedMeansAll'
  BY DEF TypeOK, CompletedMeansAll
<1>4. OperationCurrent'
  BY DEF TypeOK, OperationCurrent
<1>5. CancelHolds'
  BY Zenon DEF TypeOK, CancelHolds
<1>6. Watching'
  BY RolloutConstants DEF TypeOK, Watching
<1>7. Gated'
  BY Zenon DEF TypeOK, Gated, Failed, Failure
<1>8. Viewed'
  BY DEF TypeOK, Viewed
<1> QED
  BY <1>1, <1>2, <1>3, <1>4, <1>5, <1>6, <1>7, <1>8

LEMMA LookIInv == IInv /\ Look => IInv'
<1> SUFFICES ASSUME IInv, Look PROVE IInv' OBVIOUS
<1> USE DEF IInv, Look, plan, flags, lock, bounds
<1>1. TypeOK'
  BY Zenon, RolloutConstants, AggregateType DEF TypeOK, States, JobStatuses, Open, Failure
<1>2. Ordered'
  BY Zenon, WaveFacts DEF TypeOK, Ordered, Dispatched
<1>3. CompletedMeansAll'
  BY Zenon DEF TypeOK, CompletedMeansAll
<1>4. OperationCurrent'
  BY Zenon DEF TypeOK, OperationCurrent
<1>5. CancelHolds'
  BY Zenon DEF TypeOK, CancelHolds
<1>6. Watching'
  BY Zenon, RolloutConstants DEF TypeOK, Watching
<1>7. Gated'
  BY Zenon DEF TypeOK, Gated, Failed, Failure
<1>8. Viewed'
  BY DEF TypeOK, Viewed
<1> QED
  BY Zenon, <1>1, <1>2, <1>3, <1>4, <1>5, <1>6, <1>7, <1>8

LEMMA PauseIInv == IInv /\ Pause => IInv'
<1> SUFFICES ASSUME IInv, Pause PROVE IInv' OBVIOUS
<1> USE DEF IInv, Pause, ByOwner, Switch, SetState, flags, lock
<1>1. TypeOK'
  BY RolloutConstants, AggregateType DEF TypeOK, States, JobStatuses, Open, Failure
<1>2. Ordered'
  BY Zenon, WaveFacts DEF TypeOK, Ordered, Dispatched
<1>3. CompletedMeansAll'
  BY Zenon DEF TypeOK, CompletedMeansAll
<1>4. OperationCurrent'
  BY Zenon DEF TypeOK, OperationCurrent
<1>5. CancelHolds'
  BY Zenon DEF TypeOK, CancelHolds
<1>6. Watching'
  BY Zenon, RolloutConstants DEF TypeOK, Watching
<1>7. Gated'
  BY Zenon DEF TypeOK, Gated, Failed, Failure
<1>8. Viewed'
  BY DEF TypeOK, Viewed
<1> QED
  BY <1>1, <1>2, <1>3, <1>4, <1>5, <1>6, <1>7, <1>8

LEMMA ResumeIInv == IInv /\ Resume => IInv'
<1> SUFFICES ASSUME IInv, Resume PROVE IInv' OBVIOUS
<1> USE DEF IInv, Resume, ByOwner, Switch, SetState, flags, lock
<1>1. TypeOK'
  BY RolloutConstants, AggregateType DEF TypeOK, States, JobStatuses, Open, Failure
<1>2. Ordered'
  BY WaveFacts DEF TypeOK, Ordered, Dispatched
<1>3. CompletedMeansAll'
  BY Zenon DEF TypeOK, CompletedMeansAll
<1>4. OperationCurrent'
  BY Zenon DEF TypeOK, OperationCurrent
<1>5. CancelHolds'
  BY Zenon DEF TypeOK, CancelHolds
<1>6. Watching'
  BY RolloutConstants DEF TypeOK, Watching
<1>7. Gated'
  BY DEF TypeOK, Gated, Failed, Failure
<1>8. Viewed'
  BY DEF TypeOK, Viewed
<1> QED
  BY <1>1, <1>2, <1>3, <1>4, <1>5, <1>6, <1>7, <1>8

LEMMA CancelIInv == IInv /\ Cancel => IInv'
<1> SUFFICES ASSUME IInv, Cancel PROVE IInv' OBVIOUS
<1> USE DEF IInv, Cancel, ByOwner, SetState, flags, lock
<1>1. TypeOK'
  <2>1. job' \in [Members -> JobStatuses]
    BY DEF TypeOK, JobStatuses, Open
  <2>2. state' \in States /\ rev' \in Nat /\ since' \in Nat /\ last' \in Nat /\ seen' \subseteq Nat
    <3>1. CASE state \in {"none", "completed", "cancelled"}
      BY Zenon, <3>1 DEF TypeOK
    <3>2. CASE state \notin {"none", "completed", "cancelled"}
      BY <3>2 DEF TypeOK, States
    <3> QED
      BY Zenon, <3>1, <3>2
  <2>3. op' \in OpStatuses
    BY AggregateType
  <2>4. controls' \in 0 .. MaxControls
    BY RolloutConstants DEF TypeOK
  <2> QED
    BY Zenon, <2>1, <2>2, <2>3, <2>4 DEF TypeOK
<1>2. Ordered'
  BY Zenon, WaveFacts DEF TypeOK, Ordered, Dispatched
<1>3. CompletedMeansAll'
  BY Zenon DEF TypeOK, CompletedMeansAll
<1>4. OperationCurrent'
  BY DEF TypeOK, OperationCurrent
<1>5. CancelHolds'
  BY Zenon DEF TypeOK, CancelHolds
<1>6. Watching'
  BY SMTT(30), RolloutConstants DEF TypeOK, Watching
<1>7. Gated'
  BY DEF TypeOK, Gated, Failed, Failure
<1>8. Viewed'
  BY DEF TypeOK, Viewed
<1> QED
  BY <1>1, <1>2, <1>3, <1>4, <1>5, <1>6, <1>7, <1>8

LEMMA PassIInv == IInv /\ Pass => IInv'
<1> SUFFICES ASSUME IInv, Pass PROVE IInv' OBVIOUS
<1> USE DEF IInv, Pass, plan, flags, lock, bounds
<1>1. TypeOK'
  BY RolloutConstants, AggregateType DEF TypeOK, States, JobStatuses, Open, Failure
<1>2. Ordered'
  BY Zenon, WaveFacts DEF TypeOK, Ordered, Dispatched
<1>3. CompletedMeansAll'
  BY Zenon DEF TypeOK, CompletedMeansAll
<1>4. OperationCurrent'
  BY Zenon DEF TypeOK, OperationCurrent
<1>5. CancelHolds'
  BY Zenon DEF TypeOK, CancelHolds
<1>6. Watching'
  BY RolloutConstants DEF TypeOK, Watching
<1>7. Gated'
  BY Zenon DEF TypeOK, Gated, Failed, Failure
<1>8. Viewed'
  BY DEF TypeOK, Viewed
<1> QED
  BY <1>1, <1>2, <1>3, <1>4, <1>5, <1>6, <1>7, <1>8

LEMMA PlanEndsIInv == IInv /\ PlanEnds => IInv'
<1> SUFFICES ASSUME IInv, PlanEnds PROVE IInv' OBVIOUS
<1> USE DEF IInv, PlanEnds, plan, lock, bounds
<1>1. TypeOK'
  BY RolloutConstants, AggregateType DEF TypeOK, States, JobStatuses, Open, Failure
<1>2. Ordered'
  BY Zenon, WaveFacts DEF TypeOK, Ordered, Dispatched
<1>3. CompletedMeansAll'
  BY Zenon DEF TypeOK, CompletedMeansAll
<1>4. OperationCurrent'
  BY Zenon DEF TypeOK, OperationCurrent
<1>5. CancelHolds'
  BY Zenon DEF TypeOK, CancelHolds
<1>6. Watching'
  BY RolloutConstants DEF TypeOK, Watching
<1>7. Gated'
  BY DEF TypeOK, Gated, Failed, Failure
<1>8. Viewed'
  BY DEF TypeOK, Viewed
<1> QED
  BY Zenon, <1>1, <1>2, <1>3, <1>4, <1>5, <1>6, <1>7, <1>8

LEMMA MetadataExpiresIInv == IInv /\ MetadataExpires => IInv'
<1> SUFFICES ASSUME IInv, MetadataExpires PROVE IInv' OBVIOUS
<1> USE DEF IInv, MetadataExpires, plan, lock, bounds
<1>1. TypeOK'
  BY RolloutConstants, AggregateType DEF TypeOK, States, JobStatuses, Open, Failure
<1>2. Ordered'
  BY WaveFacts DEF TypeOK, Ordered, Dispatched
<1>3. CompletedMeansAll'
  BY DEF TypeOK, CompletedMeansAll
<1>4. OperationCurrent'
  BY DEF TypeOK, OperationCurrent
<1>5. CancelHolds'
  BY DEF TypeOK, CancelHolds
<1>6. Watching'
  BY RolloutConstants DEF TypeOK, Watching
<1>7. Gated'
  BY Zenon DEF TypeOK, Gated, Failed, Failure
<1>8. Viewed'
  BY Zenon DEF TypeOK, Viewed
<1> QED
  BY <1>1, <1>2, <1>3, <1>4, <1>5, <1>6, <1>7, <1>8

LEMMA JobDueIInv == \A m \in Members : IInv /\ JobDue(m) => IInv'
<1> SUFFICES ASSUME NEW m \in Members, IInv, JobDue(m) PROVE IInv' OBVIOUS
<1> USE DEF IInv, JobDue, plan, lock, bounds
<1>1. TypeOK'
  BY RolloutConstants, AggregateType DEF TypeOK, States, JobStatuses, Open, Failure
<1>2. Ordered'
  BY Zenon, WaveFacts DEF TypeOK, Ordered, Dispatched
<1>3. CompletedMeansAll'
  BY Zenon DEF TypeOK, CompletedMeansAll
<1>4. OperationCurrent'
  BY DEF TypeOK, OperationCurrent
<1>5. CancelHolds'
  BY Zenon DEF TypeOK, CancelHolds
<1>6. Watching'
  BY Zenon, RolloutConstants DEF TypeOK, Watching
<1>7. Gated'
  BY DEF TypeOK, Gated, Failed, Failure
<1>8. Viewed'
  BY DEF TypeOK, Viewed
<1> QED
  BY <1>1, <1>2, <1>3, <1>4, <1>5, <1>6, <1>7, <1>8

LEMMA ContactIInv == \A m \in Members : IInv /\ Contact(m) => IInv'
<1> SUFFICES ASSUME NEW m \in Members, IInv, Contact(m) PROVE IInv' OBVIOUS
<1> USE DEF IInv, Contact, plan, lock, bounds
<1>1. TypeOK'
  BY SMTT(30), RolloutConstants, AggregateType DEF TypeOK, States, JobStatuses, Open, Failure
<1>2. Ordered'
  BY Zenon, WaveFacts DEF TypeOK, Ordered, Dispatched
<1>3. CompletedMeansAll'
  BY DEF TypeOK, CompletedMeansAll
<1>4. OperationCurrent'
  BY DEF TypeOK, OperationCurrent
<1>5. CancelHolds'
  BY Zenon DEF TypeOK, CancelHolds
<1>6. Watching'
  BY Zenon, RolloutConstants DEF TypeOK, Watching
<1>7. Gated'
  BY Zenon DEF TypeOK, Gated, Failed, Failure
<1>8. Viewed'
  BY DEF TypeOK, Viewed
<1> QED
  BY <1>1, <1>2, <1>3, <1>4, <1>5, <1>6, <1>7, <1>8

LEMMA PrerequisitesIInv == \A m \in Members : IInv /\ Prerequisites(m) => IInv'
<1> SUFFICES ASSUME NEW m \in Members, IInv, Prerequisites(m) PROVE IInv' OBVIOUS
<1> USE DEF IInv, Prerequisites, plan, lock, bounds
<1>1. TypeOK'
  BY SMTT(30), RolloutConstants, AggregateType DEF TypeOK, States, JobStatuses, Open, Failure
<1>2. Ordered'
  BY Zenon, WaveFacts DEF TypeOK, Ordered, Dispatched
<1>3. CompletedMeansAll'
  BY DEF TypeOK, CompletedMeansAll
<1>4. OperationCurrent'
  BY Zenon DEF TypeOK, OperationCurrent
<1>5. CancelHolds'
  BY Zenon DEF TypeOK, CancelHolds
<1>6. Watching'
  BY Zenon, RolloutConstants DEF TypeOK, Watching
<1>7. Gated'
  BY Zenon DEF TypeOK, Gated, Failed, Failure
<1>8. Viewed'
  BY DEF TypeOK, Viewed
<1> QED
  BY Zenon, <1>1, <1>2, <1>3, <1>4, <1>5, <1>6, <1>7, <1>8

LEMMA FinishIInv == IInv /\ Advance /\ Finish => IInv'
<1> SUFFICES ASSUME IInv, Advance /\ Finish PROVE IInv' OBVIOUS
<1> USE DEF IInv, Advance, Finish, SetState, Closed, Open, bounds
<1>1. TypeOK'
  BY SMTT(30), RolloutConstants, AggregateType DEF TypeOK, States, JobStatuses, Open, Failure
<1>2. Ordered'
  BY WaveFacts DEF TypeOK, Ordered, Dispatched
<1>3. CompletedMeansAll'
  BY DEF TypeOK, CompletedMeansAll
<1>4. OperationCurrent'
  BY DEF TypeOK, OperationCurrent
<1>5. CancelHolds'
  BY Zenon DEF TypeOK, CancelHolds
<1>6. Watching'
  BY RolloutConstants DEF TypeOK, Watching
<1>7. Gated'
  BY DEF TypeOK, Gated, Failed, Failure
<1>8. Viewed'
  BY DEF TypeOK, Viewed
<1> QED
  BY <1>1, <1>2, <1>3, <1>4, <1>5, <1>6, <1>7, <1>8

LEMMA BlockIInv == IInv /\ Advance /\ Block => IInv'
<1> SUFFICES ASSUME IInv, Advance /\ Block PROVE IInv' OBVIOUS
<1> USE DEF IInv, Advance, Block, SetState, bounds
<1>1. TypeOK'
  <2>1. TypeOK
    BY Zenon
  <2>2. state' \in States /\ {rev', since', last'} \subseteq Nat /\ seen' \subseteq Nat
    BY <2>1 DEF TypeOK, States
  <2>3. op' \in OpStatuses
    BY Zenon, AggregateType
  <2>4. step' \in {"idle", "claim"} /\ (step' = "claim" => poll # 0)
        /\ (step' = "idle" => poll = 0)
    BY Zenon
  <2> QED
    BY Zenon, <2>1, <2>2, <2>3, <2>4 DEF TypeOK
<1>2. Ordered'
  BY WaveFacts DEF TypeOK, Ordered, Dispatched
<1>3. CompletedMeansAll'
  BY DEF TypeOK, CompletedMeansAll
<1>4. OperationCurrent'
  BY DEF TypeOK, OperationCurrent
<1>5. CancelHolds'
  BY DEF TypeOK, CancelHolds
<1>6. Watching'
  BY RolloutConstants DEF TypeOK, Watching
<1>7. Gated'
  BY DEF TypeOK, Gated, Failed, Failure
<1>8. Viewed'
  BY DEF TypeOK, Viewed
<1> QED
  BY Zenon, <1>1, <1>2, <1>3, <1>4, <1>5, <1>6, <1>7, <1>8

LEMMA IdleIInv == IInv /\ Advance /\ Quiet => IInv'
<1> SUFFICES ASSUME IInv, Advance /\ Quiet PROVE IInv' OBVIOUS
<1> USE DEF IInv, Advance, Quiet, Idle, Active, plan, bounds
<1>1. TypeOK'
  BY RolloutConstants, AggregateType DEF TypeOK, States, JobStatuses, Open, Failure
<1>2. Ordered'
  BY WaveFacts DEF TypeOK, Ordered, Dispatched
<1>3. CompletedMeansAll'
  BY DEF TypeOK, CompletedMeansAll
<1>4. OperationCurrent'
  BY DEF TypeOK, OperationCurrent
<1>5. CancelHolds'
  BY DEF TypeOK, CancelHolds
<1>6. Watching'
  BY RolloutConstants DEF TypeOK, Watching
<1>7. Gated'
  BY Zenon DEF TypeOK, Gated, Troubled, Failed
<1>8. Viewed'
  BY DEF TypeOK, Viewed
<1> QED
  BY <1>1, <1>2, <1>3, <1>4, <1>5, <1>6, <1>7, <1>8

LEMMA StayIInv == IInv /\ Advance /\ Stay => IInv'
<1> SUFFICES ASSUME IInv, Advance /\ Stay PROVE IInv' OBVIOUS
<1> USE DEF IInv, Advance, Stay, Healthy, bounds
<1>1. TypeOK'
  <2>1. WatchedSince \in Nat
    BY Zenon DEF TypeOK, WatchedSince
  <2> QED
    BY <2>1 DEF TypeOK
<1>2. Ordered'
  BY WaveFacts DEF TypeOK, Ordered, Dispatched
<1>3. CompletedMeansAll'
  BY Zenon DEF TypeOK, CompletedMeansAll
<1>4. OperationCurrent'
  BY Zenon DEF TypeOK, OperationCurrent
<1>5. CancelHolds'
  BY Zenon DEF TypeOK, CancelHolds
<1>6. Watching'
  <2>1. CASE WatchedSince = now
    BY SMTT(30), <2>1, RolloutConstants DEF TypeOK, Watching
  <2>2. CASE WatchedSince # now
    <3>1. /\ since # 0 /\ last # 0 /\ last <= now /\ now - last <= Gap
          /\ WatchedSince = since /\ {since, last, now, Gap} \subseteq Nat
      BY SMTT(30), <2>2, RolloutConstants DEF TypeOK, WatchedSince
    <3>2. since <= last /\ last \in seen
      BY <3>1 DEF Watching
    <3>3. ASSUME NEW t \in since .. now
          PROVE  \E o \in seen' : o <= t /\ t - o <= Gap
      <4>1. CASE t <= last
        BY <3>1, <3>2, <4>1 DEF Watching
      <4>2. CASE ~(t <= last)
        BY <3>1, <3>2, <4>2
      <4> QED
        BY <4>1, <4>2
    <3> QED
      BY <3>1, <3>2, <3>3 DEF Watching
  <2> QED
    BY <2>1, <2>2
<1>7. Gated'
  BY DEF TypeOK, Gated, Troubled, Failed
<1>8. Viewed'
  BY DEF TypeOK, Viewed
<1> QED
  BY Zenon, <1>1, <1>2, <1>3, <1>4, <1>5, <1>6, <1>7, <1>8

LEMMA CompleteIInv == IInv /\ Advance /\ Complete => IInv'
<1> SUFFICES ASSUME IInv, Advance /\ Complete PROVE IInv' OBVIOUS
<1> USE DEF IInv, Advance, Complete, Healthy, SetState, bounds
<1>1. TypeOK'
  <2>1. TypeOK
    BY Zenon
  <2>2. state' \in States /\ {rev', since', last'} \subseteq Nat /\ seen' \subseteq Nat
    BY <2>1 DEF TypeOK, States
  <2>3. op' \in OpStatuses
    BY Zenon, AggregateType
  <2>4. step' \in {"idle", "claim"} /\ (step' = "claim" => poll # 0)
        /\ (step' = "idle" => poll = 0)
    BY Zenon
  <2> QED
    BY Zenon, <2>1, <2>2, <2>3, <2>4 DEF TypeOK
<1>2. Ordered'
  BY Zenon, WaveFacts DEF TypeOK, Ordered, Dispatched
<1>3. CompletedMeansAll'
  <2>1. wave \in Nat /\ job' = job
    BY Zenon DEF TypeOK
  <2>2. ASSUME NEW m \in Members PROVE job[m] = "succeeded"
    <3>1. WaveOf[m] \in Nat /\ WaveOf[m] <= wave
      BY Zenon, WaveFacts DEF LastWave
    <3>2. WaveOf[m] < wave => job[m] = "succeeded"
      BY Zenon DEF Ordered
    <3>3. WaveOf[m] = wave => job[m] = "succeeded"
      BY Zenon DEF WaveSucceeded, InWave
    <3> HIDE DEF IInv, Advance, Complete, Healthy, SetState
    <3> QED
      BY <2>1, <3>1, <3>2, <3>3
  <2> QED
    BY Zenon, <2>1, <2>2 DEF CompletedMeansAll
<1>4. OperationCurrent'
  BY Zenon DEF TypeOK, OperationCurrent
<1>5. CancelHolds'
  BY Zenon DEF TypeOK, CancelHolds
<1>6. Watching'
  BY RolloutConstants DEF TypeOK, Watching
<1>7. Gated'
  BY DEF TypeOK, Gated, Failed, Failure
<1>8. Viewed'
  BY DEF TypeOK, Viewed
<1> QED
  BY <1>1, <1>2, <1>3, <1>4, <1>5, <1>6, <1>7, <1>8

LEMMA ProceedIInv == IInv /\ Advance /\ Proceed => IInv'
<1> SUFFICES ASSUME IInv, Advance /\ Proceed PROVE IInv' OBVIOUS
<1> USE DEF IInv, Advance, Proceed, Healthy, bounds
<1>a. TypeOK /\ wave' = wave + 1 /\ ReleaseWave(wave + 1, job) /\ WaveSucceeded
      /\ step' = (IF poll = 0 THEN "idle" ELSE "claim")
      /\ UNCHANGED <<planDue, metaDue, lost, unfit, now, poll, view, controls, faults>>
  BY Zenon
<1>b. wave \in Nat /\ rev \in Nat /\ job \in [Members -> JobStatuses] /\ Ordered
  BY Zenon DEF TypeOK
<1>c. wave + 1 \in Nat /\ rev + 1 \in Nat
  BY <1>b
<1>0. /\ state' \in {"running", "blocked"} /\ rev' = rev + 1
      /\ since' = 0 /\ seen' = {} /\ last' \in Nat
      /\ op' = Aggregate(job', state')
      /\ job' \in [Members -> JobStatuses]
      /\ released' \subseteq Members /\ due' \subseteq Members
      /\ \A m \in Members : \/ job'[m] = job[m]
                            \/ job'[m] = "queued" /\ WaveOf[m] = wave + 1
  <2>1. Released(wave + 1, job)
    BY Zenon, <1>a, <1>b, <1>c, ReleaseEffect
  <2> QED
    BY Zenon, <2>1 DEF Released
<1>1. TypeOK'
  <2>1. state' \in States /\ since' \in Nat /\ op' \in OpStatuses
    BY <1>0, AggregateType DEF States
  <2> QED
    BY Zenon, <1>a, <1>c, <1>0, <2>1 DEF TypeOK
<1>2. Ordered'
  <2>1. ASSUME NEW n \in Members, WaveOf[n] < wave + 1 PROVE job'[n] = "succeeded"
    <3>1. WaveOf[n] \in Nat
      BY Zenon, WaveFacts
    <3>2. WaveOf[n] < wave => job[n] = "succeeded"
      BY Zenon, <1>b DEF Ordered
    <3>3. WaveOf[n] = wave => job[n] = "succeeded"
      BY Zenon, <1>a DEF WaveSucceeded, InWave
    <3>4. job'[n] = job[n] \/ WaveOf[n] = wave + 1
      BY Zenon, <1>0
    <3> HIDE DEF IInv, Advance, Proceed, Healthy
    <3> QED
      BY <1>b, <2>1, <3>1, <3>2, <3>3, <3>4
  <2>2. ASSUME NEW n \in Members, job'[n] \in Dispatched PROVE WaveOf[n] <= wave + 1
    <3>1. WaveOf[n] \in Nat
      BY Zenon, WaveFacts
    <3>2. WaveOf[n] <= wave \/ WaveOf[n] = wave + 1
      BY Zenon, <1>0, <1>b, <2>2 DEF Ordered
    <3> HIDE DEF IInv, Advance, Proceed, Healthy
    <3> QED
      BY <1>b, <3>1, <3>2
  <2>3. state' # "none"
    BY <1>0
  <2> QED
    BY Zenon, <1>a, <2>1, <2>2, <2>3 DEF Ordered
<1>3. CompletedMeansAll'
  BY <1>0 DEF TypeOK, CompletedMeansAll
<1>4. OperationCurrent'
  BY <1>0 DEF TypeOK, OperationCurrent
<1>5. CancelHolds'
  BY <1>0 DEF TypeOK, CancelHolds
<1>6. Watching'
  BY <1>0, RolloutConstants DEF TypeOK, Watching
<1>7. Gated'
  BY Zenon, <1>0 DEF TypeOK, Gated, Troubled, Failed, Failure
<1>8. Viewed'
  BY <1>0 DEF TypeOK, Viewed
<1> QED
  BY Zenon, <1>1, <1>2, <1>3, <1>4, <1>5, <1>6, <1>7, <1>8

LEMMA PublishIInv == IInv /\ Publish => IInv'
<1> SUFFICES ASSUME IInv, Publish PROVE IInv' OBVIOUS
<1> USE DEF IInv, Publish, lock, bounds
<1>a. /\ TypeOK /\ wave' = 0 /\ ReleaseWave(0, [m \in Members |-> "held"])
      /\ UNCHANGED <<planDue, metaDue, lost, unfit, now, step, poll, view, controls, faults>>
  BY Zenon
<1>b. rev + 1 \in Nat /\ [m \in Members |-> "held"] \in [Members -> JobStatuses]
  BY <1>a DEF TypeOK, JobStatuses, Open
<1>0. /\ state' \in {"running", "blocked"} /\ rev' = rev + 1
      /\ since' = 0 /\ seen' = {} /\ last' \in Nat
      /\ op' = Aggregate(job', state')
      /\ job' \in [Members -> JobStatuses]
      /\ released' \subseteq Members /\ due' \subseteq Members
      /\ \A m \in Members : \/ job'[m] = "held"
                            \/ job'[m] = "queued" /\ WaveOf[m] = 0
  <2>1. Released(0, [m \in Members |-> "held"])
    BY Zenon, <1>a, <1>b, ReleaseEffect
  <2> QED
    BY Zenon, <2>1 DEF Released
<1>1. TypeOK'
  <2>1. state' \in States /\ since' \in Nat /\ wave' \in Nat /\ op' \in OpStatuses
    BY <1>a, <1>0, AggregateType DEF States
  <2> QED
    BY Zenon, <1>a, <1>b, <1>0, <2>1 DEF TypeOK
<1>2. Ordered'
  <2>1. \A n \in Members : ~(WaveOf[n] < 0)
    BY WaveFacts
  <2>2. ASSUME NEW n \in Members, job'[n] \in Dispatched PROVE WaveOf[n] <= 0
    BY <1>0, <2>2 DEF Dispatched
  <2> QED
    BY Zenon, <1>a, <2>1, <2>2 DEF Ordered
<1>3. CompletedMeansAll'
  BY Zenon, <1>0 DEF TypeOK, CompletedMeansAll
<1>4. OperationCurrent'
  BY Zenon, <1>0 DEF TypeOK, OperationCurrent
<1>5. CancelHolds'
  BY Zenon, <1>0 DEF TypeOK, CancelHolds
<1>6. Watching'
  BY <1>0, RolloutConstants DEF TypeOK, Watching
<1>7. Gated'
  BY <1>0 DEF TypeOK, Gated, Failed, Failure
<1>8. Viewed'
  BY <1>0 DEF TypeOK, Viewed
<1> QED
  BY <1>1, <1>2, <1>3, <1>4, <1>5, <1>6, <1>7, <1>8

\* Every exit of advanceRolloutTx is one of the outcomes above.
LEMMA AdvanceOutcomes ==
    IInv /\ Advance => Finish \/ (state \in {"running", "paused"} /\ Block)
                       \/ Stay \/ Complete \/ Proceed \/ Quiet
<1> SUFFICES ASSUME IInv, Advance
             PROVE  Finish \/ (state \in {"running", "paused"} /\ Block)
                    \/ Stay \/ Complete \/ Proceed \/ Quiet
  OBVIOUS
<1>1. CASE state = "running" /\ ~Troubled /\ WaveSucceeded /\ Watch
  <2>1. WatchedSince \in Nat /\ now \in Nat /\ Observe \in Nat
    BY RolloutConstants DEF IInv, TypeOK, WatchedSince
  <2>2. CASE now - WatchedSince < Observe
    BY <1>1, <2>2 DEF Watch, Stay, Healthy
  <2>3. CASE ~(now - WatchedSince < Observe)
    <3>1. now - WatchedSince >= Observe
      BY <2>1, <2>3
    <3> QED
      BY <1>1, <2>3, <3>1 DEF Watch, Complete, Proceed, Healthy
  <2> QED
    BY <2>2, <2>3
<1>2. CASE ~(state = "running" /\ ~Troubled /\ WaveSucceeded /\ Watch)
  BY <1>2 DEF Advance, AdvanceRollout, Quiet, Active
<1> QED
  BY <1>1, <1>2

LEMMA AdvanceIInv == IInv /\ Advance => IInv'
BY AdvanceOutcomes, FinishIInv, BlockIInv, StayIInv, CompleteIInv, ProceedIInv, IdleIInv

LEMMA StutterIInv == IInv /\ UNCHANGED vars => IInv'
<1> SUFFICES ASSUME IInv, UNCHANGED vars PROVE IInv' OBVIOUS
<1> USE DEF IInv, vars, plan, flags, lock, bounds
<1>1. TypeOK' /\ Ordered' /\ CompletedMeansAll'
  BY DEF TypeOK, Ordered, CompletedMeansAll
<1>2. OperationCurrent' /\ CancelHolds'
  BY DEF OperationCurrent, CancelHolds
<1>3. Watching' /\ Gated' /\ Viewed'
  BY DEF Watching, Gated, Failed, Viewed
<1> QED
  BY <1>1, <1>2, <1>3

LEMMA NextIInv == IInv /\ [Next]_vars => IInv'
<1>1. IInv /\ Controller => IInv'
  BY PublishIInv, RejectPlanIInv, BeginIInv, AdvanceIInv, ClaimIInv, InterruptedIInv,
     ReceiptIInv DEF Controller
<1>2. IInv /\ Owner => IInv'
  BY LookIInv, PauseIInv, ResumeIInv, CancelIInv DEF Owner
<1>3. IInv /\ Environment => IInv'
  BY PassIInv, PlanEndsIInv, MetadataExpiresIInv, JobDueIInv, ContactIInv, PrerequisitesIInv
     DEF Environment
<1> QED
  BY <1>1, <1>2, <1>3, StutterIInv DEF Next

\* The invariant holds of every state the controller can reach.
THEOREM RolloutInvariant == Spec => []IInv
BY InitIInv, NextIInv, PTL DEF Spec

-----------------------------------------------------------------------------
(* What follows for the states.                                            *)

\* The rows, the view and the transaction in progress always have their types.
THEOREM RolloutTypeOK == Spec => []TypeOK
<1>1. IInv => TypeOK
  BY DEF IInv
<1> QED
  BY <1>1, RolloutInvariant, PTL

\* No agent is handed its job before every earlier wave, and no regular agent
\* before every canary, has confirmed the update.
THEOREM RolloutCanariesFirst == Spec => []CanariesFirst
<1>1. IInv => CanariesFirst
  <2> SUFFICES ASSUME IInv, NEW m \in Members,
                      job[m] \in {"queued", "delivered", "accepted", "succeeded"}
               PROVE  /\ \A n \in Members : WaveOf[n] < WaveOf[m] => job[n] = "succeeded"
                      /\ m \notin Canaries(Platform) =>
                            \A n \in Canaries(Platform) : job[n] = "succeeded"
    BY DEF CanariesFirst
  <2>1. WaveOf[m] <= wave /\ wave \in Nat
    BY DEF IInv, Ordered, Dispatched, TypeOK
  <2>2. \A n \in Members : WaveOf[n] < WaveOf[m] => job[n] = "succeeded"
    BY SMTT(30), <2>1, WaveFacts DEF IInv, Ordered
  <2> QED
    BY <2>2, WaveFacts
<1> QED
  BY <1>1, RolloutInvariant, PTL

\* A completed rollout has updated every frozen member.
THEOREM RolloutCompletedMeansAll == Spec => []CompletedMeansAll
<1>1. IInv => CompletedMeansAll
  BY DEF IInv
<1> QED
  BY <1>1, RolloutInvariant, PTL

\* The parent operation is never stale, and a cancelled rollout leaves nothing
\* to hand out.
THEOREM RolloutOperationCurrent == Spec => [](OperationCurrent /\ CancelHolds)
<1>1. IInv => OperationCurrent /\ CancelHolds
  BY DEF IInv
<1> QED
  BY <1>1, RolloutInvariant, PTL

-----------------------------------------------------------------------------
(* What follows for the steps.                                             *)

\* The steps that change the rollout row; all others leave it alone.
LEMMA RowSteps ==
    IInv /\ [Next]_vars =>
        \/ UNCHANGED <<state, wave>>
        \/ state = "none" /\ state' \in {"running", "blocked"} /\ wave' = wave
        \/ Advance
        \/ view.rev = rev /\ {state, state'} = {"running", "paused"} /\ wave' = wave
        \/ state' = "cancelling" /\ wave' = wave
<1> SUFFICES ASSUME IInv, [Next]_vars
             PROVE  \/ UNCHANGED <<state, wave>>
                    \/ state = "none" /\ state' \in {"running", "blocked"} /\ wave' = wave
                    \/ Advance
                    \/ view.rev = rev /\ {state, state'} = {"running", "paused"} /\ wave' = wave
                    \/ state' = "cancelling" /\ wave' = wave
  OBVIOUS
<1>1. CASE Publish
  <2>1. state = "none" /\ wave' = wave
    BY <1>1 DEF Publish, IInv, Ordered
  <2>2. state' \in {"running", "blocked"}
    BY Zenon, <1>1 DEF Publish, ReleaseWave, SetState
  <2> QED
    BY <2>1, <2>2
<1>2. CASE RejectPlan \/ (\E p \in Members \cup {0} : Begin(p)) \/ Claim \/ Interrupted
           \/ \E m \in Members, s \in JobStatuses : Receipt(m, s)
  BY Zenon, <1>2 DEF RejectPlan, Begin, Claim, Interrupted, Receipt, plan
<1>3. CASE Look \/ Environment \/ UNCHANGED vars
  BY <1>3 DEF Look, Environment, Pass, PlanEnds, MetadataExpires, JobDue, Contact,
     Prerequisites, vars, plan
<1>4. CASE Pause \/ Resume
  BY <1>4 DEF Pause, Resume, Switch, SetState
<1>5. CASE Cancel
  BY <1>5 DEF Cancel, SetState
<1> QED
  BY <1>1, <1>2, <1>3, <1>4, <1>5 DEF Next, Controller, Owner

\* A blocked rollout never runs again.
THEOREM RolloutBlockedStays == Spec => BlockedStays
<1>1. IInv /\ [Next]_vars => [state = "blocked" => state' \in {"blocked", "cancelling"}]_vars
  <2> SUFFICES ASSUME IInv, [Next]_vars, state = "blocked"
               PROVE  state' \in {"blocked", "cancelling"}
    OBVIOUS
  <2>1. CASE Advance
    BY <2>1 DEF Advance, AdvanceRollout, Finish, Idle, Active, plan
  <2> QED
    BY <2>1, RowSteps
<1> QED
  BY <1>1, RolloutInvariant, PTL DEF Spec, BlockedStays

\* Pausing and resuming act on the state and the wave the owner had read.
THEOREM RolloutControlSeesState == Spec => ControlSeesState
<1>1. IInv /\ [Next]_vars =>
        [({state, state'} = {"running", "paused"}) => view.state = state /\ view.wave = wave]_vars
  <2> SUFFICES ASSUME IInv, [Next]_vars, {state, state'} = {"running", "paused"}
               PROVE  view.state = state /\ view.wave = wave
    OBVIOUS
  <2>1. state # state' /\ {state, state'} \subseteq {"running", "paused"}
    OBVIOUS
  <2>2. ~Advance
    <3> SUFFICES ASSUME Advance PROVE FALSE
      OBVIOUS
    <3> QED
      BY <2>1, AdvanceOutcomes DEF Finish, Block, Stay, Complete, Proceed,
         Quiet, Idle, Healthy, SetState, ReleaseWave, plan
  <2>3. view.rev = rev
    BY <2>1, <2>2, RowSteps
  <2> QED
    BY <2>3 DEF IInv, Viewed
<1> QED
  BY <1>1, RolloutInvariant, PTL DEF Spec, ControlSeesState

\* The next wave, or completion, comes only after uninterrupted observation.
THEOREM RolloutWatchedBeforeMoving == Spec => WatchedBeforeMoving
<1> DEFINE Moves == wave' # wave \/ (state' = "completed" /\ state # "completed")
<1>1. IInv /\ [Next]_vars => [Moves => now >= Observe /\ Covered(now - Observe, now)]_vars
  <2> SUFFICES ASSUME IInv, [Next]_vars, Moves
               PROVE  now >= Observe /\ Covered(now - Observe, now)
    OBVIOUS
  <2>1. Advance
    BY RowSteps
  <2>2. now - WatchedSince >= Observe
    BY <2>1, AdvanceOutcomes DEF Finish, Block, Stay, Complete, Proceed, Quiet, Idle,
       SetState, plan
  <2>3. {now, since, last, Observe, Gap} \subseteq Nat /\ Observe # 0
    BY RolloutConstants DEF IInv, TypeOK
  <2>4. /\ since # 0 /\ last <= now /\ now - last <= Gap
        /\ now - since >= Observe
    BY <2>2, <2>3 DEF WatchedSince
  <2>5. since <= last /\ last \in seen
    BY <2>4 DEF IInv, Watching
  <2>6. ASSUME NEW t \in (now - Observe) .. now
        PROVE  \E o \in seen \cup {now} : o <= t /\ t - o <= Gap
    <3>1. t \in Nat /\ since <= t /\ t <= now
      BY <2>3, <2>4
    <3>2. CASE t <= last
      BY <2>3, <2>4, <3>1, <3>2 DEF IInv, Watching
    <3>3. CASE ~(t <= last)
      BY <2>3, <2>4, <2>5, <3>1, <3>3
    <3> QED
      BY <3>2, <3>3
  <2> QED
    BY <2>3, <2>4, <2>6 DEF Covered
<1> QED
  BY <1>1, RolloutInvariant, PTL DEF Spec, WatchedBeforeMoving

\* A job is handed out only while its rollout runs and no member has failed.
THEOREM RolloutDispatchGated == Spec => DispatchGated
<1> DEFINE Hands(m) == job[m] = "queued" /\ job'[m] = "delivered"
<1>1. IInv /\ [Next]_vars => [\A m \in Members : Hands(m) => state = "running" /\ ~Failed]_vars
  <2> SUFFICES ASSUME IInv, [Next]_vars, NEW m \in Members, Hands(m)
               PROVE  state = "running" /\ ~Failed
    OBVIOUS
  <2>1. CASE Claim
    BY <2>1 DEF Claim, IInv, Gated, TypeOK
  <2>2. CASE Advance
    <3>1. job' = job \/ Proceed
      BY <2>2, AdvanceOutcomes DEF Finish, Block, Stay, Complete, Quiet, Idle
    <3>2. CASE Proceed
      <4>1. TypeOK /\ wave \in Nat /\ job \in [Members -> JobStatuses]
            /\ ReleaseWave(wave + 1, job)
        BY Zenon, <3>2 DEF Proceed, IInv, TypeOK
      <4>2. wave + 1 \in Nat
        BY <4>1
      <4>3. Released(wave + 1, job)
        BY Zenon, <4>1, <4>2, ReleaseEffect
      <4>4. job'[m] = job[m] \/ job'[m] = "queued"
        BY Zenon, <4>3 DEF Released
      <4> QED
        BY <4>4
    <3> QED
      BY <3>1, <3>2
  <2>3. CASE Publish \/ RejectPlan \/ (\E p \in Members \cup {0} : Begin(p)) \/ Interrupted
             \/ \E n \in Members, s \in JobStatuses : Receipt(n, s)
    BY <2>3 DEF Publish, RejectPlan, Begin, ExpiredJobs, Interrupted, Receipt, IInv, TypeOK
  <2>4. CASE Owner
    BY <2>4 DEF Owner, Look, Pause, Resume, Switch, Cancel, IInv, TypeOK
  <2>5. CASE Environment \/ UNCHANGED vars
    BY <2>5 DEF Environment, Pass, PlanEnds, MetadataExpires, JobDue, Contact, Prerequisites,
       vars
  <2> QED
    BY <2>1, <2>2, <2>3, <2>4, <2>5 DEF Next, Controller
<1> QED
  BY <1>1, RolloutInvariant, PTL DEF Spec, DispatchGated

\* The parent operation is current and cancellation holds, in typed states.
THEOREM RolloutIsSound == Spec => []RolloutSound
<1>1. TypeOK /\ OperationCurrent /\ CancelHolds => RolloutSound BY DEF RolloutSound
<1> QED BY RolloutTypeOK, RolloutOperationCurrent, <1>1, PTL

\* Dispatch, blocking and the owner's controls keep to what was seen.
THEOREM RolloutControlSafe == Spec => ControlSafe
BY RolloutDispatchGated, RolloutBlockedStays, RolloutControlSeesState DEF ControlSafe
=============================================================================
