------------------------------- MODULE Rollout -------------------------------
(***************************************************************************)
(* One batched update on the controller (internal/storage/rollouts.go,     *)
(* ops.go, job_lifecycle.go, internal/server/rollouts.go): the frozen      *)
(* waves, their release, observation, pause, resume, cancellation and the  *)
(* status of the parent operation.                                         *)
(*                                                                         *)
(* Every operation runs under controlMu; the background ticker and an      *)
(* agent's poll take several transactions under one hold of it, and may    *)
(* fail or stop with the controller between any two (step).  All other     *)
(* state is in the database, so a restart of the controller is a time in   *)
(* which nothing advances.                                                 *)
(*                                                                         *)
(* The deadlines of jobs, of the plan and of the release metadata pass at  *)
(* any time.  "queued" stands for queued and waiting_offline, "accepted"   *)
(* for all progress, "failed" for failed, rejected, unsupported and        *)
(* rolled_back.                                                            *)
(***************************************************************************)
EXTENDS RolloutWaves

CONSTANTS
    Members, Platform, BatchSize,
    Observe,        \* ObserveSeconds
    Gap,            \* longest time between two observations (15 s)
    MaxTime, MaxControls, MaxFaults     \* bounds on time, owner's actions, faults

ASSUME RolloutConstants ==
    /\ Members \subseteq Nat \ {0} /\ IsFiniteSet(Members) /\ Members # {}
    /\ Platform \in [Members -> Nat]
    /\ {BatchSize, Observe, Gap} \subseteq Nat \ {0}
    /\ {MaxTime, MaxControls, MaxFaults} \subseteq Nat

VARIABLES
    state, rev, wave, since, last,  \* update_rollouts; 0 is the empty time
    job, released,                  \* agent_jobs with its target; released_at
    op,                             \* operations.status
    due, planDue, metaDue,          \* deadlines that have passed
    lost, unfit,                    \* no fresh matching contact; prerequisites gone
    now,                            \* the controller's clock
    step, poll,                     \* transaction of the running advance; its agent
    view, controls, faults,         \* what the owner last read
    seen                            \* when the present wave was found healthy

plan == <<state, rev, wave, since, last>>
flags == <<due, planDue, metaDue, lost, unfit>>
lock == <<step, poll>>
bounds == <<controls, faults>>
vars == <<plan, job, released, op, flags, now, lock, view, bounds, seen>>

States == {"none", "running", "paused", "blocked", "cancelling", "cancelled", "completed"}
Active == {"running", "paused", "cancelling"}
Open == {"preparing", "held", "queued", "delivered", "accepted"}
Failure == {"failed", "expired", "unknown"}
JobStatuses == Open \cup Failure \cup {"succeeded", "cancelled"}
OpStatuses == {"queued", "running", "errors", "cancelled", "attention", "completed"}

WaveOf == [m \in Members |-> Wave(Platform, BatchSize, m)]
InWave(w) == {m \in Members : WaveOf[m] = w}
LastWave == \A m \in Members : WaveOf[m] <= wave

Init ==
    /\ state = "none" /\ rev = 1 /\ wave = 0 /\ since = 0 /\ last = 0
    /\ job = [m \in Members |-> "preparing"] /\ released = {}
    /\ op = "queued"
    /\ due = {} /\ planDue = FALSE /\ metaDue = FALSE /\ lost = {} /\ unfit = {}
    /\ now = 1 /\ step = "idle" /\ poll = 0
    /\ view = [rev |-> 0, state |-> "none", wave |-> 0]
    /\ controls = 0 /\ faults = 0 /\ seen = {}

\* refreshOperationTx: the parent's status from its targets and the rollout.
Aggregate(j, s) ==
    LET is(S) == \E m \in Members : j[m] \in S
        targets == CASE is(Open) -> "running"
                     [] ~is(Open) /\ is(Failure) -> "errors"
                     [] ~is(Open \cup Failure \cup {"succeeded"}) -> "cancelled"
                     [] ~is(Open \cup Failure) /\ is({"succeeded"}) /\ is({"cancelled"}) -> "attention"
                     [] OTHER -> "completed"
    IN  CASE s = "running" -> "running"
          [] s \in {"paused", "blocked"} -> "attention"
          [] OTHER -> targets

-----------------------------------------------------------------------------
(* Transactions on the rollout.  Each leaves the wave to its caller.       *)

\* setRolloutStateTx followed by refreshOperationTx.
SetState(s) ==
    /\ state' = s /\ rev' = rev + 1 /\ since' = 0 /\ seen' = {}
    /\ op' = Aggregate(job', s)
    /\ UNCHANGED last

\* releaseWaveTx: all members of wave w or none.
ReleaseWave(w, j) ==
    LET S == InWave(w) \ released
    IN  IF metaDue \/ planDue \/ \E m \in S : j[m] # "held" \/ m \in unfit
        THEN /\ job' = j
             /\ SetState("blocked")
             /\ UNCHANGED <<released, due>>
        ELSE /\ job' = [m \in Members |-> IF m \in S THEN "queued" ELSE j[m]]
             /\ released' = released \cup S
             /\ due' = due \ S
             /\ state' = "running" /\ rev' = rev + 1 /\ since' = 0 /\ last' = now
             /\ seen' = {}
             /\ op' = Aggregate(job', "running")

\* PublishBatchedUpdatePlan: every frozen target passed the preflight.
Publish ==
    /\ step = "idle" /\ state = "none" /\ unfit = {}
    /\ \A m \in Members : job[m] = "preparing"
    /\ wave' = 0
    /\ ReleaseWave(0, [m \in Members |-> "held"])
    /\ UNCHANGED <<planDue, metaDue, lost, unfit, now, lock, view, bounds>>

\* The preflight failed: no partial rollout.
RejectPlan ==
    /\ step = "idle" /\ state = "none"
    /\ \A m \in Members : job[m] = "preparing"
    /\ job' = [m \in Members |-> "failed"]
    /\ op' = Aggregate(job', state)
    /\ UNCHANGED <<plan, released, flags, now, lock, view, bounds, seen>>

-----------------------------------------------------------------------------
(* AdvanceRollouts, by the ticker (p = 0) or before the claim of agent p.  *)

ExpiredJobs ==
    [m \in Members |->
        IF m \notin due THEN job[m]
        ELSE IF job[m] \in {"preparing", "queued"} THEN "expired"
        ELSE IF job[m] \in {"delivered", "accepted"} THEN "unknown" ELSE job[m]]

BeginUnrefreshed(p) ==
    /\ step = "idle" /\ step' = "advance" /\ poll' = p
    /\ job' = ExpiredJobs
    /\ UNCHANGED <<plan, released, op, flags, now, view, bounds, seen>>

\* expireAndBlockJobs.
Begin(p) ==
    /\ step = "idle" /\ step' = "advance" /\ poll' = p
    /\ job' = ExpiredJobs
    /\ op' = IF job' = job THEN op ELSE Aggregate(job', state)
    /\ UNCHANGED <<plan, released, flags, now, view, bounds, seen>>

Failed == \E m \in Members : job[m] \in Failure
LostContact == \E m \in released \cap lost : job[m] = "succeeded"
WaveSucceeded == \A m \in InWave(wave) : job[m] = "succeeded"

WatchedSinceUnbroken == IF since = 0 THEN now ELSE since

\* Observation starts over after a gap in which the controller was not looking.
WatchedSince ==
    IF since = 0 \/ last = 0 \/ now < last \/ now - last > Gap THEN now ELSE since

Block ==
    /\ UNCHANGED <<wave, job, released, due>>
    /\ SetState("blocked")

\* The wave is healthy: keep watching, complete, or release the next one.
Watch ==
    IF now - WatchedSince < Observe
    THEN /\ since' = WatchedSince /\ last' = now
         /\ seen' = seen \cup {now}
         /\ UNCHANGED <<state, rev, wave, job, released, op, due>>
    ELSE IF LastWave
    THEN UNCHANGED <<wave, job, released, due>> /\ SetState("completed")
    ELSE wave' = wave + 1 /\ ReleaseWave(wave + 1, job)

Closed == \A m \in Members : job[m] \notin Open
Troubled == planDue \/ Failed \/ (state = "running" /\ LostContact)

Finish ==
    /\ state = "cancelling" /\ Closed
    /\ UNCHANGED <<wave, job, released, due>>
    /\ SetState("cancelled")

Idle == UNCHANGED <<plan, job, released, op, due, seen>>

AdvancePausedIdle ==
    \/ Finish
    \/ state = "running" /\ Troubled /\ Block
    \/ state = "running" /\ ~Troubled /\ WaveSucceeded /\ Watch
    \/ /\ \/ state \notin {"cancelling", "running"}
          \/ state = "cancelling" /\ ~Closed
          \/ state = "running" /\ ~Troubled /\ ~WaveSucceeded
       /\ Idle

\* advanceRolloutTx.
AdvanceRollout ==
    \/ Finish
    \/ state \in {"running", "paused"} /\ Troubled /\ Block
    \/ state = "running" /\ ~Troubled /\ WaveSucceeded /\ Watch
    \/ /\ \/ state \notin Active
          \/ state = "cancelling" /\ ~Closed
          \/ state = "paused" /\ ~Troubled
          \/ state = "running" /\ ~Troubled /\ ~WaveSucceeded
       /\ Idle

Advance ==
    /\ step = "advance"
    /\ AdvanceRollout
    /\ step' = IF poll = 0 THEN "idle" ELSE "claim"
    /\ UNCHANGED <<planDue, metaDue, lost, unfit, now, poll, view, bounds>>

\* ClaimPendingJobs: durable before the reply leaves.
Claim ==
    /\ step = "claim" /\ step' = "idle" /\ poll' = 0
    /\ job' = IF job[poll] = "queued" /\ poll \notin due /\ state = "running"
              THEN [job EXCEPT ![poll] = "delivered"] ELSE job
    /\ UNCHANGED <<plan, released, op, flags, now, view, bounds, seen>>

\* A statement fails, or the controller stops, between two transactions.
Interrupted ==
    /\ step # "idle" /\ step' = "idle" /\ poll' = 0
    /\ faults < MaxFaults /\ faults' = faults + 1
    /\ UNCHANGED <<plan, job, released, op, flags, now, view, controls, seen>>

-----------------------------------------------------------------------------
(* Receipts and the owner.                                                 *)

\* ApplyReceipt for a job its agent has: success is proved by the contact that
\* reports it.
Receipt(m, s) ==
    /\ step = "idle" /\ job[m] \in {"delivered", "accepted", "unknown"}
    /\ s \in {"accepted", "succeeded", "failed"}
    /\ job' = [job EXCEPT ![m] = s]
    /\ lost' = IF s = "succeeded" THEN lost \ {m} ELSE lost
    /\ op' = Aggregate(job', state)
    /\ UNCHANGED <<plan, released, due, planDue, metaDue, unfit, now, lock, view, bounds, seen>>

Look ==
    /\ controls < MaxControls
    /\ view' = [rev |-> rev, state |-> state, wave |-> wave]
    /\ UNCHANGED <<plan, job, released, op, flags, now, lock, bounds, seen>>

ByOwner ==
    /\ step = "idle"
    /\ controls < MaxControls /\ controls' = controls + 1

Switch(s) ==
    /\ UNCHANGED <<wave, job, released, flags, now, lock, view, faults>>
    /\ SetState(s)

PauseUnchecked ==
    /\ ByOwner /\ view.rev > 0
    /\ state = "running" /\ Switch("paused")

\* ControlRollout at the revision the owner has seen.
Pause ==
    /\ ByOwner /\ view.rev = rev
    /\ state = "running" /\ Switch("paused")

ResumeBlocked ==
    /\ ByOwner /\ view.rev = rev
    /\ state \in {"paused", "blocked"} /\ ~planDue /\ ~metaDue /\ ~Failed
    /\ Switch("running")

Resume ==
    /\ ByOwner /\ view.rev = rev
    /\ state = "paused" /\ ~planDue /\ ~metaDue /\ ~Failed
    /\ Switch("running")

CancelReleased ==
    /\ ByOwner
    /\ job' = [m \in Members |-> IF job[m] \in {"preparing", "queued"}
                                 THEN "cancelled" ELSE job[m]]
    /\ IF state \in {"none", "completed", "cancelled"}
       THEN op' = Aggregate(job', state) /\ UNCHANGED <<state, rev, since, last, seen>>
       ELSE SetState("cancelling")
    /\ UNCHANGED <<wave, released, flags, now, lock, view, faults>>

\* CancelPending.
Cancel ==
    /\ ByOwner
    /\ job' = [m \in Members |-> IF job[m] \in {"preparing", "held", "queued"}
                                 THEN "cancelled" ELSE job[m]]
    /\ IF state \in {"none", "completed", "cancelled"}
       THEN op' = Aggregate(job', state) /\ UNCHANGED <<state, rev, since, last, seen>>
       ELSE SetState("cancelling")
    /\ UNCHANGED <<wave, released, flags, now, lock, view, faults>>

-----------------------------------------------------------------------------
(* The environment.                                                        *)

Pass ==
    /\ now < MaxTime /\ now' = now + 1
    /\ UNCHANGED <<plan, job, released, op, flags, lock, view, bounds, seen>>

JobDue(m) ==
    /\ m \notin due /\ job[m] \in {"preparing", "queued", "delivered", "accepted"}
    /\ due' = due \cup {m}
    /\ UNCHANGED <<plan, job, released, op, planDue, metaDue, lost, unfit, now, lock, view,
                   bounds, seen>>

PlanEnds ==
    /\ ~planDue /\ planDue' = TRUE
    /\ UNCHANGED <<plan, job, released, op, due, metaDue, lost, unfit, now, lock, view, bounds,
                   seen>>

MetadataExpires ==
    /\ ~metaDue /\ metaDue' = TRUE
    /\ UNCHANGED <<plan, job, released, op, due, planDue, lost, unfit, now, lock, view, bounds,
                   seen>>

\* An updated worker restarts, falls silent or is heard again.
Contact(m) ==
    /\ job[m] = "succeeded"
    /\ lost' = IF m \in lost THEN lost \ {m} ELSE lost \cup {m}
    /\ UNCHANGED <<plan, job, released, op, due, planDue, metaDue, unfit, now, lock, view,
                   bounds, seen>>

\* Revoked, archived, no longer managed or capable; or as before again.
Prerequisites(m) ==
    /\ job[m] \in {"preparing", "held"}
    /\ unfit' = IF m \in unfit THEN unfit \ {m} ELSE unfit \cup {m}
    /\ UNCHANGED <<plan, job, released, op, due, planDue, metaDue, lost, now, lock, view,
                   bounds, seen>>

Controller ==
    \/ Publish
    \/ RejectPlan
    \/ \E p \in Members \cup {0} : Begin(p)
    \/ Advance
    \/ Claim
    \/ Interrupted
    \/ \E m \in Members, s \in JobStatuses : Receipt(m, s)

Owner == Look \/ Pause \/ Resume \/ Cancel

Environment ==
    \/ Pass
    \/ PlanEnds
    \/ MetadataExpires
    \/ \E m \in Members : JobDue(m) \/ Contact(m) \/ Prerequisites(m)

Next == Controller \/ Owner \/ Environment

Spec == Init /\ [][Next]_vars

\* The ticker of rolloutBackground keeps firing, and deadlines pass.
Fairness ==
    /\ WF_vars(\E p \in Members \cup {0} : Begin(p))
    /\ WF_vars(Advance) /\ WF_vars(Claim)
    /\ WF_vars(PlanEnds) /\ \A m \in Members : WF_vars(JobDue(m))

FairSpec == Spec /\ Fairness

-----------------------------------------------------------------------------
(* Properties.                                                             *)

\* The rows, the owner's view and the transaction in progress have the values
\* the schema and the code give them.
TypeOK ==
    /\ state \in States /\ rev \in Nat /\ wave \in Nat /\ since \in Nat /\ last \in Nat
    /\ job \in [Members -> JobStatuses] /\ released \subseteq Members
    /\ op \in OpStatuses
    /\ due \subseteq Members /\ lost \subseteq Members /\ unfit \subseteq Members
    /\ planDue \in BOOLEAN /\ metaDue \in BOOLEAN
    /\ now \in Nat \ {0}
    /\ step \in {"idle", "advance", "claim"} /\ poll \in Members \cup {0}
    /\ (step = "claim" => poll # 0) /\ (step = "idle" => poll = 0)
    /\ view \in [rev : Nat, state : States, wave : Nat]
    /\ controls \in 0 .. MaxControls /\ faults \in 0 .. MaxFaults
    /\ seen \subseteq Nat

\* A regular agent gets its job only after the canary of every platform has
\* confirmed the update, and any agent only after all earlier waves: whatever
\* is paused, resumed, cancelled, interrupted or late.
CanariesFirst ==
    \A m \in Members : job[m] \in {"queued", "delivered", "accepted", "succeeded"} =>
        /\ \A n \in Members : WaveOf[n] < WaveOf[m] => job[n] = "succeeded"
        /\ m \notin Canaries(Platform) => \A n \in Canaries(Platform) : job[n] = "succeeded"

\* A completed rollout has updated every frozen member.
CompletedMeansAll ==
    state = "completed" => \A m \in Members : job[m] = "succeeded"

\* The owner sees the operation as its targets and its rollout are: every
\* transaction that changes either also refreshes the parent.
OperationCurrent ==
    op # "queued" => op = Aggregate(job, state)

\* After a cancellation nothing is left that a poll could still be given.
CancelHolds ==
    state \in {"cancelling", "cancelled"} =>
        \A m \in Members : job[m] \notin {"preparing", "held", "queued"}

\* A job is handed out only while its rollout runs and no member has failed,
\* expired or gone unknown: AdvanceRollouts gates every claim.
DispatchGated ==
    [][\A m \in Members : job[m] = "queued" /\ job'[m] = "delivered" =>
            state = "running" /\ ~Failed]_vars

\* A blocked rollout never runs again; it can only be cancelled.
BlockedStays ==
    [][state = "blocked" => state' \in {"blocked", "cancelling"}]_vars

\* From one time to the other an observation was never longer than Gap ago.
Covered(from, to) ==
    \A t \in from .. to : \E o \in seen \cup {to} : o <= t /\ t - o <= Gap

\* The next wave is released, or the rollout completed, only when the whole
\* wave was found healthy throughout the observation time, with no gap longer
\* than Gap between two observations and no pause or resume in between.
WatchedBeforeMoving ==
    [][(wave' # wave \/ (state' = "completed" /\ state # "completed")) =>
            now >= Observe /\ Covered(now - Observe, now)]_vars

\* Pausing and resuming act on the very state and wave the owner had read.
ControlSeesState ==
    [][({state, state'} = {"running", "paused"}) =>
            view.state = state /\ view.wave = wave]_vars

\* A rollout comes to an end or stops for the owner: the ticker and the
\* deadlines see to it even while it is paused or being cancelled.
Settles == state \in Active ~> state \in {"blocked", "completed", "cancelled"}

\* Every transaction leaves the parent operation current, and a cancelled
\* rollout hands nothing out (refreshOperationTx, advanceRolloutTx).
RolloutSound == TypeOK /\ OperationCurrent /\ CancelHolds

\* No order of polls, receipts, controls and advances lets an agent start after
\* a failure, revives a blocked rollout, or lets the owner act on a state other
\* than the one they read (ClaimPendingJobs, ControlRollout, advanceRolloutTx).
ControlSafe == DispatchGated /\ BlockedStays /\ ControlSeesState
=============================================================================
