----------------------------- MODULE JobDelivery -----------------------------
(***************************************************************************)
(* How the controller hands a job to an agent and gets its receipt back    *)
(* (internal/storage/ops.go, job_lifecycle.go, internal/server/ingest.go,  *)
(* internal/agent/runtime/runtime.go, jobs.go, receipt_journal.go,         *)
(* trial_async.go).                                                        *)
(*                                                                         *)
(* The agent polls: each live report carries receipts of the jobs in its   *)
(* journal, each reply acknowledges receipts and carries jobs.  Requests   *)
(* may be answered late, after the agent has given up, or never; replies   *)
(* may be lost; the worker may be killed between any two steps and the     *)
(* controller between any two of its transactions; journal writes may      *)
(* fail before or after the rename.                                        *)
(*                                                                         *)
(* The controller serialises reports, submissions, cancellations and the   *)
(* expiry loop under controlMu, so each is one action.  A receipt is its   *)
(* status together with the tick and the session that produced it, which   *)
(* is what two receipts' bytes differ in.                                  *)
(***************************************************************************)
EXTENDS ReceiptRotation

CONSTANTS
    Jobs,            \* job identifiers, one target each
    Scenarios,       \* what an owner may submit, with the bounds on the rest
    TrialLimit       \* trials running at once (2)

\* What a job's action does on the agent; "none" is a job never submitted.
Kinds == {"none", "collect", "direct", "trial", "restart", "update"}

ASSUME JobDeliveryConstants ==
    /\ Jobs \subseteq Nat \ {0}
    /\ IsFiniteSet(Jobs)
    /\ \A c \in Scenarios : /\ c.kind \in [Jobs -> Kinds]
                             /\ {c.ticks, c.sessions, c.faults} \subseteq Nat
                             /\ c.journal \in Nat \ {0}
    /\ TrialLimit \in Nat \ {0}

VARIABLES
    status, result,      \* agent_jobs: status and the receipt bytes last applied
    due,                 \* jobs whose deadline has passed
    previous,            \* previous_session of a submitted job
    seen, contact,       \* last live report and its session
    ingested,            \* ingest_receipts: reports committed
    net, reply,          \* requests not yet answered; the reply on its way back
    session, pc, tick, stopping,    \* the worker process and its control loop
    mem, disk, cursor,              \* receipt journal and its rotation cursor
    sent, todo, job, rec,           \* receipts in the open request, jobs to handle
    trials, spool,                  \* running trials, reports to backfill
    intent,                         \* lifecycle-intent.json
    queue, probation, outcome,      \* service host: requests, activation, results
    effects,                        \* how often a job took effect, up to Many
    survived,                       \* updates the host has ever confirmed
    unsaved, late,                  \* jobs that lost their receipt or their answer
    faults,
    scenario             \* the member of Scenarios that this behaviour is about

controller == <<scenario, status, result, due, previous, seen, contact, ingested>>
loop == <<session, pc, tick, stopping>>
journal == <<mem, disk, cursor>>
work == <<sent, todo, job, rec>>
host == <<queue, probation, outcome>>
history == <<effects, survived, unsaved, late>>
vars == <<controller, net, reply, loop, journal, work, trials, spool, intent,
          host, history, faults>>

Kind == scenario.kind
MaxTicks == scenario.ticks          \* bounds on reports, processes, failed writes
MaxSessions == scenario.sessions
MaxFaults == scenario.faults
JournalLimit == scenario.journal    \* receipts the agent keeps (1000)

Many == 2
NoJob == 0
Ticks == 0 .. MaxTicks
Sessions == 0 .. MaxSessions

Progress == {"accepted", "awaiting"}
Settled == {"succeeded", "failed", "rejected", "expired", "rolledback"}
Terminal == Settled \cup {"cancelled"}
Statuses == {"none", "queued", "delivered", "unknown"} \cup Progress \cup Terminal

Receipts == [status : {"none"} \cup Progress \cup Settled, tick : Ticks, session : Sessions]
NoReceipt == [status |-> "none", tick |-> 0, session |-> 0]
Empty == [j \in Jobs |-> NoReceipt]
Held(m) == {j \in Jobs : m[j] # NoReceipt}
Requests == [tick : Ticks, session : Sessions, receipts : [Jobs -> Receipts]]
NoReply == [open |-> FALSE, acks |-> {}, jobs |-> {}]
NoIntent == [job |-> NoJob, session |-> 0]
Lifecycle == {"restart", "update"}

Receipt(s) == [status |-> s, tick |-> tick, session |-> session]
Twice(n) == IF n < Many THEN n + 1 ELSE Many

Init ==
    /\ scenario \in Scenarios
    /\ status = [j \in Jobs |-> "none"] /\ result = Empty
    /\ due = {} /\ previous = [j \in Jobs |-> 0]
    /\ seen = 0 /\ contact = 1 /\ ingested = {}
    /\ net = {} /\ reply = NoReply
    /\ session = 1 /\ pc = "idle" /\ tick = 0 /\ stopping = FALSE
    /\ mem = Empty /\ disk = Empty /\ cursor = 0
    /\ sent = Empty /\ todo = {} /\ job = NoJob /\ rec = NoReceipt
    /\ trials = {} /\ spool = {} /\ intent = NoIntent
    /\ queue = {} /\ probation = NoJob /\ outcome = [j \in Jobs |-> "none"]
    /\ effects = [j \in Jobs |-> 0] /\ survived = {} /\ unsaved = {} /\ late = {}
    /\ faults = 0

-----------------------------------------------------------------------------
(* Controller.                                                             *)

Submit(j) ==
    /\ status[j] = "none" /\ Kind[j] # "none"
    /\ status' = [status EXCEPT ![j] = "queued"]
    /\ previous' = [previous EXCEPT ![j] = contact]
    /\ UNCHANGED <<scenario, result, due, seen, contact, ingested, net, reply, loop, journal,
                   work, trials, spool, intent, host, history, faults>>

CancelAnyTime(j) ==
    /\ status[j] \in {"queued", "delivered"}
    /\ status' = [status EXCEPT ![j] = "cancelled"]
    /\ UNCHANGED <<scenario, result, due, previous, seen, contact, ingested, net, reply, loop,
                   journal, work, trials, spool, intent, host, history, faults>>

\* Only a job that no reply has carried yet can be cancelled.
CancelPending(j) ==
    /\ status[j] = "queued"
    /\ status' = [status EXCEPT ![j] = "cancelled"]
    /\ UNCHANGED <<scenario, result, due, previous, seen, contact, ingested, net, reply, loop,
                   journal, work, trials, spool, intent, host, history, faults>>

Deadline(j) ==
    /\ status[j] # "none" /\ j \notin due
    /\ due' = due \cup {j}
    /\ UNCHANGED <<scenario, status, result, previous, seen, contact, ingested, net, reply, loop,
                   journal, work, trials, spool, intent, host, history, faults>>

ExpiredPlainly(s, j) == "expired"

\* A delivered update that ran out of time may have taken effect.
Expired(s, j) ==
    IF Kind[j] = "update" /\ s[j] # "queued" THEN "unknown" ELSE "expired"

Expire(s) ==
    [j \in Jobs |-> IF j \in due /\ s[j] \in {"queued", "delivered"} \cup Progress
                    THEN Expired(s, j) ELSE s[j]]

ExpireJobs ==
    /\ status' = Expire(status) /\ status' # status
    /\ UNCHANGED <<scenario, result, due, previous, seen, contact, ingested, net, reply, loop,
                   journal, work, trials, spool, intent, host, history, faults>>

Rank(s) == IF s = "accepted" THEN 1 ELSE IF s = "awaiting" THEN 3 ELSE 0

\* Success needs evidence the controller holds itself: the report named by a
\* collection, a new session for restart and update.  evidence are the other
\* jobs whose evidence matches the controller's own rows.
Proven(j, r, evidence, reports, current) ==
    CASE Kind[j] = "collect" -> r.tick \in reports
      [] Kind[j] = "direct" -> j \in evidence
      [] Kind[j] = "trial" -> TRUE
      [] OTHER -> r.session = current /\ r.session # previous[j]

Repeated(j, r) == result[j] = r
Conflict(j, r) == ~Repeated(j, r) /\ status[j] \in Terminal
Older(j, r) == Rank(r.status) > 0 /\ Rank(status[j]) > Rank(r.status)

ApplyAlways(j, r, proven) ==
    IF Repeated(j, r) \/ Older(j, r) THEN status[j]
    ELSE IF r.status = "succeeded" /\ ~proven THEN "rejected" ELSE r.status

\* ApplyReceipt: the status of j after receipt r.
Apply(j, r, proven) ==
    IF Repeated(j, r) \/ Conflict(j, r) \/ Older(j, r) THEN status[j]
    ELSE IF r.status = "succeeded" /\ ~proven THEN "rejected" ELSE r.status

Bytes(j, r) ==
    IF Repeated(j, r) \/ Conflict(j, r) \/ Older(j, r) THEN result[j] ELSE r

\* AcceptReport and the receipts of jobs S, each in a transaction of its own.
Ingest(r, S, evidence) ==
    LET live == r.tick > seen
        current == IF live THEN r.session ELSE contact
        reports == ingested \cup {r.tick}
    IN  /\ ingested' = reports
        /\ seen' = IF live THEN r.tick ELSE seen
        /\ contact' = current
        /\ result' = [j \in Jobs |-> IF j \in S THEN Bytes(j, r.receipts[j]) ELSE result[j]]
        /\ net' = net \ {r}
        /\ UNCHANGED <<scenario, due, previous>>

Applied(r, S, evidence) ==
    LET live == r.tick > seen
        current == IF live THEN r.session ELSE contact
        reports == ingested \cup {r.tick}
    IN  [j \in Jobs |->
            IF j \in S
            THEN Apply(j, r.receipts[j],
                       Proven(j, r.receipts[j], evidence, reports, current))
            ELSE status[j]]

Claimable(s) == {j \in Jobs : s[j] \in {"queued", "delivered"} /\ j \notin due}

Awaited(r) == pc = "wait" /\ r.tick = tick

\* A whole report.  Only the current live report is a command poll; one that
\* nobody waits for any more may also be too old to be one.
HandleReport(r, evidence) ==
    LET S == Held(r.receipts)
        expired == Expire(Applied(r, S, evidence))
        claimed == Claimable(expired)
        acks == {j \in S : ~Conflict(j, r.receipts[j])}
    IN  /\ r \in net
        /\ Ingest(r, S, evidence)
        /\ \/ /\ r.tick > seen
              /\ status' = [j \in Jobs |-> IF j \in claimed THEN "delivered" ELSE expired[j]]
              /\ reply' = IF Awaited(r) THEN [open |-> TRUE, acks |-> acks, jobs |-> claimed]
                          ELSE reply
           \/ /\ ~Awaited(r)
              /\ status' = Applied(r, S, evidence)
              /\ UNCHANGED reply
        /\ UNCHANGED <<loop, journal, work, trials, spool, intent, host, history, faults>>

\* The controller stops, or a statement fails, after the receipts of S.
HandleReportCut(r, S, evidence) ==
    /\ r \in net
    /\ S \subseteq Held(r.receipts)
    /\ Ingest(r, S, evidence)
    /\ status' = Applied(r, S, evidence)
    /\ UNCHANGED <<reply, loop, journal, work, trials, spool, intent, host, history, faults>>

-----------------------------------------------------------------------------
(* Agent: the journal and the report.                                      *)

\* saveJobsLocked of m.
Saved(m) == disk' = m /\ UNCHANGED faults

NotSaved(m) ==
    /\ faults < MaxFaults /\ faults' = faults + 1
    /\ disk' \in {disk, m}

CompletedOnSession == intent # NoIntent /\ intent.session # session

\* The lifecycle intent is complete: another session runs, and the service
\* host has concluded the update.
Completed ==
    /\ intent # NoIntent
    /\ intent.session # session
    /\ Kind[intent.job] = "restart" \/ outcome[intent.job] # "none"

ReconcileIntents ==
    /\ pc = "idle" /\ ~stopping /\ tick < MaxTicks /\ Completed
    /\ mem' = [mem EXCEPT ![intent.job] =
                  Receipt(IF outcome[intent.job] = "rolledback" THEN "rolledback" ELSE "succeeded")]
    /\ \/ Saved(mem') /\ intent' = NoIntent
       \/ NotSaved(mem') /\ UNCHANGED intent
    /\ pc' = "report"
    /\ UNCHANGED <<controller, net, reply, session, tick, stopping, cursor, work, trials,
                   spool, host, history>>

Collecting == {j \in Jobs : Kind[j] = "collect" /\ mem[j].status = "accepted"}

Report(m, save) ==
    LET b == Batch(Held(m), cursor)
        carried == IF save THEN [j \in Jobs |-> IF j \in b THEN m[j] ELSE NoReceipt] ELSE Empty
    IN  /\ pc = "report" \/ (pc = "idle" /\ ~Completed)
        /\ ~stopping /\ tick < MaxTicks
        /\ tick' = tick + 1
        /\ mem' = m
        /\ cursor' = NextCursor(Held(m), cursor)
        /\ IF save THEN Saved(m) ELSE NotSaved(m)
        /\ sent' = carried
        /\ net' = net \cup {[tick |-> tick + 1, session |-> session, receipts |-> carried]}
        /\ pc' = "wait"
        /\ UNCHANGED <<controller, reply, session, stopping, todo, job, rec, trials, spool,
                       intent, host, history>>

Measured(done, failed) ==
    [j \in Jobs |->
        IF j \in done
        THEN [status |-> IF j \in failed THEN "failed" ELSE "succeeded",
              tick |-> tick + 1, session |-> session]
        ELSE mem[j]]

\* Measurements that are ready complete their collections in the very report
\* that carries them; receipts go out only after the journal is written.
SendReport ==
    \E done \in SUBSET Collecting : \E failed \in SUBSET done : \E save \in BOOLEAN :
        Report(Measured(done, failed), save)

\* The request failed or timed out; the controller may still handle it.
GiveUp ==
    /\ pc = "wait"
    /\ pc' = "idle"
    /\ spool' = spool \cup {tick}
    /\ reply' = NoReply /\ sent' = Empty
    /\ UNCHANGED <<controller, net, session, tick, stopping, journal, todo, job, rec,
                   trials, intent, host, history, faults>>

ApplyControlAs(removed) ==
    LET kept == [j \in Jobs |-> IF j \in removed THEN NoReceipt ELSE mem[j]]
    IN  /\ pc = "wait" /\ reply.open
        /\ \/ mem' = kept /\ Saved(kept)
           \/ UNCHANGED mem /\ NotSaved(kept)
        /\ todo' = reply.jobs
        /\ pc' = "jobs"
        /\ reply' = NoReply /\ sent' = Empty
        /\ UNCHANGED <<controller, net, session, tick, stopping, cursor, job, rec, trials,
                       spool, intent, host, history>>

ApplyControlByIdentity ==
    ApplyControlAs({j \in reply.acks : mem[j].status \in Settled})

\* An acknowledged result leaves the journal, if it is still the one sent.
ApplyControl ==
    ApplyControlAs({j \in reply.acks : mem[j] = sent[j] /\ mem[j].status \in Settled})

-----------------------------------------------------------------------------
(* Agent: handling a job.                                                  *)

Taken(j) ==
    /\ pc = "jobs" /\ j \in todo
    /\ todo' = todo \ {j}

FreshUnlimited(j) == ~stopping /\ mem[j] = NoReceipt

Fresh(j) ==
    /\ ~stopping
    /\ mem[j] = NoReceipt
    /\ Cardinality(Held(mem)) < JournalLimit

Ignore(j) ==
    /\ Taken(j) /\ ~Fresh(j)
    /\ UNCHANGED <<controller, net, reply, loop, journal, sent, job, rec, trials, spool,
                   intent, host, history, faults>>

\* handleJob has its receipt and goes on to journal it.
Answer(j, s) ==
    /\ job' = j /\ rec' = Receipt(s)
    /\ pc' = "save"
    /\ UNCHANGED <<controller, net, reply, session, tick, stopping, sent, trials, spool>>

\* No effect: another schema, outside the time window, bad parameters,
\* unmanaged, trial limit reached, or a collection that stays pending.
Decline(j) ==
    /\ Taken(j) /\ Fresh(j)
    /\ \E s \in {"rejected", "expired", "failed"} : Answer(j, s)
    /\ UNCHANGED <<journal, intent, host, history, faults>>

Collect(j) ==
    /\ Taken(j) /\ Fresh(j) /\ Kind[j] = "collect"
    /\ Answer(j, "accepted")
    /\ UNCHANGED <<journal, intent, host, history, faults>>

Execute(j) ==
    /\ Taken(j) /\ Fresh(j) /\ Kind[j] = "direct"
    /\ effects' = [effects EXCEPT ![j] = Twice(@)]
    /\ \E s \in {"succeeded", "failed"} : Answer(j, s)
    /\ UNCHANGED <<journal, intent, host, survived, unsaved, late, faults>>

\* A trial is journalled before it runs; if that fails it is rejected.
StartTrial(j) ==
    /\ Taken(j) /\ Fresh(j) /\ Kind[j] = "trial" /\ Cardinality(trials) < TrialLimit
    /\ \/ /\ mem' = [mem EXCEPT ![j] = Receipt("accepted")]
          /\ Saved(mem')
          /\ trials' = trials \cup {j}
          /\ effects' = [effects EXCEPT ![j] = Twice(@)]
          /\ UNCHANGED <<controller, net, reply, loop, cursor, sent, job, rec, spool,
                         intent, host, survived, unsaved, late>>
       \/ /\ NotSaved([mem EXCEPT ![j] = Receipt("accepted")])
          /\ Answer(j, "rejected")
          /\ UNCHANGED <<mem, cursor, intent, host, history>>

\* Bad parameters: the rejection stays in memory even if it is not saved.
RejectTrial(j) ==
    /\ Taken(j) /\ Fresh(j) /\ Kind[j] = "trial" /\ Cardinality(trials) < TrialLimit
    /\ mem' = [mem EXCEPT ![j] = Receipt("rejected")]
    /\ (Saved(mem') \/ NotSaved(mem'))
    /\ UNCHANGED <<controller, net, reply, loop, cursor, sent, job, rec, trials, spool,
                   intent, host, history>>

FinishTrial(j) ==
    /\ j \in trials /\ pc \notin {"call", "save"}
    /\ mem' = [mem EXCEPT ![j] = Receipt(IF stopping THEN "failed" ELSE "succeeded")]
    /\ (Saved(mem') \/ NotSaved(mem'))
    /\ trials' = trials \ {j}
    /\ UNCHANGED <<controller, net, reply, loop, cursor, work, spool, intent, host, history>>

\* Restart and update: the intent first, then the service host.
RequestHost(j) ==
    /\ Taken(j) /\ Fresh(j) /\ Kind[j] \in Lifecycle
    /\ \/ /\ intent' = [job |-> j, session |-> session]
          /\ job' = j /\ rec' = NoReceipt /\ pc' = "call"
          /\ queue' = queue \cup {j}
          /\ UNCHANGED <<controller, net, reply, session, tick, stopping, journal, sent,
                         trials, spool, probation, outcome, history, faults>>
       \/ /\ faults < MaxFaults /\ faults' = faults + 1
          /\ intent' \in {intent, [job |-> j, session |-> session]}
          /\ Answer(j, "failed")
          /\ UNCHANGED <<journal, host, history>>

\* The host refuses, or its answer does not come in time: the intent is dropped.
CallFailed ==
    /\ pc = "call"
    /\ intent' = NoIntent
    /\ Answer(job, "failed")
    /\ \/ queue' = queue \ {job} /\ UNCHANGED late
       \/ late' = late \cup {job} /\ UNCHANGED queue
    /\ UNCHANGED <<journal, todo, probation, outcome, effects, survived, unsaved, faults>>

\* The end of handleJob.
SaveJob ==
    /\ pc = "save"
    /\ pc' = "jobs"
    /\ job' = NoJob /\ rec' = NoReceipt
    /\ LET m == [mem EXCEPT ![job] = rec]
       IN  \/ mem' = m /\ Saved(m) /\ UNCHANGED unsaved
           \/ NotSaved(m) /\ unsaved' = unsaved \cup {job} /\ UNCHANGED mem
    /\ UNCHANGED <<controller, net, reply, session, tick, stopping, cursor, sent, todo,
                   trials, spool, intent, host, effects, survived, late>>

\* The end of a tick: backfill reports of earlier failed requests.
Drain ==
    /\ pc = "jobs" /\ todo = {}
    /\ \E S \in SUBSET spool, kept \in SUBSET spool :
          /\ spool \ S \subseteq kept
          /\ ingested' = ingested \cup S
          /\ spool' = kept
    /\ pc' = "idle"
    /\ UNCHANGED <<scenario, status, result, due, previous, seen, contact, net, reply, session, tick,
                   stopping, journal, work, trials, intent, host, history, faults>>

-----------------------------------------------------------------------------
(* The worker process and the service host.                                *)

Gone ==
    /\ pc' = "down" /\ stopping' = FALSE
    /\ mem' = Empty /\ cursor' = 0
    /\ sent' = Empty /\ todo' = {} /\ job' = NoJob /\ rec' = NoReceipt
    /\ trials' = {} /\ reply' = NoReply

Crash ==
    /\ pc # "down" /\ Gone
    /\ UNCHANGED <<controller, net, session, tick, disk, spool, intent, host, history, faults>>

Stop ==
    /\ pc # "down" /\ ~stopping
    /\ stopping' = TRUE
    /\ UNCHANGED <<controller, net, reply, session, pc, tick, journal, work, trials, spool,
                   intent, host, history, faults>>

Exit ==
    /\ pc = "idle" /\ stopping /\ trials = {} /\ Gone
    /\ UNCHANGED <<controller, net, session, tick, disk, spool, intent, host, history, faults>>

\* loadJobs: a trial that was running when the process ended is a failure.
Loaded ==
    [j \in Jobs |->
        IF Kind[j] = "trial" /\ disk[j].status = "accepted"
        THEN [disk[j] EXCEPT !.status = "failed"] ELSE disk[j]]

OpenUnreserved ==
    /\ pc = "down" /\ session < MaxSessions
    /\ Cardinality(Held(disk)) <= JournalLimit
    /\ session' = session + 1
    /\ mem' = Loaded /\ pc' = "idle"
    /\ UNCHANGED <<controller, net, reply, tick, stopping, disk, cursor, work, trials, spool,
                   intent, host, history, faults>>

\* Open: the journal, then restoreIntentReceipt reserves the intent's job.
Open ==
    /\ pc = "down" /\ session < MaxSessions
    /\ Cardinality(Held(disk)) <= JournalLimit
    /\ session' = session + 1
    /\ IF intent # NoIntent /\ disk[intent.job] = NoReceipt
       THEN LET m == [Loaded EXCEPT ![intent.job] =
                         [status |-> "awaiting", tick |-> 0, session |-> 0]]
            IN  \/ mem' = m /\ Saved(m) /\ pc' = "idle"
                \/ NotSaved(m) /\ UNCHANGED <<mem, pc>>
       ELSE mem' = Loaded /\ pc' = "idle" /\ UNCHANGED <<disk, faults>>
    /\ UNCHANGED <<controller, net, reply, tick, stopping, cursor, work, trials, spool,
                   intent, host, history>>

\* The host stops the worker and restarts it, or switches it to the new build;
\* its update journal, which holds one transaction, then starts over.
Perform(j) ==
    /\ j \in queue /\ probation = NoJob
    /\ queue' = queue \ {j}
    /\ effects' = [effects EXCEPT ![j] = Twice(@)]
    /\ IF Kind[j] = "update"
       THEN probation' = j /\ outcome' = [k \in Jobs |-> "none"]
       ELSE UNCHANGED <<probation, outcome>>
    /\ Gone
    /\ UNCHANGED <<controller, net, session, tick, disk, spool, intent, survived, unsaved,
                   late, faults>>

Confirm ==
    /\ probation # NoJob
    /\ outcome' = [outcome EXCEPT ![probation] = "confirmed"]
    /\ survived' = survived \cup {probation}
    /\ probation' = NoJob
    /\ UNCHANGED <<controller, net, reply, loop, journal, work, trials, spool, intent, queue,
                   effects, unsaved, late, faults>>

RollBack ==
    /\ probation # NoJob
    /\ outcome' = [outcome EXCEPT ![probation] = "rolledback"]
    /\ probation' = NoJob
    /\ Gone
    /\ UNCHANGED <<controller, net, session, tick, disk, spool, intent, queue, history, faults>>

-----------------------------------------------------------------------------
Directs == {j \in Jobs : Kind[j] = "direct"}

ControllerStep ==
    \/ \E j \in Jobs : Submit(j) \/ CancelPending(j) \/ Deadline(j)
    \/ ExpireJobs
    \/ \E r \in net, evidence \in SUBSET Directs :
          \/ HandleReport(r, evidence)
          \/ \E S \in SUBSET Jobs : HandleReportCut(r, S, evidence)

AgentStep ==
    \/ ReconcileIntents
    \/ SendReport
    \/ GiveUp
    \/ ApplyControl
    \/ \E j \in Jobs :
          \/ Ignore(j)
          \/ Decline(j)
          \/ Collect(j)
          \/ Execute(j)
          \/ StartTrial(j)
          \/ RejectTrial(j)
          \/ FinishTrial(j)
          \/ RequestHost(j)
    \/ CallFailed
    \/ SaveJob
    \/ Drain

ProcessStep ==
    \/ Crash
    \/ Stop
    \/ Exit
    \/ Open
    \/ \E j \in Jobs : Perform(j)
    \/ Confirm
    \/ RollBack

Next == ControllerStep \/ AgentStep \/ ProcessStep

Spec == Init /\ [][Next]_vars

-----------------------------------------------------------------------------
(* Properties.                                                             *)

\* Every row, receipt, request and step of the loop is one the code knows.
TypeOK ==
    /\ scenario \in Scenarios
    /\ status \in [Jobs -> Statuses] /\ result \in [Jobs -> Receipts]
    /\ due \subseteq Jobs /\ previous \in [Jobs -> Sessions]
    /\ seen \in Ticks /\ contact \in Sessions \cup {1} /\ ingested \subseteq Ticks
    /\ net \subseteq Requests
    /\ reply \in [open : BOOLEAN, acks : SUBSET Jobs, jobs : SUBSET Jobs]
    /\ session \in Sessions \cup {1} /\ tick \in Ticks /\ stopping \in BOOLEAN
    /\ pc \in {"down", "idle", "report", "wait", "jobs", "call", "save"}
    /\ mem \in [Jobs -> Receipts] /\ disk \in [Jobs -> Receipts] /\ cursor \in Jobs \cup {0}
    /\ sent \in [Jobs -> Receipts] /\ todo \subseteq Jobs /\ rec \in Receipts
    /\ job \in Jobs \cup {NoJob} /\ (pc \in {"call", "save"} <=> job \in Jobs)
    /\ trials \subseteq Jobs /\ spool \subseteq Ticks
    /\ intent \in [job : Jobs, session : Sessions \cup {1}] \cup {NoIntent}
    /\ queue \subseteq Jobs /\ probation \in Jobs \cup {NoJob}
    /\ outcome \in [Jobs -> {"none", "confirmed", "rolledback"}]
    /\ effects \in [Jobs -> 0 .. Many] /\ survived \cup unsaved \cup late \subseteq Jobs
    /\ faults \in 0 .. MaxFaults

\* A job shown as cancelled before execution has not run, and no reply, worker,
\* journal or service host holds it: CancelPending never overtakes the claim
\* that ClaimPendingJobs committed before the reply left.
CancelledNeverRuns ==
    \A j \in Jobs : status[j] = "cancelled" =>
        /\ effects[j] = 0
        /\ j \notin reply.jobs \cup todo \cup Held(mem) \cup Held(disk) \cup queue

\* Trials and lifecycle requests are not idempotent.  Whatever is redelivered,
\* lost, interrupted or not saved, handleJob lets a trial take effect once, and
\* a restart or an update too unless the service host acts after the call to it
\* was given up and the intent dropped.
RepeatedOnlyWhenLate ==
    \A j \in Jobs : Kind[j] \in Lifecycle \cup {"trial"} /\ effects[j] > 1 =>
        Kind[j] # "trial" /\ j \in late

\* A job the controller shows as accepted or awaiting confirmation is on the
\* agent's disk: an acknowledgement of acceptance never removes a completion,
\* and no receipt leaves before its journal is written.
AcceptedIsJournalled ==
    \A j \in Jobs : status[j] \in Progress => disk[j] # NoReceipt

\* A success that ApplyReceipt shows has happened: the trial or the command ran,
\* the service host confirmed the update's probation.
SuccessHappened ==
    \A j \in Jobs : status[j] = "succeeded" =>
        /\ Kind[j] \in {"trial", "direct"} => effects[j] > 0
        /\ Kind[j] = "update" => j \in survived

\* An update that expireAndBlockJobs shows as expired has not run, unless the
\* service host acted after the call was given up, or the agent's refusal was
\* not journalled, the job came again, and the file brought the refusal back;
\* one that may have run is unknown.
ExpiredUpdateDidNotRun ==
    \A j \in Jobs : Kind[j] = "update" /\ status[j] = "expired" =>
        effects[j] = 0 \/ j \in late \cup unsaved

\* ApplyReceipt, expiry, claim and cancellation never change a terminal status,
\* whatever is delivered late, twice or in another order.
TerminalStays ==
    [][\A j \in Jobs : status[j] \in Terminal => status'[j] = status[j]]_status

\* Without failed writes the journal on disk never outgrows what loadJobs
\* accepts, so that the next process can open it: handleJob stops taking jobs
\* in time, and restoreIntentReceipt reserves only a job that was counted.
JournalOpens == faults = 0 => Cardinality(Held(disk)) <= JournalLimit

\* A failed journal write does not lift the protection against running a job
\* again (what docs/V13_RELIABILITY_RU.md says of handleJob's journal).
JournalFailureProtects ==
    \A j \in unsaved : effects[j] <= 1

\* A completed collection is not turned down: its observation is "committed
\* with this receipt", as tick's message for the operator says.
CollectedIsAccepted ==
    \A j \in Jobs : Kind[j] = "collect" /\ result[j].status = "succeeded" =>
        status[j] = "succeeded"

\* The agent's journal and the receipts drawn from it tell the truth: what the
\* controller counts as accepted is in the journal until its result is, a
\* success took effect, an expired update did not unless it came late, and the
\* journal can be opened again (handleJob, restoreIntentReceipt, ApplyReceipt).
ReceiptsHonest ==
    AcceptedIsJournalled /\ SuccessHappened /\ ExpiredUpdateDidNotRun /\ JournalOpens
=============================================================================
