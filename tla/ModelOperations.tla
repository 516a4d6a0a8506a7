--------------------------- MODULE ModelOperations ---------------------------
(***************************************************************************)
(* Start, stop and restart of one model service, end to end: the           *)
(* controller that orders it, the direct Spark worker that carries the     *)
(* order and the broker that executes it.                                  *)
(*                                                                         *)
(* A restart has two effects.  The broker stops the service and answers  *)
(* restart_stopped; the worker waits until the controller has committed    *)
(* that receipt and a snapshot that shows the stop, asks once for a start  *)
(* authorization (renewStage, AuthorizeSparkStartStage), journals the      *)
(* start request and executes it.  Every other model order on the profile  *)
(* waits, except a stop that meets the started instance.                   *)
(*                                                                         *)
(* Operations are numbered.  Receipts keep status, stage and generation;   *)
(* freshness and leases are flags that only time clears.  The service      *)
(* starts and stops in one step and the broker answers a request it knows  *)
(* from its journal: SparkControl has the broker in detail.  The policy    *)
(* (profile, revision, epoch) does not change.                             *)
(***************************************************************************)
EXTENDS Naturals, FiniteSets

CONSTANTS
    MaxOps,     \* bound: operations ordered
    MaxEvents   \* bound: operations, crashes, lost answers, failed writes, outside
                \* hands, and leases, observations and sessions that run out

VARIABLES
    ops,        \* operations with job, target and spark_intents row
    latest,     \* spark_latest: session, generation, state, control, fresh
    samples,    \* spark_samples: <<session, generation, state>>
    owner,      \* the ordering owner's session and recent authentication hold
    jobs,       \* worker: w.jobs
    saved,      \* worker: spark-receipts.json
    busy,       \* worker: what is under way for each job
    wsession,   \* worker: w.session, new with every process
    seen,       \* worker: w.brokerSnapshot
    features,   \* worker: the controller's features are known
    flight,     \* the answer to a report, on its way
    model,      \* broker: the service, its generation
    attempts,   \* broker: the journal, per operation [main, stage]
    boundTo,    \* broker: the bound session
    woes,
    deeds       \* ghost: generation each restart stopped to and started from

modelVars == <<ops, latest, samples, owner, jobs, saved, busy, wsession, seen, features, flight, model, attempts, boundTo, woes, deeds>>
serverPart == <<ops, latest, samples, owner>>
workerPart == <<jobs, saved, busy, wsession, seen, features>>
brokerPart == <<model, attempts, boundTo, deeds>>

Ops == 1..MaxOps
Receipt(st, stage, gen) == [st |-> st, stage |-> stage, gen |-> gen]
NoReceipt == Receipt("none", "", 0)
NoOp == [action |-> "none", gen |-> 0, session |-> 0, st |-> "none", stage |-> "", result |-> NoReceipt,
         auth |-> [issued |-> FALSE, gen |-> 0, live |-> FALSE], live |-> FALSE]
NoJob == [known |-> FALSE, rec |-> NoReceipt, asked |-> FALSE, acked |-> FALSE, renewed |-> FALSE,
          snapAcked |-> FALSE, stage |-> [kept |-> FALSE, gen |-> 0]]
NoSnapshot == [session |-> 0, gen |-> 0, state |-> "none", control |-> FALSE, fresh |-> FALSE]
NoFlight == [up |-> FALSE, fresh |-> FALSE, recs |-> [o \in Ops |-> NoReceipt], snap |-> NoSnapshot, acks |-> {}, jobs |-> {}]

Eventful == Cardinality({o \in Ops : ops[o].action # "none"}) + woes < MaxEvents
Woe == Eventful /\ woes' = woes + 1

Unresolved(o) == ops[o].st \in {"queued", "delivered", "accepted", "awaiting", "unknown"}

-----------------------------------------------------------------------------
(* The controller: orders. *)

\* ValidateSparkControl for the snapshot the order names.
Controllable(session) ==
    /\ owner
    /\ latest.fresh /\ latest.control
    /\ latest.session = session

\* Mutant: an issued start stage may be superseded before it is seen to run.
SupersedableEarly(o) ==
    /\ ops[o].action = "restart" /\ ops[o].auth.issued
    /\ Controllable(ops[o].session)

\* sparkProfileReservation, for a stop: the issued start stage runs, observed.
Supersedable(o) ==
    /\ ops[o].action = "restart" /\ ops[o].auth.issued
    /\ Controllable(ops[o].session)
    /\ latest.state = "running" /\ latest.gen = ops[o].auth.gen + 1

\* sparkProfileReservation: the profile is free for this action.
ProfileFree(action) ==
    \A o \in Ops : Unresolved(o) =>
        action = "stop" /\ (ops[o].action = "start" \/ Supersedable(o))

\* supersedeSparkRestartTx.
Superseded(o) == [ops[o] EXCEPT !.st = "failed", !.stage = "superseded"]

\* insertOperation.
NewOperation(action) ==
    [NoOp EXCEPT !.action = action, !.gen = latest.gen, !.session = latest.session, !.st = "queued", !.live = TRUE]

\* processSparkSubmit: validated again in the transaction.
SubmitModel(action) ==
    /\ Eventful
    /\ Controllable(latest.session)
    /\ action = "restart" => latest.state = "running"
    /\ ProfileFree(action)
    /\ \E o \in Ops :
           /\ ops[o].action = "none" /\ \A k \in 1..(o - 1) : ops[k].action # "none"
           /\ ops' = [k \in Ops |->
                 IF k = o THEN NewOperation(action)
                 ELSE IF Unresolved(k) /\ ops[k].action = "restart" THEN Superseded(k) ELSE ops[k]]
    /\ UNCHANGED <<latest, samples, owner, workerPart, flight, brokerPart, woes>>

\* CancelPending.
CancelModel ==
    /\ \E o \in Ops :
           /\ \/ ops[o].st = "queued"
              \/ ops[o].st = "awaiting" /\ ops[o].action = "restart" /\ ~ops[o].auth.issued
           /\ ops' = [ops EXCEPT ![o].st = "cancelled"]
    /\ UNCHANGED <<latest, samples, owner, workerPart, flight, brokerPart, woes>>

\* Leases run out; expireAndBlockJobs closes what was not taken up.
LeasesLapse ==
    /\ Woe
    /\ \E o \in Ops :
           \/ /\ ops[o].live
              /\ ops' = [ops EXCEPT ![o].live = FALSE,
                                    ![o].st = CASE @ = "queued" -> "expired"
                                                [] @ = "delivered" -> "unknown"
                                                [] OTHER -> @]
           \/ ops[o].auth.live /\ ops' = [ops EXCEPT ![o].auth.live = FALSE]
    /\ UNCHANGED <<latest, samples, owner, workerPart, flight, brokerPart>>

\* Observations age on both sides; the owner's session or authentication ends.
Age ==
    /\ Woe
    /\ \/ latest.fresh /\ latest' = [latest EXCEPT !.fresh = FALSE] /\ UNCHANGED <<seen, owner>>
       \/ seen.fresh /\ seen' = [seen EXCEPT !.fresh = FALSE] /\ UNCHANGED <<latest, owner>>
       \/ owner /\ owner' = FALSE /\ UNCHANGED <<latest, seen>>
    /\ UNCHANGED <<ops, samples, jobs, saved, busy, wsession, features, flight, brokerPart>>

-----------------------------------------------------------------------------
(* The controller: a live report. *)

\* sparkReceiptProven: the claimed generation was observed in the state the
\* action leads to, under the session the order names.
Proven(op, rec, all) ==
    LET shown(state) == <<op.session, rec.gen, state>> \in all
    IN  CASE op.action = "start"   -> rec.stage = "started" /\ shown("running") /\ rec.gen >= op.gen
          [] op.action = "stop"    -> rec.stage = "stopped" /\ shown("stopped") /\ rec.gen >= op.gen
          [] op.action = "restart" -> /\ rec.stage = "restarted" /\ shown("running")
                                      /\ op.auth.issued /\ rec.gen > op.auth.gen
          [] OTHER -> FALSE

Terminal(st) == st \in {"succeeded", "failed", "rejected", "expired", "cancelled"}
Rank(st) == CASE st = "accepted" -> 1 [] st = "awaiting" -> 3 [] OTHER -> 0

\* ApplyReceipt refuses: a terminal job, a start that was not attempted
\* without the stop receipt it grew from.
Conflicts(op, rec) ==
    /\ op.result # rec
    /\ \/ rec.stage = "not_attempted" /\ op.result # Receipt("awaiting", "restart_stopped", rec.gen)
       \/ Terminal(op.st) /\ op.stage # "superseded"

\* ApplyReceipt; an unproven success is kept as unknown.
Applied(op, rec, all) ==
    IF \/ rec = NoReceipt \/ op.action = "none" \/ op.stage = "superseded" \/ Terminal(op.st) \/ Conflicts(op, rec)
       \/ op.result = rec /\ ~(op.st = "unknown" /\ rec.st = "succeeded")
       \/ Rank(rec.st) > 0 /\ Rank(op.st) > Rank(rec.st)
    THEN op
    ELSE [op EXCEPT !.result = rec, !.stage = rec.stage,
                    !.st = IF rec.st = "succeeded" /\ ~Proven(op, rec, all) THEN "unknown" ELSE rec.st]

\* ReconcileUnverifiedModelReceipts, for the stored receipt.
Rechecked(op, all) ==
    IF op.st = "unknown" /\ op.result.st = "succeeded" THEN Applied(op, op.result, all) ELSE op

\* acceptSpark, for what a report of this session carries.
Merged(snap) ==
    IF snap.fresh THEN snap ELSE [latest EXCEPT !.control = FALSE]

\* ClaimPendingJobs: what the owner's authority still covers, for this session.
Claimed(after) ==
    {o \in Ops : after[o].st \in {"queued", "delivered"} /\ after[o].live /\ owner /\ after[o].session = wsession}

\* tick builds the report, handleReport commits it, and the answer leaves.
PostModel ==
    /\ ~flight.up
    /\ \A o \in Ops : busy[o].what # "renew"
    /\ LET recs == [o \in Ops |-> IF jobs[o].known /\ ~jobs[o].acked THEN jobs[o].rec ELSE NoReceipt]
           snap == IF features /\ seen.fresh THEN [seen EXCEPT !.session = wsession] ELSE NoSnapshot
           all == IF snap.fresh THEN samples \cup {<<snap.session, snap.gen, snap.state>>} ELSE samples
           after == [o \in Ops |-> Applied(Rechecked(ops[o], all), recs[o], all)]
           claim == Claimed(after)
       IN  /\ samples' = all
           /\ latest' = Merged(snap)
           /\ ops' = [o \in Ops |-> IF o \in claim THEN [after[o] EXCEPT !.st = "delivered"] ELSE after[o]]
           /\ flight' = [up |-> TRUE, fresh |-> seen.fresh, recs |-> recs, snap |-> snap, jobs |-> claim,
                         acks |-> {o \in Ops : /\ recs[o] # NoReceipt /\ ~Conflicts(ops[o], recs[o])
                                               /\ ~(recs[o].st = "succeeded" /\ after[o].st = "unknown")}]
    /\ UNCHANGED <<owner, workerPart, brokerPart, woes>>

LoseAnswer ==
    /\ flight.up
    /\ Woe
    /\ flight' = NoFlight
    /\ UNCHANGED <<serverPart, workerPart, brokerPart>>

-----------------------------------------------------------------------------
(* The worker. *)

\* restartStopCommitted: the committed report itself shows the stop.
StopCommitted(o, snap) ==
    /\ snap.fresh /\ snap.session = ops[o].session
    /\ snap.gen = jobs[o].rec.gen /\ snap.state = "stopped"

StoppedHere(j) == j.rec.st = "awaiting" /\ j.rec.stage = "restart_stopped"

\* send, for one job: acknowledgement of what was sent, commitment of the
\* stop, and acceptJob for a new envelope (its lease is the original budget).
AfterAnswer(o) ==
    LET j == jobs[o]
        known == IF o \in flight.acks /\ flight.recs[o] = j.rec THEN [j EXCEPT !.acked = TRUE] ELSE j
    IN  IF o \in flight.jobs /\ ~j.known
        THEN [NoJob EXCEPT !.known = TRUE, !.asked = ops[o].live,
                           !.rec = IF ops[o].live THEN Receipt("accepted", "prepared", 0)
                                   ELSE Receipt("expired", "dispatch_expired", 0)]
        ELSE IF StoppedHere(j) /\ ~j.renewed
        THEN [known EXCEPT !.snapAcked = StopCommitted(o, flight.snap)]
        ELSE known

\* reconcilePending, for one job that nothing is under way for.
Pursued(o, j) ==
    IF ~j.known \/ ~j.asked \/ busy[o].what # "none" THEN "none"
    ELSE IF StoppedHere(j) /\ j.acked
         THEN IF ~j.renewed THEN (IF j.snapAcked THEN "renew" ELSE "none")
              ELSE IF ~j.stage.kept THEN "fail" ELSE "none"
    ELSE IF j.rec.st \in {"accepted", "unknown"} THEN (IF j.stage.kept THEN "start" ELSE "main")
    ELSE "none"

\* failUnattemptedStageLocked.
FailUnattempted(j) ==
    IF ~j.stage.kept /\ StoppedHere(j)
    THEN [j EXCEPT !.rec = Receipt("failed", "not_attempted", j.rec.gen), !.acked = FALSE]
    ELSE j

\* send and the rest of the tick: the answer is applied and journalled, a new
\* job is executed, and with a fresh broker snapshot pending ones are pursued.
\* Without a journal a new job is not taken, a renewal not begun, a stage not
\* closed.
AnswerArrives ==
    /\ flight.up
    /\ flight' = NoFlight
    /\ features' = TRUE
    /\ \E written \in BOOLEAN :
           LET heard == [o \in Ops |-> IF written \/ jobs[o].known THEN AfterAnswer(o) ELSE jobs[o]]
               todo == [o \in Ops |-> IF flight.fresh \/ ~jobs[o].known THEN Pursued(o, heard[o]) ELSE "none"]
               new == [o \in Ops |-> CASE todo[o] = "renew" -> [heard[o] EXCEPT !.renewed = TRUE]
                                       [] todo[o] = "fail" /\ written -> FailUnattempted(heard[o])
                                       [] OTHER -> heard[o]]
           IN  /\ jobs' = new
               /\ saved' = IF written THEN new ELSE saved
               /\ busy' = [o \in Ops |-> IF todo[o] \in {"main", "start"} \/ (todo[o] = "renew" /\ written)
                                         THEN [what |-> todo[o], rec |-> NoReceipt] ELSE busy[o]]
               /\ IF written THEN UNCHANGED woes ELSE Woe
    /\ UNCHANGED <<serverPart, wsession, seen, brokerPart>>

\* AuthorizeSparkStartStage: the stop of this operation, as observed last.
Authorizable(o) ==
    /\ owner
    /\ ops[o].action = "restart" /\ ops[o].st = "awaiting"
    /\ IF ops[o].auth.issued THEN ops[o].auth.live
       ELSE /\ ops[o].result.stage = "restart_stopped"
            /\ latest.state = "stopped" /\ latest.gen = ops[o].result.gen
            /\ Controllable(ops[o].session)

\* handleSparkStage: the authorization it answers with.
Authorization(o) == IF ops[o].auth.issued THEN ops[o].auth ELSE [issued |-> TRUE, gen |-> latest.gen, live |-> TRUE]

\* Mutant: the start request is executed before it is journalled.
RenewStageUnsaved(o) ==
    LET granted == Authorizable(o)
        keep == [jobs[o] EXCEPT !.stage = [kept |-> TRUE, gen |-> Authorization(o).gen]]
    IN  /\ busy[o].what = "renew"
        /\ ops' = IF granted THEN [ops EXCEPT ![o].auth = Authorization(o)] ELSE ops
        /\ \/ /\ granted
              /\ jobs' = [jobs EXCEPT ![o] = keep]
              /\ UNCHANGED saved
              /\ busy' = [busy EXCEPT ![o].what = "start"]
              /\ UNCHANGED woes
           \/ /\ IF granted THEN Woe ELSE UNCHANGED woes
              /\ jobs' = [jobs EXCEPT ![o] = FailUnattempted(@)]
              /\ saved' = [saved EXCEPT ![o] = FailUnattempted(jobs[o])]
              /\ busy' = [busy EXCEPT ![o].what = "none"]
        /\ UNCHANGED <<latest, samples, owner, wsession, seen, features, flight, brokerPart>>

\* renewStage: the request, and what comes back: an
\* authorization that is journalled with the start request, or nothing (denied,
\* lost, too late, or not to be journalled), which closes the restart.
RenewStage(o) ==
    LET granted == Authorizable(o)
        keep == [jobs[o] EXCEPT !.stage = [kept |-> TRUE, gen |-> Authorization(o).gen]]
    IN  /\ busy[o].what = "renew"
        /\ ops' = IF granted THEN [ops EXCEPT ![o].auth = Authorization(o)] ELSE ops
        /\ \/ /\ granted
              /\ jobs' = [jobs EXCEPT ![o] = keep]
              /\ saved' = [saved EXCEPT ![o] = keep]
              /\ busy' = [busy EXCEPT ![o].what = "start"]
              /\ UNCHANGED woes
           \/ /\ IF granted THEN Woe ELSE UNCHANGED woes
              /\ jobs' = [jobs EXCEPT ![o] = FailUnattempted(@)]
              /\ saved' = [saved EXCEPT ![o] = FailUnattempted(jobs[o])]
              /\ busy' = [busy EXCEPT ![o].what = "none"]
        /\ UNCHANGED <<latest, samples, owner, wsession, seen, features, flight, brokerPart>>

\* executeJob, the broker's answer: the receipt, or an unknown result; the
\* journal may fail to take it.
BrokerAnswers(o) ==
    /\ busy[o].what \in {"main", "start"}
    /\ \E lost \in BOOLEAN, written \in BOOLEAN :
           /\ ~lost => busy[o].rec # NoReceipt
           /\ IF lost \/ ~written THEN Woe ELSE UNCHANGED woes
           /\ LET rec == IF lost THEN Receipt("unknown", "broker_unavailable", 0) ELSE busy[o].rec
                  j == [jobs[o] EXCEPT !.rec = rec, !.acked = FALSE]
              IN  /\ jobs' = [jobs EXCEPT ![o] = j]
                  /\ saved' = IF written THEN [saved EXCEPT ![o] = j] ELSE saved
    /\ busy' = [busy EXCEPT ![o] = [what |-> "none", rec |-> NoReceipt]]
    /\ UNCHANGED <<serverPart, wsession, seen, features, flight, brokerPart>>

\* refreshBroker: Bind and Snapshot.
RefreshBroker ==
    /\ seen' = [session |-> wsession, gen |-> model.gen, state |-> model.state, control |-> TRUE, fresh |-> TRUE]
    /\ boundTo' = wsession
    /\ <<seen', boundTo'>> # <<seen, boundTo>>
    /\ UNCHANGED <<serverPart, jobs, saved, busy, wsession, features, flight, model, attempts, deeds, woes>>

\* The worker stops; OpenWorker reads its journal and takes a new session.
WorkerRestarts ==
    /\ Woe
    /\ jobs' = saved
    /\ busy' = [o \in Ops |-> [what |-> "none", rec |-> NoReceipt]]
    /\ wsession' = wsession + 1
    /\ seen' = NoSnapshot
    /\ features' = FALSE
    /\ flight' = NoFlight
    /\ UNCHANGED <<serverPart, saved, brokerPart>>

-----------------------------------------------------------------------------
(* The broker (control.go, in detail in SparkControl). *)

Denied == Receipt("rejected", "rejected", 0)

\* Execute of the operation's own request.
ExecuteMain(o) ==
    LET op == ops[o]
        valid == op.live /\ op.session = boundTo /\ op.gen = model.gen
        to == IF op.action = "start" THEN "running" ELSE "stopped"
        gen == IF model.state = to THEN model.gen ELSE model.gen + 1
        rec == CASE op.action = "start" -> Receipt("succeeded", "started", gen)
                 [] op.action = "stop" -> Receipt("succeeded", "stopped", gen)
                 [] OTHER -> Receipt("awaiting", "restart_stopped", gen)
        superseded == {k \in Ops : op.action = "stop" /\ attempts[k].main.stage = "restart_stopped"}
    IN  /\ busy[o].what = "main" /\ busy[o].rec = NoReceipt
        /\ IF attempts[o].main # NoReceipt \/ ~valid \/ (op.action = "restart" /\ model.state # "running")
           THEN /\ busy' = [busy EXCEPT ![o].rec = IF attempts[o].main # NoReceipt THEN attempts[o].main ELSE Denied]
                /\ UNCHANGED <<model, attempts, deeds>>
           ELSE /\ model' = [gen |-> gen, state |-> to]
                /\ attempts' = [k \in Ops |->
                      IF k = o THEN [attempts[k] EXCEPT !.main = rec]
                      ELSE IF k \in superseded
                      THEN [attempts[k] EXCEPT !.main = Receipt("failed", "superseded_by_stop", @.gen)]
                      ELSE attempts[k]]
                /\ busy' = [busy EXCEPT ![o].rec = rec]
                /\ deeds' = IF op.action = "restart" THEN [deeds EXCEPT ![o].stopped = gen] ELSE deeds
        /\ UNCHANGED <<serverPart, jobs, saved, wsession, seen, features, flight, boundTo, woes>>

\* Mutant: the linked start takes any generation that is stopped.
ExecuteStartAnew(o) ==
    LET valid == /\ ops[o].auth.live /\ ops[o].session = boundTo
                 /\ attempts[o].main.stage = "restart_stopped"
                 /\ model.state = "stopped"
        rec == Receipt("succeeded", "restarted", model.gen + 1)
    IN  /\ busy[o].what = "start" /\ busy[o].rec = NoReceipt
        /\ IF attempts[o].stage # NoReceipt \/ ~valid
           THEN /\ busy' = [busy EXCEPT ![o].rec = IF attempts[o].stage # NoReceipt THEN attempts[o].stage ELSE Denied]
                /\ UNCHANGED <<model, attempts, deeds>>
           ELSE /\ model' = [gen |-> model.gen + 1, state |-> "running"]
                /\ attempts' = [attempts EXCEPT ![o] = [main |-> rec, stage |-> rec]]
                /\ deeds' = [deeds EXCEPT ![o].started = model.gen]
                /\ busy' = [busy EXCEPT ![o].rec = rec]
        /\ UNCHANGED <<serverPart, jobs, saved, wsession, seen, features, flight, boundTo, woes>>

\* Execute of the linked start: its parent stopped the service and no one
\* superseded it, and the generation is the authorized one.
ExecuteStart(o) ==
    LET valid == /\ ops[o].auth.live /\ ops[o].session = boundTo
                 /\ attempts[o].main.stage = "restart_stopped"
                 /\ jobs[o].stage.gen = model.gen /\ model.state = "stopped"
        rec == Receipt("succeeded", "restarted", model.gen + 1)
    IN  /\ busy[o].what = "start" /\ busy[o].rec = NoReceipt
        /\ IF attempts[o].stage # NoReceipt \/ ~valid
           THEN /\ busy' = [busy EXCEPT ![o].rec = IF attempts[o].stage # NoReceipt THEN attempts[o].stage ELSE Denied]
                /\ UNCHANGED <<model, attempts, deeds>>
           ELSE /\ model' = [gen |-> model.gen + 1, state |-> "running"]
                /\ attempts' = [attempts EXCEPT ![o] = [main |-> rec, stage |-> rec]]
                /\ deeds' = [deeds EXCEPT ![o].started = model.gen]
                /\ busy' = [busy EXCEPT ![o].rec = rec]
        /\ UNCHANGED <<serverPart, jobs, saved, wsession, seen, features, flight, boundTo, woes>>

\* Someone starts or stops the service outside of Monik.
OutsideHand ==
    /\ Woe
    /\ model' = [gen |-> model.gen + 1, state |-> IF model.state = "running" THEN "stopped" ELSE "running"]
    /\ UNCHANGED <<serverPart, workerPart, flight, attempts, boundTo, deeds>>

-----------------------------------------------------------------------------
ModelInit ==
    /\ ops = [o \in Ops |-> NoOp]
    /\ latest = NoSnapshot
    /\ samples = {}
    /\ owner = TRUE
    /\ jobs = [o \in Ops |-> NoJob]
    /\ saved = [o \in Ops |-> NoJob]
    /\ busy = [o \in Ops |-> [what |-> "none", rec |-> NoReceipt]]
    /\ wsession = 1
    /\ seen = NoSnapshot
    /\ features = FALSE
    /\ flight = NoFlight
    /\ model = [gen |-> 1, state |-> "running"]
    /\ attempts = [o \in Ops |-> [main |-> NoReceipt, stage |-> NoReceipt]]
    /\ boundTo = 0
    /\ woes = 0
    /\ deeds = [o \in Ops |-> [stopped |-> 0, started |-> 0]]

ModelNext ==
    \/ \E action \in {"start", "stop", "restart"} : SubmitModel(action)
    \/ CancelModel \/ LeasesLapse \/ Age \/ PostModel \/ LoseAnswer \/ AnswerArrives
    \/ \E o \in Ops : RenewStage(o) \/ BrokerAnswers(o) \/ ExecuteMain(o) \/ ExecuteStart(o)
    \/ RefreshBroker \/ WorkerRestarts \/ OutsideHand

ModelSpec == ModelInit /\ [][ModelNext]_modelVars

-----------------------------------------------------------------------------
\* "This restart's start stage was not attempted" is the truth and stays it:
\* where worker or controller says so the broker has no start of it and none
\* is on its way (failUnattemptedStageLocked).
NotAttemptedIsTrue ==
    \A o \in Ops : "not_attempted" \in {jobs[o].rec.stage, saved[o].rec.stage, ops[o].stage} =>
        attempts[o].stage = NoReceipt /\ busy[o].what # "start" /\ ~jobs[o].stage.kept

\* A restart only starts what it has stopped itself: if the service was
\* touched in between, the start does not take effect
\* (AuthorizeSparkStartStage, validateLocked).
StartsWhatItStopped ==
    \A o \in Ops : deeds[o].started \in {0, deeds[o].stopped}

\* A restart superseded by a safety stop does not start the service any more,
\* though its authorization is still live and its start request may still be
\* on its way to the broker (sparkProfileReservation).
SupersededIsOver ==
    [][\A o \in Ops : ops[o].stage = "superseded" => deeds'[o].started = deeds[o].started]_modelVars

\* A start request that was prepared keeps its reconciliation state: until its
\* outcome is known it is under way or will be pursued
\* (failUnattemptedStageLocked: "An existing request may have reached the
\* broker and must retain its reconciliation state").
PreparedIsReconciled ==
    \A o \in Ops : jobs[o].stage.kept /\ StoppedHere(jobs[o]) => busy[o].what = "start"
=============================================================================
