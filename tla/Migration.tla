----------------------------- MODULE Migration -----------------------------
(***************************************************************************)
(* Moving an enrolled agent to another controller endpoint.                *)
(*                                                                         *)
(* The owner prepares a plan, arms it, activates it and retires it; each   *)
(* order is a job the agent fetches with its next report (server/rebind.go *)
(* and storage/extra.go).  On the agent (agent/runtime/migration.go and    *)
(* jobs.go) an activation is a trial: the switch is written down in the    *)
(* lifecycle intent file, the identity file then names the candidate, and  *)
(* only enough committed exchanges over enough time confirm it; otherwise  *)
(* the agent falls back to the endpoint it came from.  An armed plan       *)
(* starts the same trial when the endpoint in use has been silent.         *)
(*                                                                         *)
(* Every write to the agent's disk is a step of its own, the process may   *)
(* stop between any two, and saving the identity file may report an error  *)
(* before or after it replaced the file.  Durations are ages that stop     *)
(* growing at the largest value the code compares them with.               *)
(***************************************************************************)
EXTENDS Naturals, Sequences

CONSTANTS
    Candidate,      \* plan number -> candidate_url
    HomeUrl,        \* the endpoint the agent enrolled at
    AcksNeeded,     \* committed exchanges that confirm a candidate (3)
    ConfirmAge,     \* age of a trial before it may be confirmed (15 s)
    FallbackAge,    \* age of a trial at which it is given up (60 s)
    LossAge,        \* PrimaryLossSeconds
    TrialPause,     \* pause between trials of an armed plan (60 s)
    RebindScripts,  \* bound: the sequences of orders an owner may give
    MaxTrouble      \* bound: crashes, save errors, lost answers, expiries

VARIABLES
    script,     \* the orders the owner is going to give, of RebindScripts
    plans,      \* controller_migrations: plan -> generation, mode, expiry
    phase,      \* migration_targets.state of the agent, by plan
    rebinds,    \* agent_jobs of the rebind actions, in order of creation
    knownGen,   \* agents.endpoint_generation
    answering,  \* the endpoints at which the controller answers
    file,       \* the identity file: ControllerURL and EndpointGeneration
    here,       \* a.State.File, the worker's copy of it
    planFile,   \* migration.json
    switch,     \* the lifecycle intent of kind rebind_switch
    outcomes,   \* a.jobs: job -> status of its receipt
    step,       \* where the control loop is; "down" is no process
    inbox,      \* the jobs of the answer still to be handled
    silence,    \* time since a.lastContact
    pause,      \* time until a.nextMigrationTrial
    trouble,    \* crashes, save errors and lost answers so far
    steady,     \* history: nothing is ordered or disturbed any more
    vouched,    \* history: endpoints that confirmed, and the first one
    torn        \* history: a failed save had replaced the identity file

migrationVars ==
    <<script, plans, phase, rebinds, knownGen, answering, file, here, planFile, switch, outcomes,
      step, inbox, silence, pause, trouble, steady, vouched, torn>>

controllerSide == <<script, plans, phase, rebinds, knownGen>>
history == <<answering, trouble, steady, torn>>

PlanIds == DOMAIN Candidate
Urls == {HomeUrl} \cup {Candidate[p] : p \in PlanIds}
NoPlanFile == [plan |-> 0, gen |-> 0, armed |-> FALSE, confirmed |-> FALSE]
NoSwitch == [plan |-> 0, job |-> 0, to |-> HomeUrl, prev |-> HomeUrl, gen |-> 0, age |-> 0, acks |-> 0]
Receipted == {"succeeded", "failed", "rejected"}

-----------------------------------------------------------------------------
(* The controller: orders of the owner. *)

\* NextMigrationGeneration: above every plan's and every agent's generation.
NextMigrationGeneration ==
    1 + CHOOSE g \in {plans[p].gen : p \in PlanIds} \cup {knownGen} :
            \A h \in {plans[p].gen : p \in PlanIds} \cup {knownGen} : h <= g

\* HasActiveLifecycle: an activation is still open.
HasActiveLifecycle ==
    \E i \in DOMAIN rebinds : rebinds[i].kind = "activate" /\ rebinds[i].status \in {"queued", "awaiting"}

\* InsertMigration, SetMigrationTarget.
InsertMigration(p) == plans' = [plans EXCEPT ![p].gen = NextMigrationGeneration]
SetMigrationTarget(p, s) == phase' = [phase EXCEPT ![p] = s]

\* The job of the operation, with the plan it is about (PatchJobParams).
Queue(kind, p, status) ==
    /\ Len(rebinds) < Len(script)
    /\ script[Len(rebinds) + 1] = <<kind, p>>
    /\ ~steady
    /\ rebinds' = Append(rebinds, [kind |-> kind, plan |-> p, status |-> status])
    /\ UNCHANGED <<script, answering, file, here, planFile, switch, outcomes, step, inbox, silence, pause,
                   trouble, steady, vouched, torn, knownGen>>

\* handleRebind, rebind.prepare: a new plan with a new generation.
PrepareRebind ==
    \E p \in PlanIds :
        /\ plans[p].gen = 0
        /\ \A q \in PlanIds : q < p => plans[q].gen # 0
        /\ Queue("prepare", p, "queued")
        /\ InsertMigration(p)
        /\ SetMigrationTarget(p, "queued")

\* handleRebind, rebind.arm.
ArmRebind ==
    \E p \in PlanIds :
        /\ plans[p].gen # 0
        /\ Queue("arm", p, "queued")
        /\ SetMigrationTarget(p, "arm_queued")
        /\ UNCHANGED plans

\* handleRebind, rebind.activate: refused for a retired or expired plan and,
\* in processSubmit, while another lifecycle job of the agent is open.
ActivateRebind ==
    \E p \in PlanIds :
        /\ plans[p].gen # 0
        /\ ~plans[p].retired
        /\ ~plans[p].expired
        /\ ~HasActiveLifecycle
        /\ Queue("activate", p, "queued")
        /\ SetMigrationTarget(p, "activating")
        /\ UNCHANGED plans

\* handleRebind, rebind.retire.
RetireRebind ==
    \E p \in PlanIds :
        /\ plans[p].gen # 0
        /\ ~plans[p].retired
        /\ Queue("retire", p, "queued")
        /\ plans' = [plans EXCEPT ![p].retired = TRUE]
        /\ SetMigrationTarget(p, "retire_queued")

-----------------------------------------------------------------------------
(* Storage of the agent. *)

\* applySwitch and State.Save: the identity file names the endpoint and the
\* generation only grows; an error restores the worker's copy, though the
\* file may have been replaced already.  ok says what the caller is told.
SwitchTo(url, gen, ok) ==
    LET next == [url |-> url, gen |-> IF gen > here.gen THEN gen ELSE here.gen]
    IN  \/ ok /\ file' = next /\ here' = next /\ UNCHANGED <<trouble, torn>>
        \/ /\ ~ok
           /\ ~steady
           /\ trouble < MaxTrouble
           /\ trouble' = trouble + 1
           /\ file' \in {file, next}
           /\ torn' = (torn \/ file' # file)
           /\ UNCHANGED here

\* validatePlan, for the part that changes after the plan was issued.
ValidPlan(p, gen) == gen >= here.gen /\ ~plans[p].expired

\* verifyCandidate: the candidate proves to be the enrolled controller.
VerifyCandidate(p) == Candidate[p] \in answering

\* beginMigration up to the intent file.
MayBegin(p, gen) == ValidPlan(p, gen) /\ switch = NoSwitch /\ VerifyCandidate(p)

Intent(p, gen, job) ==
    [plan |-> p, job |-> job, to |-> Candidate[p], prev |-> here.url, gen |-> gen, age |-> 0, acks |-> 0]

-----------------------------------------------------------------------------
(* The agent's control loop. *)

\* maintainMigration: the switch never reached the identity file.
Unpublished == here.url # switch.to /\ here.url = switch.prev

\* maintainMigration, intent branch: a switch that never reached the identity
\* file is forgotten, a young one left alone.
KeepTrial ==
    /\ step = "idle"
    /\ switch # NoSwitch
    /\ \/ Unpublished /\ switch' = NoSwitch
       \/ ~Unpublished /\ switch.age < FallbackAge /\ UNCHANGED switch
    /\ step' = "report"
    /\ UNCHANGED <<controllerSide, history, file, here, planFile, outcomes, inbox, silence, pause, vouched>>

\* Mutant: only a trial the owner ordered is given up.
FallBackOrdered ==
    /\ step = "idle"
    /\ switch # NoSwitch
    /\ switch.job # 0
    /\ ~Unpublished
    /\ switch.age >= FallbackAge
    /\ \E ok \in BOOLEAN :
           /\ SwitchTo(switch.prev, switch.gen, ok)
           /\ step' = IF ok THEN "fell" ELSE "report"
    /\ UNCHANGED <<controllerSide, answering, steady, planFile, switch, outcomes, inbox, silence, pause, vouched>>

\* maintainMigration, 98-104: the trial is too old; back to the previous endpoint.
FallBack ==
    /\ step = "idle"
    /\ switch # NoSwitch
    /\ ~Unpublished
    /\ switch.age >= FallbackAge
    /\ \E ok \in BOOLEAN :
           /\ SwitchTo(switch.prev, switch.gen, ok)
           /\ step' = IF ok THEN "fell" ELSE "report"
    /\ UNCHANGED <<controllerSide, answering, steady, planFile, switch, outcomes, inbox, silence, pause, vouched>>

\* maintainMigration, 105-112: the receipt, then the intent goes.
FellBack ==
    \/ /\ step = "fell"
       /\ step' = "forget"
       /\ outcomes' = IF switch.job = 0 THEN outcomes ELSE [outcomes EXCEPT ![switch.job] = "failed"]
       /\ UNCHANGED <<controllerSide, history, file, here, planFile, switch, inbox, silence, pause, vouched>>
    \/ /\ step = "forget"
       /\ step' = "report"
       /\ switch' = NoSwitch
       /\ pause' = TrialPause
       /\ UNCHANGED <<controllerSide, history, file, here, planFile, outcomes, inbox, silence, vouched>>

\* maintainMigration, 115-129: an armed plan, and silence for long enough.
Triggered ==
    /\ planFile.armed
    /\ ~planFile.confirmed
    /\ ~plans[planFile.plan].expired
    /\ pause = 0
    /\ silence >= LossAge

WatchPrimary ==
    /\ step = "idle"
    /\ switch = NoSwitch
    /\ IF Triggered /\ MayBegin(planFile.plan, planFile.gen)
       THEN /\ switch' = Intent(planFile.plan, planFile.gen, 0)
            /\ step' = "switch"
       ELSE UNCHANGED switch /\ step' = "report"
    /\ pause' = IF Triggered THEN TrialPause ELSE pause
    /\ UNCHANGED <<controllerSide, history, file, here, planFile, outcomes, inbox, silence, vouched>>

\* beginMigration, 52-56, and the receipt of the job that asked for it.
Switched ==
    /\ step = "switch"
    /\ \E ok \in BOOLEAN :
           /\ SwitchTo(switch.to, switch.gen, ok)
           /\ switch' = IF ok THEN switch ELSE NoSwitch
           /\ outcomes' = IF switch.job = 0 THEN outcomes
                         ELSE [outcomes EXCEPT ![switch.job] = IF ok THEN "awaiting" ELSE "rejected"]
    /\ step' = IF switch.job = 0 THEN "report" ELSE "jobs"
    /\ UNCHANGED <<controllerSide, answering, steady, planFile, inbox, silence, pause, vouched>>

\* migrationStatus.
Status ==
    IF switch # NoSwitch /\ switch.plan = planFile.plan THEN "activating"
    ELSE IF planFile.confirmed THEN "confirmed"
    ELSE IF plans[planFile.plan].expired THEN "expired"
    ELSE IF planFile.armed THEN "armed" ELSE "prepared"

\* ApplyReceipt: a terminal status stays; success needs the generation.
Applied(i) ==
    IF outcomes[i] = "none" \/ rebinds[i].status \in Receipted THEN rebinds[i].status
    ELSE IF outcomes[i] = "succeeded" /\ rebinds[i].kind = "activate" /\ here.gen # plans[rebinds[i].plan].gen
    THEN "rejected" ELSE outcomes[i]

\* RecordMigrationStatus: the phase the agent's own status gives.
Told(p) ==
    IF planFile.plan # p \/ phase[p] = "retired" \/ (Status = "confirmed" /\ here.gen # plans[p].gen)
    THEN phase[p] ELSE Status

\* ApplyReceipt, 481-489, after it.
PhaseAfter(p) ==
    LET done == {i \in DOMAIN rebinds : /\ rebinds[i].plan = p
                                        /\ rebinds[i].status \notin Receipted
                                        /\ Applied(i) = "succeeded"}
        last == CHOOSE i \in done : \A j \in done : j <= i
    IN  IF done = {} THEN Told(p)
        ELSE CASE rebinds[last].kind = "prepare" -> "prepared"
               [] rebinds[last].kind = "arm" -> "armed"
               [] rebinds[last].kind = "activate" -> "confirmed"
               [] rebinds[last].kind = "retire" -> "retired"

\* tick from migrationStatus on, send, and handleReport: the report is
\* committed, with the receipts; the answer hands out the open jobs.
Report ==
    /\ step = "report"
    /\ here.url \in answering
    /\ knownGen' = IF here.gen > 0 THEN here.gen ELSE knownGen
    /\ rebinds' = [i \in DOMAIN rebinds |-> [rebinds[i] EXCEPT !.status = Applied(i)]]
    /\ phase' = [p \in PlanIds |-> PhaseAfter(p)]
    /\ \/ /\ step' = "contact"
          /\ inbox' = SelectSeq([i \in DOMAIN rebinds |-> i], LAMBDA i : Applied(i) = "queued")
          /\ silence' = 0
          /\ UNCHANGED trouble
       \/ /\ ~steady
          /\ trouble < MaxTrouble
          /\ trouble' = trouble + 1
          /\ step' = "idle"
          /\ UNCHANGED <<inbox, silence>>
    /\ UNCHANGED <<script, plans, answering, steady, file, here, planFile, switch, outcomes, pause, vouched, torn>>

\* send fails: nobody answers at the endpoint.
Unreachable ==
    /\ step = "report"
    /\ here.url \notin answering
    /\ step' = "idle"
    /\ UNCHANGED <<controllerSide, history, file, here, planFile, switch, outcomes, inbox, silence, pause, vouched>>

\* recordMigrationContact: the exchanges that count, and the three writes of
\* a confirmation, each of which the process may not survive.
Enough == switch.acks + 1 >= AcksNeeded /\ switch.age >= ConfirmAge

Contact ==
    /\ step = "contact"
    /\ \/ /\ switch = NoSwitch \/ here.url # switch.to \/ (Enough /\ planFile.plan # switch.plan)
          /\ step' = "acks"
          /\ UNCHANGED <<switch, planFile, vouched>>
       \/ /\ switch # NoSwitch /\ here.url = switch.to /\ ~Enough
          /\ switch' = [switch EXCEPT !.acks = IF @ < AcksNeeded THEN @ + 1 ELSE @]
          /\ step' = "acks"
          /\ UNCHANGED <<planFile, vouched>>
       \/ /\ switch # NoSwitch /\ here.url = switch.to /\ Enough /\ planFile.plan = switch.plan
          /\ planFile' = [planFile EXCEPT !.confirmed = TRUE]
          /\ vouched' = vouched \cup {switch.to}
          /\ step' = "confirmed"
          /\ UNCHANGED switch
    /\ UNCHANGED <<controllerSide, history, file, here, outcomes, inbox, silence, pause>>

ConfirmCandidate ==
    \/ /\ step = "confirmed"
       /\ step' = "settled"
       /\ outcomes' = IF switch.job = 0 THEN outcomes ELSE [outcomes EXCEPT ![switch.job] = "succeeded"]
       /\ UNCHANGED <<controllerSide, history, file, here, planFile, switch, inbox, silence, pause, vouched>>
    \/ /\ step = "settled"
       /\ step' = "acks"
       /\ switch' = NoSwitch
       /\ UNCHANGED <<controllerSide, history, file, here, planFile, outcomes, inbox, silence, pause, vouched>>

\* applyControl, 436-458: an acknowledged final receipt is dropped; a job the
\* controller closed otherwise was answered with a conflict and is kept.
Acks ==
    /\ step = "acks"
    /\ step' = "jobs"
    /\ outcomes' = [i \in DOMAIN outcomes |->
                     IF i \in DOMAIN rebinds /\ outcomes[i] \in Receipted /\ rebinds[i].status = outcomes[i]
                     THEN "none" ELSE outcomes[i]]
    /\ UNCHANGED <<controllerSide, history, file, here, planFile, switch, inbox, silence, pause, vouched>>

\* jobRebind, rebind.prepare: what an existing plan allows.
Preparable(p) ==
    LET gen == plans[p].gen IN
    /\ ValidPlan(p, gen)
    /\ planFile.plan \in {0, p} \/
         ~(planFile.gen >= gen \/ (planFile.armed /\ ~planFile.confirmed /\ ~plans[planFile.plan].expired))
    /\ planFile.plan = p \/ gen > here.gen

\* handleJob and jobRebind for the next job of the answer.
HandleRebind ==
    /\ step = "jobs"
    /\ inbox # <<>>
    /\ inbox' = Tail(inbox)
    /\ LET i == Head(inbox)
           p == rebinds[i].plan
           kind == rebinds[i].kind
           held == planFile.plan = p
           Done(ok) == outcomes' = [outcomes EXCEPT ![i] = IF ok THEN "succeeded" ELSE "rejected"]
       IN  CASE outcomes[i] # "none" -> UNCHANGED <<outcomes, planFile, switch, step>>
             [] outcomes[i] = "none" /\ kind = "prepare" ->
                  /\ planFile' = IF Preparable(p) THEN [NoPlanFile EXCEPT !.plan = p, !.gen = plans[p].gen] ELSE planFile
                  /\ Done(Preparable(p))
                  /\ UNCHANGED <<switch, step>>
             [] outcomes[i] = "none" /\ kind = "arm" ->
                  LET ok == held /\ ValidPlan(p, planFile.gen) IN
                  /\ planFile' = IF ok THEN [planFile EXCEPT !.armed = TRUE] ELSE planFile
                  /\ Done(ok)
                  /\ UNCHANGED <<switch, step>>
             [] outcomes[i] = "none" /\ kind = "retire" ->
                  LET ok == held /\ planFile.confirmed /\ here.url = Candidate[p] IN
                  /\ planFile' = IF ok THEN NoPlanFile ELSE planFile
                  /\ Done(ok)
                  /\ UNCHANGED <<switch, step>>
             [] OTHER ->
                  /\ IF held /\ MayBegin(p, planFile.gen)
                     THEN switch' = Intent(p, planFile.gen, i) /\ step' = "switch" /\ UNCHANGED outcomes
                     ELSE Done(FALSE) /\ UNCHANGED <<switch, step>>
                  /\ UNCHANGED planFile
    /\ UNCHANGED <<controllerSide, history, file, here, silence, pause, vouched>>

EndTick ==
    /\ step = "jobs"
    /\ inbox = <<>>
    /\ step' = "idle"
    /\ UNCHANGED <<controllerSide, history, file, here, planFile, switch, outcomes, inbox, silence, pause, vouched>>

-----------------------------------------------------------------------------
(* Time, the network and the process. *)

Older(age, most) == IF age < most THEN age + 1 ELSE age

Elapse ==
    /\ step \in {"idle", "down"}
    /\ switch' = IF switch = NoSwitch THEN switch ELSE [switch EXCEPT !.age = Older(@, FallbackAge)]
    /\ silence' = Older(silence, LossAge)
    /\ pause' = IF pause > 0 THEN pause - 1 ELSE 0
    /\ <<switch, silence, pause>>' # <<switch, silence, pause>>
    /\ UNCHANGED <<controllerSide, history, file, here, planFile, outcomes, step, inbox, vouched>>

ExpirePlan ==
    \E p \in PlanIds :
        /\ ~steady
        /\ plans[p].gen # 0
        /\ ~plans[p].expired
        /\ trouble < MaxTrouble
        /\ trouble' = trouble + 1
        /\ plans' = [plans EXCEPT ![p].expired = TRUE]
        /\ UNCHANGED <<script, phase, rebinds, knownGen, answering, steady, torn, file, here, planFile, switch, outcomes, step, inbox,
                       silence, pause, vouched>>

\* Endpoints come and go; at some point they stop doing so.
Reconnect ==
    /\ ~steady
    /\ answering' \in SUBSET Urls
    /\ steady' \in BOOLEAN
    /\ <<answering, steady>>' # <<answering, steady>>
    /\ step \in {"idle", "down"}
    /\ UNCHANGED <<controllerSide, trouble, file, here, planFile, switch, outcomes, step, inbox, silence, pause, vouched, torn>>

StopAgent ==
    /\ step # "down"
    /\ ~steady
    /\ trouble < MaxTrouble
    /\ trouble' = trouble + 1
    /\ step' = "down"
    /\ inbox' = <<>>
    /\ UNCHANGED <<controllerSide, answering, steady, file, here, planFile, switch, outcomes, silence, pause, vouched, torn>>

\* Mutant: a restart forgets the intent it did not write itself.
OpenForgetsTrial ==
    /\ step = "down"
    /\ step' = "idle"
    /\ here' = file
    /\ silence' = 0
    /\ pause' = 0
    /\ switch' = NoSwitch
    /\ UNCHANGED <<controllerSide, history, file, planFile, outcomes, inbox, vouched>>

\* Open: the copy is read from the file, the contact clock starts now.
OpenAgent ==
    /\ step = "down"
    /\ step' = "idle"
    /\ here' = file
    /\ silence' = 0
    /\ pause' = 0
    /\ UNCHANGED <<controllerSide, history, file, planFile, switch, outcomes, inbox, vouched>>

-----------------------------------------------------------------------------
MigrationInit ==
    /\ script \in RebindScripts
    /\ plans = [p \in PlanIds |-> [gen |-> 0, retired |-> FALSE, expired |-> FALSE]]
    /\ phase = [p \in PlanIds |-> "none"]
    /\ rebinds = <<>>
    /\ knownGen = 1
    /\ answering = Urls
    /\ file = [url |-> HomeUrl, gen |-> 1]
    /\ here = file
    /\ planFile = NoPlanFile
    /\ switch = NoSwitch
    /\ outcomes = [i \in DOMAIN script |-> "none"]
    /\ step = "idle"
    /\ inbox = <<>>
    /\ silence = 0
    /\ pause = 0
    /\ trouble = 0
    /\ steady = FALSE
    /\ vouched = {HomeUrl}
    /\ torn = FALSE

AgentStep ==
    \/ KeepTrial \/ FallBack \/ FellBack \/ WatchPrimary \/ Switched
    \/ Report \/ Unreachable \/ Contact \/ ConfirmCandidate \/ Acks \/ HandleRebind \/ EndTick

MigrationNext ==
    \/ PrepareRebind \/ ArmRebind \/ ActivateRebind \/ RetireRebind
    \/ KeepTrial \/ FallBack \/ FellBack \/ WatchPrimary \/ Switched
    \/ Report \/ Unreachable \/ Contact \/ ConfirmCandidate \/ Acks \/ HandleRebind \/ EndTick
    \/ Elapse \/ ExpirePlan \/ Reconnect \/ StopAgent \/ OpenAgent

MigrationFairness ==
    /\ WF_migrationVars(AgentStep)
    /\ SF_migrationVars(Elapse)
    /\ WF_migrationVars(OpenAgent)

MigrationSpec == MigrationInit /\ [][MigrationNext]_migrationVars /\ MigrationFairness

-----------------------------------------------------------------------------
\* The identity file never names an endpoint on trial without a way back: it
\* names one that confirmed, or the intent beside it names the same candidate
\* and a previous endpoint that confirmed.  A save that replaced the file and
\* still reported an error is the exception: beginMigration then removes the
\* intent and the worker's copy and the file differ.
TrialGuarded ==
    \/ file.url \in vouched
    \/ switch # NoSwitch /\ switch.to = file.url /\ switch.prev \in vouched
    \/ torn

\* The endpoint in use, or the one a trial would fall back to.
RestingUrl == IF switch = NoSwitch THEN here.url ELSE switch.prev

\* Once nothing is ordered and nothing fails any more, an agent whose resting
\* endpoint answers, or whose armed and unconfirmed plan names an endpoint
\* that answers, comes to use an endpoint that answers (maintainMigration).
FindsController ==
    (/\ steady
     /\ \/ RestingUrl \in answering
        \/ /\ planFile.armed /\ ~planFile.confirmed
           /\ ValidPlan(planFile.plan, planFile.gen)
           /\ Candidate[planFile.plan] \in answering)
    ~> here.url \in answering

\* "candidate did not confirm live contact; retained the authorized previous
\* endpoint" (the receipt of maintainMigration): a plan is given up only when
\* its candidate did not confirm.
GivenUpUnconfirmed ==
    [][step' = "fell" => ~(planFile.plan = switch.plan /\ planFile.confirmed)]_migrationVars
=============================================================================
