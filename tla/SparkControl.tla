---------------------------- MODULE SparkControl ----------------------------
(***************************************************************************)
(* The Spark broker's coordinator (internal/spark/control.go): it starts,   *)
(* stops and restarts model services for an owner, at most once per job,    *)
(* and keeps a journal of every attempt.                                    *)
(*                                                                         *)
(* A call of Execute holds the coordinator's mutex except while it checks   *)
(* the weight files and while it watches a service stop; those are the      *)
(* points at which calls interleave.  The journal is modelled twice: mem,   *)
(* what the process holds, and disk, what a restart of the broker reads.    *)
(* A write may fail before or after it replaces the file.                   *)
(*                                                                         *)
(* unit is the service as systemd sees it: "queued" is inactive with a      *)
(* start job pending and "dying" is failed with a task still alive, the two *)
(* terminal states that do not prove a shutdown.  The policy, and with it   *)
(* the control epoch and the profile revisions, does not change, and the    *)
(* agent keeps its session, which a restarted broker has to be told again.  *)
(* Disruption is always confirmed, and the limits on the number of attempts *)
(* are out of reach.                                                        *)
(***************************************************************************)
EXTENDS Naturals, FiniteSets

CONSTANTS
  Profiles,      \* the model services of the local policy
  Jobs,          \* job identifiers
  Calls,         \* concurrent broker connections executing an action
  Plans,         \* what the jobs of a behaviour are, and its bounds
  Conflict,      \* the pairs of profiles that share an exclusion group
  None

VARIABLES
  plan,          \* the jobs and the bounds of this behaviour, fixed
  unit,          \* [Profiles -> [state, n]], the services themselves
  mem,           \* c.journal: [att, prof]
  disk,          \* the journal file
  bound,         \* c.session # "": the agent has bound its session
  shown,         \* the last published snapshot of each profile
  request,       \* the request issued for each job
  lapsed,        \* jobs whose dispatch deadline has passed
  over,          \* restarts whose 60 s after the verified stop have passed
  token,         \* c.preflightToken
  pending,       \* c.pendingStarts: the call that waits for the weight check
  call,          \* the calls of Execute in progress
  snap,          \* the Snapshot in progress
  effects,       \* how often the supervisor was called for each job
  trouble,       \* failures, restarts, lapses and drifts so far
  drifted,       \* has anyone else touched a service?
  snaps          \* snapshots so far

world == <<plan, unit, shown, request, lapsed, over>>
volatile == <<bound, token, pending, call, snap>>
budget == <<trouble, drifted, snaps>>
vars == <<world, mem, disk, volatile, effects, budget>>

-----------------------------------------------------------------------------
(* What the supervisor reports of a service. *)

Live == {"starting", "running", "stopping"}
UnitStates == {"stopped", "queued", "failed", "dying"} \cup Live

\* systemdInstance: the reported state, the identity of this instance, and
\* whether nothing of it is left.
Instance(u) ==
  [state |-> CASE u.state = "queued" -> "stopped"
               [] u.state = "dying"  -> "failed"
               [] OTHER -> u.state,
   id    |-> CASE u.state = "stopped" -> <<"stopped", 0>>
               [] u.state \in Live -> <<"live", u.n>>
               [] OTHER -> <<u.state, u.n>>,
   shut  |-> u.state \in {"stopped", "failed"}]

NoInstance == [state |-> "unknown", id |-> <<"", 0>>, shut |-> FALSE]

-----------------------------------------------------------------------------
(* The journal. *)

ActionOf(j) == plan.jobs[j].action
ProfileOf(j) == plan.jobs[j].profile
ParentOf(j) == plan.jobs[j].parent
Local(j) == plan.jobs[j].local

WindowOpen(r) == r.until # None /\ r.until \notin over

\* observeLocked: a new identity is a new generation, and a service that has
\* stopped gives its reservation back unless a restart still holds it.
Observe(m, p, i) ==
  LET r == m.prof[p] IN
  [m EXCEPT !.prof[p] =
     [gen      |-> IF r.id # i.id THEN r.gen + 1 ELSE r.gen,
      id       |-> i.id,
      state    |-> i.state,
      reserved |-> IF i.state \in {"stopped", "failed"}
                     THEN ~i.shut \/ WindowOpen(r) ELSE r.reserved,
      until    |-> r.until]]

\* evidenceReceipt and rejection.  "cancelled" and "superseded" stand for the
\* error codes start_cancelled_by_stop and superseded_by_stop.
Evidence(m, p, i, status) ==
  [status |-> status, id |-> i.id, gen |-> m.prof[p].gen, shut |-> i.shut]
Rejected == [status |-> "rejected", id |-> <<"", 0>>, gen |-> 0, shut |-> FALSE]

Attempt(stage, i, receipt) ==
  [stage |-> stage, before |-> i, by |-> None, receipt |-> receipt]

Put(m, j, a) == [m EXCEPT !.att[j] = a]
Close(m, js, receipt) ==
  [m EXCEPT !.att = [j \in Jobs |->
     IF j \in js THEN [@[j] EXCEPT !.stage = "done", !.receipt = receipt] ELSE @[j]]]

At(m, j, stages) == m.att[j] # None /\ m.att[j].stage \in stages

SameAuthority(j, k) ==
  /\ Local(j) = Local(k)
  /\ ProfileOf(j) = ProfileOf(k)

\* finishStoppedStartsLocked: a stop that proved the shutdown closes the
\* starts it was bound to.
FinishStoppedStarts(m, k) ==
  LET stop == m.att[k]
      named == {j \in Jobs : /\ m.att[j] # None /\ m.att[j].stage # "done"
                             /\ m.att[j].by = k
                             /\ SameAuthority(j, k)}
  IN IF /\ ActionOf(k) = "stop" /\ stop.stage = "done"
        /\ stop.receipt.status = "succeeded" /\ stop.receipt.shut
       THEN Close(m, named, [stop.receipt EXCEPT !.status = "superseded"])
       ELSE m

\* finishParentLocked: a linked start that is done decides its restart.
FinishParent(m, j) ==
  LET q == ParentOf(j) IN
  IF q # None /\ At(m, j, {"done"}) /\ At(m, q, {"start_attempted"})
    THEN Close(m, {q}, m.att[j].receipt)
    ELSE m

\* reconcileLocked: what an observation decides of an attempt whose effect was
\* recorded.  The restart it decides opens its window.
Reconcile(m0, j, i) ==
  LET p == ProfileOf(j)
      m == Observe(m0, p, i)
      a == m.att[j]
      unresolved == Put(m, j, [a EXCEPT !.receipt = Evidence(m, p, i, "unknown")])
      proven == [a EXCEPT !.stage = "done", !.receipt = Evidence(m, p, i, "succeeded")]
  IN CASE a.by # None ->
            LET f == IF m.att[a.by] = None THEN m ELSE FinishStoppedStarts(m, a.by)
            IN IF f.att[j].stage = "done" THEN f
               ELSE Put(f, j, [a EXCEPT !.receipt = Evidence(m, p, i, "unknown")])
       [] a.by = None /\ ActionOf(j) = "start" /\ i.state = "running" ->
            FinishParent(Put(m, j, proven), j)
       [] a.by = None /\ ActionOf(j) = "stop" /\ i.shut ->
            FinishStoppedStarts(Put(m, j, proven), j)
       [] a.by = None /\ ActionOf(j) = "restart" /\ i.shut ->
            [Put(m, j, [proven EXCEPT !.stage = "restart_stopped",
                                      !.receipt.status = "awaiting"])
               EXCEPT !.prof[p].reserved = TRUE, !.prof[p].until = j]
       [] OTHER -> unresolved

-----------------------------------------------------------------------------
(* Admission. *)

Free == \A c \in Calls : call[c].pc \notin {"commit", "effect"}
Idle == [pc |-> "idle", job |-> None, token |-> 0, inst |-> NoInstance,
         links |-> <<>>]
Return(c) == call' = [call EXCEPT ![c] = Idle]
Enter(j) == [Idle EXCEPT !.pc = "enter", !.job = j]

\* Execute gets the mutex: for a request the agent hands over, as often as it
\* likes, or for a call that is on its way in.
Called(c, j) ==
  /\ Free
  /\ \/ call[c].pc = "idle" /\ request[j] # None /\ ~Local(j)
     \/ call[c] = Enter(j)

\* Everything that goes wrong is counted against the plan's bound.
Trouble == trouble < plan.trouble /\ trouble' = trouble + 1

\* saveLocked: published, or an error before or after the rename.  kept is
\* what the process goes on with after an error.
Saved(m) == mem' = m /\ disk' = m /\ UNCHANGED trouble
SaveFails(m, kept) == Trouble /\ mem' = kept /\ disk' \in {disk, m}

\* validateLocked, up to its observation: the linked stage and the session.
Authorised(j) ==
  /\ ParentOf(j) # None => /\ At(mem, ParentOf(j), {"restart_stopped"})
                           /\ ParentOf(j) \notin over
  /\ bound \/ Local(j)

\* validateLocked after its observation m: generation, shutdown and lease.
\* Mutant: the generation is not compared.
AdmissibleUnfenced(m, j, i) ==
  /\ ActionOf(j) = "start" /\ i.state \in {"stopped", "failed"} => i.shut
  /\ ParentOf(j) # None => i.shut
  /\ j \notin lapsed
Admissible(m, j, i) ==
  /\ request[j].gen = m.prof[ProfileOf(j)].gen
  /\ ActionOf(j) = "start" /\ i.state \in {"stopped", "failed"} => i.shut
  /\ ParentOf(j) # None => i.shut
  /\ j \notin lapsed

\* The cancellation a stop does before anything else: the starts that wait for
\* their weights, the restarts that have stopped, and their linked starts.
Cancel(m, p) ==
  LET waiting == {j \in Jobs : /\ ActionOf(j) = "start" /\ ProfileOf(j) = p
                               /\ At(m, j, {"preflight"})}
      restarts == {q \in Jobs : /\ ActionOf(q) = "restart" /\ ProfileOf(q) = p
                                /\ At(m, q, {"restart_stopped", "start_attempted"})}
      stages == {j \in Jobs : /\ ParentOf(j) \in restarts
                              /\ m.att[j] # None /\ m.att[j].stage # "done"}
      closed == Close(m, waiting \cup stages, [Rejected EXCEPT !.status = "cancelled"])
  IN [closed EXCEPT
       !.att = [j \in Jobs |-> IF j \in restarts
                  THEN [@[j] EXCEPT !.stage = "done", !.receipt.status = "superseded"]
                  ELSE @[j]],
       !.prof[p].until = None]

\* rejectPreflightLocked: a refused start is closed, and only then is the
\* journal saved.
RejectPreflight(m, j) ==
  IF At(m, j, {"preflight"})
    THEN mem' = Close(m, {j}, Rejected) /\ disk' = mem'
    ELSE mem' = m /\ UNCHANGED disk
RejectUnsaved(m, j) ==
  At(m, j, {"preflight"}) /\ LET r == Close(m, {j}, Rejected) IN SaveFails(r, r)
Rejects(m, j) == (RejectPreflight(m, j) /\ UNCHANGED trouble) \/ RejectUnsaved(m, j)

\* A save whose result the code ignores.
SavedOrNot(m) == Saved(m) \/ SaveFails(m, m)

Quiet == UNCHANGED <<plan, unit, shown, request, lapsed, bound, snap, effects,
                     drifted, snaps>>

-----------------------------------------------------------------------------
(* Execute, from its entry to its first unlock. *)

\* A duplicate that needs no observation: its outcome is known, its weights
\* are being checked, or the session is gone.
Replay(c, j) ==
  LET p == ProfileOf(j) IN
  /\ Called(c, j) /\ mem.att[j] # None
  /\ \/ ~bound /\ ~Local(j)
     \/ At(mem, j, {"done", "restart_stopped", "start_attempted"})
     \/ At(mem, j, {"preflight"}) /\ pending[p] # None /\ call[pending[p]].job = j
  /\ Return(c)
  /\ UNCHANGED <<mem, disk, trouble, over, token, pending>> /\ Quiet

\* A duplicate of a start whose weight check no longer runs.
ReplayInterrupted(c, j) ==
  LET p == ProfileOf(j) IN
  /\ Called(c, j) /\ At(mem, j, {"preflight"})
  /\ bound \/ Local(j)
  /\ pending[p] # None => call[pending[p]].job # j
  /\ SavedOrNot(Close(mem, {j}, Rejected))
  /\ Return(c)
  /\ UNCHANGED <<over, token, pending>> /\ Quiet

\* A duplicate of an attempt whose effect was recorded: look, never repeat.
ReplayReconcile(c, j) ==
  LET m == Reconcile(mem, j, Instance(unit[ProfileOf(j)])) IN
  /\ Called(c, j) /\ At(mem, j, {"effect"})
  /\ bound \/ Local(j)
  /\ \/ /\ SavedOrNot(m)
        /\ over' = IF At(m, j, {"restart_stopped"}) THEN over \ {j} ELSE over
     \/ Trouble /\ UNCHANGED <<mem, disk, over>>
  /\ Return(c)
  /\ UNCHANGED <<token, pending>> /\ Quiet

\* Refused before the observation, because of it, or for a drifted definition.
Refuse(c, j) ==
  LET i == Instance(unit[ProfileOf(j)])
      m == Observe(mem, ProfileOf(j), i) IN
  /\ Called(c, j) /\ mem.att[j] = None
  /\ \/ ~Authorised(j) /\ UNCHANGED <<mem, trouble>>
     \/ Trouble /\ UNCHANGED mem
     \/ Authorised(j) /\ ~Admissible(m, j, i) /\ mem' = m /\ UNCHANGED trouble
     \/ Authorised(j) /\ Admissible(m, j, i) /\ mem' = m /\ Trouble
     \/ /\ Authorised(j) /\ Admissible(m, j, i)
        /\ ActionOf(j) = "restart" /\ i.state # "running"
        /\ mem' = m /\ UNCHANGED trouble
  /\ Return(c)
  /\ UNCHANGED <<disk, over, token, pending>> /\ Quiet

\* A first call that its probe i, observed in m, admits.
Admitted(c, j, m, i) ==
  Called(c, j) /\ mem.att[j] = None /\ Authorised(j) /\ Admissible(m, j, i)

\* A start of a running service, or of one that is already starting.
AdmitStarted(c, j) ==
  LET p == ProfileOf(j)
      i == Instance(unit[p])
      m == Observe(mem, p, i) IN
  /\ Admitted(c, j, m, i)
  /\ ActionOf(j) = "start" /\ i.state \in {"running", "starting"}
  /\ SavedOrNot(Put(m, j, IF i.state = "running"
                            THEN Attempt("done", i, Evidence(m, p, i, "succeeded"))
                            ELSE Attempt("effect", i, Evidence(m, p, i, "running"))))
  /\ Return(c)
  /\ UNCHANGED <<over, token, pending>> /\ Quiet

\* A stop: it cancels, is done if nothing runs, and goes on to its effect.
AdmitStop(c, j) ==
  LET p == ProfileOf(j)
      i == Instance(unit[p])
      m == Cancel(Observe(mem, p, i), p) IN
  /\ Admitted(c, j, Observe(mem, p, i), i) /\ ActionOf(j) = "stop"
  /\ token' = [token EXCEPT ![p] = @ + 1]
  /\ pending' = [pending EXCEPT ![p] = None]
  /\ \/ /\ i.shut
        /\ SavedOrNot(FinishStoppedStarts(
             Put(m, j, Attempt("done", i, Evidence(m, p, i, "succeeded"))), j))
        /\ Return(c)
     \/ /\ ~i.shut
        /\ mem' = m /\ UNCHANGED <<disk, trouble>>
        /\ call' = [call EXCEPT ![c] = [Enter(j) EXCEPT !.pc = "commit", !.inst = i]]
  /\ UNCHANGED over /\ Quiet

\* A start or a restart that needs the supervisor: a start leaves a record, and
\* the mutex is released for the weight check.
AdmitEffect(c, j) ==
  LET p == ProfileOf(j)
      i == Instance(unit[p])
      m == Observe(mem, p, i)
      mine == IF pending[p] = None THEN [pending EXCEPT ![p] = c] ELSE pending
      weights == [call EXCEPT ![c] = [Enter(j) EXCEPT !.pc = "weights",
                                                    !.token = token[p]]]
      accepted == Put(m, j, Attempt("preflight", i, Evidence(m, p, i, "accepted")))
  IN
  /\ Admitted(c, j, m, i)
  /\ \/ /\ ActionOf(j) = "restart" /\ i.state = "running"
        /\ mem' = m /\ call' = weights
        /\ UNCHANGED <<disk, trouble, pending>>
     \/ /\ ActionOf(j) = "start" /\ i.state \notin {"running", "starting"}
        /\ \/ Saved(accepted) /\ pending' = mine /\ call' = weights
           \/ SaveFails(accepted, m) /\ UNCHANGED pending /\ Return(c)
  /\ UNCHANGED <<over, token>> /\ Quiet

-----------------------------------------------------------------------------
(* Execute, after the weight check. *)

\* preflightLocked: every profile of a shared exclusion group is observed anew.
Rivals(p) == {q \in Profiles : <<p, q>> \in Conflict}
ObserveRivals(m, p) ==
  [m EXCEPT !.prof = [q \in Profiles |->
     IF q \in Rivals(p) THEN Observe(m, q, Instance(unit[q])).prof[q] ELSE @[q]]]
\* Mutant: a reservation does not count.
BusyUnreserved(m, p) == \E q \in Rivals(p) : m.prof[q].state \in Live
Busy(m, p) == \E q \in Rivals(p) : m.prof[q].reserved \/ m.prof[q].state \in Live

\* The mutex is taken again; the pending start is no longer pending.
Relock(c) ==
  LET p == ProfileOf(call[c].job) IN
  /\ call[c].pc = "weights" /\ Free
  /\ pending' = IF pending[p] = c THEN [pending EXCEPT ![p] = None] ELSE pending
  /\ UNCHANGED <<over, token>> /\ Quiet

\* Another call has decided this job: report what it decided.
WeightsDecided(c) ==
  LET j == call[c].job IN
  /\ Relock(c)
  /\ mem.att[j] # None /\ ~At(mem, j, {"preflight"})
  /\ call' = [call EXCEPT ![c] = Enter(j)]
  /\ UNCHANGED <<mem, disk, trouble>>

\* Mutant: nobody else is expected to have decided the job meanwhile.
StillOursAssumed(j) == TRUE
StillOurs(j) == mem.att[j] = None \/ At(mem, j, {"preflight"})

\* A stop came while the mutex was free.  (The instance kept in Before is read
\* of attempts with an effect only.)
WeightsCancelled(c) ==
  LET j == call[c].job IN
  /\ Relock(c) /\ StillOurs(j)
  /\ token[ProfileOf(j)] # call[c].token
  /\ SavedOrNot(Put(mem, j, Attempt("done", NoInstance,
                                    [Rejected EXCEPT !.status = "cancelled"])))
  /\ Return(c)

\* The weights (another check of them may be running), the probe, the second
\* validation or the preflight refuses.
WeightsRefused(c) ==
  LET j == call[c].job
      p == ProfileOf(j)
      i == Instance(unit[p])
      m == IF Authorised(j) THEN Observe(mem, p, i) ELSE mem
      r == ObserveRivals(m, p)
      valid == Authorised(j) /\ Admissible(m, j, i) IN
  /\ Relock(c) /\ StillOurs(j)
  /\ token[p] = call[c].token
  /\ \/ /\ Trouble
        /\ \E n \in {mem} \cup (IF valid THEN {m, r} ELSE {}) : RejectPreflight(n, j)
     \/ /\ \E d \in Calls \ {c} : call[d].pc = "weights" /\ ProfileOf(call[d].job) = p
        /\ Rejects(mem, j)
     \/ ~valid /\ Rejects(m, j)
     \/ valid /\ Busy(r, p) /\ Rejects(r, j)
  /\ Return(c)

WeightsPassed(c) ==
  LET j == call[c].job
      p == ProfileOf(j)
      i == Instance(unit[p])
      m == Observe(mem, p, i)
      r == ObserveRivals(m, p) IN
  /\ Relock(c) /\ StillOurs(j)
  /\ token[p] = call[c].token
  /\ Authorised(j) /\ Admissible(m, j, i) /\ ~Busy(r, p)
  /\ mem' = r /\ UNCHANGED <<disk, trouble>>
  /\ call' = [call EXCEPT ![c].pc = "commit", ![c].inst = i]

-----------------------------------------------------------------------------
(* The final admission and the one supervisor call, under the mutex. *)

\* exactStartStopInstance: the stop of job k names the instance a started.
Exact(j, k, i) ==
  LET a == mem.att[j] IN
  /\ i.state \in {"starting", "running"}
  /\ a.receipt.id = i.id /\ a.receipt.gen = request[k].gen
  /\ IF a.before.state = "starting"
       THEN a.before.id = i.id /\ request[j].gen = request[k].gen
       ELSE /\ a.before.state \in {"stopped", "failed"} /\ a.before.id # i.id
            /\ request[j].gen + 1 = request[k].gen

BoundStarts(k, i) ==
  {j \in Jobs : /\ ActionOf(k) = "stop" /\ ActionOf(j) = "start" /\ ParentOf(j) = None
                /\ At(mem, j, {"effect"}) /\ SameAuthority(j, k) /\ Exact(j, k, i)}

Link(m, js, by) ==
  [m EXCEPT !.att = [j \in Jobs |->
     IF j \in js THEN [@[j] EXCEPT !.by = by[j]] ELSE @[j]]]

\* restoreStartLinksLocked.
Restore(m, k, links) == Link(m, {j \in DOMAIN links : m.att[j].by = k}, links)

CommitRefused(c) ==
  LET j == call[c].job q == ParentOf(j) IN
  /\ call[c].pc = "commit"
  /\ \/ Trouble /\ UNCHANGED <<mem, disk>>                \* the shared lock is busy
     \/ /\ q # None /\ ~At(mem, q, {"restart_stopped"})
        /\ UNCHANGED <<mem, disk, trouble>>
     \/ Trouble /\ RejectPreflight(mem, j)                 \* the definition drifted
     \/ j \in lapsed /\ Rejects(mem, j)
  /\ Return(c)
  /\ UNCHANGED <<over, token, pending>> /\ Quiet

\* The attempt, the starts a stop is bound to, the parent and the reservation
\* are published together, before the effect.
Commit(c) ==
  LET j == call[c].job
      p == ProfileOf(j)
      q == ParentOf(j)
      i == call[c].inst
      links == [k \in BoundStarts(j, i) |-> mem.att[k].by]
      linked == Link(mem, DOMAIN links, [k \in DOMAIN links |-> j])
      parent == IF q = None THEN linked
                ELSE [linked EXCEPT !.att[q].stage = "start_attempted",
                                    !.att[q].receipt.status = "running"]
      held == IF ActionOf(j) = "stop" THEN parent
              ELSE [parent EXCEPT !.prof[p].reserved = TRUE]
      m == Put(held, j, Attempt("effect", i, Evidence(mem, p, i, "unknown")))
  IN
  /\ call[c].pc = "commit"
  /\ q # None => At(mem, q, {"restart_stopped"})
  /\ j \notin lapsed
  /\ \/ /\ Saved(m)
        /\ call' = [call EXCEPT ![c].pc = "effect", ![c].links = links]
     \/ SaveFails(m, Restore(Put(m, j, None), j, links)) /\ Return(c)
  /\ UNCHANGED <<over, token, pending>> /\ Quiet

\* The deadline passed while the attempt was being recorded.
EffectLapsed(c) ==
  LET j == call[c].job IN
  /\ call[c].pc = "effect" /\ j \in lapsed
  /\ SavedOrNot(Restore(Close(mem, {j}, Rejected), j, call[c].links))
  /\ Return(c)
  /\ UNCHANGED <<over, token, pending>> /\ Quiet

\* What systemctl start or stop leaves behind.
Outcomes(u, action) ==
  IF action = "start"
    THEN IF u.state \in {"starting", "running"} THEN {u}
         ELSE {[state |-> s, n |-> u.n + 1] : s \in {"queued", "starting", "running"}}
    ELSE CASE u.state \in Live -> {[u EXCEPT !.state = s] : s \in {"stopping", "stopped"}}
           [] u.state = "queued" -> {[u EXCEPT !.state = "stopped"]}
           [] OTHER -> {u}

Call(c) == IF ActionOf(call[c].job) = "start" THEN "start" ELSE "stop"

\* The supervisor's call is confirmed: the attempt is running.
Effect(c) ==
  LET j == call[c].job p == ProfileOf(j) IN
  /\ call[c].pc = "effect" /\ j \notin lapsed
  /\ effects' = [effects EXCEPT ![j] = @ + 1]
  /\ \E u \in Outcomes(unit[p], Call(c)) :
       LET i == Instance(u)
           o == Observe(mem, p, i)
           m == Put(o, j, [o.att[j] EXCEPT !.receipt = Evidence(o, p, i, "running")]) IN
       /\ unit' = [unit EXCEPT ![p] = u]
       /\ \/ /\ Saved(m)
             /\ call' = [call EXCEPT ![c] =
                  IF Call(c) = "stop" THEN [Enter(j) EXCEPT !.pc = "watch"]
                  ELSE [Enter(j) EXCEPT !.pc = "final", !.inst = i]]
          \/ SaveFails(m, m) /\ Return(c)
  /\ UNCHANGED <<plan, shown, request, lapsed, over, bound, token, pending, snap,
                 drifted, snaps>>

\* The call's answer is lost, whether or not the service heard it.
EffectUnconfirmed(c) ==
  LET j == call[c].job
      p == ProfileOf(j)
      m == Put(mem, j, [mem.att[j] EXCEPT
             !.receipt = Evidence(mem, p, call[c].inst, "unknown")]) IN
  /\ call[c].pc = "effect" /\ j \notin lapsed /\ Trouble
  /\ effects' = [effects EXCEPT ![j] = @ + 1]
  /\ \E u \in {unit[p]} \cup Outcomes(unit[p], Call(c)) : unit' = [unit EXCEPT ![p] = u]
  /\ mem' = m /\ disk' \in {disk, m}
  /\ Return(c)
  /\ UNCHANGED <<plan, shown, request, lapsed, over, bound, token, pending, snap,
                 drifted, snaps>>

-----------------------------------------------------------------------------
(* Execute, after its effect. *)

\* The watch sees the shutdown, without the mutex.
\* Mutant: a service that is still stopping is taken for a stopped one.
WatchedLeaving(c) ==
  LET i == Instance(unit[ProfileOf(call[c].job)]) IN
  /\ call[c].pc = "watch" /\ i.state # "running"
  /\ call' = [call EXCEPT ![c].pc = "final", ![c].inst = i]
  /\ UNCHANGED <<mem, disk, trouble, over, token, pending>> /\ Quiet
Watched(c) ==
  LET i == Instance(unit[ProfileOf(call[c].job)]) IN
  /\ call[c].pc = "watch" /\ i.shut
  /\ call' = [call EXCEPT ![c].pc = "final", ![c].inst = i]
  /\ UNCHANGED <<mem, disk, trouble, over, token, pending>> /\ Quiet

\* The watch gives up with its last probe, which may have failed.
WatchTimeout(c) ==
  LET j == call[c].job p == ProfileOf(j) IN
  /\ call[c].pc = "watch" /\ Free
  /\ \E i \in {Instance(unit[p]), NoInstance} :
       /\ ~i.shut
       /\ SavedOrNot(Put(mem, j, [mem.att[j] EXCEPT
                                    !.receipt = Evidence(mem, p, i, "unknown")]))
  /\ Return(c)
  /\ UNCHANGED <<over, token, pending>> /\ Quiet

\* What the last section of Execute makes of the instance it holds.
Conclude(j, i) ==
  LET p == ProfileOf(j)
      m == Observe(mem, p, i)
      a == m.att[j]
      closed == [a EXCEPT !.stage = "done", !.receipt = Evidence(m, p, i, "succeeded")]
  IN CASE ActionOf(j) = "start" /\ i.state # "running" ->
            Put(m, j, [closed EXCEPT !.stage = "effect", !.receipt.status = "running"])
       [] ActionOf(j) = "restart" ->
            [Put(m, j, [closed EXCEPT !.stage = "restart_stopped",
                                      !.receipt.status = "awaiting"])
               EXCEPT !.prof[p].reserved = TRUE, !.prof[p].until = j]
       [] OTHER -> FinishParent(FinishStoppedStarts(Put(m, j, closed), j), j)

\* Mutant: only the claim of a stop is looked at.
OvertakenByClaim(a) == a.by # None
\* A stop has closed the attempt or claimed it.
Overtaken(a) ==
  \/ a.stage = "done" /\ a.receipt.status \in {"cancelled", "superseded"}
  \/ a.by # None

Final(c) ==
  LET j == call[c].job a == mem.att[j] m == Conclude(j, call[c].inst) IN
  /\ call[c].pc = "final" /\ Free
  /\ IF Overtaken(a)
       THEN UNCHANGED <<mem, disk, trouble, over>>
       ELSE /\ SavedOrNot(m)
            /\ over' = IF At(m, j, {"restart_stopped"}) THEN over \ {j} ELSE over
  /\ Return(c)
  /\ UNCHANGED <<token, pending>> /\ Quiet

-----------------------------------------------------------------------------
(* Snapshot, the broker's connections and restarts. *)

NoSnap == [pc |-> "idle", profile |-> None, inst |-> NoInstance]

\* One profile of a Snapshot: probed without the mutex, observed under it, and
\* published once the journal is saved.  Probe and observation may be far apart.
SnapshotProbe(p) ==
  /\ snap.pc = "idle" /\ snaps < plan.snaps /\ snaps' = snaps + 1
  /\ snap' = [pc |-> "probed", profile |-> p, inst |-> Instance(unit[p])]
  /\ UNCHANGED <<world, mem, disk, bound, token, pending, call, effects, trouble, drifted>>

\* A service that answers its readiness probe no longer holds a reservation.
SnapshotPublish ==
  LET p == snap.profile
      o == Observe(mem, p, snap.inst)
      ready == [o EXCEPT !.prof[p].reserved = FALSE] IN
  /\ snap.pc = "probed" /\ Free
  /\ \E m \in {o} \cup (IF snap.inst.state \in {"running", "starting"}
                          THEN {ready} ELSE {}) :
       \/ /\ Saved(m)
          /\ shown' = [shown EXCEPT ![p] = [gen |-> m.prof[p].gen, id |-> snap.inst.id]]
       \/ SaveFails(m, m) /\ UNCHANGED shown
  /\ snap' = NoSnap
  /\ UNCHANGED <<plan, unit, request, lapsed, over, bound, token, pending, call,
                 effects, drifted, snaps>>

\* The controller issues a job against what it was shown.  A linked start needs
\* the restart's verified stop.
Issue(j) ==
  /\ j \in plan.use /\ request[j] = None /\ ~Local(j) /\ bound
  /\ ParentOf(j) # None => At(mem, ParentOf(j), {"restart_stopped"})
  /\ request' = [request EXCEPT ![j] = shown[ProfileOf(j)]]
  /\ UNCHANGED <<plan, unit, shown, lapsed, over, mem, disk, volatile, effects, budget>>

\* ExecuteLocal: the machine's administrator.  A job the journal does not know
\* is issued against what the service is now; a restart that has come to its
\* start is asked about through that start.  Two concurrent local calls of a
\* job differ in their digests: the second changes nothing and is left out.
ExecuteLocal(c, j) ==
  LET p == ProfileOf(j)
      i == Instance(unit[p])
      m == Observe(mem, p, i)
      stages == {k \in Jobs : ParentOf(k) = j /\ mem.att[k] # None} IN
  /\ j \in plan.use /\ Local(j) /\ ParentOf(j) = None
  /\ call[c].pc = "idle" /\ Free
  /\ \A d \in Calls : call[d].job # j
  /\ \/ /\ mem.att[j] # None
        /\ \E k \in IF At(mem, j, {"start_attempted"}) /\ stages # {} THEN stages ELSE {j} :
             call' = [call EXCEPT ![c] = Enter(k)]
        /\ UNCHANGED <<mem, request, lapsed>>
     \/ /\ mem.att[j] = None
        /\ mem' = m
        /\ request' = [request EXCEPT ![j] = [gen |-> m.prof[p].gen, id |-> i.id]]
        /\ lapsed' = lapsed \ {j}
        /\ call' = [call EXCEPT ![c] = Enter(j)]
  /\ UNCHANGED <<plan, unit, shown, over, disk, bound, token, pending, snap,
                 effects, budget>>

\* Its second half: the linked start of a restart that has stopped.  A start
\* that was issued before has another digest and is refused.
ExecuteLocalStart(c, j) ==
  LET p == ProfileOf(j)
      i == Instance(unit[p])
      m == Observe(mem, p, i) IN
  /\ j \in plan.use /\ Local(j) /\ ParentOf(j) # None
  /\ call[c].pc = "idle" /\ Free
  /\ \A d \in Calls : call[d].job # j
  /\ At(mem, ParentOf(j), {"restart_stopped"}) /\ i.shut
  /\ mem' = m
  /\ IF mem.att[j] # None THEN UNCHANGED <<request, lapsed, call>>
     ELSE /\ request' = [request EXCEPT ![j] = [gen |-> m.prof[p].gen, id |-> i.id]]
          /\ lapsed' = lapsed \ {j}
          /\ call' = [call EXCEPT ![c] = Enter(j)]
  /\ UNCHANGED <<plan, unit, shown, over, disk, bound, token, pending, snap,
                 effects, budget>>

Bind ==
  /\ ~bound /\ Free /\ bound' = TRUE
  /\ UNCHANGED <<world, mem, disk, token, pending, call, snap, effects, budget>>

\* The broker opens the journal again; what it held in memory is gone.
Reopen ==
  /\ mem' = disk
  /\ bound' = FALSE
  /\ token' = [p \in Profiles |-> 0]
  /\ pending' = [p \in Profiles |-> None]
  /\ call' = [c \in Calls |-> Idle]
  /\ snap' = NoSnap
  /\ UNCHANGED <<plan, shown, request, lapsed, over, disk, drifted, snaps>>

\* It dies anywhere, and between the supervisor's call and its record.
Crash == Trouble /\ Reopen /\ UNCHANGED <<unit, effects>>

CrashInEffect(c) ==
  LET j == call[c].job p == ProfileOf(j) IN
  /\ call[c].pc = "effect" /\ j \notin lapsed /\ Trouble /\ Reopen
  /\ effects' = [effects EXCEPT ![j] = @ + 1]
  /\ \E u \in Outcomes(unit[p], Call(c)) : unit' = [unit EXCEPT ![p] = u]

Lapse(j) ==
  /\ Trouble
  /\ request[j] # None /\ j \notin lapsed
  /\ lapsed' = lapsed \cup {j}
  /\ UNCHANGED <<plan, unit, shown, request, over, mem, disk, volatile, effects, drifted, snaps>>

WindowCloses(q) ==
  /\ Trouble
  /\ At(mem, q, {"restart_stopped"}) /\ q \notin over
  /\ over' = over \cup {q}
  /\ UNCHANGED <<plan, unit, shown, request, lapsed, mem, disk, volatile, effects, drifted, snaps>>

\* The services move on by themselves ...
Progress(p) ==
  /\ \E s \in UnitStates :
       /\ <<unit[p].state, s>> \in
            {<<"queued", "starting">>, <<"starting", "running">>,
             <<"stopping", "stopped">>, <<"stopping", "failed">>, <<"dying", "failed">>}
       /\ unit' = [unit EXCEPT ![p].state = s]
  /\ UNCHANGED <<plan, shown, request, lapsed, over, mem, disk, volatile, effects, budget>>

\* ... break, and are started and stopped by others.
Drift(p) ==
  /\ Trouble /\ drifted' = TRUE
  /\ \/ /\ unit[p].state \in {"starting", "running"}
        /\ \E s \in {"failed", "dying", "stopped"} : unit' = [unit EXCEPT ![p].state = s]
     \/ /\ unit[p].state \in {"stopped", "failed"}
        /\ unit' = [unit EXCEPT ![p] = [state |-> "running", n |-> @.n + 1]]
  /\ UNCHANGED <<plan, shown, request, lapsed, over, mem, disk, volatile, effects,
                 snaps>>

-----------------------------------------------------------------------------
Init ==
  /\ plan \in Plans
  /\ \E up \in plan.up :
       unit = [p \in Profiles |-> [state |-> IF p \in up THEN "running" ELSE "stopped",
                                   n |-> 0]]
  /\ mem = [att  |-> [j \in Jobs |-> None],
            prof |-> [p \in Profiles |->
                        [gen |-> 1, id |-> Instance(unit[p]).id, state |-> unit[p].state,
                         reserved |-> FALSE, until |-> None]]]
  /\ disk = mem
  /\ bound = TRUE
  /\ shown = [p \in Profiles |-> [gen |-> 1, id |-> Instance(unit[p]).id]]
  /\ request = [j \in Jobs |-> None]
  /\ lapsed = {} /\ over = {}
  /\ token = [p \in Profiles |-> 0]
  /\ pending = [p \in Profiles |-> None]
  /\ call = [c \in Calls |-> Idle]
  /\ snap = NoSnap
  /\ effects = [j \in Jobs |-> 0]
  /\ trouble = 0 /\ drifted = FALSE /\ snaps = 0

Step(c) ==
  \/ \E j \in Jobs : \/ Replay(c, j) \/ ReplayInterrupted(c, j) \/ ReplayReconcile(c, j)
                     \/ Refuse(c, j) \/ AdmitStarted(c, j) \/ AdmitStop(c, j)
                     \/ AdmitEffect(c, j)
  \/ WeightsDecided(c) \/ WeightsCancelled(c) \/ WeightsRefused(c) \/ WeightsPassed(c)
  \/ CommitRefused(c) \/ Commit(c)
  \/ EffectLapsed(c) \/ Effect(c) \/ EffectUnconfirmed(c)
  \/ Watched(c) \/ WatchTimeout(c) \/ Final(c)

\* A profile no job of the behaviour names is left alone.
Used == {ProfileOf(j) : j \in plan.use}

Next ==
  \/ \E c \in Calls : Step(c)
  \/ \E p \in Used : SnapshotProbe(p)
  \/ SnapshotPublish
  \/ \E j \in Jobs : Issue(j) \/ Lapse(j) \/ WindowCloses(j)
  \/ \E c \in Calls, j \in Jobs : ExecuteLocal(c, j) \/ ExecuteLocalStart(c, j)
  \/ \E c \in Calls : CrashInEffect(c)
  \/ \E p \in Used : Progress(p) \/ Drift(p)
  \/ Bind \/ Crash

Spec == Init /\ [][Next]_vars

-----------------------------------------------------------------------------
(* Properties. *)

Instances == [state : {"stopped", "failed", "unknown"} \cup Live,
              id : ({"", "stopped", "live", "queued", "failed", "dying"} \X Nat),
              shut : BOOLEAN]
Stages == {"preflight", "effect", "restart_stopped", "start_attempted", "done"}
Statuses == {"accepted", "unknown", "running", "awaiting", "succeeded", "rejected",
             "cancelled", "superseded"}
Receipts == [status : Statuses, id : {"", "stopped", "live", "queued", "failed", "dying"} \X Nat,
             gen : Nat, shut : BOOLEAN]
Attempts == [stage : Stages, before : Instances, by : Jobs \cup {None}, receipt : Receipts]
JournalOK(m) ==
  /\ \A j \in Jobs : m.att[j] # None => m.att[j] \in Attempts
  /\ \A p \in Profiles : m.prof[p].gen \in Nat /\ m.prof[p].until \in Jobs \cup {None}

\* The attempts in memory and on disk, the calls and the services have the
\* shapes control.go declares; no stage is stored that Execute cannot read.
TypeOK ==
  /\ JournalOK(mem) /\ JournalOK(disk)
  /\ \A c \in Calls : call[c].pc \in {"idle", "enter", "weights", "commit", "effect",
                                      "watch", "final"}
  /\ \A p \in Profiles : unit[p].state \in UnitStates /\ pending[p] \in Calls \cup {None}

\* A job makes the supervisor act at most once, whatever is retried, crashes or
\* fails to be saved, and what was done can be found again: the file then holds
\* its attempt, not recorded as rejected, nor as cancelled unless it was the
\* linked start of a restart (Execute, control.go:440: "Execute durably marks an
\* attempt before the one fixed supervisor call").
EffectOnce ==
  \A j \in Jobs : effects[j] > 0 =>
    /\ effects[j] = 1
    /\ disk.att[j] # None
    /\ disk.att[j].receipt.status # "rejected"
    /\ disk.att[j].receipt.status = "cancelled" => ParentOf(j) # None

\* The generation is a fence: a job acts only on the very instance of the
\* service its owner was shown when the job was issued.
Fenced == \A j \in Jobs : effects[j] > 0 => disk.att[j].before.id = request[j].id

Runs(p) == unit[p].state \in Live \cup {"queued", "dying"}

\* Two services of one exclusion group never run together, unless someone else
\* starts them: not while one is queued, stopping or between the two halves of
\* a restart.
Exclusive == ~drifted => \A e \in Conflict : ~(Runs(e[1]) /\ Runs(e[2]))

\* A stop reported as succeeded has ended the instance it was asked to stop.
StoppedIsStopped ==
  \A j \in Jobs :
    /\ ActionOf(j) = "stop" /\ At(mem, j, {"done"})
    /\ mem.att[j].receipt.status = "succeeded"
    => LET u == unit[ProfileOf(j)] IN
       ~(u.state \in Live /\ request[j].id = <<"live", u.n>>)

\* A recorded refusal or cancellation is final, and a start or restart that a
\* stop superseded is never reopened, by no late section of an overtaken call; a
\* start or restart that a stop found waiting for its weights never acts.
RefusalStays ==
  [][/\ \A j \in Jobs : At(disk, j, {"done"}) =>
          LET status == disk.att[j].receipt.status IN
          /\ status \in {"rejected", "cancelled"} => disk'.att[j] = disk.att[j]
          /\ status = "superseded" => At(disk', j, {"done"})
     /\ \A c \in Calls : call'[c].pc = "effect" =>
          LET j == call'[c].job IN
          ActionOf(j) # "stop" => call'[c].token = token'[ProfileOf(j)]]_vars

\* What a job does to a service it was entitled to do: it acts on the instance
\* its owner was shown, and never beside a service it excludes (Execute and
\* validateLocked).
EntitledEffects == Fenced /\ Exclusive
=============================================================================
