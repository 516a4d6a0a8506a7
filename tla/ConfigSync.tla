----------------------------- MODULE ConfigSync -----------------------------
(***************************************************************************)
(* How an agent's configuration gets from the owner to the machine and back *)
(* (internal/server/operations.go and ingest.go, internal/storage/store.go, *)
(* internal/agent/runtime/runtime.go, internal/agent/configfile).           *)
(*                                                                         *)
(* The controller keeps one desired configuration per agent and every       *)
(* revision it ever published.  An owner's operation and a discovery each   *)
(* publish a new revision; an operation also queues a job that succeeds     *)
(* only on proof that its very revision was applied.  The agent reports     *)
(* what it runs; the answer carries the desired configuration, which the    *)
(* agent writes to two files, adopts, and mirrors in its identity file.     *)
(*                                                                         *)
(* Reports are numbered in the order they are made, over all sessions: the  *)
(* number stands for the observation time and, within a session, for the    *)
(* sequence.  Reports replayed from the spool touch nothing of this and are *)
(* in AgentReports.  A service host may put the previous worker in place of *)
(* this one; that worker is not part of the repository, and knows only the  *)
(* plain file and the mirror.                                               *)
(***************************************************************************)
EXTENDS Naturals, Sequences, FiniteSets

CONSTANTS
  Sockets,         \* HTTP services that discovery can find on the machine
  MaxOrders,       \* bounds: the owner's configuration operations,
  MaxPosts,        \* reports made,
  MaxUpsets        \* and those with lost exchanges, failed writes, crashes and
                   \* worker switches together

\* NoBody differs from every configuration by its checks, so there are some.
ASSUME ConfigConstants == Sockets # {}

VARIABLES
  desired,         \* agents.desired_revision and desired_config
  published,       \* config_revisions, the body of every revision
  applied,         \* agents.applied_revision and applied_hash
  heard,           \* agents.last_seq: the newest live report
  taken,           \* ingest_receipts: the reports committed so far
  order,           \* agent_jobs and operation_targets of the orders
  worker,          \* "down", or which worker runs: "this" or "previous"
  running,         \* a.cfg and a.cfgRev
  envelope,        \* applied-envelope.json
  plain,           \* applied.json
  mirror,          \* the identity file's applied revision and hash
  shadow,          \* the same, in memory
  verdict,         \* the agent's receipts for the orders
  stage,           \* where the agent's loop is
  answer,          \* the controller's answer the agent is acting on
  posts,           \* reports on their way
  posted,          \* reports made so far
  mishaps,
  calm             \* history: exchanges completed since the last mishap, order or discovery

server == <<desired, published, applied, heard, taken, order>>
configFiles == <<envelope, plain, mirror>>
memory == <<worker, running, shadow, stage, answer>>
upsets == <<mishaps, calm>>
configVars == <<server, configFiles, memory, verdict, posts, posted, upsets>>

-----------------------------------------------------------------------------
(* Configurations, and the operations on them, one job each. *)

Orders == 1 .. MaxOrders

\* A check that is paused or ignored is not run; the two are one here.
Checks == {"none", "on", "paused"}
NoBody == [auto |-> FALSE, checks |-> <<>>]
NoFile == [rev |-> 0, body |-> NoBody]
Config(r, b) == [rev |-> r, body |-> b]
DefaultConfig == [auto |-> FALSE, checks |-> [s \in Sockets |-> "none"]]

Patches == {[kind |-> "auto", socket |-> "any"]}
           \cup [kind : {"paused", "on"}, socket : Sockets]

\* applyConfigPatch; a service that has no check cannot be paused or resumed.
Patchable(b, p) == p.kind # "auto" => b.checks[p.socket] # "none"
Patched(b, p) ==
  IF p.kind = "auto" THEN [b EXCEPT !.auto = ~@] ELSE [b EXCEPT !.checks[p.socket] = p.kind]

\* ensureBaselineChecks: a service found for the first time gets a check,
\* paused unless new services are monitored automatically.
Unchecked(b, found) == {s \in found : b.checks[s] = "none"}
Baseline(b, found) ==
  [b EXCEPT !.checks = [s \in Sockets |->
     IF s \in Unchecked(b, found) THEN (IF b.auto THEN "on" ELSE "paused") ELSE @[s]]]

NoAnswer == [desired |-> NoFile, jobs |-> {}]
NoOrder == [status |-> "none", wants |-> NoFile]
Unsettled == {"queued", "unpublished"}

ConfigInit ==
  /\ desired = Config(1, DefaultConfig) /\ published = <<DefaultConfig>>
  /\ applied = NoFile /\ heard = 0 /\ taken = {}
  /\ order = [j \in Orders |-> NoOrder]
  /\ worker \in {"this", "previous"} /\ running = Config(0, DefaultConfig)
  /\ envelope = NoFile /\ plain = NoBody /\ mirror = NoFile /\ shadow = NoFile
  /\ verdict = [j \in Orders |-> "none"]
  /\ stage = "idle" /\ answer = NoAnswer
  /\ posts = {} /\ posted = 0 /\ mishaps = 0 /\ calm = 0

Upset == Cardinality({j \in Orders : order[j].status # "none"}) + mishaps < MaxUpsets
Mishap == Upset /\ mishaps' = mishaps + 1 /\ calm' = 0
NoMishap == UNCHANGED <<mishaps, calm>>

-----------------------------------------------------------------------------
(* The controller. *)

\* processSubmit up to InsertOperation: the operation and its job are saved
\* before the configuration they are about.
SubmitOrder(j) ==
  /\ Upset
  /\ order[j].status = "none"
  /\ \A k \in Orders : /\ order[k].status # "unpublished"
                        /\ k < j => order[k].status # "none"
  /\ order' = [order EXCEPT ![j] = [status |-> "unpublished", wants |-> NoFile]]
  /\ calm' = 0
  /\ UNCHANGED <<desired, published, applied, heard, taken, configFiles, memory, verdict, posts,
                 posted, mishaps>>

\* bumpDesired: the revision, its body and the target's evidence in one
\* transaction.
BumpDesired(j, p) ==
  LET b == Patched(desired.body, p) IN
  /\ order[j].status = "unpublished" /\ Patchable(desired.body, p)
  /\ desired' = Config(desired.rev + 1, b)
  /\ published' = Append(published, b)
  /\ order' = [order EXCEPT ![j] = [status |-> "queued", wants |-> Config(desired.rev + 1, b)]]
  /\ calm' = 0
  /\ UNCHANGED <<applied, heard, taken, configFiles, memory, verdict, posts, posted, mishaps>>

\* The transaction fails, or the controller stops before it: the target fails
\* but the job stays queued, without a revision to expect.
BumpFails(j) ==
  /\ Mishap
  /\ order[j].status = "unpublished"
  /\ order' = [order EXCEPT ![j].status = "queued"]
  /\ UNCHANGED <<desired, published, applied, heard, taken, configFiles, memory, verdict, posts,
                 posted>>

\* SetApplied: never backwards, and only a revision published with that body.
AcceptsApplied(r) ==
  /\ r.rev > 0 /\ applied.rev <= r.rev
  /\ r.rev <= Len(published) /\ published[r.rev] = r.body

\* ApplyReceipt of a configuration job.
Judged(j, v, current) ==
  IF v = "none" \/ order[j].status \in {"succeeded", "rejected"} THEN order[j].status
  ELSE IF v = "succeeded" /\ order[j].wants # current THEN "rejected" ELSE v

\* handleReport and AcceptReport, under the controller's lock.  Only a report
\* newer than any live one changes the agent's row; its receipts count anyway.
HandlePost(p) ==
  LET live == p.n \notin taken /\ p.n > heard
      control == live \/ p.n = heard
      current == IF live /\ AcceptsApplied(p.runs) THEN p.runs ELSE applied
      found == IF live THEN p.found ELSE {}
      next == IF Unchecked(desired.body, found) = {} THEN desired
              ELSE Config(desired.rev + 1, Baseline(desired.body, found))
      judged == [j \in Orders |-> [order[j] EXCEPT !.status = Judged(j, p.verdict[j], current)]]
  IN
  /\ p \in posts /\ \A k \in Orders : order[k].status # "unpublished"
  /\ posts' = posts \ {p}
  /\ taken' = taken \cup {p.n}
  /\ heard' = IF live THEN p.n ELSE heard
  /\ applied' = current
  /\ desired' = next
  /\ published' = IF next = desired THEN published ELSE Append(published, next.body)
  /\ order' = judged
  /\ answer' = IF stage # "wait" \/ p.n # posted THEN answer
               ELSE [desired |-> IF control THEN next ELSE NoFile,
                     jobs |-> IF control THEN {j \in Orders : judged[j].status = "queued"} ELSE {}]
  /\ stage' = IF stage = "wait" /\ p.n = posted THEN "answered" ELSE stage
  /\ calm' = IF next = desired THEN calm ELSE 0
  /\ UNCHANGED <<configFiles, worker, running, shadow, verdict, posted, mishaps>>

-----------------------------------------------------------------------------
(* The agent. *)

\* tick: a discovery may have ended since the last report.
Post(found) ==
  /\ worker # "down" /\ stage = "idle" /\ posted < MaxPosts
  /\ posted' = posted + 1
  /\ posts' = posts \cup {[n |-> posted + 1, runs |-> running, found |-> found,
                           verdict |-> verdict]}
  /\ stage' = "wait"
  /\ UNCHANGED <<server, configFiles, worker, running, shadow, answer, verdict, upsets>>

\* The request or its answer is lost; the request may still arrive later.
Unanswered(lost) ==
  /\ Mishap
  /\ stage \in {"wait", "answered"}
  /\ posts' = IF lost THEN {p \in posts : p.n # posted} ELSE posts
  /\ stage' = "idle" /\ answer' = NoAnswer
  /\ UNCHANGED <<server, configFiles, worker, running, shadow, verdict, posted>>

\* Mutant of Newer: revisions are taken one after the other.
NextOnly == answer.desired.rev = running.rev + 1

\* applyControl: only a newer revision replaces the accepted configuration.
Newer == answer.desired.rev > running.rev

Unneeded ==
  /\ stage = "answered" /\ ~Newer
  /\ stage' = "jobs"
  /\ UNCHANGED <<server, configFiles, worker, running, shadow, answer, verdict, posts, posted,
                 upsets>>

\* Mutant: the configuration is adopted before it is saved.
AdoptFirst ==
  /\ worker = "this" /\ stage = "answered" /\ Newer
  /\ running' = answer.desired /\ shadow' = answer.desired
  /\ \/ envelope' = answer.desired /\ stage' = "envelope" /\ NoMishap
     \/ Mishap /\ envelope' \in {envelope, answer.desired} /\ stage' = "jobs"
  /\ UNCHANGED <<server, plain, mirror, worker, answer, verdict, posts, posted>>

\* SaveAppliedConfig: two atomic writes, each of which may report a failure
\* with the new file already in place.
WriteEnvelope ==
  /\ worker = "this" /\ stage = "answered" /\ Newer
  /\ \/ envelope' = answer.desired /\ stage' = "envelope" /\ NoMishap
     \/ Mishap /\ envelope' \in {envelope, answer.desired} /\ stage' = "jobs"
  /\ UNCHANGED <<server, plain, mirror, worker, running, shadow, answer, verdict, posts, posted>>

\* Then, and only then, the agent runs it.
WritePlain ==
  /\ stage = "envelope"
  /\ \/ /\ plain' = answer.desired.body /\ stage' = "plain"
        /\ running' = answer.desired /\ shadow' = answer.desired
        /\ NoMishap
     \/ /\ Mishap /\ plain' \in {plain, answer.desired.body} /\ stage' = "jobs"
        /\ UNCHANGED <<running, shadow>>
  /\ UNCHANGED <<server, envelope, mirror, worker, answer, verdict, posts, posted>>

\* State.Save, whose failure is ignored.
SaveMirror ==
  /\ stage = "plain"
  /\ \/ mirror' = shadow /\ NoMishap
     \/ Mishap /\ mirror' \in {mirror, shadow}
  /\ stage' = "jobs"
  /\ UNCHANGED <<server, envelope, plain, worker, running, shadow, answer, verdict, posts, posted>>

\* The previous worker applies a configuration its own way; its two writes are
\* taken as one.
PreviousApplies ==
  /\ worker = "previous" /\ stage = "answered" /\ Newer
  /\ plain' = answer.desired.body /\ mirror' = answer.desired
  /\ running' = answer.desired /\ shadow' = answer.desired
  /\ stage' = "jobs"
  /\ UNCHANGED <<server, envelope, worker, answer, verdict, posts, posted, upsets>>

\* handleJob: a configuration job has succeeded if what it expects is what
\* runs, and is rejected otherwise.
Outcome(j) == IF order[j].wants = running THEN "succeeded" ELSE "rejected"

HandleConfigJobs ==
  /\ stage = "jobs"
  /\ verdict' = [j \in Orders |-> IF j \in answer.jobs /\ verdict[j] = "none"
                                  THEN Outcome(j) ELSE verdict[j]]
  /\ stage' = "idle" /\ answer' = NoAnswer
  /\ calm' = IF calm < 3 THEN calm + 1 ELSE calm
  /\ UNCHANGED <<server, configFiles, worker, running, shadow, posts, posted, mishaps>>

-----------------------------------------------------------------------------
(* Restarts. *)

Die ==
  /\ Mishap
  /\ worker # "down"
  /\ worker' = "down" /\ stage' = "idle" /\ answer' = NoAnswer
  /\ UNCHANGED <<server, configFiles, running, shadow, verdict, posts, posted>>

\* What Open makes of the files: the envelope, or a newer configuration that
\* the previous worker left; Refused where it reports an error.
Refused == NoFile
Stored ==
  IF envelope # NoFile THEN envelope
  ELSE IF plain # NoBody THEN Config(mirror.rev, plain) ELSE NoFile
Reloaded ==
  CASE Stored = NoFile -> IF mirror # NoFile THEN Refused ELSE Config(0, DefaultConfig)
    [] Stored # NoFile /\ mirror.rev > Stored.rev ->
         IF plain = mirror.body THEN mirror ELSE Refused
    [] Stored # NoFile /\ mirror.rev = Stored.rev ->
         IF mirror # NoFile /\ Stored.body # mirror.body THEN Refused ELSE Stored
    [] OTHER -> Stored

\* Adopting what the previous worker left is saved first.
OpenThis ==
  /\ worker = "down" /\ Reloaded # Refused
  /\ LET adopt == Stored # NoFile /\ mirror.rev > Stored.rev IN
     \/ /\ worker' = "this" /\ running' = Reloaded /\ shadow' = mirror
        /\ envelope' = IF adopt THEN Reloaded ELSE envelope
        /\ NoMishap
     \/ /\ Mishap /\ adopt
        /\ envelope' \in {envelope, Reloaded}
        /\ UNCHANGED <<worker, running, shadow>>
  /\ UNCHANGED <<server, plain, mirror, stage, answer, verdict, posts, posted>>

OpenPrevious ==
  /\ NoMishap
  /\ worker = "down" /\ plain # NoBody
  /\ worker' = "previous"
  /\ running' = Config(mirror.rev, plain) /\ shadow' = mirror
  /\ UNCHANGED <<server, configFiles, stage, answer, verdict, posts, posted>>

-----------------------------------------------------------------------------

Serve == \E p \in posts : HandlePost(p)
Exchange == \E found \in SUBSET Sockets : Post(found)
Obey == Unneeded \/ WriteEnvelope \/ WritePlain \/ SaveMirror \/ PreviousApplies
        \/ HandleConfigJobs
Publish == \E j \in Orders, p \in Patches : BumpDesired(j, p)

ConfigNext ==
  \/ \E j \in Orders : SubmitOrder(j) \/ BumpFails(j)
  \/ Publish
  \/ Serve \/ Exchange \/ Obey
  \/ \E lost \in BOOLEAN : Unanswered(lost)
  \/ Die \/ OpenThis \/ OpenPrevious

ConfigSpec == ConfigInit /\ [][ConfigNext]_configVars

-----------------------------------------------------------------------------
(* Properties. *)

\* What the controller believes applied survives a restart of the agent: the
\* files give that revision or a newer one, wherever the agent was stopped and
\* whichever write failed.
AppliedSurvives ==
  applied # NoFile =>
    /\ Reloaded # Refused /\ Reloaded.rev >= applied.rev
    /\ published[applied.rev] = applied.body

\* No crash, failed write or spell of the previous worker leaves files that
\* Open refuses, and what it loads is the body published under that revision.
OpensAgain ==
  /\ Reloaded # Refused
  /\ Reloaded.rev > 0 => Reloaded.rev <= Len(published) /\ published[Reloaded.rev] = Reloaded.body

\* A configuration operation succeeds only if the agent really ran its very
\* revision: it is among the revisions the agent has durably adopted, and was
\* the one applied when the receipt came.
OrderHonest ==
  \A j \in Orders : order[j].status = "succeeded" =>
    /\ order[j].wants # NoFile
    /\ published[order[j].wants.rev] = order[j].wants.body
    /\ Reloaded # Refused /\ Reloaded.rev >= order[j].wants.rev

\* Three exchanges without a mishap, an order or a discovery are enough: the
\* controller's desired configuration is applied and known to be, and every
\* operation has its result, whatever came before.
ConfigConverges ==
  calm = 3 => applied = desired /\ \A j \in Orders : order[j].status \notin Unsettled

\* What controller and operations say of the configuration is what the agent's
\* files give after a restart, wherever it was stopped (SaveAppliedConfig,
\* LoadAppliedEnvelope, AcceptReport).
ConfigHonest == AppliedSurvives /\ OpensAgain /\ OrderHonest
=============================================================================
