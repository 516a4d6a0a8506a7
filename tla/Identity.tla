------------------------------ MODULE Identity ------------------------------
(***************************************************************************)
(* How a device gets, changes and loses the credential it reports with.    *)
(*                                                                         *)
(* A device registers with a one-use code (agent/setup/enroll.go against   *)
(* EnrollAgent) or announces itself and waits for the owner's decision     *)
(* (announcement.go against Announce and DecideCandidate).  Later the      *)
(* owner orders a rotation, in which the device makes the next credential, *)
(* registers its verifier beside the current one and starts to use it      *)
(* (jobRotate, RegisterPendingCredential, PromoteCredential), or revokes   *)
(* the device (RevokeOperationAgents).                                     *)
(*                                                                         *)
(* A credential is the number of its generation on the device; 0 is none.  *)
(* Every file a device writes is a step of its own, it may stop between    *)
(* any two, answers get lost, and authenticating with a pending credential *)
(* reads the overlap first and promotes it in a second transaction.        *)
(***************************************************************************)
EXTENDS Naturals, FiniteSets
LOCAL INSTANCE FiniteSetsExt

CONSTANTS
    Devices,
    WayOf,          \* device -> "code" or "announce": its setup profile
    MaxCandidates,  \* capacity of agent_candidates (100)
    MaxRotations,   \* bound: rotations ordered
    MaxSlips        \* bound: crashes, lost answers, write errors, expiries

VARIABLES
    dev,        \* files and process of each device
    row,        \* agents: credential_hash and revoked, by device
    overlap,    \* agent_credential_overlap: pending hash and whether unexpired
    candidate,  \* agent_candidates: state, hash, and whether seen lately
    code,       \* the enrollment code: consumer and expiry
    admission,  \* the admission window is open
    rotation,   \* the credential.rotate job: status and how many were ordered
    slips,
    ranOut      \* history: devices whose pending credential expired unused

identityVars == <<dev, row, overlap, candidate, code, admission, rotation, slips, ranOut>>
serverSide == <<row, overlap, candidate, code, admission>>

NoRow == [hash |-> 0, revoked |-> FALSE, made |-> FALSE]
NewRow(h) == [hash |-> h, revoked |-> FALSE, made |-> TRUE]
NoOverlap == [hash |-> 0, live |-> FALSE]
NoCandidate == [state |-> "none", hash |-> 0, fresh |-> FALSE]

\* A device: the setup intent's credential, the credential file, the state of
\* agent.json, rotation-<job>.credential, a.Cred, the step, a job's receipt.
NewDevice == [intent |-> 0, cred |-> 0, cfg |-> "none", next |-> 0, mem |-> 0, made |-> 0, at |-> "off", receipt |-> "none"]

Goes(d, new) == dev' = [dev EXCEPT ![d] = new]

Slip == slips < MaxSlips /\ slips' = slips + 1

-----------------------------------------------------------------------------
(* Registration with a code. *)

\* Mutant: every attempt makes a new credential.
BeginEnrollAnew(d) ==
    /\ WayOf[d] = "code" /\ dev[d].at = "off" /\ dev[d].cfg = "none"
    /\ Goes(d, [dev[d] EXCEPT !.at = "enroll", !.intent = dev[d].made + 1, !.made = dev[d].made + 1])
    /\ UNCHANGED <<serverSide, rotation, slips, ranOut>>

\* Enroll up to the exchange: refused when agent.json exists; the credential
\* is generated once and kept in enrollment-intent.json.
BeginEnroll(d) ==
    /\ WayOf[d] = "code" /\ dev[d].at = "off" /\ dev[d].cfg = "none"
    /\ IF dev[d].intent # 0 THEN Goes(d, [dev[d] EXCEPT !.at = "enroll"])
       ELSE Goes(d, [dev[d] EXCEPT !.at = "enroll", !.intent = dev[d].made + 1, !.made = dev[d].made + 1])
    /\ UNCHANGED <<serverSide, rotation, slips, ranOut>>

\* EnrollAgent: a used code answers only its own consumer with the same proof.
Enrolls(d) == ~code.expired /\ code.used = "nobody" /\ ~row[d].made
Replays(d) == ~code.expired /\ code.used = d /\ ~row[d].revoked /\ row[d].hash = dev[d].intent

\* handleEnroll and the rest of the exchange; the answer may get lost.
EnrollExchange(d) ==
    /\ dev[d].at = "enroll"
    /\ IF Enrolls(d)
       THEN /\ row' = [row EXCEPT ![d] = NewRow(dev[d].intent)]
            /\ code' = [code EXCEPT !.used = d]
       ELSE UNCHANGED <<row, code>>
    /\ \/ Goes(d, [dev[d] EXCEPT !.at = IF Enrolls(d) \/ Replays(d) THEN "credential" ELSE "off"]) /\ UNCHANGED slips
       \/ Goes(d, [dev[d] EXCEPT !.at = "off"]) /\ Slip
    /\ UNCHANGED <<overlap, candidate, admission, rotation, ranOut>>

\* Enroll from WriteCredential on: credential, agent.json, then the intent goes.
StoreEnrollment(d) ==
    /\ \/ dev[d].at = "credential" /\ Goes(d, [dev[d] EXCEPT !.at = "config", !.cred = dev[d].intent])
       \/ dev[d].at = "config" /\ Goes(d, [dev[d] EXCEPT !.at = "tidy", !.cfg = "enrolled"])
       \/ dev[d].at = "tidy" /\ Goes(d, [dev[d] EXCEPT !.at = "off", !.intent = 0])
    /\ UNCHANGED <<serverSide, rotation, slips, ranOut>>

-----------------------------------------------------------------------------
(* Registration by announcement. *)

\* PrepareDiscovery: credential first, then agent.json with PendingRegistration.
PrepareDiscovery(d) ==
    /\ WayOf[d] = "announce"
    /\ \/ /\ dev[d].at = "off" /\ dev[d].cfg = "none"
          /\ Goes(d, [dev[d] EXCEPT !.at = "publish", !.cred = dev[d].made + 1, !.made = dev[d].made + 1])
       \/ dev[d].at = "publish" /\ Goes(d, [dev[d] EXCEPT !.at = "off", !.cfg = "pending"])
    /\ UNCHANGED <<serverSide, rotation, slips, ranOut>>

\* Announce: the state it answers with, "refused" for an error.
Announced(d) ==
    LET c == candidate[d] IN
    CASE row[d].made -> IF row[d].revoked \/ row[d].hash # dev[d].cred THEN "refused" ELSE "approved"
      [] ~row[d].made /\ c.state # "none" ->
            IF c.hash # dev[d].cred \/ c.state = "approved" THEN "refused" ELSE c.state
      [] OTHER ->
            IF ~admission THEN "admission_closed"
            ELSE IF Cardinality({e \in Devices : candidate[e].state # "none"}) >= MaxCandidates
                 THEN "refused" ELSE "pending"

\* Announce: the candidate it leaves.
CandidateAfter(d) ==
    CASE Announced(d) = "approved" -> IF candidate[d].state = "approved" THEN NoCandidate ELSE candidate[d]
      [] Announced(d) = "pending" -> [state |-> "pending", hash |-> dev[d].cred, fresh |-> TRUE]
      [] OTHER -> candidate[d]

\* AnnounceOnce, WaitForApproval: the approved answer is committed to agent.json.
AnnounceExchange(d) ==
    /\ dev[d].at = "off" /\ dev[d].cfg = "pending"
    /\ candidate' = [candidate EXCEPT ![d] = CandidateAfter(d)]
    /\ \/ Goes(d, [dev[d] EXCEPT !.cfg = IF Announced(d) = "approved" THEN "enrolled" ELSE "pending"]) /\ UNCHANGED slips
       \/ UNCHANGED dev /\ Slip
    /\ UNCHANGED <<row, overlap, code, admission, rotation, ranOut>>

\* DecideCandidate: a pending candidate, seen within two minutes to approve.
Decide(d) ==
    /\ candidate[d].state = "pending"
    /\ \/ candidate[d].fresh /\ ~row[d].made
          /\ candidate' = [candidate EXCEPT ![d].state = "approved"]
          /\ row' = [row EXCEPT ![d] = NewRow(candidate[d].hash)]
       \/ candidate' = [candidate EXCEPT ![d].state = "rejected"] /\ UNCHANGED row
    /\ UNCHANGED <<dev, overlap, code, admission, rotation, slips, ranOut>>

\* SetAdmission.
SetAdmission ==
    /\ admission' = ~admission
    /\ \E d \in Devices : WayOf[d] = "announce" /\ candidate[d].state = "none"
    /\ UNCHANGED <<dev, row, overlap, candidate, code, rotation, slips, ranOut>>

-----------------------------------------------------------------------------
(* A registered device. *)

\* Open: the worker starts with the credential of the file.
OpenDevice(d) ==
    /\ dev[d].at = "off" /\ dev[d].cfg = "enrolled"
    /\ Goes(d, [dev[d] EXCEPT !.at = "run", !.mem = dev[d].cred])
    /\ UNCHANGED <<serverSide, rotation, slips, ranOut>>

\* handleReport past authentication: the receipt is applied (success needs the
\* verifier to be current) and an open rotation is handed out.
Served(d) ==
    LET settles == dev[d].receipt # "none" /\ rotation[d].status = "open"
        proven == dev[d].receipt = "succeeded" /\ row'[d].hash = dev[d].cred
    IN  /\ rotation' = IF settles THEN [rotation EXCEPT ![d].status = IF proven THEN "succeeded" ELSE "failed"] ELSE rotation
        /\ Goes(d, [dev[d] EXCEPT !.at = IF ~settles /\ rotation[d].status = "open" THEN "rotate" ELSE "run",
                                  !.receipt = "none"])

\* PendingCredential: the registered next credential, while it is valid.
PendingCredential(d) == overlap[d].live /\ overlap[d].hash = dev[d].mem

\* lookupAgent: the current credential is served at once; a live pending one
\* is read here and promoted by the next step.
Authenticate(d) ==
    /\ dev[d].at = "run"
    /\ ~row[d].revoked
    /\ \/ row[d].hash = dev[d].mem /\ UNCHANGED row /\ Served(d)
       \/ /\ row[d].hash # dev[d].mem
          /\ PendingCredential(d)
          /\ Goes(d, [dev[d] EXCEPT !.at = "promote"])
          /\ UNCHANGED <<row, rotation>>
    /\ UNCHANGED <<overlap, candidate, code, admission, slips, ranOut>>

\* Mutant: the verifier that was read is installed without looking again.
PromoteUnchecked(d) ==
    /\ dev[d].at = "promote"
    /\ row' = [row EXCEPT ![d].hash = dev[d].mem]
    /\ overlap' = [overlap EXCEPT ![d] = NoOverlap]
    /\ Served(d)
    /\ UNCHANGED <<candidate, code, admission, slips, ranOut>>

\* PromoteCredential: checked again inside its transaction.
Promote(d) ==
    /\ dev[d].at = "promote"
    /\ IF /\ ~row[d].revoked
          /\ row[d].hash = dev[d].mem \/ PendingCredential(d)
       THEN /\ row' = [row EXCEPT ![d].hash = dev[d].mem]
            /\ overlap' = IF row[d].hash = dev[d].mem THEN overlap ELSE [overlap EXCEPT ![d] = NoOverlap]
            /\ Served(d)
       ELSE UNCHANGED <<row, overlap, rotation>> /\ Goes(d, [dev[d] EXCEPT !.at = "run"])
    /\ UNCHANGED <<candidate, code, admission, slips, ranOut>>

\* RegisterPendingCredential: over the current credential only, never over
\* another live candidate; a retry of the same one changes nothing, and
\* neither does one that is current already.
Registers(d) ==
    /\ ~row[d].revoked
    /\ row[d].hash = dev[d].mem
    /\ dev[d].next = row[d].hash \/ ~overlap[d].live \/ overlap[d].hash = dev[d].next

\* jobRotate: next file, registration, previous.credential, credential file.
Rotate(d) ==
    \/ /\ dev[d].at = "rotate"
       /\ IF dev[d].next # 0 THEN Goes(d, [dev[d] EXCEPT !.at = "register"])
          ELSE Goes(d, [dev[d] EXCEPT !.at = "register", !.next = dev[d].made + 1, !.made = dev[d].made + 1])
       /\ UNCHANGED <<serverSide, rotation, slips, ranOut>>
    \/ /\ dev[d].at = "register"
       /\ IF Registers(d) /\ dev[d].next # row[d].hash
          THEN /\ overlap' = [overlap EXCEPT ![d] = [hash |-> dev[d].next, live |-> TRUE]]
               /\ ranOut' = IF dev[d].cred \in {row[d].hash, dev[d].next} THEN ranOut \ {d} ELSE ranOut
          ELSE UNCHANGED <<overlap, ranOut>>
       /\ \/ Registers(d) /\ Goes(d, [dev[d] EXCEPT !.at = "switch"]) /\ UNCHANGED slips
          \/ ~Registers(d) /\ Goes(d, [dev[d] EXCEPT !.at = "run", !.receipt = "failed"]) /\ UNCHANGED slips
          \/ Slip /\ Goes(d, [dev[d] EXCEPT !.at = "run", !.receipt = "failed"])
       /\ UNCHANGED <<row, candidate, code, admission, rotation>>
    \/ /\ dev[d].at = "switch"
       /\ \/ /\ Goes(d, [dev[d] EXCEPT !.at = "run", !.cred = dev[d].next, !.mem = dev[d].next, !.receipt = "succeeded"])
             /\ UNCHANGED slips
          \/ /\ Slip
             /\ \E c \in {dev[d].cred, dev[d].next} : Goes(d, [dev[d] EXCEPT !.at = "run", !.cred = c, !.receipt = "failed"])
          \/ Slip /\ Goes(d, [dev[d] EXCEPT !.at = "off", !.cred = dev[d].next, !.mem = 0])
       /\ UNCHANGED <<serverSide, rotation, ranOut>>

-----------------------------------------------------------------------------
(* The owner, time and the process. *)

\* processSubmit with credential.rotate: one open lifecycle job per agent.
\* The rotation file is named after the job, so a new job starts without one.
OrderRotation(d) ==
    /\ row[d].made /\ ~row[d].revoked
    /\ rotation[d].status # "open"
    /\ MapThenSumSet(LAMBDA e : rotation[e].count, Devices) < MaxRotations
    /\ dev[d].at \in {"run", "off"}
    /\ rotation' = [rotation EXCEPT ![d] = [status |-> "open", count |-> @.count + 1]]
    /\ Goes(d, [dev[d] EXCEPT !.next = 0, !.receipt = "none"])
    /\ UNCHANGED <<serverSide, slips, ranOut>>

\* RevokeOperationAgents.
Revoke(d) ==
    /\ row[d].made /\ ~row[d].revoked
    /\ row' = [row EXCEPT ![d].revoked = TRUE, ![d].hash = 0]
    /\ overlap' = [overlap EXCEPT ![d] = NoOverlap]
    /\ UNCHANGED <<dev, candidate, code, admission, rotation, slips, ranOut>>

\* expires_at of the code, of a candidate, of the overlap; last_seen_at grows old.
DeadlinesPass ==
    /\ Slip
    /\ \/ ~code.expired /\ code' = [code EXCEPT !.expired = TRUE] /\ UNCHANGED <<candidate, overlap, ranOut>>
       \/ \E d \in Devices :
            \/ /\ candidate[d].state # "none"
               /\ candidate' = [candidate EXCEPT ![d] = NoCandidate]
               /\ UNCHANGED <<code, overlap, ranOut>>
            \/ /\ candidate[d].fresh
               /\ candidate' = [candidate EXCEPT ![d].fresh = FALSE]
               /\ UNCHANGED <<code, overlap, ranOut>>
            \/ /\ overlap[d].live
               /\ overlap' = [overlap EXCEPT ![d].live = FALSE]
               /\ ranOut' = ranOut \cup {d}
               /\ UNCHANGED <<code, candidate>>
    /\ UNCHANGED <<dev, row, admission, rotation>>

StopDevice(d) ==
    /\ dev[d].at # "off"
    /\ Slip
    /\ Goes(d, [dev[d] EXCEPT !.at = "off", !.mem = 0, !.receipt = IF dev[d].at = "run" THEN dev[d].receipt ELSE "none"])
    /\ UNCHANGED <<serverSide, rotation, ranOut>>

-----------------------------------------------------------------------------
IdentityInit ==
    /\ dev = [d \in Devices |-> NewDevice]
    /\ row = [d \in Devices |-> NoRow]
    /\ overlap = [d \in Devices |-> NoOverlap]
    /\ candidate = [d \in Devices |-> NoCandidate]
    /\ code = [used |-> "nobody", expired |-> FALSE]
    /\ admission = FALSE
    /\ rotation = [d \in Devices |-> [status |-> "none", count |-> 0]]
    /\ slips = 0
    /\ ranOut = {}

IdentityNext ==
    \/ \E d \in Devices :
         \/ BeginEnroll(d) \/ EnrollExchange(d) \/ StoreEnrollment(d)
         \/ PrepareDiscovery(d) \/ AnnounceExchange(d) \/ Decide(d)
         \/ OpenDevice(d) \/ Authenticate(d) \/ Promote(d) \/ Rotate(d)
         \/ OrderRotation(d) \/ Revoke(d) \/ StopDevice(d)
    \/ SetAdmission \/ DeadlinesPass

IdentitySpec == IdentityInit /\ [][IdentityNext]_identityVars

-----------------------------------------------------------------------------
\* The proof a device would present: its credential file once agent.json
\* exists, the setup intent before that.
Proof(d) == IF dev[d].cfg = "none" THEN dev[d].intent ELSE dev[d].cred

\* Whatever was interrupted, lost or retried, the proof a registered device
\* keeps on disk is one the controller honours, as the current credential or
\* as a live pending one; the exceptions are a revoked device and an overlap
\* that ran out before the new credential was first used (EnrollAgent,
\* DecideCandidate, jobRotate, RegisterPendingCredential, PromoteCredential).
ProofHonoured ==
    \A d \in Devices :
        row[d].made /\ ~row[d].revoked /\ d \notin ranOut =>
            Proof(d) = row[d].hash \/ (overlap[d].live /\ Proof(d) = overlap[d].hash)

\* A revoked device stays out: no request that was being served when the
\* owner revoked it installs or stages a verifier again.
RevokedIsOut == \A d \in Devices : row[d].revoked => row[d].hash = 0 /\ overlap[d] = NoOverlap
=============================================================================
