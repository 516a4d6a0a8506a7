----------------------------- MODULE AccessProofs -----------------------------
(***************************************************************************)
(* Who reaches the controller: the proof a device keeps and the verifiers  *)
(* the controller keeps for it, for every number of devices, faults and    *)
(* retries.                                                                *)
(***************************************************************************)
EXTENDS Identity, TLAPS

-----------------------------------------------------------------------------
(* Identity *)

DeviceFiles ==
    [intent : Nat, cred : Nat, cfg : {"none", "pending", "enrolled"}, next : Nat, mem : Nat, made : Nat,
     at : {"off", "enroll", "credential", "config", "tidy", "publish", "run", "promote", "rotate", "register", "switch"},
     receipt : {"none", "failed", "succeeded"}]

\* The variables of Identity have these types.
IdentityTypeOK ==
    /\ dev \in [Devices -> DeviceFiles]
    /\ row \in [Devices -> [hash : Nat, revoked : BOOLEAN, made : BOOLEAN]]
    /\ overlap \in [Devices -> [hash : Nat, live : BOOLEAN]]
    /\ candidate \in [Devices -> [state : {"none", "pending", "approved", "rejected"}, hash : Nat, fresh : BOOLEAN]]
    /\ rotation \in [Devices -> [status : {"none", "open", "succeeded", "failed"}, count : Nat]]

Running == {"run", "promote", "rotate", "register", "switch"}

\* A device that is not registered keeps the proof its registration is about.
SetupInv(d) ==
    /\ dev[d].at \in {"enroll", "credential", "config"} => dev[d].cfg = "none" /\ WayOf[d] = "code"
    /\ dev[d].at = "enroll" \/ (dev[d].cfg = "none" /\ row[d].made) => dev[d].intent # 0
    /\ dev[d].at \in {"credential", "config"} => row[d].made
    /\ dev[d].at = "config" => dev[d].cred = dev[d].intent
    /\ dev[d].at = "publish" => dev[d].cfg = "none" /\ WayOf[d] # "code"
    /\ dev[d].cfg = "none" => candidate[d].state = "none" /\ (WayOf[d] # "code" => ~row[d].made)
    /\ candidate[d].state # "none" /\ ~row[d].made => candidate[d].hash = dev[d].cred

\* A running device that kept its old credential in memory is known by it, and
\* one about to switch has registered the credential it switches to.
RunningInv(d) ==
    /\ dev[d].cfg = "enrolled" => row[d].made
    /\ dev[d].at \in Running \cup {"tidy"} => dev[d].cfg = "enrolled"
    /\ dev[d].at \in Running /\ dev[d].mem # dev[d].cred => row[d].revoked \/ row[d].hash = dev[d].mem
    /\ dev[d].at = "switch" =>
          \/ row[d].revoked
          \/ /\ row[d].hash = dev[d].mem
             /\ \/ d \in ranOut
                \/ dev[d].next = row[d].hash
                \/ overlap[d].live /\ overlap[d].hash = dev[d].next

\* RevokedIsOut and ProofHonoured, for one device.
RevokedInv(d) ==
    /\ row[d].revoked => row[d].made /\ row[d].hash = 0 /\ overlap[d] = NoOverlap
    /\ row[d].hash # 0 => row[d].made
HonouredInv(d) ==
    row[d].made /\ ~row[d].revoked /\ d \notin ranOut =>
        Proof(d) = row[d].hash \/ (overlap[d].live /\ Proof(d) = overlap[d].hash)

DeviceInv(d) == SetupInv(d) /\ RunningInv(d) /\ RevokedInv(d) /\ HonouredInv(d)

IdentityInv == IdentityTypeOK /\ \A d \in Devices : DeviceInv(d)

\* A step leaves what the invariant says of e alone.
Untouched(e) ==
    /\ dev'[e] = dev[e] /\ row'[e] = row[e] /\ overlap'[e] = overlap[e] /\ candidate'[e] = candidate[e]
    /\ e \in ranOut' <=> e \in ranOut

\* What a step does not touch of a device keeps its invariant.
LEMMA UntouchedKeeps == \A e \in Devices : DeviceInv(e) /\ Untouched(e) => DeviceInv(e)'
BY DEF DeviceInv, SetupInv, RunningInv, RevokedInv, HonouredInv, Proof, Untouched

\* So only the device a step is about has to be looked at.
LEMMA OneDevice ==
  ASSUME IdentityInv, IdentityTypeOK', NEW d \in Devices, DeviceInv(d)', \A e \in Devices : e # d => Untouched(e)
  PROVE  IdentityInv'
BY UntouchedKeeps DEF IdentityInv

\* A write of a device's files leaves the other devices alone.
LEMMA GoesFacts ==
  ASSUME IdentityTypeOK, NEW d \in Devices, NEW new \in DeviceFiles, Goes(d, new)
  PROVE  dev'[d] = new /\ dev' \in [Devices -> DeviceFiles] /\ \A e \in Devices : e # d => dev'[e] = dev[e]
BY DEF IdentityTypeOK, Goes

\* The files of a new device.
LEMMA IdentityInitInv == IdentityInit => IdentityInv
<1> SUFFICES ASSUME IdentityInit PROVE IdentityInv OBVIOUS
<1>1. NewDevice \in DeviceFiles BY DEF NewDevice, DeviceFiles
<1>2. IdentityTypeOK BY <1>1 DEF IdentityInit, IdentityTypeOK, NoRow, NoOverlap, NoCandidate
<1>3. \A d \in Devices : DeviceInv(d)
  BY DEF IdentityInit, DeviceInv, SetupInv, RunningInv, RevokedInv, HonouredInv, NewDevice, NoRow, NoCandidate, Running
<1>4. QED BY <1>2, <1>3 DEF IdentityInv

\* Enroll: the credential is made once.
LEMMA BeginEnrollKeeps == \A d \in Devices : IdentityInv /\ BeginEnroll(d) => IdentityInv'
<1> SUFFICES ASSUME NEW d \in Devices, IdentityInv, BeginEnroll(d) PROVE IdentityInv' OBVIOUS
<1>0. IdentityTypeOK /\ DeviceInv(d) /\ dev[d] \in DeviceFiles BY DEF IdentityInv, IdentityTypeOK
<1>1. PICK i \in Nat, m \in Nat :
         /\ Goes(d, [dev[d] EXCEPT !.at = "enroll", !.intent = i, !.made = m])
         /\ i # 0 /\ (dev[d].intent # 0 => i = dev[d].intent)
  <2>1. CASE dev[d].intent # 0
    <3>1. [dev[d] EXCEPT !.at = "enroll"] = [dev[d] EXCEPT !.at = "enroll", !.intent = dev[d].intent, !.made = dev[d].made]
      BY Zenon, <1>0 DEF DeviceFiles
    <3>2. QED BY Zenon, <1>0, <2>1, <3>1 DEF BeginEnroll, DeviceFiles
  <2>2. CASE dev[d].intent = 0
    <3>1. dev[d].made + 1 \in Nat /\ dev[d].made + 1 # 0 BY <1>0 DEF DeviceFiles
    <3>2. QED BY Zenon, <2>2, <3>1 DEF BeginEnroll
  <2>3. QED BY Zenon, <2>1, <2>2
<1> DEFINE new == [dev[d] EXCEPT !.at = "enroll", !.intent = i, !.made = m]
<1>2. /\ new \in DeviceFiles /\ new.at = "enroll" /\ new.intent = i /\ new.cred = dev[d].cred /\ new.cfg = dev[d].cfg
      /\ new.mem = dev[d].mem
  BY Zenon, <1>0 DEF DeviceFiles
<1>3. dev'[d] = new /\ dev' \in [Devices -> DeviceFiles] /\ \A e \in Devices : e # d => dev'[e] = dev[e]
  BY Zenon, <1>0, <1>1, <1>2, GoesFacts
<1>4. UNCHANGED <<row, overlap, candidate, rotation, ranOut>> /\ dev[d].cfg = "none" /\ WayOf[d] = "code"
  BY Zenon DEF BeginEnroll, serverSide
<1>5. IdentityTypeOK' BY <1>0, <1>3, <1>4 DEF IdentityTypeOK
<1> HIDE DEF new
<1>6. DeviceInv(d)'
  BY Zenon, <1>0, <1>1, <1>2, <1>3, <1>4 DEF DeviceInv, SetupInv, RunningInv, RevokedInv, HonouredInv, Proof, Running
<1>7. QED BY <1>3, <1>4, <1>5, <1>6, OneDevice DEF Untouched

\* EnrollAgent registers the proof of the intent.
LEMMA EnrollExchangeKeeps == \A d \in Devices : IdentityInv /\ EnrollExchange(d) => IdentityInv'
<1> SUFFICES ASSUME NEW d \in Devices, IdentityInv, EnrollExchange(d) PROVE IdentityInv' OBVIOUS
<1>0. IdentityTypeOK /\ DeviceInv(d) /\ dev[d] \in DeviceFiles BY DEF IdentityInv, IdentityTypeOK
<1>1. PICK at \in {"credential", "off"} :
         /\ Goes(d, [dev[d] EXCEPT !.at = at])
         /\ at = "credential" => Enrolls(d) \/ Replays(d)
  BY DEF EnrollExchange
<1> DEFINE new == [dev[d] EXCEPT !.at = at]
<1>2. /\ new \in DeviceFiles /\ new.at = at /\ new.intent = dev[d].intent /\ new.cred = dev[d].cred /\ new.cfg = dev[d].cfg
      /\ new.mem = dev[d].mem
  BY <1>0 DEF DeviceFiles
<1>3. dev'[d] = new /\ dev' \in [Devices -> DeviceFiles] /\ \A e \in Devices : e # d => dev'[e] = dev[e]
  BY <1>0, <1>1, <1>2, GoesFacts
<1>4. /\ UNCHANGED <<overlap, candidate, rotation, ranOut>> /\ dev[d].at = "enroll"
      /\ row' = IF Enrolls(d) THEN [row EXCEPT ![d] = NewRow(dev[d].intent)] ELSE row
  BY Zenon DEF EnrollExchange
<1>5. NewRow(dev[d].intent) \in [hash : Nat, revoked : BOOLEAN, made : BOOLEAN] BY Zenon, <1>0 DEF NewRow, DeviceFiles
<1>6. /\ row' \in [Devices -> [hash : Nat, revoked : BOOLEAN, made : BOOLEAN]]
      /\ \A e \in Devices : e # d => row'[e] = row[e]
      /\ row'[d] = IF Enrolls(d) THEN NewRow(dev[d].intent) ELSE row[d]
  BY Zenon, <1>0, <1>4, <1>5 DEF IdentityTypeOK
<1>7. IdentityTypeOK' BY <1>0, <1>3, <1>4, <1>6 DEF IdentityTypeOK
<1> HIDE DEF new
<1>8. DeviceInv(d)'
  <2>1. CASE Enrolls(d)
    BY Zenon, <1>0, <1>1, <1>2, <1>3, <1>4, <1>6, <2>1 DEF NewRow, Enrolls, DeviceInv, SetupInv, RunningInv, RevokedInv, HonouredInv, Proof, Running
  <2>2. CASE ~Enrolls(d)
    <3>1. at = "credential" => row[d].made
      BY <1>0, <1>1, <1>4, <2>2 DEF Replays, DeviceInv, SetupInv, RevokedInv
    <3>2. QED
      BY <1>0, <1>1, <1>2, <1>3, <1>4, <1>6, <2>2, <3>1 DEF DeviceInv, SetupInv, RunningInv, RevokedInv, HonouredInv, Proof, Running
  <2>3. QED BY Zenon, <2>1, <2>2
<1>9. QED BY <1>3, <1>4, <1>6, <1>7, <1>8, OneDevice DEF Untouched

\* Credential, agent.json, then the intent goes.
LEMMA StoreEnrollmentKeeps == \A d \in Devices : IdentityInv /\ StoreEnrollment(d) => IdentityInv'
<1> SUFFICES ASSUME NEW d \in Devices, IdentityInv, StoreEnrollment(d) PROVE IdentityInv' OBVIOUS
<1>0. IdentityTypeOK /\ DeviceInv(d) /\ dev[d] \in DeviceFiles BY Zenon DEF IdentityInv, IdentityTypeOK
<1>1. PICK new \in DeviceFiles :
         /\ Goes(d, new) /\ new.mem = dev[d].mem
         /\ \/ dev[d].at = "credential" /\ new.at = "config" /\ new.cred = dev[d].intent /\ new.cfg = dev[d].cfg /\ new.intent = dev[d].intent
            \/ dev[d].at = "config" /\ new.at = "tidy" /\ new.cfg = "enrolled" /\ new.cred = dev[d].cred /\ new.intent = dev[d].intent
            \/ dev[d].at = "tidy" /\ new.at = "off" /\ new.intent = 0 /\ new.cfg = dev[d].cfg /\ new.cred = dev[d].cred
  <2>1. CASE dev[d].at = "credential" /\ Goes(d, [dev[d] EXCEPT !.at = "config", !.cred = dev[d].intent])
    <3> DEFINE new == [dev[d] EXCEPT !.at = "config", !.cred = dev[d].intent]
    <3>1. new \in DeviceFiles /\ new.mem = dev[d].mem /\ new.at = "config" /\ new.cred = dev[d].intent /\ new.cfg = dev[d].cfg /\ new.intent = dev[d].intent
      BY Zenon, <1>0 DEF DeviceFiles
    <3> HIDE DEF new
    <3>2. QED BY Zenon, <2>1, <3>1 DEF new
  <2>2. CASE dev[d].at = "config" /\ Goes(d, [dev[d] EXCEPT !.at = "tidy", !.cfg = "enrolled"])
    <3> DEFINE new == [dev[d] EXCEPT !.at = "tidy", !.cfg = "enrolled"]
    <3>1. new \in DeviceFiles /\ new.mem = dev[d].mem /\ new.at = "tidy" /\ new.cfg = "enrolled" /\ new.cred = dev[d].cred /\ new.intent = dev[d].intent
      BY Zenon, <1>0 DEF DeviceFiles
    <3> HIDE DEF new
    <3>2. QED BY Zenon, <2>2, <3>1 DEF new
  <2>3. CASE dev[d].at = "tidy" /\ Goes(d, [dev[d] EXCEPT !.at = "off", !.intent = 0])
    <3> DEFINE new == [dev[d] EXCEPT !.at = "off", !.intent = 0]
    <3>1. new \in DeviceFiles /\ new.mem = dev[d].mem /\ new.at = "off" /\ new.intent = 0 /\ new.cfg = dev[d].cfg /\ new.cred = dev[d].cred
      BY <1>0 DEF DeviceFiles
    <3> HIDE DEF new
    <3>2. QED BY Zenon, <2>3, <3>1 DEF new
  <2>4. QED BY <2>1, <2>2, <2>3 DEF StoreEnrollment
<1>2. dev'[d] = new /\ dev' \in [Devices -> DeviceFiles] /\ \A e \in Devices : e # d => dev'[e] = dev[e]
  BY Zenon, <1>0, <1>1, GoesFacts
<1>3. UNCHANGED <<row, overlap, candidate, rotation, ranOut>> BY DEF StoreEnrollment, serverSide
<1>4. IdentityTypeOK' BY <1>0, <1>2, <1>3 DEF IdentityTypeOK
<1>5. DeviceInv(d)'
  <2>1. SetupInv(d)' BY <1>0, <1>1, <1>2, <1>3 DEF DeviceInv, SetupInv, RunningInv
  <2>2. RunningInv(d)' BY <1>0, <1>1, <1>2, <1>3 DEF DeviceInv, RunningInv, SetupInv, Running
  <2>3. RevokedInv(d)' BY Zenon, <1>0, <1>3 DEF DeviceInv, RevokedInv
  <2>4. HonouredInv(d)' BY <1>0, <1>1, <1>2, <1>3 DEF DeviceInv, HonouredInv, SetupInv, RunningInv, Proof
  <2>5. QED BY Zenon, <2>1, <2>2, <2>3, <2>4 DEF DeviceInv
<1>6. QED BY <1>2, <1>3, <1>4, <1>5, OneDevice DEF Untouched

\* PrepareDiscovery: the credential before the configuration.
LEMMA PrepareDiscoveryKeeps == \A d \in Devices : IdentityInv /\ PrepareDiscovery(d) => IdentityInv'
<1> SUFFICES ASSUME NEW d \in Devices, IdentityInv, PrepareDiscovery(d) PROVE IdentityInv' OBVIOUS
<1>0. IdentityTypeOK /\ DeviceInv(d) /\ dev[d] \in DeviceFiles BY DEF IdentityInv, IdentityTypeOK
<1>1. PICK new \in DeviceFiles :
         /\ Goes(d, new) /\ new.mem = dev[d].mem /\ new.intent = dev[d].intent
         /\ \/ dev[d].at = "off" /\ dev[d].cfg = "none" /\ new.at = "publish" /\ new.cfg = "none"
            \/ dev[d].at = "publish" /\ new.at = "off" /\ new.cfg = "pending" /\ new.cred = dev[d].cred
  <2>1. CASE dev[d].at = "off" /\ dev[d].cfg = "none" /\ Goes(d, [dev[d] EXCEPT !.at = "publish", !.cred = dev[d].made + 1, !.made = dev[d].made + 1])
    <3> DEFINE m == dev[d].made + 1
    <3> DEFINE new == [dev[d] EXCEPT !.at = "publish", !.cred = m, !.made = m]
    <3>0. m \in Nat BY <1>0 DEF DeviceFiles
    <3> HIDE DEF m
    <3>1. new \in DeviceFiles /\ new.mem = dev[d].mem /\ new.intent = dev[d].intent /\ new.at = "publish" /\ new.cfg = dev[d].cfg
      BY Zenon, <1>0, <3>0 DEF DeviceFiles
    <3> HIDE DEF new
    <3>2. QED BY Zenon, <2>1, <3>1 DEF new, m
  <2>2. CASE dev[d].at = "publish" /\ Goes(d, [dev[d] EXCEPT !.at = "off", !.cfg = "pending"])
    <3> DEFINE new == [dev[d] EXCEPT !.at = "off", !.cfg = "pending"]
    <3>1. new \in DeviceFiles /\ new.mem = dev[d].mem /\ new.intent = dev[d].intent /\ new.at = "off" /\ new.cfg = "pending" /\ new.cred = dev[d].cred
      BY Zenon, <1>0 DEF DeviceFiles
    <3> HIDE DEF new
    <3>2. QED BY Zenon, <2>2, <3>1 DEF new
  <2>3. QED BY <2>1, <2>2 DEF PrepareDiscovery
<1>2. dev'[d] = new /\ dev' \in [Devices -> DeviceFiles] /\ \A e \in Devices : e # d => dev'[e] = dev[e]
  BY Zenon, <1>0, <1>1, GoesFacts
<1>3. UNCHANGED <<row, overlap, candidate, rotation, ranOut>> /\ WayOf[d] = "announce" BY DEF PrepareDiscovery, serverSide
<1>4. IdentityTypeOK' BY <1>0, <1>2, <1>3 DEF IdentityTypeOK
<1>5. DeviceInv(d)'
  BY Zenon, <1>0, <1>1, <1>2, <1>3 DEF DeviceInv, SetupInv, RunningInv, RevokedInv, HonouredInv, Proof, Running
<1>6. QED BY <1>2, <1>3, <1>4, <1>5, OneDevice DEF Untouched

\* Announce answers "approved" only for a registered device.
LEMMA ApprovedIsMade == \A d \in Devices : Announced(d) = "approved" => row[d].made
<1> SUFFICES ASSUME NEW d \in Devices, ~row[d].made PROVE Announced(d) # "approved" OBVIOUS
<1>1. CASE candidate[d].state # "none" BY <1>1 DEF Announced
<1>2. CASE candidate[d].state = "none" BY <1>2 DEF Announced
<1>3. QED BY <1>1, <1>2

\* Announce: a candidate carries the verifier of the device that announced it.
LEMMA AnnounceExchangeKeeps == \A d \in Devices : IdentityInv /\ AnnounceExchange(d) => IdentityInv'
<1> SUFFICES ASSUME NEW d \in Devices, IdentityInv, AnnounceExchange(d) PROVE IdentityInv' OBVIOUS
<1>0. IdentityTypeOK /\ DeviceInv(d) /\ dev[d] \in DeviceFiles BY DEF IdentityInv, IdentityTypeOK
<1>1. PICK c \in {"pending", "enrolled"} :
         /\ dev' = [dev EXCEPT ![d] = [dev[d] EXCEPT !.cfg = c]] /\ (c = "enrolled" => row[d].made)
  <2>1. CASE dev' = dev
    <3>1. dev[d] = [dev[d] EXCEPT !.cfg = "pending"] BY <1>0 DEF AnnounceExchange, DeviceFiles
    <3>2. dev = [dev EXCEPT ![d] = dev[d]] BY <1>0 DEF IdentityTypeOK
    <3>3. QED BY <2>1, <3>1, <3>2
  <2>2. CASE dev' # dev BY <2>2, ApprovedIsMade DEF AnnounceExchange, Goes
  <2>3. QED BY <2>1, <2>2
<1> DEFINE new == [dev[d] EXCEPT !.cfg = c]
<1>2. /\ new \in DeviceFiles /\ new.at = dev[d].at /\ new.intent = dev[d].intent /\ new.cred = dev[d].cred /\ new.cfg = c
      /\ new.mem = dev[d].mem
  BY <1>0 DEF DeviceFiles
<1>3. dev'[d] = new /\ dev' \in [Devices -> DeviceFiles] /\ \A e \in Devices : e # d => dev'[e] = dev[e]
  BY Zenon, <1>0, <1>1, <1>2, GoesFacts DEF Goes
<1>4. UNCHANGED <<row, overlap, rotation, ranOut>> /\ dev[d].at = "off" /\ dev[d].cfg = "pending"
  BY DEF AnnounceExchange
<1>5. \/ CandidateAfter(d) = candidate[d]
      \/ CandidateAfter(d) = NoCandidate
      \/ CandidateAfter(d) = [state |-> "pending", hash |-> dev[d].cred, fresh |-> TRUE]
  BY DEF CandidateAfter
<1>6. /\ CandidateAfter(d) \in [state : {"none", "pending", "approved", "rejected"}, hash : Nat, fresh : BOOLEAN]
      /\ CandidateAfter(d).state # "none" => CandidateAfter(d).hash = dev[d].cred \/ CandidateAfter(d) = candidate[d]
  <2>1. candidate[d] \in [state : {"none", "pending", "approved", "rejected"}, hash : Nat, fresh : BOOLEAN] /\ dev[d].cred \in Nat
    BY <1>0 DEF IdentityTypeOK, DeviceFiles
  <2>2. CASE CandidateAfter(d) = candidate[d] BY <2>1, <2>2
  <2>3. CASE CandidateAfter(d) = NoCandidate BY <2>3 DEF NoCandidate
  <2>4. CASE CandidateAfter(d) = [state |-> "pending", hash |-> dev[d].cred, fresh |-> TRUE] BY <2>1, <2>4
  <2>5. QED BY <1>5, <2>2, <2>3, <2>4
<1>7. /\ candidate' \in [Devices -> [state : {"none", "pending", "approved", "rejected"}, hash : Nat, fresh : BOOLEAN]]
      /\ \A e \in Devices : e # d => candidate'[e] = candidate[e]
      /\ candidate'[d] = CandidateAfter(d)
  BY <1>0, <1>6 DEF AnnounceExchange, IdentityTypeOK
<1>8. IdentityTypeOK' BY Zenon, <1>0, <1>3, <1>4, <1>7 DEF IdentityTypeOK
<1> HIDE DEF new
<1>9. DeviceInv(d)'
  BY <1>0, <1>1, <1>2, <1>3, <1>4, <1>6, <1>7 DEF DeviceInv, SetupInv, RunningInv, RevokedInv, HonouredInv, Proof, Running
<1>10. QED BY <1>3, <1>4, <1>7, <1>8, <1>9, OneDevice DEF Untouched

\* DecideCandidate registers the verifier of the candidate.
LEMMA DecideKeeps == \A d \in Devices : IdentityInv /\ Decide(d) => IdentityInv'
<1> SUFFICES ASSUME NEW d \in Devices, IdentityInv, Decide(d) PROVE IdentityInv' OBVIOUS
<1>0. IdentityTypeOK /\ DeviceInv(d) BY DEF IdentityInv
<1>1. UNCHANGED <<dev, overlap, rotation, ranOut>> /\ candidate[d].state = "pending" BY DEF Decide
<1>2. /\ \/ row' = [row EXCEPT ![d] = NewRow(candidate[d].hash)] /\ ~row[d].made
         \/ row' = row
      /\ \E s \in {"approved", "rejected"} : candidate' = [candidate EXCEPT ![d].state = s]
  BY DEF Decide
<1>3. NewRow(candidate[d].hash) \in [hash : Nat, revoked : BOOLEAN, made : BOOLEAN] BY <1>0 DEF NewRow, IdentityTypeOK
<1>4. /\ row' \in [Devices -> [hash : Nat, revoked : BOOLEAN, made : BOOLEAN]]
      /\ \A e \in Devices : e # d => row'[e] = row[e]
      /\ row'[d] = row[d] \/ (~row[d].made /\ row'[d] = NewRow(candidate[d].hash))
  <2>1. row \in [Devices -> [hash : Nat, revoked : BOOLEAN, made : BOOLEAN]] BY <1>0 DEF IdentityTypeOK
  <2>2. QED BY <1>2, <1>3, <2>1
<1>5. /\ candidate' \in [Devices -> [state : {"none", "pending", "approved", "rejected"}, hash : Nat, fresh : BOOLEAN]]
      /\ \A e \in Devices : e # d => candidate'[e] = candidate[e]
      /\ candidate'[d].hash = candidate[d].hash
  <2>1. PICK s \in {"approved", "rejected"} : candidate' = [candidate EXCEPT ![d].state = s] BY Zenon, <1>2
  <2>2. candidate \in [Devices -> [state : {"none", "pending", "approved", "rejected"}, hash : Nat, fresh : BOOLEAN]]
    BY Zenon, <1>0 DEF IdentityTypeOK
  <2>3. QED BY Zenon, <2>1, <2>2
<1>6. IdentityTypeOK' BY <1>0, <1>1, <1>4, <1>5 DEF IdentityTypeOK
<1>7. DeviceInv(d)'
  <2>0. /\ NewRow(candidate[d].hash).made /\ ~NewRow(candidate[d].hash).revoked
        /\ NewRow(candidate[d].hash).hash = candidate[d].hash
    BY DEF NewRow
  <2>1. SetupInv(d)' BY <1>0, <1>1, <1>4, <1>5 DEF DeviceInv, SetupInv
  <2>2. RunningInv(d)' BY <1>0, <1>1, <1>4, <2>0 DEF DeviceInv, RunningInv, Running
  <2>3. RevokedInv(d)' BY <1>0, <1>1, <1>4, <2>0 DEF DeviceInv, RevokedInv
  <2>4. HonouredInv(d)' BY <1>0, <1>1, <1>4, <2>0 DEF DeviceInv, SetupInv, RunningInv, HonouredInv, Proof
  <2>5. QED BY Zenon, <2>1, <2>2, <2>3, <2>4 DEF DeviceInv
<1>8. QED BY <1>1, <1>4, <1>5, <1>6, <1>7, OneDevice DEF Untouched

\* Open takes the credential of the file.
LEMMA OpenDeviceKeeps == \A d \in Devices : IdentityInv /\ OpenDevice(d) => IdentityInv'
<1> SUFFICES ASSUME NEW d \in Devices, IdentityInv, OpenDevice(d) PROVE IdentityInv' OBVIOUS
<1>0. IdentityTypeOK /\ DeviceInv(d) /\ dev[d] \in DeviceFiles BY DEF IdentityInv, IdentityTypeOK
<1> DEFINE new == [dev[d] EXCEPT !.at = "run", !.mem = dev[d].cred]
<1>2. /\ new \in DeviceFiles /\ new.at = "run" /\ new.intent = dev[d].intent /\ new.cred = dev[d].cred /\ new.cfg = dev[d].cfg
      /\ new.mem = dev[d].cred
  BY Zenon, <1>0 DEF DeviceFiles
<1>3. dev'[d] = new /\ dev' \in [Devices -> DeviceFiles] /\ \A e \in Devices : e # d => dev'[e] = dev[e]
  BY <1>0, <1>2, GoesFacts DEF OpenDevice
<1>4. UNCHANGED <<row, overlap, candidate, rotation, ranOut>> /\ dev[d].cfg = "enrolled"
  BY DEF OpenDevice, serverSide
<1>5. IdentityTypeOK' BY <1>0, <1>3, <1>4 DEF IdentityTypeOK
<1> HIDE DEF new
<1>6. DeviceInv(d)'
  BY <1>0, <1>2, <1>3, <1>4 DEF DeviceInv, SetupInv, RunningInv, RevokedInv, HonouredInv, Proof, Running
<1>7. QED BY <1>3, <1>4, <1>5, <1>6, OneDevice DEF Untouched

\* A served report changes a running device's step and receipt only.
LEMMA ServedFacts ==
  ASSUME IdentityTypeOK, NEW d \in Devices, Served(d)
  PROVE  /\ dev'[d].at \in {"run", "rotate"} /\ dev'[d].intent = dev[d].intent /\ dev'[d].cred = dev[d].cred
         /\ dev'[d].cfg = dev[d].cfg /\ dev'[d].mem = dev[d].mem
         /\ dev' \in [Devices -> DeviceFiles] /\ \A e \in Devices : e # d => dev'[e] = dev[e]
         /\ rotation' \in [Devices -> [status : {"none", "open", "succeeded", "failed"}, count : Nat]]
<1>1. PICK at \in {"run", "rotate"} : Goes(d, [dev[d] EXCEPT !.at = at, !.receipt = "none"])
  BY Zenon DEF Served
<1> DEFINE new == [dev[d] EXCEPT !.at = at, !.receipt = "none"]
<1>2. /\ new \in DeviceFiles /\ new.at = at /\ new.intent = dev[d].intent /\ new.cred = dev[d].cred /\ new.cfg = dev[d].cfg
      /\ new.mem = dev[d].mem
  <2>1. dev[d] \in DeviceFiles BY DEF IdentityTypeOK
  <2>2. QED BY Zenon, <2>1 DEF DeviceFiles
<1>3. dev'[d] = new /\ dev' \in [Devices -> DeviceFiles] /\ \A e \in Devices : e # d => dev'[e] = dev[e]
  BY <1>1, <1>2, GoesFacts
<1>4. rotation' = rotation \/ \E s \in {"succeeded", "failed"} : rotation' = [rotation EXCEPT ![d].status = s]
  BY Zenon DEF Served
<1>5. rotation \in [Devices -> [status : {"none", "open", "succeeded", "failed"}, count : Nat]] BY DEF IdentityTypeOK
<1>6. rotation' \in [Devices -> [status : {"none", "open", "succeeded", "failed"}, count : Nat]]
  <2>1. CASE rotation' = rotation BY <1>5, <2>1
  <2>2. ASSUME NEW s \in {"succeeded", "failed"}, rotation' = [rotation EXCEPT ![d].status = s]
        PROVE  rotation' \in [Devices -> [status : {"none", "open", "succeeded", "failed"}, count : Nat]]
    BY <1>5, <2>2
  <2>3. QED BY <1>4, <2>1, <2>2
<1> HIDE DEF new
<1>7. QED BY <1>2, <1>3, <1>6

\* lookupAgent: the current credential is served, a pending one to be promoted.
LEMMA AuthenticateKeeps == \A d \in Devices : IdentityInv /\ Authenticate(d) => IdentityInv'
<1> SUFFICES ASSUME NEW d \in Devices, IdentityInv, Authenticate(d) PROVE IdentityInv' OBVIOUS
<1>0. IdentityTypeOK /\ DeviceInv(d) /\ dev[d] \in DeviceFiles BY DEF IdentityInv, IdentityTypeOK
<1>1. UNCHANGED <<row, overlap, candidate, ranOut>> /\ dev[d].at = "run" BY Zenon DEF Authenticate
<1>2. /\ dev'[d].at \in {"run", "rotate", "promote"} /\ dev'[d].intent = dev[d].intent /\ dev'[d].cred = dev[d].cred
      /\ dev'[d].cfg = dev[d].cfg /\ dev'[d].mem = dev[d].mem
      /\ dev' \in [Devices -> DeviceFiles] /\ \A e \in Devices : e # d => dev'[e] = dev[e]
      /\ rotation' \in [Devices -> [status : {"none", "open", "succeeded", "failed"}, count : Nat]]
  <2>1. CASE Served(d) BY Zenon, <1>0, <2>1, ServedFacts
  <2>2. CASE Goes(d, [dev[d] EXCEPT !.at = "promote"]) /\ UNCHANGED rotation
    <3> DEFINE new == [dev[d] EXCEPT !.at = "promote"]
    <3>1. /\ new \in DeviceFiles /\ new.at = "promote" /\ new.intent = dev[d].intent /\ new.cred = dev[d].cred /\ new.cfg = dev[d].cfg
          /\ new.mem = dev[d].mem
      BY <1>0 DEF DeviceFiles
    <3>2. dev'[d] = new /\ dev' \in [Devices -> DeviceFiles] /\ \A e \in Devices : e # d => dev'[e] = dev[e]
      BY Zenon, <1>0, <2>2, <3>1, GoesFacts
    <3> HIDE DEF new
    <3>3. QED BY Zenon, <1>0, <2>2, <3>1, <3>2 DEF IdentityTypeOK
  <2>3. QED BY Zenon, <2>1, <2>2 DEF Authenticate
<1>3. IdentityTypeOK' BY <1>0, <1>1, <1>2 DEF IdentityTypeOK
<1>4. DeviceInv(d)'
  BY Zenon, <1>0, <1>1, <1>2 DEF DeviceInv, SetupInv, RunningInv, RevokedInv, HonouredInv, Proof, Running
<1>5. QED BY <1>1, <1>2, <1>3, <1>4, OneDevice DEF Untouched

\* PromoteCredential installs the credential the device runs with, which is
\* the one in its file when it is not the current one already.
LEMMA PromoteKeeps == \A d \in Devices : IdentityInv /\ Promote(d) => IdentityInv'
<1> SUFFICES ASSUME NEW d \in Devices, IdentityInv, Promote(d) PROVE IdentityInv' OBVIOUS
<1>0. IdentityTypeOK /\ DeviceInv(d) /\ dev[d] \in DeviceFiles BY DEF IdentityInv, IdentityTypeOK
<1>1. UNCHANGED <<candidate, ranOut>> /\ dev[d].at = "promote" BY DEF Promote
<1>2. CASE ~row[d].revoked /\ (row[d].hash = dev[d].mem \/ PendingCredential(d))
  <2>1. /\ row' = [row EXCEPT ![d].hash = dev[d].mem]
        /\ overlap' = IF row[d].hash = dev[d].mem THEN overlap ELSE [overlap EXCEPT ![d] = NoOverlap]
        /\ Served(d)
    BY <1>2 DEF Promote
  <2>2. /\ row' \in [Devices -> [hash : Nat, revoked : BOOLEAN, made : BOOLEAN]]
        /\ row'[d].hash = dev[d].mem /\ row'[d].revoked = row[d].revoked /\ row'[d].made = row[d].made
        /\ \A e \in Devices : e # d => row'[e] = row[e]
    <3>1. row \in [Devices -> [hash : Nat, revoked : BOOLEAN, made : BOOLEAN]] BY Zenon, <1>0 DEF IdentityTypeOK
    <3>2. dev[d].mem \in Nat BY <1>0 DEF DeviceFiles
    <3>3. QED BY <2>1, <3>1, <3>2
  <2>3. /\ overlap' \in [Devices -> [hash : Nat, live : BOOLEAN]]
        /\ row[d].hash = dev[d].mem => overlap'[d] = overlap[d]
        /\ \A e \in Devices : e # d => overlap'[e] = overlap[e]
    BY Zenon, <1>0, <2>1 DEF IdentityTypeOK, NoOverlap
  <2>4. IdentityTypeOK' BY <1>0, <1>1, <2>1, <2>2, <2>3, ServedFacts DEF IdentityTypeOK
  <2>5. DeviceInv(d)'
    <3>1. /\ dev'[d].at \in {"run", "rotate"} /\ dev'[d].intent = dev[d].intent /\ dev'[d].cred = dev[d].cred
          /\ dev'[d].cfg = dev[d].cfg /\ dev'[d].mem = dev[d].mem
      BY <1>0, <2>1, ServedFacts
    <3>2. dev[d].cfg = "enrolled" /\ row[d].made BY <1>0, <1>1 DEF DeviceInv, RunningInv, Running
    <3>3. row[d].hash = dev[d].mem \/ dev[d].mem = dev[d].cred
      BY <1>0, <1>1, <1>2 DEF DeviceInv, RunningInv, Running
    <3>4. HonouredInv(d)'
      <4>1. CASE dev[d].mem = dev[d].cred BY <2>2, <3>1, <3>2, <4>1 DEF HonouredInv, Proof
      <4>2. CASE row[d].hash = dev[d].mem
        BY <1>0, <1>1, <2>2, <2>3, <3>1, <3>2, <4>2 DEF DeviceInv, HonouredInv, Proof
      <4>3. QED BY <3>3, <4>1, <4>2
    <3>5. SetupInv(d)' /\ RunningInv(d)' /\ RevokedInv(d)'
      BY <1>0, <1>1, <1>2, <2>2, <3>1, <3>2 DEF DeviceInv, SetupInv, RunningInv, RevokedInv, Running
    <3>6. QED BY <3>4, <3>5 DEF DeviceInv
  <2>6. \A e \in Devices : e # d => Untouched(e) BY <1>0, <1>1, <2>1, <2>2, <2>3, ServedFacts DEF Untouched
  <2>7. QED BY <2>4, <2>5, <2>6, OneDevice
<1>3. CASE ~(~row[d].revoked /\ (row[d].hash = dev[d].mem \/ PendingCredential(d)))
  <2>1. UNCHANGED <<row, overlap, rotation>> /\ Goes(d, [dev[d] EXCEPT !.at = "run"]) BY <1>3 DEF Promote
  <2> DEFINE new == [dev[d] EXCEPT !.at = "run"]
  <2>2. /\ new \in DeviceFiles /\ new.at = "run" /\ new.intent = dev[d].intent /\ new.cred = dev[d].cred /\ new.cfg = dev[d].cfg
        /\ new.mem = dev[d].mem
    BY <1>0 DEF DeviceFiles
  <2>3. dev'[d] = new /\ dev' \in [Devices -> DeviceFiles] /\ \A e \in Devices : e # d => dev'[e] = dev[e]
    BY <1>0, <2>1, <2>2, GoesFacts
  <2>4. IdentityTypeOK' BY Zenon, <1>0, <1>1, <2>1, <2>3 DEF IdentityTypeOK
  <2> HIDE DEF new
  <2>5. DeviceInv(d)'
    BY <1>0, <1>1, <2>1, <2>2, <2>3 DEF DeviceInv, SetupInv, RunningInv, RevokedInv, HonouredInv, Proof, Running
  <2>6. QED BY <1>1, <2>1, <2>3, <2>4, <2>5, OneDevice DEF Untouched
<1>4. QED BY <1>2, <1>3

\* jobRotate, first: the next credential is made, or the one of an earlier
\* attempt is found in its file.
LEMMA MakeNextKeeps == \A d \in Devices : IdentityInv /\ Rotate(d) /\ dev[d].at = "rotate" => IdentityInv'
<1> SUFFICES ASSUME NEW d \in Devices, IdentityInv, Rotate(d), dev[d].at = "rotate" PROVE IdentityInv' OBVIOUS
<1>0. IdentityTypeOK /\ DeviceInv(d) /\ dev[d] \in DeviceFiles BY DEF IdentityInv, IdentityTypeOK
<1>1. /\ IF dev[d].next # 0 THEN Goes(d, [dev[d] EXCEPT !.at = "register"])
         ELSE Goes(d, [dev[d] EXCEPT !.at = "register", !.next = dev[d].made + 1, !.made = dev[d].made + 1])
      /\ UNCHANGED <<row, overlap, candidate, rotation, ranOut>>
  BY DEF Rotate, serverSide
<1>2. PICK n \in Nat, m \in Nat : Goes(d, [dev[d] EXCEPT !.at = "register", !.next = n, !.made = m])
  <2>1. CASE dev[d].next # 0
    <3>1. [dev[d] EXCEPT !.at = "register"] = [dev[d] EXCEPT !.at = "register", !.next = dev[d].next, !.made = dev[d].made]
      BY Zenon, <1>0 DEF DeviceFiles
    <3>2. dev[d].next \in Nat /\ dev[d].made \in Nat BY Zenon, <1>0 DEF DeviceFiles
    <3>3. Goes(d, [dev[d] EXCEPT !.at = "register", !.next = dev[d].next, !.made = dev[d].made]) BY Zenon, <1>1, <2>1, <3>1
    <3>4. QED BY Zenon, <3>2, <3>3
  <2>2. CASE dev[d].next = 0
    <3>1. dev[d].made + 1 \in Nat BY <1>0 DEF DeviceFiles
    <3>2. QED BY Zenon, <1>1, <2>2, <3>1
  <2>3. QED BY Zenon, <2>1, <2>2
<1> DEFINE new == [dev[d] EXCEPT !.at = "register", !.next = n, !.made = m]
<1>3. /\ new \in DeviceFiles /\ new.at = "register" /\ new.intent = dev[d].intent /\ new.cred = dev[d].cred /\ new.cfg = dev[d].cfg
      /\ new.mem = dev[d].mem
  BY Zenon, <1>0 DEF DeviceFiles
<1>4. dev'[d] = new /\ dev' \in [Devices -> DeviceFiles] /\ \A e \in Devices : e # d => dev'[e] = dev[e]
  BY <1>0, <1>2, <1>3, GoesFacts
<1>5. IdentityTypeOK' BY <1>0, <1>1, <1>4 DEF IdentityTypeOK
<1> HIDE DEF new
<1>6. DeviceInv(d)'
  BY Zenon, <1>0, <1>1, <1>3, <1>4 DEF DeviceInv, SetupInv, RunningInv, RevokedInv, HonouredInv, Proof, Running
<1>7. QED BY <1>1, <1>4, <1>5, <1>6, OneDevice DEF Untouched

\* RegisterPendingCredential: the overlap that is replaced is dead, or the
\* same, so a proof that was honoured by it is honoured still.
LEMMA RegisterKeeps == \A d \in Devices : IdentityInv /\ Rotate(d) /\ dev[d].at = "register" => IdentityInv'
<1> SUFFICES ASSUME NEW d \in Devices, IdentityInv, Rotate(d), dev[d].at = "register" PROVE IdentityInv' OBVIOUS
<1>0. IdentityTypeOK /\ DeviceInv(d) /\ dev[d] \in DeviceFiles BY Zenon DEF IdentityInv, IdentityTypeOK
<1>1. /\ IF Registers(d) /\ dev[d].next # row[d].hash
         THEN /\ overlap' = [overlap EXCEPT ![d] = [hash |-> dev[d].next, live |-> TRUE]]
              /\ ranOut' = IF dev[d].cred \in {row[d].hash, dev[d].next} THEN ranOut \ {d} ELSE ranOut
         ELSE UNCHANGED <<overlap, ranOut>>
      /\ UNCHANGED <<row, candidate, rotation>>
      /\ \/ Registers(d) /\ Goes(d, [dev[d] EXCEPT !.at = "switch"])
         \/ Goes(d, [dev[d] EXCEPT !.at = "run", !.receipt = "failed"])
  BY Zenon DEF Rotate
<1>2. PICK at \in {"switch", "run"}, r \in {"none", "failed", "succeeded"} :
         Goes(d, [dev[d] EXCEPT !.at = at, !.receipt = r]) /\ (at = "switch" => Registers(d))
  <2>1. CASE Registers(d) /\ Goes(d, [dev[d] EXCEPT !.at = "switch"])
    <3>1. [dev[d] EXCEPT !.at = "switch"] = [dev[d] EXCEPT !.at = "switch", !.receipt = dev[d].receipt]
      BY Zenon, <1>0 DEF DeviceFiles
    <3>2. QED BY Zenon, <1>0, <2>1, <3>1 DEF DeviceFiles
  <2>2. QED BY Zenon, <1>1, <2>1
<1> DEFINE new == [dev[d] EXCEPT !.at = at, !.receipt = r]
<1>3. /\ new \in DeviceFiles /\ new.at = at /\ new.intent = dev[d].intent /\ new.cred = dev[d].cred /\ new.cfg = dev[d].cfg
      /\ new.mem = dev[d].mem /\ new.next = dev[d].next
  BY Zenon, <1>0 DEF DeviceFiles
<1>4. dev'[d] = new /\ dev' \in [Devices -> DeviceFiles] /\ \A e \in Devices : e # d => dev'[e] = dev[e]
  BY <1>0, <1>2, <1>3, GoesFacts
<1>5. overlap' \in [Devices -> [hash : Nat, live : BOOLEAN]] /\ \A e \in Devices : e # d => overlap'[e] = overlap[e]
  <2>1. overlap \in [Devices -> [hash : Nat, live : BOOLEAN]] /\ dev[d].next \in Nat BY <1>0 DEF IdentityTypeOK, DeviceFiles
  <2>2. CASE overlap' = [overlap EXCEPT ![d] = [hash |-> dev[d].next, live |-> TRUE]]
    <3>1. [hash |-> dev[d].next, live |-> TRUE] \in [hash : Nat, live : BOOLEAN] BY <2>1
    <3>2. QED BY <2>1, <2>2, <3>1
  <2>3. CASE overlap' = overlap BY <2>1, <2>3
  <2>4. QED BY <1>1, <2>2, <2>3
<1>6. IdentityTypeOK' BY <1>0, <1>1, <1>4, <1>5 DEF IdentityTypeOK
<1> HIDE DEF new
<1>7. DeviceInv(d)'
  <2>1. dev[d].cfg = "enrolled" /\ row[d].made BY <1>0 DEF DeviceInv, RunningInv, Running
  <2>2. CASE Registers(d) /\ dev[d].next # row[d].hash
    <3>1. overlap'[d].hash = dev[d].next /\ overlap'[d].live BY <1>0, <1>1, <2>2 DEF IdentityTypeOK
    <3>2. ~row[d].revoked /\ row[d].hash = dev[d].mem /\ (~overlap[d].live \/ overlap[d].hash = dev[d].next)
      BY <2>2 DEF Registers
    <3>3. d \notin ranOut' => d \notin ranOut \/ dev[d].cred \in {row[d].hash, dev[d].next} BY Zenon, <1>1, <2>2
    <3>4. HonouredInv(d)'
      BY Zenon, <1>0, <1>1, <1>3, <1>4, <2>1, <3>1, <3>2, <3>3 DEF DeviceInv, HonouredInv, Proof
    <3>5. SetupInv(d)' /\ RunningInv(d)' /\ RevokedInv(d)'
      BY Zenon, <1>0, <1>1, <1>2, <1>3, <1>4, <2>1, <3>1, <3>2 DEF DeviceInv, SetupInv, RunningInv, RevokedInv, Running
    <3>6. QED BY <3>4, <3>5 DEF DeviceInv
  <2>3. CASE ~(Registers(d) /\ dev[d].next # row[d].hash)
    <3>1. UNCHANGED <<overlap, ranOut>> BY Zenon, <1>1, <2>3
    <3>2. QED BY <1>0, <1>1, <1>2, <1>3, <1>4, <2>1, <2>3, <3>1
              DEF DeviceInv, SetupInv, RunningInv, RevokedInv, HonouredInv, Proof, Running, Registers
  <2>4. QED BY <2>2, <2>3
<1>8. \A e \in Devices : e # d => Untouched(e) BY <1>1, <1>4, <1>5 DEF Untouched
<1>9. QED BY <1>6, <1>7, <1>8, OneDevice

\* jobRotate, last: whichever of the files was replaced before the failure,
\* the credential file holds one of the two the controller knows.
LEMMA SwitchKeeps == \A d \in Devices : IdentityInv /\ Rotate(d) /\ dev[d].at = "switch" => IdentityInv'
<1> SUFFICES ASSUME NEW d \in Devices, IdentityInv, Rotate(d), dev[d].at = "switch" PROVE IdentityInv' OBVIOUS
<1>0. IdentityTypeOK /\ DeviceInv(d) /\ dev[d] \in DeviceFiles BY DEF IdentityInv, IdentityTypeOK
<1>1. /\ \/ Goes(d, [dev[d] EXCEPT !.at = "run", !.cred = dev[d].next, !.mem = dev[d].next, !.receipt = "succeeded"])
         \/ \E c \in {dev[d].cred, dev[d].next} : Goes(d, [dev[d] EXCEPT !.at = "run", !.cred = c, !.receipt = "failed"])
         \/ Goes(d, [dev[d] EXCEPT !.at = "off", !.cred = dev[d].next, !.mem = 0])
      /\ UNCHANGED <<row, overlap, candidate, rotation, ranOut>>
  BY Zenon DEF Rotate, serverSide
<1>2. PICK new \in DeviceFiles :
         /\ Goes(d, new) /\ new.at \in {"run", "off"} /\ new.intent = dev[d].intent /\ new.cfg = dev[d].cfg
         /\ new.cred \in {dev[d].cred, dev[d].next}
         /\ new.at = "run" => new.mem = new.cred \/ new.mem = dev[d].mem
  <2>1. CASE Goes(d, [dev[d] EXCEPT !.at = "run", !.cred = dev[d].next, !.mem = dev[d].next, !.receipt = "succeeded"])
    <3> DEFINE n == [dev[d] EXCEPT !.at = "run", !.cred = dev[d].next, !.mem = dev[d].next, !.receipt = "succeeded"]
    <3>1. /\ n \in DeviceFiles /\ n.at = "run" /\ n.intent = dev[d].intent /\ n.cfg = dev[d].cfg
          /\ n.cred = dev[d].next /\ n.mem = n.cred
      BY Zenon, <1>0 DEF DeviceFiles
    <3> HIDE DEF n
    <3>2. QED BY Zenon, <2>1, <3>1 DEF n
  <2>2. ASSUME NEW c \in {dev[d].cred, dev[d].next}, Goes(d, [dev[d] EXCEPT !.at = "run", !.cred = c, !.receipt = "failed"])
        PROVE  \E new \in DeviceFiles :
                 /\ Goes(d, new) /\ new.at \in {"run", "off"} /\ new.intent = dev[d].intent /\ new.cfg = dev[d].cfg
                 /\ new.cred \in {dev[d].cred, dev[d].next}
                 /\ new.at = "run" => new.mem = new.cred \/ new.mem = dev[d].mem
    <3> DEFINE n == [dev[d] EXCEPT !.at = "run", !.cred = c, !.receipt = "failed"]
    <3>1. /\ n \in DeviceFiles /\ n.at = "run" /\ n.intent = dev[d].intent /\ n.cfg = dev[d].cfg
          /\ n.cred = c /\ n.mem = dev[d].mem
      BY Zenon, <1>0 DEF DeviceFiles
    <3> HIDE DEF n
    <3>2. QED BY Zenon, <2>2, <3>1 DEF n
  <2>3. CASE Goes(d, [dev[d] EXCEPT !.at = "off", !.cred = dev[d].next, !.mem = 0])
    <3> DEFINE n == [dev[d] EXCEPT !.at = "off", !.cred = dev[d].next, !.mem = 0]
    <3>1. /\ n \in DeviceFiles /\ n.at = "off" /\ n.intent = dev[d].intent /\ n.cfg = dev[d].cfg
          /\ n.cred = dev[d].next
      BY Zenon, <1>0 DEF DeviceFiles
    <3> HIDE DEF n
    <3>2. QED BY Zenon, <2>3, <3>1 DEF n
  <2>4. QED BY <1>1, <2>1, <2>2, <2>3
<1>3. dev'[d] = new /\ dev' \in [Devices -> DeviceFiles] /\ \A e \in Devices : e # d => dev'[e] = dev[e]
  BY <1>0, <1>2, GoesFacts
<1>4. IdentityTypeOK' BY <1>0, <1>1, <1>3 DEF IdentityTypeOK
<1>5. dev[d].cfg = "enrolled" /\ row[d].made BY <1>0 DEF DeviceInv, RunningInv, Running
<1>6. HonouredInv(d)'
  BY Zenon, <1>0, <1>1, <1>2, <1>3, <1>5 DEF DeviceInv, HonouredInv, RunningInv, Proof
<1>7. SetupInv(d)' /\ RunningInv(d)' /\ RevokedInv(d)'
  BY <1>0, <1>1, <1>2, <1>3, <1>5 DEF DeviceInv, SetupInv, RunningInv, RevokedInv, Running
<1>8. QED BY <1>1, <1>3, <1>4, <1>6, <1>7, OneDevice DEF Untouched, DeviceInv

\* Every step of jobRotate.
LEMMA RotateKeeps == \A d \in Devices : IdentityInv /\ Rotate(d) => IdentityInv'
<1> SUFFICES ASSUME NEW d \in Devices, IdentityInv, Rotate(d) PROVE IdentityInv' OBVIOUS
<1>1. dev[d].at \in {"rotate", "register", "switch"} BY DEF Rotate
<1>2. QED BY <1>1, MakeNextKeeps, RegisterKeeps, SwitchKeeps

\* An order to rotate starts a job without a file of its own.
LEMMA OrderRotationKeeps == \A d \in Devices : IdentityInv /\ OrderRotation(d) => IdentityInv'
<1> SUFFICES ASSUME NEW d \in Devices, IdentityInv, OrderRotation(d) PROVE IdentityInv' OBVIOUS
<1>0. IdentityTypeOK /\ DeviceInv(d) /\ dev[d] \in DeviceFiles BY DEF IdentityInv, IdentityTypeOK
<1> DEFINE new == [dev[d] EXCEPT !.next = 0, !.receipt = "none"]
<1>1. /\ new \in DeviceFiles /\ new.at = dev[d].at /\ new.intent = dev[d].intent /\ new.cred = dev[d].cred
      /\ new.cfg = dev[d].cfg /\ new.mem = dev[d].mem
  BY Zenon, <1>0 DEF DeviceFiles
<1>2. dev'[d] = new /\ dev' \in [Devices -> DeviceFiles] /\ \A e \in Devices : e # d => dev'[e] = dev[e]
  BY <1>0, <1>1, GoesFacts DEF OrderRotation
<1>3. UNCHANGED <<row, overlap, candidate, ranOut>> /\ dev[d].at \in {"run", "off"}
  BY DEF OrderRotation, serverSide
<1>4. rotation' \in [Devices -> [status : {"none", "open", "succeeded", "failed"}, count : Nat]]
  <2>1. rotation \in [Devices -> [status : {"none", "open", "succeeded", "failed"}, count : Nat]] BY <1>0 DEF IdentityTypeOK
  <2>2. rotation[d].count + 1 \in Nat BY <2>1
  <2>3. rotation' = [rotation EXCEPT ![d] = [status |-> "open", count |-> rotation[d].count + 1]]
    BY <2>1 DEF OrderRotation
  <2>4. QED BY <2>1, <2>2, <2>3
<1>5. IdentityTypeOK' BY <1>0, <1>2, <1>3, <1>4 DEF IdentityTypeOK
<1> HIDE DEF new
<1>6. DeviceInv(d)'
  <2>1. SetupInv(d)' BY <1>0, <1>1, <1>2, <1>3 DEF DeviceInv, SetupInv
  <2>2. RunningInv(d)' BY <1>0, <1>1, <1>2, <1>3 DEF DeviceInv, RunningInv, Running
  <2>3. RevokedInv(d)' BY Zenon, <1>0, <1>3 DEF DeviceInv, RevokedInv
  <2>4. HonouredInv(d)' BY Zenon, <1>0, <1>1, <1>2, <1>3 DEF DeviceInv, HonouredInv, Proof
  <2>5. QED BY Zenon, <2>1, <2>2, <2>3, <2>4 DEF DeviceInv
<1>7. QED BY <1>2, <1>3, <1>5, <1>6, OneDevice DEF Untouched

\* RevokeOperationAgents clears the verifier and the overlap together.
LEMMA RevokeKeeps == \A d \in Devices : IdentityInv /\ Revoke(d) => IdentityInv'
<1> SUFFICES ASSUME NEW d \in Devices, IdentityInv, Revoke(d) PROVE IdentityInv' OBVIOUS
<1>0. IdentityTypeOK /\ DeviceInv(d) BY DEF IdentityInv
<1>1. /\ row' \in [Devices -> [hash : Nat, revoked : BOOLEAN, made : BOOLEAN]]
      /\ row'[d].hash = 0 /\ row'[d].revoked /\ row'[d].made = row[d].made
      /\ \A e \in Devices : e # d => row'[e] = row[e]
  <2>1. row \in [Devices -> [hash : Nat, revoked : BOOLEAN, made : BOOLEAN]] BY <1>0 DEF IdentityTypeOK
  <2>2. row' = [row EXCEPT ![d].revoked = TRUE, ![d].hash = 0] BY DEF Revoke
  <2>3. row'[d] = [[row[d] EXCEPT !.revoked = TRUE] EXCEPT !.hash = 0] BY <2>1, <2>2
  <2>4. /\ row'[d] \in [hash : Nat, revoked : BOOLEAN, made : BOOLEAN]
        /\ row'[d].hash = 0 /\ row'[d].revoked /\ row'[d].made = row[d].made
    <3> DEFINE out == [row[d] EXCEPT !.revoked = TRUE]
    <3>1. out \in [hash : Nat, revoked : BOOLEAN, made : BOOLEAN] /\ out.revoked /\ out.made = row[d].made BY Zenon, <2>1
    <3>2. row'[d] = [out EXCEPT !.hash = 0] BY <2>3
    <3> HIDE DEF out
    <3>3. QED BY <3>1, <3>2
  <2>5. row' = [e \in Devices |-> row'[e]] /\ \A e \in Devices : e # d => row'[e] = row[e] BY Zenon, <2>1, <2>2
  <2>6. QED BY <2>1, <2>4, <2>5
<1>2. /\ overlap' \in [Devices -> [hash : Nat, live : BOOLEAN]] /\ overlap'[d] = NoOverlap
      /\ \A e \in Devices : e # d => overlap'[e] = overlap[e]
  BY <1>0 DEF Revoke, IdentityTypeOK, NoOverlap
<1>3. UNCHANGED <<dev, candidate, rotation, ranOut>> /\ row[d].made BY DEF Revoke
<1>4. IdentityTypeOK' BY <1>0, <1>1, <1>2, <1>3 DEF IdentityTypeOK
<1>5. DeviceInv(d)'
  BY Zenon, <1>0, <1>1, <1>2, <1>3 DEF DeviceInv, SetupInv, RunningInv, RevokedInv, HonouredInv, Proof
<1>6. QED BY <1>1, <1>2, <1>3, <1>4, <1>5, OneDevice DEF Untouched

\* A device that stops keeps its files.
LEMMA StopDeviceKeeps == \A d \in Devices : IdentityInv /\ StopDevice(d) => IdentityInv'
<1> SUFFICES ASSUME NEW d \in Devices, IdentityInv, StopDevice(d) PROVE IdentityInv' OBVIOUS
<1>0. IdentityTypeOK /\ DeviceInv(d) /\ dev[d] \in DeviceFiles BY DEF IdentityInv, IdentityTypeOK
<1> DEFINE r == IF dev[d].at = "run" THEN dev[d].receipt ELSE "none"
<1> DEFINE new == [dev[d] EXCEPT !.at = "off", !.mem = 0, !.receipt = r]
<1>1. r \in {"none", "failed", "succeeded"} BY <1>0 DEF DeviceFiles
<1> HIDE DEF r
<1>2. /\ new \in DeviceFiles /\ new.at = "off" /\ new.intent = dev[d].intent /\ new.cred = dev[d].cred
      /\ new.cfg = dev[d].cfg
  BY Zenon, <1>0, <1>1 DEF DeviceFiles
<1>3. dev'[d] = new /\ dev' \in [Devices -> DeviceFiles] /\ \A e \in Devices : e # d => dev'[e] = dev[e]
  BY <1>0, <1>2, GoesFacts DEF StopDevice, r
<1>4. UNCHANGED <<row, overlap, candidate, rotation, ranOut>> BY DEF StopDevice, serverSide
<1>5. IdentityTypeOK' BY <1>0, <1>3, <1>4 DEF IdentityTypeOK
<1> HIDE DEF new
<1>6. DeviceInv(d)'
  BY Zenon, <1>0, <1>2, <1>3, <1>4 DEF DeviceInv, SetupInv, RunningInv, RevokedInv, HonouredInv, Proof, Running
<1>7. QED BY <1>3, <1>4, <1>5, <1>6, OneDevice DEF Untouched

\* Deadlines: a candidate goes or grows old, an overlap dies and is remembered.
LEMMA DeadlinesKeep == IdentityInv /\ DeadlinesPass => IdentityInv'
<1> SUFFICES ASSUME IdentityInv, DeadlinesPass PROVE IdentityInv' OBVIOUS
<1>0. IdentityTypeOK /\ \A d \in Devices : DeviceInv(d) BY DEF IdentityInv
<1>1. UNCHANGED <<dev, row, rotation>> BY DEF DeadlinesPass
<1>2. CASE UNCHANGED <<candidate, overlap, ranOut>>
  <2>1. IdentityTypeOK' BY <1>0, <1>1, <1>2 DEF IdentityTypeOK
  <2>2. \A d \in Devices : Untouched(d) BY <1>1, <1>2 DEF Untouched
  <2>3. QED BY <1>0, <2>1, <2>2, UntouchedKeeps DEF IdentityInv
<1>3. ASSUME NEW d \in Devices, candidate[d].state # "none", candidate' = [candidate EXCEPT ![d] = NoCandidate],
             UNCHANGED <<overlap, ranOut>>
      PROVE  IdentityInv'
  <2>1. /\ candidate' \in [Devices -> [state : {"none", "pending", "approved", "rejected"}, hash : Nat, fresh : BOOLEAN]]
        /\ candidate'[d] = NoCandidate /\ \A e \in Devices : e # d => candidate'[e] = candidate[e]
    BY <1>0, <1>3 DEF IdentityTypeOK, NoCandidate
  <2>2. IdentityTypeOK' BY Zenon, <1>0, <1>1, <1>3, <2>1 DEF IdentityTypeOK
  <2>3. DeviceInv(d)'
    <3>0. NoCandidate.state = "none" BY DEF NoCandidate
    <3>1. SetupInv(d)' BY Zenon, <1>0, <1>1, <2>1, <3>0 DEF DeviceInv, SetupInv
    <3>2. RunningInv(d)' BY Zenon, <1>0, <1>1, <1>3 DEF DeviceInv, RunningInv
    <3>3. RevokedInv(d)' BY Zenon, <1>0, <1>1, <1>3 DEF DeviceInv, RevokedInv
    <3>4. HonouredInv(d)' BY Zenon, <1>0, <1>1, <1>3 DEF DeviceInv, HonouredInv, Proof
    <3>5. QED BY Zenon, <3>1, <3>2, <3>3, <3>4 DEF DeviceInv
  <2>4. QED BY <1>1, <1>3, <2>1, <2>2, <2>3, OneDevice DEF Untouched
<1>4. ASSUME NEW d \in Devices, candidate' = [candidate EXCEPT ![d].fresh = FALSE], UNCHANGED <<overlap, ranOut>>
      PROVE  IdentityInv'
  <2>1. /\ candidate' \in [Devices -> [state : {"none", "pending", "approved", "rejected"}, hash : Nat, fresh : BOOLEAN]]
        /\ candidate'[d].state = candidate[d].state /\ candidate'[d].hash = candidate[d].hash
        /\ \A e \in Devices : e # d => candidate'[e] = candidate[e]
    <3>1. candidate \in [Devices -> [state : {"none", "pending", "approved", "rejected"}, hash : Nat, fresh : BOOLEAN]]
      BY Zenon, <1>0 DEF IdentityTypeOK
    <3>2. candidate[d] \in [state : {"none", "pending", "approved", "rejected"}, hash : Nat, fresh : BOOLEAN] BY Zenon, <3>1
    <3>3. PICK c : c = [candidate[d] EXCEPT !.fresh = FALSE] OBVIOUS
    <3>4. /\ c \in [state : {"none", "pending", "approved", "rejected"}, hash : Nat, fresh : BOOLEAN]
          /\ c.state = candidate[d].state /\ c.hash = candidate[d].hash
      BY <3>2, <3>3
    <3>5. candidate' = [candidate EXCEPT ![d] = c] BY Zenon, <1>4, <3>3
    <3>6. QED BY Zenon, <3>1, <3>4, <3>5
  <2>2. IdentityTypeOK' BY <1>0, <1>1, <1>4, <2>1 DEF IdentityTypeOK
  <2>3. DeviceInv(d)'
    BY <1>0, <1>1, <1>4, <2>1 DEF DeviceInv, SetupInv, RunningInv, RevokedInv, HonouredInv, Proof
  <2>4. QED BY <1>1, <1>4, <2>1, <2>2, <2>3, OneDevice DEF Untouched
<1>5. ASSUME NEW d \in Devices, overlap[d].live, overlap' = [overlap EXCEPT ![d].live = FALSE], ranOut' = ranOut \cup {d},
             UNCHANGED candidate
      PROVE  IdentityInv'
  <2>1. /\ overlap' \in [Devices -> [hash : Nat, live : BOOLEAN]]
        /\ \A e \in Devices : e # d => overlap'[e] = overlap[e]
    <3>1. overlap \in [Devices -> [hash : Nat, live : BOOLEAN]] BY Zenon, <1>0 DEF IdentityTypeOK
    <3>2. overlap[d] \in [hash : Nat, live : BOOLEAN] BY Zenon, <3>1
    <3>3. PICK o : o = [overlap[d] EXCEPT !.live = FALSE] OBVIOUS
    <3>4. o \in [hash : Nat, live : BOOLEAN] BY <3>2, <3>3
    <3>5. overlap' = [overlap EXCEPT ![d] = o] BY Zenon, <1>5, <3>3
    <3>6. QED BY Zenon, <3>1, <3>4, <3>5
  <2>2. IdentityTypeOK' BY <1>0, <1>1, <1>5, <2>1 DEF IdentityTypeOK
  <2>3. ~row[d].revoked BY <1>0, <1>5 DEF DeviceInv, RevokedInv, NoOverlap
  <2>4. d \in ranOut' BY <1>5
  <2>5. DeviceInv(d)'
    BY <1>0, <1>1, <1>5, <2>1, <2>3, <2>4 DEF DeviceInv, SetupInv, RunningInv, RevokedInv, HonouredInv
  <2>6. QED BY <1>1, <1>5, <2>1, <2>2, <2>5, OneDevice DEF Untouched
<1>6. QED BY <1>2, <1>3, <1>4, <1>5 DEF DeadlinesPass

\* Whatever the devices, their profiles, the capacity and the number of faults,
\* the device's files and the controller's rows stay in step.
THEOREM IdentityInvariant == IdentitySpec => []IdentityInv
<1>1. IdentityInit => IdentityInv BY IdentityInitInv
<1>2. IdentityInv /\ [IdentityNext]_identityVars => IdentityInv'
  <2> SUFFICES ASSUME IdentityInv, [IdentityNext]_identityVars PROVE IdentityInv' OBVIOUS
  <2>1. CASE UNCHANGED <<dev, row, overlap, candidate, rotation, ranOut>>
    <3>1. IdentityTypeOK' BY Zenon, <2>1 DEF IdentityInv, IdentityTypeOK
    <3>2. \A d \in Devices : Untouched(d) BY <2>1 DEF Untouched
    <3>3. QED BY Zenon, <3>1, <3>2, UntouchedKeeps DEF IdentityInv
  <2>2. CASE UNCHANGED identityVars BY <2>1, <2>2 DEF identityVars
  <2>3. CASE SetAdmission BY <2>1, <2>3 DEF SetAdmission
  <2>4. CASE DeadlinesPass BY Zenon, <2>4, DeadlinesKeep
  <2>5. ASSUME NEW d \in Devices,
               \/ BeginEnroll(d) \/ EnrollExchange(d) \/ StoreEnrollment(d)
               \/ PrepareDiscovery(d) \/ AnnounceExchange(d) \/ Decide(d)
               \/ OpenDevice(d) \/ Authenticate(d) \/ Promote(d) \/ Rotate(d)
               \/ OrderRotation(d) \/ Revoke(d) \/ StopDevice(d)
        PROVE  IdentityInv'
    BY <2>5, BeginEnrollKeeps, EnrollExchangeKeeps, StoreEnrollmentKeeps, PrepareDiscoveryKeeps, AnnounceExchangeKeeps,
       DecideKeeps, OpenDeviceKeeps, AuthenticateKeeps, PromoteKeeps, RotateKeeps, OrderRotationKeeps, RevokeKeeps,
       StopDeviceKeeps
  <2>6. QED BY <2>2, <2>3, <2>4, <2>5 DEF IdentityNext
<1>3. QED BY <1>1, <1>2, PTL DEF IdentitySpec

\* A revoked device stays out, whatever request was being served when
\* RevokeOperationAgents ran (PromoteCredential looks again).
THEOREM IdentityRevokedIsOut == IdentitySpec => []RevokedIsOut
<1>1. IdentityInv => RevokedIsOut BY DEF IdentityInv, DeviceInv, RevokedInv, RevokedIsOut
<1>2. QED BY <1>1, IdentityInvariant, PTL

\* The proof a registered device keeps is one the controller honours, after
\* every crash, lost answer and failed write of enrolling, announcing and
\* rotating, except when its pending credential ran out.
THEOREM IdentityProofHonoured == IdentitySpec => []ProofHonoured
<1>1. IdentityInv => ProofHonoured BY DEF IdentityInv, DeviceInv, HonouredInv, ProofHonoured
<1>2. QED BY <1>1, IdentityInvariant, PTL
=============================================================================
