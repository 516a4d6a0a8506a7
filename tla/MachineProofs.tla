---------------------------- MODULE MachineProofs ----------------------------
(***************************************************************************)
(* The software of one machine: what a published release, the installer    *)
(* and the move to another controller promise, for every number of         *)
(* releases, packages, operations, faults and restarts.                    *)
(***************************************************************************)
EXTENDS Releases, Installation, Migration, TLAPS

-----------------------------------------------------------------------------
(* Releases *)

Marks == [ts : Nat, sn : Nat, tg : Nat]
Repos ==
    [root : Nat, body : Nat, tg : [v : Nat, body : Nat, by : Nat],
     sn : [v : Nat, tg : Nat, by : Nat], ts : [v : Nat, sn : Nat, by : Nat]]

\* The variables of Releases have these types.
ReleasesTypeOK ==
    /\ keys \in Nat /\ signs \in Nat /\ mischance \in Nat
    /\ repo \in Repos
    /\ bundles \subseteq Repos /\ catalogue \subseteq Repos
    /\ signing \in {"idle", "targets", "snapshot", "timestamp"}
    /\ trust \in [rev : Nat, root : Nat, versions : Marks]
    /\ dirs \in [DOMAIN dirs -> {"whole", "damaged"}]
    /\ import \in [at : {"idle", "verify", "stage", "commit"}, bundle : Repos, rev : Nat, trusted : Nat]
    /\ agentTrust \in [root : Nat, versions : Marks, at : {"idle", "artifact"}, of : Repos]
    /\ incoming \in [body : Nat, of : Repos]

\* An import holds what the trust it read still says: controlMu keeps every
\* other import out, and what was verified stays verified until it commits.
ImportInv ==
    /\ import.at # "idle" => import.rev = trust.rev
    /\ import.at = "verify" => import.trusted = trust.root
    /\ import.at \in {"stage", "commit"} =>
          /\ NotReplayed(import.bundle, trust.versions)
          /\ trust.root # 0 => import.trusted = trust.root
    /\ import.at = "commit" => import.bundle \in DOMAIN dirs /\ dirs[import.bundle] = "whole"

\* The high-water mark is above every published release, so above the agent's;
\* what the agent fetches or keeps is signed by the root it enrolled.
AgentInv ==
    /\ \A b \in catalogue : AtLeast(trust.versions, Versions(b))
    /\ AtLeast(trust.versions, agentTrust.versions)
    /\ agentTrust.at = "artifact" =>
          agentTrust.root # 0 /\ agentTrust.of \in catalogue /\ agentTrust.of.tg.by = agentTrust.root
    /\ incoming.body # 0 =>
          agentTrust.root # 0 /\ incoming.of \in catalogue /\ incoming.of.tg.by = agentTrust.root
    /\ incoming.body = incoming.of.tg.body

ReleasesInv == ReleasesTypeOK /\ ImportInv /\ AgentInv

\* What one step of Releases may never do (VisibleIsWhole, TrustAdvances).
PublicationStep ==
    /\ \A b \in catalogue' \ catalogue : b \in DOMAIN dirs' /\ dirs'[b] = "whole"
    /\ AtLeast(trust'.versions, trust.versions)
    /\ AtLeast(agentTrust'.versions, agentTrust.versions)
    /\ trust.root # 0 => trust'.root = trust.root
    /\ agentTrust.root # 0 => agentTrust'.root = agentTrust.root

\* A step that leaves trust, catalogue and agent alone is a safe step.
LEMMA QuietPublication ==
  ReleasesTypeOK /\ UNCHANGED <<trust, catalogue, agentTrust>> => PublicationStep
BY DEF ReleasesTypeOK, PublicationStep, AtLeast, Marks

\* The empty repository is one.
LEMMA EmptyIsRepo == EmptyRepo \in Repos /\ NoVersions \in Marks /\ EmptyRepo.tg.body = 0
BY DEF EmptyRepo, Repos, NoVersions, Marks

\* An import that is not running holds nothing.
LEMMA NoImportIdle ==
  NoImport.at = "idle" /\ NoImport \in [at : {"idle", "verify", "stage", "commit"}, bundle : Repos, rev : Nat, trusted : Nat]
BY EmptyIsRepo DEF NoImport

\* Nothing published, nothing fetched.
LEMMA ReleasesInitInv == ReleasesInit => ReleasesInv
<1> SUFFICES ASSUME ReleasesInit PROVE ReleasesInv OBVIOUS
<1>1. ReleasesTypeOK
  BY EmptyIsRepo, NoImportIdle DEF ReleasesInit, ReleasesTypeOK
<1>2. ImportInv BY NoImportIdle DEF ReleasesInit, ImportInv
<1>3. AgentInv BY EmptyIsRepo DEF ReleasesInit, AgentInv, AtLeast, NoVersions
<1>4. QED BY <1>1, <1>2, <1>3 DEF ReleasesInv

\* The signer's files are its own.
LEMMA SignerKeeps ==
  ReleasesInv /\ (SignStep \/ SignerTrouble \/ Pack \/ Outdate) => ReleasesInv' /\ PublicationStep
<1> SUFFICES ASSUME ReleasesInv, SignStep \/ SignerTrouble \/ Pack \/ Outdate PROVE ReleasesInv' /\ PublicationStep
  OBVIOUS
<1>1. UNCHANGED <<trust, catalogue, dirs, import, agentTrust, incoming>>
  BY DEF SignStep, SignerTrouble, Pack, Outdate, serverVars
<1>2. ReleasesTypeOK'
  <2>0. ReleasesTypeOK BY DEF ReleasesInv
  <2>1. CASE SignStep
    <3>0. /\ repo \in Repos /\ keys \in Nat /\ signs + 1 \in Nat /\ repo.root \in Nat /\ repo.body \in Nat
          /\ repo.tg.v + 1 \in Nat /\ repo.sn.v + 1 \in Nat /\ repo.ts.v + 1 \in Nat
          /\ repo.tg.v \in Nat /\ repo.sn.v \in Nat
      BY <2>0 DEF ReleasesTypeOK, Repos
    <3>1. repo' \in Repos
      <4>1. CASE signing = "idle" BY Zenon, <2>1, <3>0, <4>1 DEF SignStep, Repos
      <4>2. CASE signing = "targets"
        <5>1. repo' = [repo EXCEPT !.tg = [v |-> repo.tg.v + 1, body |-> repo.body, by |-> keys]]
          BY <2>1, <4>2 DEF SignStep
        <5>2. QED BY <3>0, <5>1 DEF Repos
      <4>3. CASE signing = "snapshot"
        <5>1. repo' = [repo EXCEPT !.sn = [v |-> repo.sn.v + 1, tg |-> repo.tg.v, by |-> keys]]
          BY Zenon, <2>1, <4>3 DEF SignStep
        <5>2. QED BY <3>0, <5>1 DEF Repos
      <4>4. CASE signing = "timestamp"
        <5>1. repo' = [repo EXCEPT !.ts = [v |-> repo.ts.v + 1, sn |-> repo.sn.v, by |-> keys]]
          BY <2>1, <4>4 DEF SignStep
        <5>2. QED BY <3>0, <5>1 DEF Repos
      <4>5. QED BY <2>1, <4>1, <4>2, <4>3, <4>4 DEF SignStep
    <3>2. QED BY <1>1, <2>0, <2>1, <3>1 DEF SignStep, ReleasesTypeOK
  <2>2. CASE SignerTrouble BY <1>1, <2>0, <2>2 DEF SignerTrouble, Mischance, ReleasesTypeOK
  <2>3. CASE Pack BY <1>1, <2>0, <2>3 DEF Pack, ReleasesTypeOK
  <2>4. CASE Outdate BY <1>1, <2>0, <2>4 DEF Outdate, Mischance, signerVars, ReleasesTypeOK
  <2>5. QED BY <2>1, <2>2, <2>3, <2>4
<1>3. ImportInv' BY Zenon, <1>1 DEF ReleasesInv, ImportInv, NotReplayed
<1>4. AgentInv' BY <1>1 DEF ReleasesInv, AgentInv, AtLeast, Versions
<1>5. QED BY <1>1, <1>2, <1>3, <1>4, QuietPublication DEF ReleasesInv

\* An import verifies, stages and is given up without touching trust.
LEMMA ImportKeeps ==
  ReleasesInv /\ (BeginImport \/ VerifyImport \/ Stage \/ ControllerTrouble) => ReleasesInv' /\ PublicationStep
<1> SUFFICES ASSUME ReleasesInv, BeginImport \/ VerifyImport \/ Stage \/ ControllerTrouble
             PROVE  ReleasesInv' /\ PublicationStep
  OBVIOUS
<1>1. UNCHANGED <<trust, catalogue, agentTrust, incoming>>
  BY Zenon DEF BeginImport, VerifyImport, Stage, ControllerTrouble
<1>2. AgentInv' BY <1>1 DEF ReleasesInv, AgentInv, AtLeast, Versions
<1>3. PublicationStep BY <1>1, QuietPublication DEF ReleasesInv
<1>4. CASE BeginImport
  <2>1. ReleasesTypeOK'
    BY <1>1, <1>4 DEF ReleasesInv, ReleasesTypeOK, BeginImport, ReleaseTrust, signerVars
  <2>2. ImportInv' BY <1>1, <1>4 DEF ImportInv, BeginImport, ReleaseTrust
  <2>3. QED BY Zenon, <1>2, <1>3, <2>1, <2>2 DEF ReleasesInv
<1>5. CASE VerifyImport
  <2>1. \/ import' = NoImport
        \/ /\ \E r \in Nat : import' = [import EXCEPT !.at = "stage", !.trusted = r] /\ (import.trusted # 0 => r = import.trusted)
           /\ NotReplayed(import.bundle, trust.versions)
    BY Zenon, <1>5 DEF VerifyImport, VerifyRepo, ReleasesInv, ReleasesTypeOK, Repos
  <2>2. ReleasesTypeOK'
    <3>0. import \in [at : {"idle", "verify", "stage", "commit"}, bundle : Repos, rev : Nat, trusted : Nat]
      BY Zenon DEF ReleasesInv, ReleasesTypeOK
    <3>1. import' \in [at : {"idle", "verify", "stage", "commit"}, bundle : Repos, rev : Nat, trusted : Nat]
      BY <2>1, <3>0, NoImportIdle
    <3>2. QED BY Zenon, <1>1, <1>5, <3>1 DEF ReleasesInv, ReleasesTypeOK, VerifyImport, signerVars
  <2>3. ImportInv'
    BY Zenon, <1>1, <1>5, <2>1, NoImportIdle DEF ReleasesInv, ImportInv, ReleasesTypeOK, VerifyImport, NotReplayed
  <2>4. QED BY <1>2, <1>3, <2>2, <2>3 DEF ReleasesInv
<1>6. CASE Stage
  <2>1. /\ import' = NoImport \/ (import' = [import EXCEPT !.at = "commit"] /\ import.bundle \in DOMAIN dirs' /\ dirs'[import.bundle] = "whole")
        /\ dirs' \in [DOMAIN dirs' -> {"whole", "damaged"}]
    BY <1>6 DEF Stage, ReleasesInv, ReleasesTypeOK
  <2>2. ReleasesTypeOK'
    BY Zenon, <1>1, <1>6, <2>1, NoImportIdle DEF ReleasesInv, ReleasesTypeOK, Stage, signerVars
  <2>3. ImportInv'
    BY Zenon, <1>1, <1>6, <2>1, NoImportIdle DEF ReleasesInv, ImportInv, ReleasesTypeOK, Stage, NotReplayed
  <2>4. QED BY <1>2, <1>3, <2>2, <2>3 DEF ReleasesInv
<1>7. CASE ControllerTrouble
  <2>1. /\ import'.at = "idle" /\ import' \in {import, NoImport}
        /\ dirs' \in [DOMAIN dirs' -> {"whole", "damaged"}]
    BY Zenon, <1>7, NoImportIdle DEF ControllerTrouble, ReleasesInv, ReleasesTypeOK
  <2>2. ReleasesTypeOK'
    BY <1>1, <1>7, <2>1, NoImportIdle DEF ReleasesInv, ReleasesTypeOK, ControllerTrouble, Mischance, signerVars
  <2>3. ImportInv' BY <2>1 DEF ImportInv
  <2>4. QED BY <1>2, <1>3, <2>2, <2>3 DEF ReleasesInv
<1>8. QED BY <1>4, <1>5, <1>6, <1>7

\* A publication is committed against the trust it was verified with.
LEMMA CommitKeeps == ReleasesInv /\ CommitPublication => ReleasesInv' /\ PublicationStep
<1> SUFFICES ASSUME ReleasesInv, CommitPublication PROVE ReleasesInv' /\ PublicationStep OBVIOUS
<1> DEFINE b == import.bundle
<1>1. /\ import' = NoImport /\ catalogue' = catalogue \cup {b}
      /\ trust' = [rev |-> trust.rev + 1, root |-> import.trusted, versions |-> Versions(b)]
      /\ UNCHANGED <<dirs, agentTrust, incoming, keys, repo, signing, signs, bundles, stale, mischance>>
  BY DEF CommitPublication, ReleasesInv, ImportInv, signerVars
<1>2. b \in Repos /\ Versions(b) \in Marks /\ import.trusted \in Nat /\ trust.rev \in Nat
  BY DEF ReleasesInv, ReleasesTypeOK, Repos, Versions, Marks
<1>3. ReleasesTypeOK' BY <1>1, <1>2, NoImportIdle DEF ReleasesInv, ReleasesTypeOK
<1>4. ImportInv' BY <1>1, NoImportIdle DEF ImportInv
<1>5. AtLeast(Versions(b), trust.versions)
  BY DEF CommitPublication, ReleasesInv, ImportInv, NotReplayed, AtLeast, Versions
<1>6. trust.versions \in Marks /\ agentTrust.versions \in Marks /\ \A c \in catalogue : Versions(c) \in Marks
  BY DEF ReleasesInv, ReleasesTypeOK, Repos, Versions, Marks
<1>7. AgentInv'
  <2>1. AtLeast(Versions(b), Versions(b)) BY <1>2 DEF AtLeast, Marks
  <2>2. \A c \in catalogue : AtLeast(Versions(b), Versions(c))
    <3> TAKE c \in catalogue
    <3>1. AtLeast(trust.versions, Versions(c)) BY DEF ReleasesInv, AgentInv
    <3>2. QED BY <3>1, <1>2, <1>5, <1>6 DEF AtLeast, Marks
  <2>3. AtLeast(Versions(b), agentTrust.versions)
    <3>1. AtLeast(trust.versions, agentTrust.versions) BY DEF ReleasesInv, AgentInv
    <3>2. QED BY <3>1, <1>2, <1>5, <1>6 DEF AtLeast, Marks
  <2>4. trust'.versions = Versions(b) BY Zenon, <1>1
  <2>5. (\A c \in catalogue : AtLeast(trust.versions, Versions(c)))'
    BY Zenon, <1>1, <2>1, <2>2, <2>4 DEF AtLeast, Versions
  <2>6. AtLeast(trust.versions, agentTrust.versions)' BY Zenon, <1>1, <2>3, <2>4 DEF AtLeast
  <2>7. QED BY <1>1, <2>5, <2>6 DEF ReleasesInv, AgentInv
<1>8. PublicationStep
  <2>1. import.at = "commit" BY DEF CommitPublication
  <2>2. AtLeast(agentTrust.versions, agentTrust.versions) BY <1>6 DEF AtLeast, Marks
  <2>3. QED BY <1>1, <1>5, <2>1, <2>2 DEF PublicationStep, ReleasesInv, ImportInv, AtLeast
<1>9. QED BY <1>3, <1>4, <1>7, <1>8 DEF ReleasesInv

\* The agent takes only what it verified, and only forward.
LEMMA AgentKeeps ==
  ReleasesInv /\ (EnrollRoot \/ FetchMetadata \/ FetchArtifact \/ AgentStops) => ReleasesInv' /\ PublicationStep
<1> SUFFICES ASSUME ReleasesInv, EnrollRoot \/ FetchMetadata \/ FetchArtifact \/ AgentStops
             PROVE  ReleasesInv' /\ PublicationStep
  OBVIOUS
<1>1. UNCHANGED <<keys, repo, signing, signs, bundles, trust, catalogue, dirs, import, stale>>
  BY Zenon DEF EnrollRoot, FetchMetadata, FetchArtifact, AgentStops, signerVars, serverVars
<1>2. ImportInv' BY <1>1 DEF ReleasesInv, ImportInv, NotReplayed
<1>3. mischance' \in Nat
  <2>1. mischance \in Nat BY DEF ReleasesInv, ReleasesTypeOK
  <2>2. mischance' = mischance \/ mischance' = mischance + 1
    BY Zenon DEF EnrollRoot, FetchMetadata, FetchArtifact, AgentStops, Mischance
  <2>3. QED BY <2>1, <2>2
<1>4. trust.versions \in Marks /\ agentTrust.versions \in Marks
  BY DEF ReleasesInv, ReleasesTypeOK
<1>5. AtLeast(agentTrust.versions, agentTrust.versions) /\ AtLeast(trust.versions, trust.versions)
  BY <1>4 DEF AtLeast, Marks
<1>6. ASSUME agentTrust'.versions = agentTrust.versions, agentTrust.root # 0 => agentTrust'.root = agentTrust.root
      PROVE  PublicationStep
  BY <1>1, <1>5, <1>6 DEF PublicationStep, AtLeast
<1>7. CASE EnrollRoot
  <2>1. agentTrust' = [agentTrust EXCEPT !.root = trust.root] /\ UNCHANGED incoming /\ agentTrust.root = 0
    BY <1>7 DEF EnrollRoot
  <2>2. ReleasesTypeOK' BY Zenon, <1>1, <1>3, <2>1 DEF ReleasesInv, ReleasesTypeOK
  <2>3. AgentInv' BY <1>1, <2>1 DEF ReleasesInv, ReleasesTypeOK, AgentInv, AtLeast, Versions
  <2>4. QED BY <1>2, <1>6, <2>1, <2>2, <2>3 DEF ReleasesInv, ReleasesTypeOK
<1>8. CASE FetchMetadata
  <2>1. PICK b \in catalogue :
            /\ VerifyRepo(agentTrust.root, b, agentTrust.versions)
            /\ agentTrust' = [agentTrust EXCEPT !.at = "artifact", !.of = b, !.versions = Versions(b)]
    BY Zenon, <1>8 DEF FetchMetadata
  <2>2. UNCHANGED incoming /\ agentTrust.root # 0 BY Zenon, <1>8 DEF FetchMetadata
  <2>3. b \in Repos /\ Versions(b) \in Marks BY Zenon DEF ReleasesInv, ReleasesTypeOK, Repos, Versions, Marks
  <2>4. ReleasesTypeOK' BY Zenon, <1>1, <1>3, <2>1, <2>2, <2>3 DEF ReleasesInv, ReleasesTypeOK
  <2>5. AtLeast(Versions(b), agentTrust.versions) /\ AtLeast(trust.versions, Versions(b)) /\ b.tg.by = agentTrust.root
    BY <2>1 DEF VerifyRepo, NotReplayed, AtLeast, Versions, ReleasesInv, AgentInv
  <2>6. /\ agentTrust'.versions = Versions(b) /\ agentTrust'.root = agentTrust.root
        /\ agentTrust'.of = b
    BY <2>1 DEF ReleasesInv, ReleasesTypeOK
  <2>7. AgentInv' BY <1>1, <2>1, <2>2, <2>5, <2>6 DEF ReleasesInv, AgentInv, AtLeast, Versions
  <2>8. PublicationStep BY Zenon, <1>1, <1>5, <2>5, <2>6 DEF PublicationStep, AtLeast
  <2>9. QED BY <1>2, <2>4, <2>7, <2>8 DEF ReleasesInv
<1>9. CASE FetchArtifact \/ AgentStops
  <2>1. agentTrust' = [agentTrust EXCEPT !.at = "idle", !.of = EmptyRepo]
    BY Zenon, <1>9 DEF FetchArtifact, AgentStops
  <2>2. \/ incoming' = incoming
        \/ /\ agentTrust.at = "artifact" /\ Downloaded(agentTrust.of) = agentTrust.of.tg.body
           /\ incoming' = [body |-> agentTrust.of.tg.body, of |-> agentTrust.of]
    BY Zenon, <1>9 DEF FetchArtifact, AgentStops
  <2>3. ReleasesTypeOK'
    <3>1. agentTrust.of \in Repos /\ agentTrust.of.tg.body \in Nat BY DEF ReleasesInv, ReleasesTypeOK, Repos
    <3>2. incoming' \in [body : Nat, of : Repos] BY <2>2, <3>1 DEF ReleasesInv, ReleasesTypeOK
    <3>3. QED BY Zenon, <1>1, <1>3, <2>1, <3>2, EmptyIsRepo DEF ReleasesInv, ReleasesTypeOK
  <2>4. AgentInv' BY <1>1, <2>1, <2>2 DEF ReleasesInv, ReleasesTypeOK, AgentInv, AtLeast, Versions
  <2>5. QED BY Zenon, <1>2, <1>6, <2>1, <2>3, <2>4 DEF ReleasesInv, ReleasesTypeOK
<1>10. QED BY <1>7, <1>8, <1>9

\* Every step keeps the invariant and is a safe step.
LEMMA ReleasesStep == ReleasesInv /\ [ReleasesNext]_releaseVars => ReleasesInv' /\ PublicationStep
<1> SUFFICES ASSUME ReleasesInv, [ReleasesNext]_releaseVars PROVE ReleasesInv' /\ PublicationStep OBVIOUS
<1>1. CASE ReleasesNext BY <1>1, SignerKeeps, ImportKeeps, CommitKeeps, AgentKeeps DEF ReleasesNext
<1>2. CASE UNCHANGED releaseVars
  <2>1. ReleasesTypeOK' BY <1>2 DEF ReleasesInv, ReleasesTypeOK, releaseVars
  <2>2. ImportInv' BY Zenon, <1>2 DEF ReleasesInv, ImportInv, NotReplayed, releaseVars
  <2>3. AgentInv' BY <1>2 DEF ReleasesInv, AgentInv, AtLeast, Versions, releaseVars
  <2>4. QED BY <1>2, <2>1, <2>2, <2>3, QuietPublication DEF ReleasesInv, releaseVars
<1>3. QED BY <1>1, <1>2

\* The invariant of Releases holds for every number of signings, imports and
\* mischances.
THEOREM ReleasesInvariant == ReleasesSpec => []ReleasesInv
BY ReleasesInitInv, ReleasesStep, PTL DEF ReleasesSpec

\* downloadVerifiedRelease keeps only bytes that a published release's targets
\* metadata, signed by the enrolled root, names.
THEOREM ReleasesInstalledIsSigned == ReleasesSpec => []InstalledIsSigned
<1>1. ReleasesInv => InstalledIsSigned BY DEF ReleasesInv, AgentInv, InstalledIsSigned
<1>2. QED BY ReleasesInvariant, <1>1, PTL

\* CommitPublication shows only whole releases, and neither the controller's
\* nor the agent's trust ever goes back.
THEOREM ReleasesPublicationSafe == ReleasesSpec => PublicationSafe
<1>1. ReleasesInv /\ [ReleasesNext]_releaseVars =>
          /\ [\A b \in catalogue' \ catalogue : b \in DOMAIN dirs' /\ dirs'[b] = "whole"]_releaseVars
          /\ [/\ AtLeast(trust'.versions, trust.versions)
              /\ AtLeast(agentTrust'.versions, agentTrust.versions)
              /\ trust.root # 0 => trust'.root = trust.root
              /\ agentTrust.root # 0 => agentTrust'.root = agentTrust.root]_releaseVars
  BY ReleasesStep DEF PublicationStep
<1>2. QED BY ReleasesInvariant, <1>1, PTL DEF ReleasesSpec, PublicationSafe, VisibleIsWhole, TrustAdvances

-----------------------------------------------------------------------------
(* Installation *)

Flavors == {"general", "spark"}
FileSets == [worker : Nat, host : Nat, flavor : Flavors]

\* The variables of Installation have these types.
InstallTypeOK ==
    /\ disk \in [worker : Nat, prefix : Nat, host : Nat, unit : Flavors \cup {"none"}, flavor : Flavors, managed : BOOLEAN]
    /\ point \in [kept : BOOLEAN, settled : BOOLEAN, files : FileSets, unit : Flavors \cup {"none"}, prefix : Nat, cand : FileSets]
    /\ service \in BOOLEAN /\ tangled \in BOOLEAN
    /\ op \in [what : {"none", "install", "rollback", "uninstall"}, pkg : FileSets,
               at : {"idle", "stop", "host", "prefix", "worker", "config", "unit", "start", "settle"}]
    /\ whole \subseteq [worker : Nat, host : Nat, unit : Flavors, flavor : Flavors]

\* The operation in progress: what it has written so far.
ProgressInv ==
    /\ op.at = "idle" <=> op.what = "none"
    /\ op.what = "install" =>
          /\ op.pkg.worker # 0
          /\ op.at \in {"prefix", "worker", "config", "unit"} /\ op.pkg.flavor = "general" => disk.host = op.pkg.host
          /\ op.at \in {"config", "unit"} => disk.worker = op.pkg.worker
          /\ op.at = "unit" => disk.flavor = op.pkg.flavor
          /\ op.at \notin {"stop", "start", "settle"} /\ whole # {} /\ ~Pending(point) => SameInstallation(disk, op.pkg)
          /\ op.at # "stop" /\ Pending(point) => point.cand = op.pkg
    /\ op.what = "rollback" =>
          /\ point.kept
          /\ op.at \in {"prefix", "host", "config", "unit", "start", "settle"} => disk.worker = point.files.worker
          /\ op.at \in {"config", "unit", "start", "settle"} /\ point.files.host # 0 => disk.host = point.files.host
          /\ op.at \in {"unit", "start", "settle"} => disk.flavor = point.files.flavor
          /\ op.at \in {"start", "settle"} => disk.unit = point.unit
    /\ op.what = "uninstall" => op.at \in {"stop", "unit"}
    /\ service => disk.unit # "none"
    /\ op.at \in {"host", "prefix", "worker", "config", "unit", "start"} => ~service
    /\ op.at \in {"start", "settle"} => disk.unit # "none"

\* A recovery point keeps an installation that could run.
PointInv ==
    /\ \A f \in whole : f.unit = f.flavor
    /\ disk.unit # "none" => whole # {}
    /\ whole # {} => disk.worker # 0
    /\ point.kept =>
          /\ whole # {}
          /\ point.unit # "none"
          /\ point.files.worker # 0
          /\ point.files.flavor = "general" => point.files.host # 0

\* The files are a complete installation and the unit is theirs, or removed.
DiskComplete ==
    /\ Runs([Files(disk) EXCEPT !.unit = disk.flavor]) \in whole
    /\ disk.unit \in {"none", disk.flavor}

\* While nothing is tangled the recovery point keeps a complete installation,
\* and the files are one except while an operation the point is for writes them.
WayInv ==
    whole # {} /\ ~tangled =>
        /\ point.kept => Runs(Snapshot(point)) \in whole
        /\ op.what = "install" /\ op.at \in {"start", "settle"} => DiskComplete
        /\ op.what # "rollback" /\ ~Pending(point) => DiskComplete
        /\ op.what = "rollback" /\ op.at = "stop" /\ ~Pending(point) => DiskComplete

InstallInv == InstallTypeOK /\ ProgressInv /\ PointInv /\ WayInv

\* What runs of four files: the supervisor only of a general installation.
LEMMA RunsOf ==
  \A w, h, u, f : Runs([worker |-> w, host |-> h, unit |-> u, flavor |-> f]) =
                     [worker |-> w, host |-> IF f = "spark" THEN 0 ELSE h, unit |-> u, flavor |-> f]
<1> TAKE w, h, u, f
<1>1. CASE f = "spark" BY <1>1 DEF Runs
<1>2. CASE f # "spark" BY <1>2 DEF Runs
<1>3. QED BY <1>1, <1>2

\* What runs from a disk, and from a recovery point.
LEMMA RunsFiles ==
  /\ \A d : Runs(Files(d)) =
        [worker |-> d.worker, host |-> IF d.flavor = "spark" THEN 0 ELSE d.host, unit |-> d.unit, flavor |-> d.flavor]
  /\ \A p : Runs(Snapshot(p)) =
        [worker |-> p.files.worker, host |-> IF p.files.flavor = "spark" THEN 0 ELSE p.files.host, unit |-> p.unit,
         flavor |-> p.files.flavor]
<1>1. ASSUME NEW d PROVE Runs(Files(d)) =
        [worker |-> d.worker, host |-> IF d.flavor = "spark" THEN 0 ELSE d.host, unit |-> d.unit, flavor |-> d.flavor]
  BY RunsOf DEF Files
<1>2. ASSUME NEW p PROVE Runs(Snapshot(p)) =
        [worker |-> p.files.worker, host |-> IF p.files.flavor = "spark" THEN 0 ELSE p.files.host, unit |-> p.unit,
         flavor |-> p.files.flavor]
  BY RunsOf DEF Snapshot
<1>3. QED BY Zenon, <1>1, <1>2

\* The files of a disk under another unit.
LEMMA FilesUnder ==
  \A d, u : [Files(d) EXCEPT !.unit = u] = [worker |-> d.worker, host |-> d.host, unit |-> u, flavor |-> d.flavor]
BY DEF Files

\* A complete disk is a good one.
LEMMA CompleteIsGood == InstallTypeOK /\ PointInv /\ DiskComplete => DiskIsGood
<1> SUFFICES ASSUME InstallTypeOK, PointInv, DiskComplete PROVE DiskIsGood OBVIOUS
<1> DEFINE f == Runs([Files(disk) EXCEPT !.unit = disk.flavor])
<1>1. f \in whole BY DEF DiskComplete
<1>2. f.unit = disk.flavor BY DEF Runs, Files
<1>3. f = Runs([Files(disk) EXCEPT !.unit = f.unit]) BY <1>2
<1>4. QED BY <1>1, <1>3 DEF DiskIsGood

\* The invariant says what WayBack says.
LEMMA WayInvImplies == InstallInv => WayBack
<1> SUFFICES ASSUME InstallInv, whole # {}, ~tangled PROVE DiskIsGood \/ (point.kept /\ Runs(Snapshot(point)) \in whole)
  BY DEF WayBack
<1>1. CASE point.kept BY <1>1 DEF InstallInv, WayInv
<1>2. CASE ~point.kept
  <2>1. op.what # "rollback" /\ ~Pending(point) BY <1>2 DEF InstallInv, ProgressInv, Pending
  <2>2. QED BY <2>1, CompleteIsGood DEF InstallInv, WayInv
<1>3. QED BY <1>1, <1>2

\* The three empty records of the installer have its types.
LEMMA EmptyInstall ==
  /\ NoPackage \in FileSets
  /\ NoPoint \in [kept : BOOLEAN, settled : BOOLEAN, files : FileSets, unit : Flavors \cup {"none"}, prefix : Nat, cand : FileSets]
  /\ NoPoint.kept = FALSE /\ NoPoint.settled = TRUE
  /\ NoOperation \in [what : {"none", "install", "rollback", "uninstall"}, pkg : FileSets,
               at : {"idle", "stop", "host", "prefix", "worker", "config", "unit", "start", "settle"}]
  /\ NoOperation.what = "none" /\ NoOperation.at = "idle"
<1>1. NoPackage \in FileSets BY DEF NoPackage, FileSets, Flavors
<1>2. QED BY <1>1 DEF NoPoint, NoOperation

\* Nothing is installed.
LEMMA InstallInitInv == InstallInit => InstallInv
<1> SUFFICES ASSUME InstallInit PROVE InstallInv OBVIOUS
<1>1. InstallTypeOK BY EmptyInstall DEF InstallInit, InstallTypeOK, Flavors
<1>2. ProgressInv BY EmptyInstall DEF InstallInit, ProgressInv
<1>3. PointInv BY EmptyInstall DEF InstallInit, PointInv
<1>4. WayInv BY DEF InstallInit, WayInv
<1>5. QED BY <1>1, <1>2, <1>3, <1>4 DEF InstallInv

\* An operation begins without touching a file.
LEMMA BeginKeeps == InstallInv /\ (BeginInstall \/ BeginRollback \/ BeginUninstall) => InstallInv'
<1> SUFFICES ASSUME InstallInv, BeginInstall \/ BeginRollback \/ BeginUninstall PROVE InstallInv' OBVIOUS
<1>1. PICK what \in {"install", "rollback", "uninstall"}, pkg \in FileSets :
         /\ op' = [what |-> what, pkg |-> pkg, at |-> "stop"] /\ op.at = "idle"
         /\ UNCHANGED <<disk, point, service, whole, tangled>>
         /\ what = "install" => pkg.worker # 0
         /\ what = "rollback" => point.kept
  <2>0. point.cand \in FileSets /\ NoPackage \in FileSets BY EmptyInstall DEF InstallInv, InstallTypeOK
  <2>1. \A pkg \in Packages : pkg \in FileSets /\ pkg.worker # 0 BY InstallConstants DEF FileSets, Flavors
  <2>2. CASE BeginInstall BY <2>1, <2>2 DEF BeginInstall, Begin
  <2>3. CASE BeginRollback BY Zenon, <2>0, <2>3 DEF BeginRollback, Begin
  <2>4. CASE BeginUninstall BY <2>0, <2>4 DEF BeginUninstall, Begin
  <2>5. QED BY <2>2, <2>3, <2>4
<1>2. InstallTypeOK' BY Zenon, <1>1 DEF InstallInv, InstallTypeOK
<1>3. ProgressInv' BY Zenon, <1>1 DEF InstallInv, ProgressInv
<1>4. PointInv' BY Zenon, <1>1 DEF InstallInv, PointInv
<1>5. WayInv' BY <1>1 DEF InstallInv, ProgressInv, WayInv, DiskComplete, Runs, Files, Snapshot, Pending
<1>6. QED BY <1>2, <1>3, <1>4, <1>5 DEF InstallInv

\* saveRecovery keeps a complete installation before the first file is written.
LEMMA StopKeeps == InstallInv /\ StopService => InstallInv'
<1> SUFFICES ASSUME InstallInv, StopService PROVE InstallInv' OBVIOUS
<1>0. UNCHANGED <<disk, operations, whole, tangled>> /\ op.at = "stop" /\ op.what # "none"
  BY DEF StopService, InstallInv, ProgressInv
<1>1. CASE op.what = "install" /\ Refused(disk, point, op.pkg)
  <2>1. op' = NoOperation /\ service' = (disk.unit # "none") /\ UNCHANGED point BY <1>1 DEF StopService
  <2>2. InstallTypeOK' BY <1>0, <2>1, EmptyInstall DEF InstallInv, InstallTypeOK
  <2>3. ProgressInv' BY <1>0, <2>1, EmptyInstall DEF ProgressInv
  <2>4. PointInv' BY Zenon, <1>0, <2>1 DEF InstallInv, PointInv
  <2>5. WayInv' BY <1>0, <1>1, <2>1, EmptyInstall DEF InstallInv, WayInv, DiskComplete, Runs, Files, Snapshot, Pending
  <2>6. QED BY <2>2, <2>3, <2>4, <2>5 DEF InstallInv
<1>2. CASE op.what \in {"rollback", "uninstall"}
  <2>1. UNCHANGED point /\ service' = FALSE /\ op' = [op EXCEPT !.at = IF op.what = "rollback" THEN "worker" ELSE "unit"]
    BY <1>2 DEF StopService, Continue
  <2>2. InstallTypeOK' BY <1>0, <1>2, <2>1 DEF InstallInv, InstallTypeOK
  <2>3. ProgressInv' BY <1>0, <1>2, <2>1 DEF InstallInv, InstallTypeOK, ProgressInv
  <2>4. PointInv' BY <1>0, <2>1 DEF InstallInv, PointInv
  <2>5. WayInv' BY <1>0, <1>2, <2>1 DEF InstallInv, InstallTypeOK, WayInv, DiskComplete, Runs, Files, Snapshot, Pending
  <2>6. QED BY <2>2, <2>3, <2>4, <2>5 DEF InstallInv
<1>3. CASE op.what = "install" /\ ~Refused(disk, point, op.pkg)
  <2>1. service' = FALSE /\ op' = [op EXCEPT !.at = "host"] /\ point' = Recovery(disk, point, op.pkg)
    BY <1>3 DEF StopService, Continue
  <2>2. op'.what = "install" /\ op'.at = "host" /\ op'.pkg = op.pkg BY <1>3, <2>1 DEF InstallInv, InstallTypeOK
  <2>3. CASE Pending(point)
    <3>1. UNCHANGED point /\ point.cand = op.pkg BY <1>3, <2>1, <2>3 DEF Recovery, Refused
    <3>2. InstallTypeOK' BY Zenon, <1>0, <2>1, <3>1 DEF InstallInv, InstallTypeOK
    <3>3. ProgressInv' BY <1>0, <1>3, <2>1, <2>2, <2>3, <3>1 DEF InstallInv, ProgressInv, Pending
    <3>4. PointInv' BY <1>0, <3>1 DEF InstallInv, PointInv
    <3>5. WayInv' BY <1>0, <2>2, <2>3, <3>1 DEF InstallInv, WayInv, Runs, Snapshot, Pending
    <3>6. QED BY <3>2, <3>3, <3>4, <3>5 DEF InstallInv
  <2>4. CASE ~Pending(point) /\ (disk.worker = 0 \/ SameInstallation(disk, op.pkg))
    <3>1. UNCHANGED point BY <2>1, <2>4 DEF Recovery
    <3>2. InstallTypeOK' BY Zenon, <1>0, <2>1, <3>1 DEF InstallInv, InstallTypeOK
    <3>3. ProgressInv' BY <1>0, <1>3, <2>1, <2>2, <2>4, <3>1 DEF InstallInv, ProgressInv, PointInv, Pending, SameInstallation
    <3>4. PointInv' BY <1>0, <3>1 DEF InstallInv, PointInv
    <3>5. WayInv' BY <1>0, <1>3, <2>2, <3>1 DEF InstallInv, WayInv, DiskComplete, Runs, Files, Snapshot, Pending
    <3>6. QED BY <3>2, <3>3, <3>4, <3>5 DEF InstallInv
  <2>5. CASE ~Pending(point) /\ disk.worker # 0 /\ ~SameInstallation(disk, op.pkg)
    <3>0. disk.unit # "none" /\ (disk.flavor = "general" => disk.host # 0) BY <1>3, <2>5 DEF Refused
    <3>1. /\ point'.kept /\ ~point'.settled /\ point'.unit = disk.unit /\ point'.cand = op.pkg
          /\ point'.files = [worker |-> disk.worker, host |-> IF disk.flavor = "general" THEN disk.host ELSE 0, flavor |-> disk.flavor]
      BY <2>1, <2>5 DEF Recovery
    <3>2. InstallTypeOK'
      <4>1. point' \in [kept : BOOLEAN, settled : BOOLEAN, files : FileSets, unit : Flavors \cup {"none"}, prefix : Nat, cand : FileSets]
        BY Zenon, <2>1, <2>5 DEF Recovery, InstallInv, InstallTypeOK, FileSets, Flavors
      <4>2. QED BY Zenon, <1>0, <2>1, <4>1 DEF InstallInv, InstallTypeOK
    <3>3. ProgressInv' BY <1>0, <1>3, <2>1, <2>2, <3>1 DEF InstallInv, ProgressInv, Pending
    <3>4. PointInv' BY <1>0, <2>5, <3>0, <3>1 DEF InstallInv, PointInv
    <3>5. ASSUME whole # {}, ~tangled PROVE Runs(Snapshot(point')) \in whole
      <4>1. DiskComplete BY <1>0, <1>3, <2>5, <3>5 DEF InstallInv, WayInv
      <4>2. disk.unit = disk.flavor BY <3>0, <4>1 DEF DiskComplete
      <4>3. Runs(Snapshot(point')) = Runs([Files(disk) EXCEPT !.unit = disk.flavor])
        <5>1. Snapshot(point') = [worker |-> disk.worker, host |-> IF disk.flavor = "general" THEN disk.host ELSE 0,
                                  unit |-> disk.flavor, flavor |-> disk.flavor]
          <6>1. /\ point'.files.worker = disk.worker /\ point'.files.flavor = disk.flavor
                /\ point'.files.host = IF disk.flavor = "general" THEN disk.host ELSE 0
            BY <3>1
          <6>2. QED BY Zenon, <3>1, <4>2, <6>1 DEF Snapshot
        <5>2. [Files(disk) EXCEPT !.unit = disk.flavor] =
                  [worker |-> disk.worker, host |-> disk.host, unit |-> disk.flavor, flavor |-> disk.flavor]
          BY DEF Files
        <5>3. disk.flavor \in {"general", "spark"} BY Zenon DEF InstallInv, InstallTypeOK, Flavors
        <5>4. QED BY <5>1, <5>2, <5>3, RunsOf
      <4>4. QED BY <4>1, <4>3 DEF DiskComplete
    <3>6. WayInv' BY Zenon, <1>0, <2>2, <3>1, <3>5 DEF WayInv, Pending, Runs, Snapshot
    <3>7. QED BY <3>2, <3>3, <3>4, <3>6 DEF InstallInv
  <2>6. QED BY <2>3, <2>4, <2>5
<1>4. QED BY <1>1, <1>2, <1>3 DEF StopService

\* installLinux writes over files the recovery point keeps, or over equal ones,
\* and ends with a complete installation.
LEMMA InstallFileKeeps == InstallInv /\ InstallFile => InstallInv'
<1> SUFFICES ASSUME InstallInv, InstallFile PROVE InstallInv' OBVIOUS
<1> USE DEF Continue
<1>0. /\ op.what = "install" /\ op.at \in {"host", "prefix", "worker", "config", "unit"} /\ op'.what = "install"
      /\ op'.pkg = op.pkg /\ op.pkg \in FileSets /\ op.pkg.worker # 0
      /\ UNCHANGED <<point, service, operations, tangled>>
      /\ op'.at = CASE op.at = "host" -> "prefix" [] op.at = "prefix" -> "worker" [] op.at = "worker" -> "config"
                    [] op.at = "config" -> "unit" [] op.at = "unit" -> "start"
  BY DEF InstallFile, InstallInv, InstallTypeOK, ProgressInv
<1>1. /\ disk'.worker = (IF op.at = "worker" THEN op.pkg.worker ELSE disk.worker)
      /\ disk'.host = (IF op.at = "host" /\ op.pkg.flavor = "general" THEN op.pkg.host ELSE disk.host)
      /\ disk'.flavor = (IF op.at = "config" THEN op.pkg.flavor ELSE disk.flavor)
      /\ disk'.unit = (IF op.at = "unit" THEN op.pkg.flavor ELSE disk.unit)
      /\ disk' \in [worker : Nat, prefix : Nat, host : Nat, unit : Flavors \cup {"none"}, flavor : Flavors, managed : BOOLEAN]
  <2>1. op.pkg.worker \in Nat /\ op.pkg.host \in Nat /\ op.pkg.flavor \in Flavors BY <1>0 DEF FileSets
  <2>2. disk \in [worker : Nat, prefix : Nat, host : Nat, unit : Flavors \cup {"none"}, flavor : Flavors, managed : BOOLEAN]
    BY DEF InstallInv, InstallTypeOK
  <2>3. QED BY Zenon, <1>0, <2>1, <2>2 DEF InstallFile
<1>2. InstallTypeOK'
  <2>1. op' \in [what : {"none", "install", "rollback", "uninstall"}, pkg : FileSets,
               at : {"idle", "stop", "host", "prefix", "worker", "config", "unit", "start", "settle"}]
    BY DEF InstallFile, InstallInv, InstallTypeOK
  <2>2. whole' \subseteq [worker : Nat, host : Nat, unit : Flavors, flavor : Flavors]
    <3>1. CASE op.at = "unit"
      <4>1. op.pkg.flavor \in Flavors BY Zenon, <1>0 DEF FileSets
      <4>2. Runs(Files(disk')) \in [worker : Nat, host : Nat, unit : Flavors, flavor : Flavors]
        BY Zenon, <1>1, <3>1, <4>1 DEF Runs, Files
      <4>3. QED BY Zenon, <3>1, <4>2 DEF InstallFile, InstallInv, InstallTypeOK
    <3>2. CASE op.at # "unit" BY Zenon, <3>2 DEF InstallFile, InstallInv, InstallTypeOK
    <3>3. QED BY Zenon, <3>1, <3>2
  <2>3. QED BY Zenon, <1>0, <1>1, <2>1, <2>2 DEF InstallInv, InstallTypeOK
<1>3. ProgressInv'
  <2>1. ~service' /\ (op'.at \in {"start", "settle"} => disk'.unit # "none")
    BY Zenon, <1>0, <1>1 DEF InstallInv, ProgressInv, FileSets, Flavors
  <2>2. op'.at \notin {"stop", "start", "settle"} /\ whole' # {} /\ ~Pending(point') => SameInstallation(disk', op'.pkg)
    <3>1. SUFFICES ASSUME op'.at \notin {"stop", "start", "settle"}, whole' # {}, ~Pending(point')
                   PROVE SameInstallation(disk', op'.pkg)
      OBVIOUS
    <3>2. op.at # "unit" /\ whole' = whole /\ ~Pending(point) BY Zenon, <1>0, <3>1 DEF InstallFile
    <3>3. SameInstallation(disk, op.pkg) BY Zenon, <1>0, <3>1, <3>2 DEF InstallInv, ProgressInv
    <3>4. QED BY Zenon, <1>0, <1>1, <3>2, <3>3 DEF SameInstallation
  <2>3. op'.at = "idle" <=> op'.what = "none" BY <1>0
  <2>4. /\ op'.at \in {"prefix", "worker", "config", "unit"} /\ op.pkg.flavor = "general" => disk'.host = op.pkg.host
        /\ op'.at \in {"config", "unit"} => disk'.worker = op.pkg.worker
        /\ op'.at = "unit" => disk'.flavor = op.pkg.flavor
    BY Zenon, <1>0, <1>1 DEF InstallInv, ProgressInv
  <2>5. Pending(point) => point.cand = op.pkg BY <1>0 DEF InstallInv, ProgressInv
  <2>6. QED BY Zenon, <1>0, <2>1, <2>2, <2>3, <2>4, <2>5 DEF ProgressInv
<1>4. PointInv'
  <2>1. op.at = "unit" => disk.flavor = op.pkg.flavor BY Zenon, <1>0 DEF InstallInv, ProgressInv
  <2>2. \A f \in whole' : f.unit = f.flavor
    <3>1. op.at = "unit" => Runs(Files(disk')).unit = Runs(Files(disk')).flavor BY Zenon, <1>1, <2>1 DEF Runs, Files
    <3>2. QED BY Zenon, <3>1 DEF InstallFile, InstallInv, PointInv
  <2>3. whole \subseteq whole' /\ (op.at = "unit" => whole' # {}) BY Zenon DEF InstallFile
  <2>4. disk'.unit # "none" => whole' # {} BY Zenon, <1>1, <2>3 DEF InstallInv, PointInv
  <2>5. whole' # {} => disk'.worker # 0
    <3>1. op.at = "unit" => disk.worker = op.pkg.worker BY Zenon, <1>0 DEF InstallInv, ProgressInv
    <3>2. op.at # "unit" => whole' = whole BY DEF InstallFile
    <3>3. QED BY Zenon, <1>0, <1>1, <3>1, <3>2 DEF InstallInv, PointInv
  <2>6. QED BY Zenon, <1>0, <2>2, <2>3, <2>4, <2>5 DEF InstallInv, PointInv
<1>5. WayInv'
  <2>1. CASE op.at = "unit"
    <3>1. whole' = whole \cup {Runs(Files(disk'))} BY Zenon, <2>1 DEF InstallFile
    <3>2. disk'.flavor = op.pkg.flavor /\ disk'.unit = disk'.flavor BY Zenon, <1>0, <1>1, <2>1 DEF InstallInv, ProgressInv
    <3>3. Runs([Files(disk') EXCEPT !.unit = disk'.flavor]) = Runs(Files(disk')) BY Zenon, <3>2, FilesUnder DEF Files
    <3>4. DiskComplete' BY Zenon, <3>1, <3>2, <3>3 DEF DiskComplete, Runs, Files
    <3>5. point.kept => whole # {} BY Zenon DEF InstallInv, PointInv
    <3>6. QED BY Zenon, <1>0, <3>1, <3>4, <3>5 DEF InstallInv, WayInv, Runs, Snapshot
  <2>2. CASE op.at # "unit"
    <3>1. whole' = whole /\ op'.at \notin {"start", "settle"} BY Zenon, <1>0, <2>2 DEF InstallFile
    <3>2. ASSUME whole # {}, ~tangled, ~Pending(point) PROVE DiskComplete'
      <4>1. DiskComplete BY <1>0, <3>2 DEF InstallInv, WayInv
      <4>2. SameInstallation(disk, op.pkg) BY Zenon, <1>0, <2>2, <3>2 DEF InstallInv, ProgressInv
      <4>3. Files(disk') = Files(disk) BY Zenon, <1>0, <1>1, <2>2, <4>2 DEF Files, SameInstallation
      <4>4. disk'.flavor = disk.flavor /\ disk'.unit = disk.unit BY <1>0, <1>1, <2>2, <4>2 DEF SameInstallation
      <4>5. QED BY Zenon, <3>1, <4>1, <4>3, <4>4 DEF DiskComplete, Runs, Files
    <3>3. QED BY Zenon, <1>0, <3>1, <3>2 DEF InstallInv, WayInv, Runs, Snapshot, Pending
  <2>3. QED BY Zenon, <2>1, <2>2
<1>6. QED BY <1>2, <1>3, <1>4, <1>5 DEF InstallInv

\* RollbackLinux leaves what the snapshot keeps.
LEMMA RestoreFileKeeps == InstallInv /\ RestoreFile => InstallInv'
<1> SUFFICES ASSUME InstallInv, RestoreFile PROVE InstallInv' OBVIOUS
<1> USE DEF Continue
<1>0. /\ op.what = "rollback" /\ op.at \in {"host", "prefix", "worker", "config", "unit"} /\ op'.what = "rollback"
      /\ op'.pkg = op.pkg /\ point.kept
      /\ UNCHANGED <<point, service, operations, whole, tangled>>
      /\ op'.at = CASE op.at = "worker" -> "prefix" [] op.at = "prefix" -> "host" [] op.at = "host" -> "config"
                    [] op.at = "config" -> "unit" [] op.at = "unit" -> "start"
  BY DEF RestoreFile, InstallInv, InstallTypeOK, ProgressInv
<1>1. /\ disk'.worker = (IF op.at = "worker" THEN point.files.worker ELSE disk.worker)
      /\ disk'.host = (IF op.at = "host" /\ point.files.host # 0 THEN point.files.host ELSE disk.host)
      /\ disk'.flavor = (IF op.at = "config" THEN point.files.flavor ELSE disk.flavor)
      /\ disk'.unit = (IF op.at = "unit" THEN point.unit ELSE disk.unit)
      /\ disk' \in [worker : Nat, prefix : Nat, host : Nat, unit : Flavors \cup {"none"}, flavor : Flavors, managed : BOOLEAN]
  BY <1>0 DEF RestoreFile, InstallInv, InstallTypeOK, FileSets
<1>2. InstallTypeOK'
  <2>1. op' \in [what : {"none", "install", "rollback", "uninstall"}, pkg : FileSets,
               at : {"idle", "stop", "host", "prefix", "worker", "config", "unit", "start", "settle"}]
    BY DEF RestoreFile, InstallInv, InstallTypeOK
  <2>2. QED BY <1>0, <1>1, <2>1 DEF InstallInv, InstallTypeOK
<1>3. ProgressInv'
  <2>1. ~service' /\ (op'.at \in {"start", "settle"} => disk'.unit # "none")
    BY <1>0, <1>1 DEF InstallInv, ProgressInv, PointInv
  <2>2. QED BY <1>0, <1>1, <2>1 DEF InstallInv, ProgressInv
<1>4. PointInv' BY <1>0, <1>1 DEF InstallInv, PointInv
<1>5. WayInv' BY <1>0 DEF InstallInv, WayInv, Runs, Snapshot
<1>6. QED BY <1>2, <1>3, <1>4, <1>5 DEF InstallInv

\* UninstallLinux removes the unit and leaves the files.
LEMMA RemoveUnitKeeps == InstallInv /\ RemoveUnit => InstallInv'
<1> SUFFICES ASSUME InstallInv, RemoveUnit PROVE InstallInv' OBVIOUS
<1>1. /\ op' = NoOperation /\ disk' = [disk EXCEPT !.unit = "none"] /\ op.what = "uninstall" /\ op.at = "unit"
      /\ UNCHANGED <<point, service, whole, tangled>>
  BY DEF RemoveUnit
<1>2. /\ disk'.worker = disk.worker /\ disk'.host = disk.host /\ disk'.flavor = disk.flavor /\ disk'.unit = "none"
      /\ disk' \in [worker : Nat, prefix : Nat, host : Nat, unit : Flavors \cup {"none"}, flavor : Flavors, managed : BOOLEAN]
  BY <1>1 DEF InstallInv, InstallTypeOK
<1>3. InstallTypeOK' BY <1>1, <1>2, EmptyInstall DEF InstallInv, InstallTypeOK
<1>4. ProgressInv' BY <1>1, <1>2, EmptyInstall DEF InstallInv, ProgressInv
<1>5. PointInv' BY <1>1, <1>2 DEF InstallInv, PointInv
<1>6. WayInv'
  <2>0. [Files(disk') EXCEPT !.unit = disk'.flavor] = [Files(disk) EXCEPT !.unit = disk.flavor]
    BY <1>2 DEF Files
  <2>1. DiskComplete => DiskComplete' BY Zenon, <1>1, <1>2, <2>0 DEF DiskComplete, Runs, Files
  <2>2. QED BY <1>1, <2>1, EmptyInstall DEF InstallInv, WayInv, Runs, Snapshot, Pending
<1>7. QED BY <1>3, <1>4, <1>5, <1>6 DEF InstallInv

\* The service starts on what was written.
LEMMA StartKeeps == InstallInv /\ StartService => InstallInv'
<1> SUFFICES ASSUME InstallInv, StartService PROVE InstallInv' OBVIOUS
<1>1. /\ op' = [op EXCEPT !.at = "settle"] /\ op.at = "start" /\ service' = TRUE
      /\ UNCHANGED <<disk, point, whole, tangled>>
  BY DEF StartService, Continue
<1>2. op'.at = "settle" /\ op'.what = op.what /\ op'.pkg = op.pkg BY <1>1 DEF InstallInv, InstallTypeOK
<1>3. disk.unit # "none" BY <1>1 DEF InstallInv, ProgressInv, PointInv
<1>4. InstallTypeOK' BY Zenon, <1>1 DEF InstallInv, InstallTypeOK
<1>5. ProgressInv' BY <1>1, <1>2, <1>3 DEF InstallInv, ProgressInv
<1>6. PointInv' BY Zenon, <1>1 DEF InstallInv, PointInv
<1>7. WayInv' BY <1>1, <1>2 DEF InstallInv, WayInv, DiskComplete, Runs, Files, Snapshot, Pending
<1>8. QED BY <1>4, <1>5, <1>6, <1>7 DEF InstallInv

\* A finished operation leaves a complete installation; only a rollback that
\* restored one ends a tangle.
LEMMA SettleKeeps == InstallInv /\ SettleRecovery => InstallInv'
<1> SUFFICES ASSUME InstallInv, SettleRecovery PROVE InstallInv' OBVIOUS
<1>1. /\ op' = NoOperation /\ op.at = "settle" /\ point' = Settled(point, op.pkg)
      /\ tangled' = (tangled /\ ~(op.what = "rollback" /\ Runs(Files(disk)) \in whole))
      /\ UNCHANGED <<disk, service, whole>>
  BY DEF SettleRecovery
<1>2. /\ point'.kept = point.kept /\ point'.files = point.files /\ point'.unit = point.unit
      /\ Pending(point') => Pending(point)
      /\ point' \in [kept : BOOLEAN, settled : BOOLEAN, files : FileSets, unit : Flavors \cup {"none"}, prefix : Nat, cand : FileSets]
  BY Zenon, <1>1 DEF Settled, Pending, InstallInv, InstallTypeOK
<1>3. op.what \in {"install", "rollback"} BY <1>1 DEF InstallInv, InstallTypeOK, ProgressInv
<1>4. InstallTypeOK' BY <1>1, <1>2, EmptyInstall DEF InstallInv, InstallTypeOK
<1>5. ProgressInv' BY Zenon, <1>1, EmptyInstall DEF InstallInv, ProgressInv
<1>6. PointInv' BY Zenon, <1>1, <1>2 DEF InstallInv, PointInv
<1>7. op.what = "rollback" => Runs(Files(disk)) = Runs(Snapshot(point))
  <2> SUFFICES ASSUME op.what = "rollback" PROVE Runs(Files(disk)) = Runs(Snapshot(point)) OBVIOUS
  <2>1. /\ disk.worker = point.files.worker /\ disk.flavor = point.files.flavor /\ disk.unit = point.unit
        /\ point.files.host # 0 => disk.host = point.files.host
        /\ point.files.flavor = "general" => point.files.host # 0
        /\ disk.flavor \in {"general", "spark"}
    BY Zenon, <1>1 DEF InstallInv, ProgressInv, PointInv, InstallTypeOK, Flavors
  <2>2. CASE disk.flavor = "spark" BY Zenon, <2>1, <2>2, RunsFiles
  <2>3. CASE disk.flavor = "general"
    <3>1. disk.host = point.files.host /\ disk.flavor # "spark" BY <2>1, <2>3
    <3>2. QED BY Zenon, <2>1, <3>1, RunsFiles
  <2>4. QED BY Zenon, <2>1, <2>2, <2>3
<1>8. WayInv'
  <2>1. SUFFICES ASSUME whole # {}, ~tangled'
                 PROVE (point.kept => Runs(Snapshot(point)) \in whole) /\ DiskComplete
    BY Zenon, <1>1, <1>2, EmptyInstall DEF WayInv, Runs, Snapshot, DiskComplete, Files
  <2>2. CASE op.what = "install"
    BY Zenon, <1>1, <2>1, <2>2 DEF InstallInv, WayInv
  <2>3. CASE op.what = "rollback"
    <3>1. Runs(Snapshot(point)) \in whole BY Zenon, <1>1, <1>7, <2>1, <2>3 DEF InstallInv, ProgressInv, WayInv
    <3>2. Runs(Files(disk)) \in whole BY <1>7, <2>3, <3>1
    <3>3. Runs(Files(disk)).unit = disk.unit /\ Runs(Files(disk)).flavor = disk.flavor BY Zenon DEF Files, Runs
    <3>4. disk.unit = disk.flavor BY Zenon, <3>2, <3>3 DEF InstallInv, PointInv
    <3>5. [Files(disk) EXCEPT !.unit = disk.flavor] = Files(disk) BY <3>4, FilesUnder DEF Files
    <3>6. QED BY Zenon, <3>1, <3>2, <3>4, <3>5 DEF DiskComplete
  <2>4. QED BY Zenon, <1>3, <2>2, <2>3
<1>9. QED BY <1>4, <1>5, <1>6, <1>8 DEF InstallInv

\* An interrupted operation leaves its recovery point, or a tangle.
LEMMA InterruptedKeeps == InstallInv /\ Interrupted => InstallInv'
<1> SUFFICES ASSUME InstallInv, Interrupted PROVE InstallInv' OBVIOUS
<1>1. /\ op' = NoOperation /\ op.at \notin {"idle", "stop"} /\ service' \in {FALSE, disk.unit # "none"}
      /\ tangled' = (tangled \/ (op.what = "rollback" /\ point.settled))
      /\ UNCHANGED <<disk, point, whole>>
  BY Zenon DEF Interrupted
<1>2. InstallTypeOK' BY Zenon, <1>1, EmptyInstall DEF InstallInv, InstallTypeOK
<1>3. ProgressInv' BY Zenon, <1>1, EmptyInstall DEF ProgressInv
<1>4. PointInv' BY <1>1 DEF InstallInv, PointInv
<1>5. ASSUME whole # {}, ~tangled' PROVE (point.kept => Runs(Snapshot(point)) \in whole) /\ (~Pending(point) => DiskComplete)
  <2>1. ~tangled /\ (op.what = "rollback" => Pending(point))
    BY Zenon, <1>1, <1>5 DEF InstallInv, InstallTypeOK, ProgressInv, Pending
  <2>2. QED BY Zenon, <1>5, <2>1 DEF InstallInv, WayInv
<1>6. WayInv' BY <1>1, <1>5, EmptyInstall DEF WayInv, Runs, Files, Snapshot, Pending, DiskComplete
<1>7. QED BY <1>2, <1>3, <1>4, <1>6 DEF InstallInv

\* A signed update of a complete installation is complete.
LEMMA SignedUpdateKeeps == InstallInv /\ SignedUpdate => InstallInv'
<1> SUFFICES ASSUME InstallInv, SignedUpdate PROVE InstallInv' OBVIOUS
<1>1. PICK w \in SignedWorkers :
          /\ disk' = [disk EXCEPT !.worker = w]
          /\ whole' = IF Runs(Files(disk)) \in whole THEN whole \cup {Runs(Files(disk'))} ELSE whole
  BY Zenon DEF SignedUpdate
<1>2. op.at = "idle" /\ service /\ disk.flavor = "general" /\ UNCHANGED <<point, service, op, tangled>>
  BY DEF SignedUpdate
<1>3. /\ w \in Nat /\ w # 0
      /\ disk'.worker = w /\ disk'.host = disk.host /\ disk'.unit = disk.unit /\ disk'.flavor = disk.flavor
      /\ disk' \in [worker : Nat, prefix : Nat, host : Nat, unit : Flavors \cup {"none"}, flavor : Flavors, managed : BOOLEAN]
  BY Zenon, <1>1, InstallConstants DEF InstallInv, InstallTypeOK
<1>4. op.what = "none" /\ disk.unit # "none" /\ whole # {} BY Zenon, <1>2 DEF InstallInv, ProgressInv, PointInv
<1>5. Runs(Files(disk')) = [worker |-> w, host |-> disk.host, unit |-> disk.unit, flavor |-> disk.flavor]
  <2>1. disk'.flavor # "spark" BY <1>2, <1>3
  <2>2. QED BY Zenon, <1>3, <2>1, RunsFiles
<1>6. Runs(Files(disk)) = [worker |-> disk.worker, host |-> disk.host, unit |-> disk.unit, flavor |-> disk.flavor]
  <2>1. disk.flavor # "spark" BY <1>2
  <2>2. QED BY Zenon, <2>1, RunsFiles
<1>7. InstallTypeOK'
  <2>1. whole' \subseteq [worker : Nat, host : Nat, unit : Flavors, flavor : Flavors]
    <3>1. Runs(Files(disk')) \in [worker : Nat, host : Nat, unit : Flavors, flavor : Flavors]
      BY <1>3, <1>4, <1>5 DEF InstallInv, InstallTypeOK
    <3>2. QED BY Zenon, <1>1, <3>1 DEF InstallInv, InstallTypeOK
  <2>2. QED BY <1>2, <1>3, <2>1 DEF InstallInv, InstallTypeOK
<1>8. ProgressInv' BY Zenon, <1>2, <1>3, <1>4 DEF InstallInv, ProgressInv
<1>9. PointInv'
  <2>1. \A f \in whole' : f.unit = f.flavor BY <1>1, <1>5, <1>6 DEF InstallInv, PointInv
  <2>2. QED BY Zenon, <1>1, <1>2, <1>3, <1>4, <2>1 DEF InstallInv, PointInv
<1>10. WayInv'
  <2>1. whole \subseteq whole' BY Zenon, <1>1
  <2>2. ASSUME ~tangled, ~Pending(point) PROVE DiskComplete'
    <3>1. DiskComplete BY <1>4, <2>2 DEF InstallInv, WayInv
    <3>2. disk.unit = disk.flavor BY <1>4, <3>1 DEF DiskComplete
    <3>3. Runs(Files(disk)) \in whole BY <3>1, <3>2, FilesUnder DEF DiskComplete, Files
    <3>4. Runs(Files(disk')) \in whole' BY Zenon, <1>1, <3>3
    <3>5. [Files(disk') EXCEPT !.unit = disk'.flavor] = Files(disk') BY <1>3, <3>2, FilesUnder DEF Files
    <3>6. QED BY Zenon, <1>3, <3>2, <3>4, <3>5 DEF DiskComplete, Runs, Files
  <2>3. QED BY <1>2, <1>4, <2>1, <2>2 DEF InstallInv, WayInv, Runs, Snapshot, Pending
<1>11. QED BY <1>7, <1>8, <1>9, <1>10 DEF InstallInv

\* A step that changes nothing keeps the invariant.
LEMMA InstallStutter == InstallInv /\ UNCHANGED installVars => InstallInv'
BY DEF InstallInv, InstallTypeOK, ProgressInv, PointInv, WayInv, DiskComplete, Runs, Files, Snapshot, Pending,
       SameInstallation, installVars

\* The installer's invariant holds for all packages and any number of
\* operations, interruptions and signed updates.
THEOREM InstallInvariant == InstallSpec => []InstallInv
<1>1. InstallInv /\ [InstallNext]_installVars => InstallInv'
  BY BeginKeeps, StopKeeps, InstallFileKeeps, RestoreFileKeeps, RemoveUnitKeeps, StartKeeps, SettleKeeps,
     InterruptedKeeps, SignedUpdateKeeps, InstallStutter DEF InstallNext
<1>2. QED BY InstallInitInv, <1>1, PTL DEF InstallSpec

\* saveRecovery and RollbackLinux: wherever an operation stops, the files are
\* one complete installation or the recovery point holds one.
THEOREM InstallWayBack == InstallSpec => []WayBack
BY InstallInvariant, WayInvImplies, PTL

-----------------------------------------------------------------------------
(* Migration *)

\* The intent file names both endpoints of the trial, and the previous one
\* confirmed; a write of the identity file is reached only from the endpoint
\* it goes away from, and the intent goes only when the file names an endpoint
\* that confirmed.  All of it holds until a save fails after replacing the file.
GuardInv ==
    /\ HomeUrl \in vouched
    /\ "to" \in DOMAIN switch /\ "prev" \in DOMAIN switch
    /\ ~torn =>
          /\ here = file
          /\ switch.prev \in vouched
          /\ file.url \in vouched \cup {switch.to}
          /\ step \in {"switch", "fell", "forget"} => file.url = switch.prev
          /\ step \in {"confirmed", "settled"} => file.url \in vouched

\* The invariant says what TrialGuarded says.
LEMMA GuardImplies == GuardInv => TrialGuarded
BY DEF GuardInv, TrialGuarded, NoSwitch

\* No trial: both endpoints of the empty intent are the home endpoint.
LEMMA NoTrial ==
  /\ NoSwitch.to = HomeUrl /\ NoSwitch.prev = HomeUrl
  /\ "to" \in DOMAIN NoSwitch /\ "prev" \in DOMAIN NoSwitch
BY Zenon DEF NoSwitch

\* The owner's orders, time and the network touch neither file.
LEMMA OrdersKeep ==
  GuardInv /\ (PrepareRebind \/ ArmRebind \/ ActivateRebind \/ RetireRebind \/ ExpirePlan \/ Reconnect \/ StopAgent
               \/ Report \/ Unreachable \/ Acks \/ EndTick \/ UNCHANGED migrationVars) => GuardInv'
<1> SUFFICES ASSUME GuardInv,
                    PrepareRebind \/ ArmRebind \/ ActivateRebind \/ RetireRebind \/ ExpirePlan \/ Reconnect \/ StopAgent
                    \/ Report \/ Unreachable \/ Acks \/ EndTick \/ UNCHANGED migrationVars
             PROVE  GuardInv'
  OBVIOUS
<1>1. UNCHANGED <<file, here, switch, vouched, torn>>
  BY Zenon DEF PrepareRebind, ArmRebind, ActivateRebind, RetireRebind, Queue, ExpirePlan, Reconnect, StopAgent, Report,
         Unreachable, Acks, EndTick, history, migrationVars
<1>2. step' \in {step, "down", "contact", "idle", "jobs"}
  BY Zenon DEF PrepareRebind, ArmRebind, ActivateRebind, RetireRebind, Queue, ExpirePlan, Reconnect, StopAgent, Report,
         Unreachable, Acks, EndTick, migrationVars
<1>3. QED BY Zenon, <1>1, <1>2 DEF GuardInv

\* A trial begins from an endpoint that confirmed.
LEMMA BeginTrialKeeps == GuardInv /\ (WatchPrimary \/ HandleRebind) => GuardInv'
<1> SUFFICES ASSUME GuardInv, WatchPrimary \/ HandleRebind PROVE GuardInv' OBVIOUS
<1>1. UNCHANGED <<file, here, vouched, torn>> BY Zenon DEF WatchPrimary, HandleRebind, history
<1>2. \/ switch' = switch /\ step' \in {step, "report"} /\ step \in {"idle", "jobs"}
      \/ switch = NoSwitch /\ \E p, g, i : switch' = Intent(p, g, i)
  BY Zenon DEF WatchPrimary, HandleRebind, MayBegin
<1>3. CASE switch' = switch /\ step' \in {step, "report"} /\ step \in {"idle", "jobs"} BY Zenon, <1>1, <1>3 DEF GuardInv
<1>4. CASE switch = NoSwitch /\ \E p, g, i : switch' = Intent(p, g, i)
  <2>0. PICK p, g, i : switch' = Intent(p, g, i) BY Zenon, <1>4
  <2>1. switch'.prev = here.url /\ "to" \in DOMAIN switch' /\ "prev" \in DOMAIN switch' BY <2>0 DEF Intent
  <2>2. ~torn => here = file /\ file.url \in vouched BY Zenon, <1>4, NoTrial DEF GuardInv
  <2>3. QED BY Zenon, <1>1, <2>1, <2>2 DEF GuardInv
<1>5. QED BY <1>2, <1>3, <1>4

\* A write of the identity file succeeds, fails before or fails after.
LEMMA SwitchToFacts ==
  \A url, gen : \A ok \in BOOLEAN : SwitchTo(url, gen, ok) =>
      /\ ok => file'.url = url /\ here' = file' /\ torn' = torn
      /\ ~ok => here' = here /\ (torn' = (torn \/ file' # file))
BY DEF SwitchTo

\* The switch to the candidate and the way back.
LEMMA SwitchKeeps == GuardInv /\ (FallBack \/ Switched) => GuardInv'
<1> SUFFICES ASSUME GuardInv, FallBack \/ Switched PROVE GuardInv' OBVIOUS
<1>1. UNCHANGED vouched BY DEF FallBack, Switched
<1>2. CASE FallBack
  <2>1. PICK ok \in BOOLEAN : SwitchTo(switch.prev, switch.gen, ok) /\ step' = IF ok THEN "fell" ELSE "report"
    BY Zenon, <1>2 DEF FallBack
  <2>2. UNCHANGED switch BY Zenon, <1>2 DEF FallBack
  <2>3. CASE ok BY Zenon, <1>1, <2>1, <2>2, <2>3, SwitchToFacts DEF GuardInv
  <2>4. CASE ~ok BY Zenon, <1>1, <2>1, <2>2, <2>4, SwitchToFacts DEF GuardInv
  <2>5. QED BY Zenon, <2>3, <2>4
<1>3. CASE Switched
  <2>1. PICK ok \in BOOLEAN : SwitchTo(switch.to, switch.gen, ok) /\ switch' = IF ok THEN switch ELSE NoSwitch
    BY <1>3 DEF Switched
  <2>2. step = "switch" /\ step' \in {"report", "jobs"} BY Zenon, <1>3 DEF Switched
  <2>3. CASE ok BY Zenon, <1>1, <2>1, <2>2, <2>3, SwitchToFacts DEF GuardInv
  <2>4. CASE ~ok BY Zenon, <1>1, <2>1, <2>2, <2>4, SwitchToFacts, NoTrial DEF GuardInv
  <2>5. QED BY <2>3, <2>4
<1>4. QED BY Zenon, <1>2, <1>3

\* The intent goes when the file names an endpoint that confirmed.
LEMMA ForgetKeeps == GuardInv /\ (KeepTrial \/ FellBack \/ ConfirmCandidate) => GuardInv'
<1> SUFFICES ASSUME GuardInv, KeepTrial \/ FellBack \/ ConfirmCandidate PROVE GuardInv' OBVIOUS
<1>1. UNCHANGED <<file, here, vouched, torn>> BY DEF KeepTrial, FellBack, ConfirmCandidate, history
<1>2. CASE KeepTrial BY Zenon, <1>1, <1>2, NoTrial DEF KeepTrial, Unpublished, GuardInv
<1>3. CASE FellBack BY Zenon, <1>1, <1>3, NoTrial DEF FellBack, GuardInv
<1>4. CASE ConfirmCandidate BY <1>1, <1>4, NoTrial DEF ConfirmCandidate, GuardInv
<1>5. QED BY <1>2, <1>3, <1>4

\* An exchange counts for the candidate, and the last one confirms it.
LEMMA ContactKeeps == GuardInv /\ (Contact \/ Elapse) => GuardInv'
<1> SUFFICES ASSUME GuardInv, Contact \/ Elapse PROVE GuardInv' OBVIOUS
<1>1. UNCHANGED <<file, here, torn>> /\ vouched \subseteq vouched' BY Zenon DEF Contact, Elapse, history
<1>2. /\ switch'.to = switch.to /\ switch'.prev = switch.prev
      /\ "to" \in DOMAIN switch' /\ "prev" \in DOMAIN switch'
  BY DEF Contact, Elapse, GuardInv
<1>3. \/ step' = "acks"
      \/ step' = step /\ step \in {"idle", "down"}
      \/ step' = "confirmed" /\ here.url = switch.to /\ switch.to \in vouched'
  <2>1. CASE Contact BY <2>1 DEF Contact
  <2>2. CASE Elapse BY <2>2 DEF Elapse
  <2>3. QED BY Zenon, <2>1, <2>2
<1>4. QED BY <1>1, <1>2, <1>3 DEF GuardInv

\* A restart reads the file.
LEMMA OpenKeeps == GuardInv /\ OpenAgent => GuardInv'
<1> SUFFICES ASSUME GuardInv, OpenAgent PROVE GuardInv' OBVIOUS
<1>1. step' = "idle" /\ here' = file /\ UNCHANGED <<file, switch, vouched, torn>> BY Zenon DEF OpenAgent, history
<1>2. QED BY Zenon, <1>1 DEF GuardInv

\* maintainMigration, beginMigration: the identity file never names an endpoint
\* on trial without a way back, for any plans, orders, crashes and ages.
THEOREM MigrationTrialGuarded == MigrationSpec => []TrialGuarded
<1>1. MigrationInit => GuardInv
  <2> SUFFICES ASSUME MigrationInit PROVE GuardInv OBVIOUS
  <2>1. file = [url |-> HomeUrl, gen |-> 1] /\ here = file /\ switch = NoSwitch /\ vouched = {HomeUrl} /\ step = "idle"
    BY Zenon DEF MigrationInit
  <2>2. file.url = HomeUrl BY <2>1
  <2>3. QED BY Zenon, <2>1, <2>2, NoTrial DEF GuardInv
<1>2. GuardInv /\ [MigrationNext]_migrationVars => GuardInv'
  BY OrdersKeep, BeginTrialKeeps, SwitchKeeps, ForgetKeeps, ContactKeeps, OpenKeeps DEF MigrationNext
<1>3. QED BY <1>1, <1>2, GuardImplies, PTL DEF MigrationSpec
=============================================================================
