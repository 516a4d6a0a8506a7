------------------------------ MODULE Releases ------------------------------
(***************************************************************************)
(* A release on its way from the signing repository to an agent.           *)
(*                                                                         *)
(* SignRepository writes targets, snapshot and timestamp metadata one file *)
(* after the other and PackBundle archives the repository as it finds it.  *)
(* The controller verifies a bundle against the root it enrolled once,     *)
(* stages it under its content digest, renames it into place and commits   *)
(* catalogue, trust and high-water versions in one transaction             *)
(* (PreparePublication, CommitPublication).  An agent fetches the metadata *)
(* and the artifact of a pinned release and verifies them against its own  *)
(* root and its own high-water mark (downloadVerifiedRelease).             *)
(*                                                                         *)
(* A signature is the key set that made it, content is a number, and a     *)
(* bundle is the record of the repository's files; its digest is itself.   *)
(***************************************************************************)
EXTENDS Naturals

CONSTANTS
    MaxSigns,       \* bound: times the repository is signed
    MaxImports,     \* bound: publications committed, the same one again included
    MaxMischance    \* bound: crashes, lost keys, damaged or expired releases

VARIABLES
    keys,       \* the signing keys on disk
    repo,       \* the files of the signing repository
    signing,    \* the step SignRepository has reached
    signs,      \* times it was started
    bundles,    \* archives PackBundle made
    trust,      \* release_trust: revision, root and high-water versions
    catalogue,  \* releases with a row in release_publications
    dirs,       \* release directories: release -> "whole" or "damaged"
    import,     \* the import being executed, under controlMu
    agentTrust, \* the agent's versions.json and its step
    incoming,   \* updates/incoming.bin: its content and the release it is of
    stale,      \* releases whose metadata expired
    mischance

releaseVars == <<keys, repo, signing, signs, bundles, trust, catalogue, dirs, import, agentTrust, incoming, stale, mischance>>
signerVars == <<keys, repo, signing, signs, bundles>>
serverVars == <<trust, catalogue, dirs, import>>

NoVersions == [ts |-> 0, sn |-> 0, tg |-> 0]
EmptyRepo == [root |-> 0, body |-> 0, tg |-> [v |-> 0, body |-> 0, by |-> 0],
              sn |-> [v |-> 0, tg |-> 0, by |-> 0], ts |-> [v |-> 0, sn |-> 0, by |-> 0]]
NoImport == [at |-> "idle", bundle |-> EmptyRepo, rev |-> 0, trusted |-> 0]

Mischance == mischance < MaxMischance /\ mischance' = mischance + 1

-----------------------------------------------------------------------------
(* The signing side. *)

\* SignRepository: artifacts, root.json when there is none, then targets,
\* snapshot and timestamp, each one version above the file it replaces.
SignStep ==
    /\ \/ signing = "idle" /\ signs < MaxSigns
          /\ signs' = signs + 1
          /\ repo' = [repo EXCEPT !.body = signs + 1, !.root = IF @ = 0 THEN keys ELSE @]
          /\ signing' = "targets"
       \/ signing = "targets"
          /\ repo' = [repo EXCEPT !.tg = [v |-> @.v + 1, body |-> repo.body, by |-> keys]]
          /\ signing' = "snapshot" /\ UNCHANGED signs
       \/ signing = "snapshot"
          /\ repo' = [repo EXCEPT !.sn = [v |-> @.v + 1, tg |-> repo.tg.v, by |-> keys]]
          /\ signing' = "timestamp" /\ UNCHANGED signs
       \/ signing = "timestamp"
          /\ repo' = [repo EXCEPT !.ts = [v |-> @.v + 1, sn |-> repo.sn.v, by |-> keys]]
          /\ signing' = "idle" /\ UNCHANGED signs
    /\ UNCHANGED <<keys, bundles, serverVars, agentTrust, incoming, stale, mischance>>

\* A signer that stops half way leaves the repository as it is; keys that
\* are missing are generated anew (loadOrGen), root.json stays.
SignerTrouble ==
    /\ Mischance
    /\ \/ signing # "idle" /\ signing' = "idle" /\ UNCHANGED keys
       \/ keys' = keys + 1 /\ signing = "idle" /\ UNCHANGED signing
    /\ UNCHANGED <<repo, signs, bundles, serverVars, agentTrust, incoming, stale>>

\* PackBundle.
Pack ==
    /\ signing = "idle"
    /\ repo.ts.v > 0
    /\ repo \notin bundles
    /\ bundles' = bundles \cup {repo}
    /\ UNCHANGED <<keys, repo, signing, signs, serverVars, agentTrust, incoming, stale, mischance>>

-----------------------------------------------------------------------------
(* Verification, on the controller and on the agent. *)

\* rejectReplay, for the three roles.
NotReplayed(b, seen) == b.ts.v >= seen.ts /\ b.sn.v >= seen.sn /\ b.tg.v >= seen.tg

\* Mutant: versions are not compared with the high-water mark.
VerifyRepoAnyVersion(root, b, seen) ==
    /\ b.ts.by = root /\ b.sn.by = root /\ b.tg.by = root
    /\ b \notin stale
    /\ b.ts.sn = b.sn.v /\ b.sn.tg = b.tg.v

\* VerifyRepo: signatures, expiry, versions, and the links between the files.
VerifyRepo(root, b, seen) ==
    /\ b.ts.by = root /\ b.sn.by = root /\ b.tg.by = root
    /\ b \notin stale
    /\ NotReplayed(b, seen)
    /\ b.ts.sn = b.sn.v /\ b.sn.tg = b.tg.v

Versions(b) == [ts |-> b.ts.v, sn |-> b.sn.v, tg |-> b.tg.v]

-----------------------------------------------------------------------------
(* The controller. *)

\* ReleaseTrust: the committed trust is read, with its revision.
ReleaseTrust == [rev |-> trust.rev, root |-> trust.root]

\* importImmutableRelease.
BeginImport ==
    /\ import.at = "idle"
    /\ trust.rev < MaxImports
    /\ \E b \in bundles : import' = [at |-> "verify", bundle |-> b, rev |-> ReleaseTrust.rev, trusted |-> ReleaseTrust.root]
    /\ UNCHANGED <<signerVars, trust, catalogue, dirs, agentTrust, incoming, stale, mischance>>

\* extractBundle, collectArtifacts: the unpacked artifacts are the signed ones.
Complete(b) == b.tg.body = b.body

\* PreparePublication up to the inventory: the first bundle may enroll its
\* root when the owner says so, a later one must have the enrolled root's keys.
VerifyImport ==
    /\ import.at = "verify"
    /\ LET b == import.bundle
           root == IF import.trusted = 0 THEN b.root ELSE import.trusted
           sound == b.root = root /\ VerifyRepo(root, b, trust.versions) /\ Complete(b)
       IN  import' = IF sound THEN [import EXCEPT !.at = "stage", !.trusted = root] ELSE NoImport
    /\ UNCHANGED <<signerVars, trust, catalogue, dirs, agentTrust, incoming, stale, mischance>>

\* Mutant: an existing directory is taken as it is.
StageUnverified ==
    /\ import.at = "stage"
    /\ dirs' = IF import.bundle \in DOMAIN dirs THEN dirs
               ELSE [b \in DOMAIN dirs \cup {import.bundle} |-> IF b \in DOMAIN dirs THEN dirs[b] ELSE "whole"]
    /\ import' = [import EXCEPT !.at = "commit"]
    /\ UNCHANGED <<signerVars, trust, catalogue, agentTrust, incoming, stale, mischance>>

\* PreparePublication from the directory on: an existing one is verified
\* (VerifyPublication), otherwise every file is copied to a staging directory
\* that is renamed into place when it is complete.
Stage ==
    /\ import.at = "stage"
    /\ IF import.bundle \in DOMAIN dirs
       THEN /\ import' = IF dirs[import.bundle] = "whole" THEN [import EXCEPT !.at = "commit"] ELSE NoImport
            /\ UNCHANGED dirs
       ELSE /\ dirs' = [b \in DOMAIN dirs \cup {import.bundle} |-> IF b \in DOMAIN dirs THEN dirs[b] ELSE "whole"]
            /\ import' = [import EXCEPT !.at = "commit"]
    /\ UNCHANGED <<signerVars, trust, catalogue, agentTrust, incoming, stale, mischance>>

\* CommitPublication: visibility, trust and versions in one transaction.
CommitPublication ==
    /\ import.at = "commit"
    /\ import' = NoImport
    /\ IF trust.rev = import.rev
       THEN /\ catalogue' = catalogue \cup {import.bundle}
            /\ trust' = [rev |-> trust.rev + 1, root |-> import.trusted, versions |-> Versions(import.bundle)]
       ELSE UNCHANGED <<catalogue, trust>>
    /\ UNCHANGED <<signerVars, dirs, agentTrust, incoming, stale, mischance>>

\* The process stops; or a release directory loses bytes, between imports.
ControllerTrouble ==
    /\ Mischance
    /\ \/ import.at # "idle" /\ import' = NoImport /\ UNCHANGED dirs
       \/ /\ import.at = "idle"
          /\ \E b \in DOMAIN dirs : dirs[b] = "whole" /\ dirs' = [dirs EXCEPT ![b] = "damaged"]
          /\ UNCHANGED import
    /\ UNCHANGED <<signerVars, trust, catalogue, agentTrust, incoming, stale>>

\* Metadata runs out.
Outdate ==
    /\ Mischance
    /\ \E b \in bundles \ stale : stale' = stale \cup {b}
    /\ UNCHANGED <<signerVars, serverVars, agentTrust, incoming>>

-----------------------------------------------------------------------------
(* The agent. *)

\* handleEnroll, updateRoot: registration hands out the committed root.
EnrollRoot ==
    /\ agentTrust.root = 0
    /\ trust.root # 0
    /\ agentTrust' = [agentTrust EXCEPT !.root = trust.root]
    /\ UNCHANGED <<signerVars, serverVars, incoming, stale, mischance>>

\* downloadVerifiedRelease, the metadata of a pinned release (servePublication
\* answers for a catalogued one): verified, then the versions are saved.
FetchMetadata ==
    /\ agentTrust.at = "idle"
    /\ agentTrust.root # 0
    /\ \E b \in catalogue :
           /\ VerifyRepo(agentTrust.root, b, agentTrust.versions)
           /\ agentTrust' = [agentTrust EXCEPT !.at = "artifact", !.of = b, !.versions = Versions(b)]
    /\ UNCHANGED <<signerVars, serverVars, incoming, stale, mischance>>

\* servePublication: the bytes the release's directory holds now, which are
\* other ones, or none, when it is damaged.
Downloaded(b) == IF dirs[b] = "whole" THEN b.body ELSE 0

\* Mutant: the artifact is stored without VerifyTarget.
FetchUnverified ==
    /\ agentTrust.at = "artifact"
    /\ agentTrust' = [agentTrust EXCEPT !.at = "idle", !.of = EmptyRepo]
    /\ LET b == agentTrust.of
       IN  incoming' = [body |-> Downloaded(b), of |-> b]
    /\ UNCHANGED <<signerVars, serverVars, stale, mischance>>

\* downloadVerifiedRelease, the artifact: what the directory holds now, kept
\* only when the authenticated targets file names its bytes (VerifyTarget).
FetchArtifact ==
    /\ agentTrust.at = "artifact"
    /\ agentTrust' = [agentTrust EXCEPT !.at = "idle", !.of = EmptyRepo]
    /\ LET b == agentTrust.of
       IN  incoming' = IF Downloaded(b) = b.tg.body THEN [body |-> Downloaded(b), of |-> b] ELSE incoming
    /\ UNCHANGED <<signerVars, serverVars, stale, mischance>>

AgentStops ==
    /\ agentTrust.at # "idle"
    /\ Mischance
    /\ agentTrust' = [agentTrust EXCEPT !.at = "idle", !.of = EmptyRepo]
    /\ UNCHANGED <<signerVars, serverVars, incoming, stale>>

-----------------------------------------------------------------------------
ReleasesInit ==
    /\ keys = 1
    /\ repo = EmptyRepo
    /\ signing = "idle"
    /\ signs = 0
    /\ bundles = {}
    /\ trust = [rev |-> 0, root |-> 0, versions |-> NoVersions]
    /\ catalogue = {}
    /\ dirs = [b \in {} |-> "whole"]
    /\ import = NoImport
    /\ agentTrust = [root |-> 0, versions |-> NoVersions, at |-> "idle", of |-> EmptyRepo]
    /\ incoming = [body |-> 0, of |-> EmptyRepo]
    /\ stale = {}
    /\ mischance = 0

ReleasesNext ==
    \/ SignStep \/ SignerTrouble \/ Pack
    \/ BeginImport \/ VerifyImport \/ Stage \/ CommitPublication \/ ControllerTrouble \/ Outdate
    \/ EnrollRoot \/ FetchMetadata \/ FetchArtifact \/ AgentStops

ReleasesSpec == ReleasesInit /\ [][ReleasesNext]_releaseVars

-----------------------------------------------------------------------------
\* A release becomes visible only with all its files in place: none is
\* catalogued while its directory is missing or not what was signed, whatever
\* an interrupted import left behind (CommitPublication: "never a partly
\* visible release").
VisibleIsWhole ==
    [][\A b \in catalogue' \ catalogue : b \in DOMAIN dirs' /\ dirs'[b] = "whole"]_releaseVars

\* Neither the controller nor the agent ever goes back: versions only grow
\* and an enrolled root stays (rejectReplay, CommitPublication, SaveHighWater).
AtLeast(new, old) == new.ts >= old.ts /\ new.sn >= old.sn /\ new.tg >= old.tg

TrustAdvances ==
    [][/\ AtLeast(trust'.versions, trust.versions)
       /\ AtLeast(agentTrust'.versions, agentTrust.versions)
       /\ trust.root # 0 => trust'.root = trust.root
       /\ agentTrust.root # 0 => agentTrust'.root = agentTrust.root]_releaseVars

\* What an agent keeps for installation is what the release's own targets
\* metadata names, signed by the root the agent enrolled, from a release the
\* controller published, and the agent is never ahead of the controller.
InstalledIsSigned ==
    /\ incoming.body # 0 => incoming.of \in catalogue /\ incoming.of.tg.by = agentTrust.root
    /\ incoming.body = incoming.of.tg.body
    /\ AtLeast(trust.versions, agentTrust.versions)

\* Publishing and updating trust go forward only, and show only whole releases
\* (CommitPublication, SaveHighWater).
PublicationSafe == VisibleIsWhole /\ TrustAdvances
=============================================================================
