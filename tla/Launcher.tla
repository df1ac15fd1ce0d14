------------------------------ MODULE Launcher ------------------------------
(***************************************************************************)
(* The portable launcher (apps/launcher/src), its update of itself and the *)
(* keys it trusts (apps/updater/src/installer.js, verify.js), against the  *)
(* keys the API signs with (apps/api/src/signing.js).                      *)
(*                                                                         *)
(* A launcher is a chain of processes: the one the player started, the     *)
(* helper that copies the new files when that one is gone, and the one the *)
(* helper starts.  Launchers of one folder share its files, the stage and  *)
(* the downloads.  What a join installs is in Installer.                   *)
(***************************************************************************)
EXTENDS Naturals, FiniteSets

CONSTANTS
  Launchers,
  Command,       \* of each launcher: "join" or "update"
  Files,         \* of the launcher
  VersionFile,   \* the one that holds LAUNCHER_VERSION
  Versions,      \* of releases
  Inside,        \* LAUNCHER_VERSION in the archive of each release
  MaxRotations, MaxPublished, MaxTrouble, MaxStarts

ASSUME LauncherAssumption ==
  /\ Command \in [Launchers -> {"join", "update"}]
  /\ VersionFile \in Files /\ IsFiniteSet(Files)
  /\ Versions \subseteq Nat \ {0} /\ 1 \in Versions
  /\ Inside \in [Versions -> Versions] /\ Inside[1] = 1
  /\ {MaxRotations, MaxPublished, MaxTrouble, MaxStarts} \subseteq Nat

VARIABLES
  \* the API
  key,       \* what it signs with
  ring,      \* keyring, in memory
  keyFile,   \* SIGNING_PRIVATE_KEY, or the development key
  ringFile,  \* keyring.json; {}: there is none
  saving,    \* rotateLocal awaits persistKeyring
  minted,    \* keys made so far are 1..minted
  channel,   \* the launcher release, the key it is signed with, whether it is revoked
  packKey,   \* the key the served pack is signed with
  published,
  \* the folder of the launcher, and the player's
  root, stage,  \* version of each file; 0: there is none
  partial,      \* of each release: the .partial file
  archive,      \* of each release: the .zip file
  trust,        \* trusted-key.json of the launcher and of the mods
  proc,         \* of each launcher: where it is, and what it has read
  starts, trouble,
  \* history
  lost,        \* keys were forgotten: a crash within a rotation, or the key was replaced
  overlapped,  \* a launcher began an update while another was at one
  disturbed    \* a helper was stopped

api == <<key, ring, keyFile, ringFile, saving, minted, channel, packKey, published, lost>>
files == <<root, stage, partial, archive>>
folder == <<files, trust>>
history == <<overlapped, disturbed>>
vars == <<api, folder, proc, starts, trouble, history>>

Keys == 1..(1 + MaxRotations)
Sizes == {"none", "empty", "part", "full"}
Updating == {"clean", "open", "fetch", "extract", "copy"}
Proc == [at : {"off", "keys", "manifest", "packKeys", "pack"} \cup Updating,
         running : Versions,      \* LAUNCHER_VERSION
         keys : SUBSET Keys,      \* that the API answered
         target : Versions,       \* the release it updates to
         done : SUBSET Files]     \* extracted, or copied

\* A process that has read nothing yet.
Fresh(at, version) == [at |-> at, running |-> version, keys |-> {}, target |-> 1, done |-> {}]

TypeOK ==
  /\ key \in Keys /\ ring \subseteq Keys /\ keyFile \in Keys /\ ringFile \subseteq Keys
  /\ saving \in BOOLEAN /\ minted \in Keys /\ packKey \in Keys
  /\ channel \in [version : Versions, key : Keys, revoked : BOOLEAN] /\ published \in 0..MaxPublished
  /\ root \in [Files -> Versions] /\ stage \in [Files -> Versions \cup {0}]
  /\ partial \in [Versions -> Sizes] /\ archive \in [Versions -> {"none", "whole", "torn"}]
  /\ trust \in [{"update", "mods"} -> SUBSET Keys]
  /\ proc \in [Launchers -> Proc]
  /\ starts \in 0..MaxStarts /\ trouble \in 0..MaxTrouble
  /\ lost \in BOOLEAN /\ overlapped \in BOOLEAN /\ disturbed \in BOOLEAN

\* The first release is installed and served.
Init ==
  /\ key = 1 /\ ring = {1} /\ keyFile = 1 /\ ringFile = {} /\ saving = FALSE /\ minted = 1
  /\ channel = [version |-> 1, key |-> 1, revoked |-> FALSE] /\ packKey = 1 /\ published = 0
  /\ root = [f \in Files |-> 1] /\ stage = [f \in Files |-> 0]
  /\ partial = [v \in Versions |-> "none"] /\ archive = [v \in Versions |-> "none"]
  /\ trust = [place \in {"update", "mods"} |-> {}]
  /\ proc = [l \in Launchers |-> Fresh("off", 1)]
  /\ starts = 0 /\ trouble = 0
  /\ lost = FALSE /\ overlapped = FALSE /\ disturbed = FALSE

Trouble == trouble < MaxTrouble /\ trouble' = trouble + 1

------------------------------------------------------------------------------
(* Keys.                                                                   *)

\* Faulty: the key that was in use is not remembered.
RotatedAway == {minted + 1}

\* remember(previous) and remember(publicJwk())
Rotated == ring \cup {key, minted + 1}

\* rotateLocal: the new private key is kept in memory only.
Rotate ==
  /\ ~saving /\ minted < 1 + MaxRotations
  /\ minted' = minted + 1 /\ key' = minted + 1
  /\ ring' = Rotated
  /\ saving' = TRUE
  /\ UNCHANGED <<keyFile, ringFile, channel, packKey, published, lost,
                 folder, proc, starts, trouble, history>>

PersistKeyring ==
  /\ saving /\ saving' = FALSE /\ ringFile' = ring
  /\ UNCHANGED <<key, ring, keyFile, minted, channel, packKey, published, lost,
                 folder, proc, starts, trouble, history>>

\* init, with the private key that is configured.
Starts(private) ==
  /\ key' = private /\ ring' = ringFile \cup {private} /\ saving' = FALSE
  /\ UNCHANGED <<ringFile, channel, packKey, published>>

\* The API is killed and starts again.
Restart ==
  /\ Trouble
  /\ Starts(keyFile)
  /\ lost' = (lost \/ saving)
  /\ UNCHANGED <<keyFile, minted, folder, proc, starts, history>>

\* RUNBOOK.md: "or replace SIGNING_PRIVATE_KEY and restart".
ReplaceKey ==
  /\ minted < 1 + MaxRotations
  /\ minted' = minted + 1 /\ keyFile' = minted + 1
  /\ Starts(minted + 1)
  /\ lost' = TRUE
  /\ UNCHANGED <<folder, proc, starts, trouble, history>>

\* What is published is signed with the key in use.
PublishLauncher(v) ==
  /\ published < MaxPublished /\ published' = published + 1
  /\ channel' = [version |-> v, key |-> key, revoked |-> FALSE]
  /\ UNCHANGED <<key, ring, keyFile, ringFile, saving, minted, packKey, lost,
                 folder, proc, starts, trouble, history>>

\* POST /admin/launcher/revoke: the release is offered no more.
RevokeLauncher ==
  /\ published < MaxPublished /\ published' = published + 1
  /\ ~channel.revoked /\ channel' = [channel EXCEPT !.revoked = TRUE]
  /\ UNCHANGED <<key, ring, keyFile, ringFile, saving, minted, packKey, lost,
                 folder, proc, starts, trouble, history>>

PublishPack ==
  /\ packKey # key /\ packKey' = key
  /\ UNCHANGED <<key, ring, keyFile, ringFile, saving, minted, channel, published, lost,
                 folder, proc, starts, trouble, history>>

------------------------------------------------------------------------------
(* Trust.                                                                  *)

\* trustPublicKey: on first use, or when a known key is still in the ring.
Accepted(place) == trust[place] = {} \/ trust[place] \cap ring # {}

Trusts(l, place, next) ==
  /\ trust' = [trust EXCEPT ![place] = ring]
  /\ proc' = [proc EXCEPT ![l].keys = ring, ![l].at = next]

At(l) == proc[l].at
Goes(l, at) == proc' = [proc EXCEPT ![l] = Fresh(at, 1)]
Ends(l) == Goes(l, "off")

\* An update that is not possible does not keep a player from joining.
Skip(l) == Goes(l, IF Command[l] = "join" THEN "packKeys" ELSE "off")

\* findInstallRoot found the folder; the version is the one of its files.
Start(l) ==
  /\ At(l) = "off" /\ starts < MaxStarts /\ starts' = starts + 1
  /\ proc' = [proc EXCEPT ![l] = Fresh("keys", root[VersionFile])]
  /\ UNCHANGED <<api, folder, trouble, history>>

UpdateKeys(l) ==
  /\ At(l) = "keys"
  /\ \/ Accepted("update") /\ Trusts(l, "update", "manifest")
     \/ ~Accepted("update") /\ Skip(l) /\ UNCHANGED trust
  /\ UNCHANGED <<api, files, starts, trouble, history>>

\* verifyManifest, with the keys that were fetched.
Verified(l) == channel.key \in proc[l].keys

\* isNewerVersion
Newer(l) == channel.version > proc[l].running

\* fetchLauncherManifest and checkLauncherUpdate: a signature that does not
\* verify ends the launcher.
UpdateManifest(l) ==
  /\ At(l) = "manifest"
  /\ \/ channel.revoked /\ Skip(l)
     \/ ~channel.revoked /\ ~Verified(l) /\ Ends(l)
     \/ ~channel.revoked /\ Verified(l) /\ ~Newer(l) /\ Skip(l)
     \/ ~channel.revoked /\ Verified(l) /\ Newer(l) /\ proc' = [proc EXCEPT ![l] = [Fresh("clean", 1) EXCEPT !.target = channel.version]]
  /\ UNCHANGED <<api, folder, starts, trouble, history>>

------------------------------------------------------------------------------
(* applyLauncherUpdate.                                                    *)

Others(l) == {m \in Launchers \ {l} : At(m) \in Updating}
Moves(l, at) == proc' = [proc EXCEPT ![l].at = at, ![l].done = {}]
Does(l, f) == f \notin proc[l].done /\ proc' = [proc EXCEPT ![l].done = @ \cup {f}]

\* The stage is removed, whoever may be using it.
CleanStage(l) ==
  /\ At(l) = "clean"
  /\ stage' = [f \in Files |-> 0]
  /\ overlapped' = (overlapped \/ Others(l) # {})
  /\ Moves(l, "open")
  /\ UNCHANGED <<api, root, partial, archive, trust, starts, trouble, disturbed>>

\* GET public/artifacts/<hash>, from where the partial file ends: a range that
\* begins at the end of the file is refused (416), and without a range the
\* whole file is served.
RangeServed(held) == held # "full"

\* download: what is served is appended to what there is; an empty partial asks
\* for no range, so that it is opened with flag wx and refused.
FetchOpen(l) ==
  LET v == proc[l].target IN
  /\ At(l) = "open"
  /\ \/ /\ RangeServed(partial[v]) /\ partial[v] # "empty"
        /\ partial' = [partial EXCEPT ![v] = IF @ = "none" THEN "empty" ELSE @]
        /\ Moves(l, "fetch")
     \/ ~RangeServed(partial[v]) /\ Skip(l) /\ UNCHANGED partial
     \/ partial[v] = "empty" /\ Skip(l) /\ UNCHANGED partial
  /\ UNCHANGED <<api, root, stage, archive, trust, starts, trouble, history>>

FetchBytes(l) ==
  LET v == proc[l].target IN
  /\ At(l) = "fetch"
  /\ \/ partial[v] = "empty" /\ partial' = [partial EXCEPT ![v] = "part"]
     \/ partial[v] \in {"empty", "part"} /\ partial' = [partial EXCEPT ![v] = "full"]
  /\ UNCHANGED <<api, root, stage, archive, trust, proc, starts, trouble, history>>

\* The bytes that went by have the hash; the file has them unless another
\* launcher wrote to it too.  It may have been renamed by that one.
FetchEnd(l) ==
  LET v == proc[l].target
      shared == \E m \in Others(l) : proc[m].target = v IN
  /\ At(l) = "fetch"
  /\ \/ /\ partial[v] = "full"
        /\ partial' = [partial EXCEPT ![v] = "none"]
        /\ \E state \in {"whole"} \cup (IF shared THEN {"torn"} ELSE {}) :
             archive' = [archive EXCEPT ![v] = state]
        /\ Moves(l, "extract")
     \/ partial[v] = "none" /\ Skip(l) /\ UNCHANGED <<partial, archive>>
  /\ UNCHANGED <<api, root, stage, trust, starts, trouble, history>>

\* The connection breaks: what was written stays.
FetchBreaks(l) ==
  /\ At(l) = "fetch" /\ Trouble
  /\ Skip(l)
  /\ UNCHANGED <<api, folder, starts, history>>

\* extractZipFile: the sum of each entry is checked, and no file may be there.
ExtractFile(l, f) ==
  LET v == proc[l].target IN
  /\ At(l) = "extract"
  /\ \/ archive[v] = "whole" /\ stage[f] = 0 /\ Does(l, f)
        /\ stage' = [stage EXCEPT ![f] = v]
     \/ /\ archive[v] # "whole" \/ (stage[f] # 0 /\ f \notin proc[l].done)
        /\ Skip(l) /\ UNCHANGED stage
  /\ UNCHANGED <<api, root, partial, archive, trust, starts, trouble, history>>

\* Faulty: the helper starts while files are still being extracted.
SpawnEarly(l) ==
  /\ At(l) = "extract" /\ proc[l].done # {}
  /\ Moves(l, "copy")
  /\ UNCHANGED <<api, folder, starts, trouble, history>>

\* The launcher starts the helper and exits.
SpawnHelper(l) ==
  /\ At(l) = "extract" /\ proc[l].done = Files
  /\ Moves(l, "copy")
  /\ UNCHANGED <<api, folder, starts, trouble, history>>

\* Faulty: files that are there are kept.
CopiedNew(f) == root[f]

\* The file of the stage: the version file says what its archive says.
Copied(f) == IF f = VersionFile THEN Inside[stage[f]] ELSE stage[f]

\* A file that is gone from the stage was not listed, or ends the helper.
CopyFile(l, f) ==
  /\ At(l) = "copy"
  /\ \/ stage[f] # 0 /\ Does(l, f) /\ root' = [root EXCEPT ![f] = Copied(f)]
     \/ stage[f] = 0 /\ (Does(l, f) \/ Ends(l)) /\ UNCHANGED root
  /\ UNCHANGED <<api, stage, partial, archive, trust, starts, trouble, history>>

Relaunch(l) ==
  /\ At(l) = "copy" /\ proc[l].done = Files
  /\ proc' = [proc EXCEPT ![l] = Fresh("keys", root[VersionFile])]
  /\ UNCHANGED <<api, folder, starts, trouble, history>>

------------------------------------------------------------------------------
(* The join, and what goes wrong.                                          *)

PackKeys(l) ==
  /\ At(l) = "packKeys"
  /\ \/ Accepted("mods") /\ Trusts(l, "mods", "pack")
     \/ ~Accepted("mods") /\ Ends(l) /\ UNCHANGED trust
  /\ UNCHANGED <<api, files, starts, trouble, history>>

\* loadVerifiedManifest, the sync and the game; or an error.
Join(l) ==
  /\ At(l) = "pack" /\ Ends(l)
  /\ UNCHANGED <<api, folder, starts, trouble, history>>

\* The launcher or its helper is killed, or the helper cannot write a file.
Killed(l) ==
  /\ At(l) # "off" /\ Trouble
  /\ Ends(l)
  /\ disturbed' = (disturbed \/ At(l) = "copy")
  /\ UNCHANGED <<api, folder, starts, overlapped>>

Steps(l) ==
  \/ UpdateKeys(l) \/ UpdateManifest(l) \/ CleanStage(l)
  \/ FetchOpen(l) \/ FetchBytes(l) \/ FetchEnd(l)
  \/ \E f \in Files : ExtractFile(l, f) \/ CopyFile(l, f)
  \/ SpawnHelper(l) \/ Relaunch(l)
  \/ PackKeys(l) \/ Join(l)

Next ==
  \/ Rotate \/ PersistKeyring \/ Restart \/ ReplaceKey \/ PublishPack \/ RevokeLauncher
  \/ \E v \in Versions : PublishLauncher(v)
  \/ \E l \in Launchers : Start(l) \/ Steps(l) \/ FetchBreaks(l) \/ Killed(l)

\* Processes go on; nobody has to start or publish anything.
Spec == Init /\ [][Next]_vars /\ \A l \in Launchers : WF_vars(Steps(l))

------------------------------------------------------------------------------
(* Properties.                                                             *)

\* Rotation and restarts (signing.js) never lock a client out: unless keys
\* were forgotten, what is served verifies with the ring, and whoever trusted
\* the platform once still knows a key of it.
RingReachesClients ==
  ~lost =>
    /\ {channel.key, packKey} \subseteq ring
    /\ \A place \in {"update", "mods"} : trust[place] = {} \/ trust[place] \cap ring # {}

\* An update (self-update.js) replaces all files or none, unless its helper
\* was stopped or two launchers updated at a time.
UpdateIsWhole ==
  ~disturbed /\ ~overlapped /\ (\A l \in Launchers : At(l) # "copy") =>
    \E v \in Versions : \A f \in Files :
      root[f] = IF f = VersionFile THEN Inside[v] ELSE v

\* A launcher comes to an end, and is not relaunched for ever, unless the
\* release it is offered says another version than its archive, or another
\* launcher kept removing its stage.
JoinEnds ==
  \A l \in Launchers :
    At(l) # "off" ~> (At(l) = "off" \/ Inside[channel.version] # channel.version \/ overlapped)

=============================================================================
