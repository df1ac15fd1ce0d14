-------------------------- MODULE LauncherProofs ---------------------------
(***************************************************************************)
(* Theorems about the launcher, its update of itself and the keys it       *)
(* trusts, for any number of launchers, files, releases and rotations.     *)
(* And about how releases are delivered, for any number of instances,      *)
(* packs, channels, servers and changes.                                   *)
(***************************************************************************)
EXTENDS Launcher, TLAPS

(***************************************************************************)
(* Types.                                                                  *)
(***************************************************************************)
Places == {"keys", "manifest", "packKeys", "pack", "off"} \cup Updating

\* A process that has read nothing is a process.
LEMMA FreshTyped ==
  ASSUME NEW at \in Places, NEW version \in Versions
  PROVE  Fresh(at, version) \in Proc
BY LauncherAssumption DEF Fresh, Proc, Places, Keys

\* A launcher that goes on, skips the update or ends is well typed.
LEMMA GoesTyped ==
  ASSUME NEW l \in Launchers, proc \in [Launchers -> Proc],
         \/ \E at \in Places : Goes(l, at)
         \/ Skip(l) \/ Ends(l)
  PROVE  proc' \in [Launchers -> Proc]
<1>1. PICK at \in Places : Goes(l, at)
  BY DEF Skip, Ends, Places
<1>2. 1 \in Versions
  BY LauncherAssumption
<1> QED
  BY <1>1, <1>2, FreshTyped DEF Goes

\* So is one that takes the next step of its update.
LEMMA MovesTyped ==
  ASSUME NEW l \in Launchers, proc \in [Launchers -> Proc],
         \/ \E at \in Places : Moves(l, at)
         \/ \E f \in Files : Does(l, f)
  PROVE  proc' \in [Launchers -> Proc]
<1>1. proc[l] \in Proc
  OBVIOUS
<1>2. ASSUME NEW at \in Places, Moves(l, at) PROVE proc' \in [Launchers -> Proc]
  <2>1. [proc[l] EXCEPT !.at = at, !.done = {}] \in Proc
    BY <1>1 DEF Proc, Places
  <2>2. proc' = [proc EXCEPT ![l] = [proc[l] EXCEPT !.at = at, !.done = {}]]
    BY <1>2 DEF Moves
  <2> QED
    BY <2>1, <2>2
<1>3. ASSUME NEW f \in Files, Does(l, f) PROVE proc' \in [Launchers -> Proc]
  <2>1. [proc[l] EXCEPT !.done = @ \cup {f}] \in Proc
    BY <1>1 DEF Proc
  <2>2. proc' = [proc EXCEPT ![l] = [proc[l] EXCEPT !.done = @ \cup {f}]]
    BY <1>3 DEF Does
  <2> QED
    BY <2>1, <2>2
<1> QED
  BY <1>2, <1>3

\* The first release, installed and served, is well typed.
LEMMA TypeInit == Init => TypeOK
<1> SUFFICES ASSUME Init PROVE TypeOK
  OBVIOUS
<1> USE LauncherAssumption DEF Init
<1>1. 1 \in Keys
  BY DEF Keys
<1>2. proc \in [Launchers -> Proc]
  BY FreshTyped DEF Places
<1>3. saving \in BOOLEAN /\ lost \in BOOLEAN /\ overlapped \in BOOLEAN /\ disturbed \in BOOLEAN
  BY Zenon
<1>4. channel \in [version : Versions, key : Keys, revoked : BOOLEAN]
  <2>1. channel = [version |-> 1, key |-> 1, revoked |-> FALSE]
    OBVIOUS
  <2>2. 1 \in Versions
    OBVIOUS
  <2> QED
    BY <1>1, <2>1, <2>2
<1>5. /\ partial \in [Versions -> Sizes] /\ archive \in [Versions -> {"none", "whole", "torn"}]
      /\ root \in [Files -> Versions] /\ stage \in [Files -> Versions \cup {0}]
      /\ trust \in [{"update", "mods"} -> SUBSET Keys]
  BY DEF Sizes
<1>6. /\ key \in Keys /\ ring \subseteq Keys /\ keyFile \in Keys /\ ringFile \subseteq Keys
      /\ minted \in Keys /\ packKey \in Keys
      /\ published \in 0..MaxPublished /\ starts \in 0..MaxStarts /\ trouble \in 0..MaxTrouble
  BY <1>1
<1> QED
  BY <1>2, <1>3, <1>4, <1>5, <1>6 DEF TypeOK

\* Every step of the API keeps the types.
LEMMA ApiTyped ==
  ASSUME TypeOK,
         \/ Rotate \/ PersistKeyring \/ Restart \/ ReplaceKey \/ PublishPack \/ RevokeLauncher
         \/ \E v \in Versions : PublishLauncher(v)
  PROVE  TypeOK'
<1> USE LauncherAssumption DEF TypeOK, folder, files, history, Keys
<1>1. CASE Rotate
  <2>1. minted + 1 \in Keys /\ Rotated \subseteq Keys
    BY <1>1 DEF Rotate, Rotated
  <2> QED
    BY <1>1, <2>1 DEF Rotate
<1>2. CASE PersistKeyring
  BY <1>2 DEF PersistKeyring
<1>3. CASE Restart
  <2>1. lost' \in BOOLEAN
    BY <1>3, Zenon DEF Restart
  <2>2. Starts(keyFile) /\ Trouble /\ UNCHANGED <<keyFile, minted, folder, proc, starts, history>>
    BY <1>3, Zenon DEF Restart
  <2>3. key' \in Keys /\ ring' \subseteq Keys
    BY <2>2 DEF Starts
  <2>4. trouble' \in 0..MaxTrouble
    BY <2>2 DEF Trouble
  <2>5. saving' \in BOOLEAN
    BY <2>2, Zenon DEF Starts
  <2> QED
    BY <2>1, <2>2, <2>3, <2>4, <2>5 DEF Starts
<1>4. CASE ReplaceKey
  <2>1. minted + 1 \in Keys /\ lost' \in BOOLEAN
    BY <1>4 DEF ReplaceKey
  <2> QED
    BY <1>4, <2>1 DEF ReplaceKey, Starts
<1>5. CASE PublishPack
  BY <1>5 DEF PublishPack
<1>6. CASE RevokeLauncher
  <2>1. channel' \in [version : Versions, key : Keys, revoked : BOOLEAN]
    BY <1>6 DEF RevokeLauncher
  <2>2. published' \in 0..MaxPublished
    BY <1>6 DEF RevokeLauncher
  <2> QED
    BY <1>6, <2>1, <2>2 DEF RevokeLauncher
<1>7. ASSUME NEW v \in Versions, PublishLauncher(v) PROVE TypeOK'
  <2>1. channel' \in [version : Versions, key : Keys, revoked : BOOLEAN]
    BY <1>7 DEF PublishLauncher
  <2>2. published' \in 0..MaxPublished
    BY <1>7 DEF PublishLauncher
  <2> QED
    BY <1>7, <2>1, <2>2 DEF PublishLauncher
<1> QED
  BY <1>1, <1>2, <1>3, <1>4, <1>5, <1>6, <1>7

\* Every step of a launcher keeps the types.
LEMMA LauncherTyped ==
  ASSUME TypeOK, NEW l \in Launchers,
         Start(l) \/ Steps(l) \/ FetchBreaks(l) \/ Killed(l)
  PROVE  TypeOK'
<1> USE LauncherAssumption DEF api, folder, files, history
<1>0. proc[l] \in Proc /\ proc[l].target \in Versions
  BY DEF TypeOK, Proc
<1>1. CASE Start(l)
  <2>1. root[VersionFile] \in Versions
    BY DEF TypeOK
  <2>2. Fresh("keys", root[VersionFile]) \in Proc
    BY <2>1, FreshTyped DEF Places
  <2> QED
    BY <1>1, <2>2 DEF TypeOK, Start
<1>2. CASE UpdateKeys(l) \/ PackKeys(l)
  <2>1. ASSUME NEW place \in {"update", "mods"}, NEW next \in {"manifest", "pack"}, Trusts(l, place, next)
        PROVE  proc' \in [Launchers -> Proc] /\ trust' \in [{"update", "mods"} -> SUBSET Keys]
    <3>1. [proc[l] EXCEPT !.keys = ring, !.at = next] \in Proc
      BY <1>0 DEF TypeOK, Proc
    <3> QED
      BY <2>1, <3>1 DEF TypeOK, Trusts
  <2>2. proc' \in [Launchers -> Proc] /\ trust' \in [{"update", "mods"} -> SUBSET Keys]
    BY <1>2, <2>1, GoesTyped DEF UpdateKeys, PackKeys, TypeOK
  <2> QED
    BY <1>2, <2>2 DEF TypeOK, UpdateKeys, PackKeys
<1>3. CASE UpdateManifest(l)
  <2>1. [Fresh("clean", 1) EXCEPT !.target = channel.version] \in Proc
    <3>1. Fresh("clean", 1) \in Proc
      BY FreshTyped DEF Places, Updating
    <3>2. channel.version \in Versions
      BY DEF TypeOK
    <3> QED
      BY <3>1, <3>2 DEF Proc
  <2>2. proc' \in [Launchers -> Proc]
    BY <1>3, <2>1, GoesTyped DEF UpdateManifest, TypeOK
  <2> QED
    BY <1>3, <2>2 DEF TypeOK, UpdateManifest
<1>4. CASE CleanStage(l)
  <2>1. proc' \in [Launchers -> Proc]
    BY <1>4, MovesTyped DEF CleanStage, TypeOK, Places, Updating
  <2>2. overlapped' \in BOOLEAN
    BY <1>4, Zenon DEF CleanStage, TypeOK
  <2> QED
    BY <1>4, <2>1, <2>2 DEF TypeOK, CleanStage
<1>5. CASE FetchOpen(l)
  <2>1. proc' \in [Launchers -> Proc]
    BY <1>5, MovesTyped, GoesTyped DEF FetchOpen, TypeOK, Places, Updating
  <2>2. partial' \in [Versions -> Sizes]
    BY <1>0, <1>5 DEF FetchOpen, TypeOK, Sizes
  <2> QED
    BY <1>5, <2>1, <2>2 DEF TypeOK, FetchOpen
<1>6. CASE FetchBytes(l)
  <2>1. partial' \in [Versions -> Sizes]
    BY <1>0, <1>6 DEF FetchBytes, TypeOK, Sizes
  <2> QED
    BY <1>6, <2>1 DEF TypeOK, FetchBytes
<1>7. CASE FetchEnd(l)
  <2>1. proc' \in [Launchers -> Proc]
    BY <1>7, MovesTyped, GoesTyped DEF FetchEnd, TypeOK, Places, Updating
  <2>2. partial' \in [Versions -> Sizes] /\ archive' \in [Versions -> {"none", "whole", "torn"}]
    BY <1>0, <1>7 DEF FetchEnd, TypeOK, Sizes
  <2> QED
    BY <1>7, <2>1, <2>2 DEF TypeOK, FetchEnd
<1>8. CASE FetchBreaks(l)
  <2>1. proc' \in [Launchers -> Proc]
    BY <1>8, GoesTyped DEF FetchBreaks, TypeOK
  <2> QED
    BY <1>8, <2>1 DEF TypeOK, FetchBreaks, Trouble
<1>9. ASSUME NEW f \in Files, ExtractFile(l, f) PROVE TypeOK'
  <2>1. proc' \in [Launchers -> Proc]
    BY <1>9, MovesTyped, GoesTyped DEF ExtractFile, TypeOK
  <2>2. stage' \in [Files -> Versions \cup {0}]
    BY <1>0, <1>9 DEF ExtractFile, TypeOK
  <2> QED
    BY <1>9, <2>1, <2>2 DEF TypeOK, ExtractFile
<1>10. ASSUME NEW f \in Files, CopyFile(l, f) PROVE TypeOK'
  <2>1. proc' \in [Launchers -> Proc]
    BY <1>10, MovesTyped, GoesTyped DEF CopyFile, TypeOK
  <2>2. root' \in [Files -> Versions]
    <3>1. stage[f] # 0 => Copied(f) \in Versions
      BY DEF TypeOK, Copied
    <3> QED
      BY <1>10, <3>1 DEF CopyFile, TypeOK
  <2> QED
    BY <1>10, <2>1, <2>2 DEF TypeOK, CopyFile
<1>11. CASE SpawnHelper(l)
  <2>1. proc' \in [Launchers -> Proc]
    BY <1>11, MovesTyped DEF SpawnHelper, TypeOK, Places, Updating
  <2> QED
    BY <1>11, <2>1 DEF TypeOK, SpawnHelper
<1>12. CASE Relaunch(l)
  <2>1. root[VersionFile] \in Versions
    BY DEF TypeOK
  <2>2. Fresh("keys", root[VersionFile]) \in Proc
    BY <2>1, FreshTyped DEF Places
  <2> QED
    BY <1>12, <2>2 DEF TypeOK, Relaunch
<1>13. CASE Join(l)
  <2>1. proc' \in [Launchers -> Proc]
    BY <1>13, GoesTyped DEF Join, TypeOK
  <2> QED
    BY <1>13, <2>1 DEF TypeOK, Join
<1>14. CASE Killed(l)
  <2>1. proc' \in [Launchers -> Proc]
    BY <1>14, GoesTyped DEF Killed, TypeOK
  <2>2. disturbed' \in BOOLEAN
    BY <1>14, Zenon DEF Killed, TypeOK
  <2> QED
    BY <1>14, <2>1, <2>2 DEF TypeOK, Killed, Trouble
<1> QED
  BY <1>1, <1>2, <1>3, <1>4, <1>5, <1>6, <1>7, <1>8, <1>9, <1>10, <1>11, <1>12,
     <1>13, <1>14 DEF Steps

\* The variables keep their types.
THEOREM LauncherIsTyped == Spec => []TypeOK
<1>1. TypeOK /\ [Next]_vars => TypeOK'
  <2>1. TypeOK /\ UNCHANGED vars => TypeOK'
    BY DEF TypeOK, vars, api, folder, files, history
  <2> QED
    BY <2>1, ApiTyped, LauncherTyped DEF Next
<1> QED
  BY <1>1, TypeInit, PTL DEF Spec

(***************************************************************************)
(* Keys.  What makes the property inductive: the ring has the key in use,  *)
(* and a restart between two rotations gives back all of it.               *)
(***************************************************************************)
RingInv ==
  ~lost =>
    /\ {key, channel.key, packKey} \subseteq ring
    /\ saving \/ ring \subseteq ringFile \cup {keyFile}
    /\ \A place \in {"update", "mods"} : trust[place] = {} \/ trust[place] \cap ring # {}

\* No step of a launcher makes it know less.
LEMMA RingKept ==
  ASSUME TypeOK, RingInv, UNCHANGED api,
         UNCHANGED trust \/ \E place \in {"update", "mods"} : trust' = [trust EXCEPT ![place] = ring]
  PROVE  RingInv'
BY DEF TypeOK, RingInv, api

\* Every step keeps the clients' keys within reach.
LEMMA RingStep == TypeOK /\ RingInv /\ [Next]_vars => RingInv'
<1> SUFFICES ASSUME TypeOK, RingInv, [Next]_vars PROVE RingInv'
  OBVIOUS
<1> USE DEF folder, files, history
<1>1. CASE Rotate
  BY <1>1 DEF TypeOK, RingInv, Rotate, Rotated
<1>2. CASE PersistKeyring
  BY <1>2 DEF TypeOK, RingInv, PersistKeyring
<1>3. CASE Restart
  <2>1. Starts(keyFile) /\ UNCHANGED <<keyFile, trust>> /\ (~lost' => ~lost /\ ~saving)
    BY <1>3, Zenon DEF Restart, folder
  <2>2. ~lost' => ring \subseteq ring'
    BY <2>1 DEF RingInv, Starts
  <2> QED
    BY <2>1, <2>2 DEF TypeOK, RingInv, Starts
<1>4. CASE ReplaceKey
  BY <1>4 DEF RingInv, ReplaceKey
<1>5. CASE PublishPack
  BY <1>5 DEF TypeOK, RingInv, PublishPack
<1>6. CASE RevokeLauncher
  <2>1. channel'.key = channel.key
    BY <1>6 DEF RevokeLauncher, TypeOK
  <2> QED
    BY <1>6, <2>1 DEF RingInv, RevokeLauncher
<1>7. ASSUME NEW v \in Versions, PublishLauncher(v) PROVE RingInv'
  <2>1. channel'.key = key
    BY <1>7 DEF PublishLauncher
  <2> QED
    BY <1>7, <2>1 DEF RingInv, PublishLauncher
<1>8. ASSUME NEW l \in Launchers, Start(l) \/ Steps(l) \/ FetchBreaks(l) \/ Killed(l)
      PROVE  RingInv'
  <2>1. UNCHANGED api
    BY <1>8 DEF Steps, Start, UpdateKeys, UpdateManifest, CleanStage, FetchOpen, FetchBytes,
       FetchEnd, ExtractFile, CopyFile, SpawnHelper, Relaunch, PackKeys, Join, FetchBreaks, Killed
  <2>2. UNCHANGED trust \/ \E place \in {"update", "mods"} : trust' = [trust EXCEPT ![place] = ring]
    BY <1>8 DEF Steps, Start, UpdateKeys, UpdateManifest, CleanStage, FetchOpen, FetchBytes,
       FetchEnd, ExtractFile, CopyFile, SpawnHelper, Relaunch, PackKeys, Join, FetchBreaks, Killed, Trusts
  <2> QED
    BY <2>1, <2>2, RingKept
<1>9. CASE UNCHANGED vars
  BY <1>9, RingKept DEF vars
<1> QED
  BY <1>1, <1>2, <1>3, <1>4, <1>5, <1>6, <1>7, <1>8, <1>9 DEF Next

\* Unless keys were forgotten, whoever trusts a key of the platform knows one
\* of its ring, and all that is served is signed with a key of the ring.
THEOREM RingCorrect == Spec => []RingReachesClients
<1>1. Init => RingInv
  BY DEF Init, RingInv
<1>2. RingInv => RingReachesClients
  BY DEF RingInv, RingReachesClients
<1> QED
  BY <1>1, <1>2, RingStep, LauncherIsTyped, PTL DEF Spec

(***************************************************************************)
(* The update.                                                             *)
(***************************************************************************)
\* From the stage's removal to the end of the helper
Past == {"open", "fetch", "extract", "copy"}

\* What a file says of release v
Of(v, f) == IF f = VersionFile THEN Inside[v] ELSE v

\* The stage is one launcher's.
Alone == \A l, m \in Launchers : At(l) \in Past /\ At(m) \in Past => l = m

\* It has what that launcher has put there.
StageFilled ==
  \A l \in Launchers :
    /\ At(l) \in {"open", "fetch"} => \A f \in Files : stage[f] = 0
    /\ At(l) = "extract" =>
         \A f \in Files : stage[f] = IF f \in proc[l].done THEN proc[l].target ELSE 0
    /\ At(l) = "copy" => \A f \in Files : stage[f] = proc[l].target

\* The folder is of one release, but for what a helper has copied.
FolderWhole ==
  /\ (\A l \in Launchers : At(l) # "copy") =>
       \E v \in Versions : \A f \in Files : root[f] = Of(v, f)
  /\ \A l \in Launchers : At(l) = "copy" =>
       \E v \in Versions : \A f \in Files :
         root[f] = Of(IF f \in proc[l].done THEN proc[l].target ELSE v, f)

WholeInv == ~overlapped => Alone /\ StageFilled /\ (~disturbed => FolderWhole)

\* A step that leaves folder, stage and processes as they are keeps it.
LEMMA WholeKept ==
  ASSUME WholeInv, UNCHANGED <<root, stage, proc, overlapped, disturbed>>
  PROVE  WholeInv'
BY DEF WholeInv, Alone, StageFilled, FolderWhole, At, Of

\* So does a launcher that is not its helper, and goes where it touches
\* neither.
LEMMA LeavesAlone ==
  ASSUME TypeOK, WholeInv, NEW l \in Launchers,
         UNCHANGED <<root, stage, overlapped, disturbed>>,
         \A m \in Launchers \ {l} : proc'[m] = proc[m],
         At(l) # "copy", proc'[l].at \notin Past
  PROVE  WholeInv'
<1> USE DEF At
<1>1. \A m \in Launchers : proc'[m].at \in Past => m # l /\ proc'[m] = proc[m]
  OBVIOUS
<1>2. SUFFICES ASSUME ~overlapped PROVE Alone' /\ StageFilled' /\ (~disturbed => FolderWhole')
  BY DEF WholeInv
<1>3. Alone'
  BY <1>1, <1>2 DEF WholeInv, Alone
<1>4. StageFilled'
  BY <1>1, <1>2 DEF WholeInv, StageFilled, Past
<1>5. ASSUME ~disturbed PROVE FolderWhole'
  <2>1. (\A m \in Launchers : proc'[m].at # "copy") => \A m \in Launchers : At(m) # "copy"
    OBVIOUS
  <2> QED
    BY <1>1, <1>2, <1>5, <2>1 DEF WholeInv, FolderWhole, Past, Of
<1> QED
  BY <1>3, <1>4, <1>5

\* Every step of a launcher keeps the folder whole.
LEMMA WholeByLauncher ==
  ASSUME TypeOK, WholeInv, NEW l \in Launchers,
         Start(l) \/ Steps(l) \/ FetchBreaks(l) \/ Killed(l)
  PROVE  WholeInv'
<1> USE DEF folder, files, history, At
<1>0. l \in DOMAIN proc /\ proc[l] \in Proc
  BY DEF TypeOK
<1>1. CASE Start(l) \/ UpdateKeys(l) \/ UpdateManifest(l) \/ PackKeys(l) \/ Join(l) \/ FetchBreaks(l)
  <2>1. UNCHANGED <<root, stage, overlapped, disturbed>> /\ At(l) # "copy"
    BY <1>1 DEF Start, UpdateKeys, UpdateManifest, PackKeys, Join, FetchBreaks
  <2>2. (\A m \in Launchers \ {l} : proc'[m] = proc[m]) /\ proc'[l].at \notin Past
    BY <1>0, <1>1 DEF Start, UpdateKeys, UpdateManifest, PackKeys, Join, FetchBreaks, Trusts,
       Goes, Skip, Ends, Fresh, Past, TypeOK, Proc
  <2> QED
    BY <2>1, <2>2, LeavesAlone
<1>2. ASSUME Skip(l), At(l) # "copy", UNCHANGED <<root, stage, overlapped, disturbed>>
      PROVE  WholeInv'
  <2>1. (\A m \in Launchers \ {l} : proc'[m] = proc[m]) /\ proc'[l].at \notin Past
    BY <1>0, <1>2 DEF Goes, Skip, Fresh, Past, TypeOK
  <2> QED
    BY <1>2, <2>1, LeavesAlone
<1>3. CASE CleanStage(l)
  <2>1. /\ \A m \in Launchers \ {l} : proc'[m] = proc[m]
        /\ proc'[l].at = "open" /\ UNCHANGED <<root, disturbed>>
        /\ \A f \in Files : stage'[f] = 0
    BY <1>0, <1>3 DEF CleanStage, Moves, TypeOK, Proc
  <2>2. ~overlapped' => ~overlapped /\ \A m \in Launchers \ {l} : At(m) \notin Past
    BY <1>3 DEF CleanStage, Others, Past, Updating
  <2>3. At(l) = "clean"
    BY <1>3 DEF CleanStage
  <2> QED
    BY <2>1, <2>2, <2>3 DEF WholeInv, Alone, StageFilled, FolderWhole, Past, Of
<1>4. CASE FetchOpen(l)
  <2>1. CASE Skip(l)
    BY <1>2, <1>4, <2>1 DEF FetchOpen
  <2>2. CASE Moves(l, "fetch")
    <3>1. /\ \A m \in Launchers \ {l} : proc'[m] = proc[m]
          /\ proc'[l].at = "fetch" /\ At(l) = "open" /\ UNCHANGED <<root, stage, overlapped, disturbed>>
      BY <1>0, <1>4, <2>2 DEF FetchOpen, Moves, TypeOK, Proc
    <3> QED
      BY <3>1 DEF WholeInv, Alone, StageFilled, FolderWhole, Past, Of
  <2> QED
    BY <1>4, <2>1, <2>2 DEF FetchOpen
<1>5. CASE FetchBytes(l)
  BY <1>5, WholeKept DEF FetchBytes
<1>6. CASE FetchEnd(l)
  <2>1. CASE Skip(l)
    BY <1>2, <1>6, <2>1 DEF FetchEnd
  <2>2. CASE Moves(l, "extract")
    <3>1. /\ \A m \in Launchers \ {l} : proc'[m] = proc[m]
          /\ proc'[l].at = "extract" /\ proc'[l].done = {} /\ At(l) = "fetch"
          /\ UNCHANGED <<root, stage, overlapped, disturbed>>
      BY <1>0, <1>6, <2>2 DEF FetchEnd, Moves, TypeOK, Proc
    <3> QED
      BY <3>1 DEF WholeInv, Alone, StageFilled, FolderWhole, Past, Of
  <2> QED
    BY <1>6, <2>1, <2>2 DEF FetchEnd
<1>7. ASSUME NEW f \in Files, ExtractFile(l, f) PROVE WholeInv'
  <2>1. CASE Skip(l) /\ UNCHANGED stage
    BY <1>2, <1>7, <2>1 DEF ExtractFile
  <2>2. CASE Does(l, f) /\ stage' = [stage EXCEPT ![f] = proc[l].target]
    <3>1. /\ \A m \in Launchers \ {l} : proc'[m] = proc[m]
          /\ proc'[l].at = "extract" /\ At(l) = "extract"
          /\ proc'[l].done = proc[l].done \cup {f} /\ proc'[l].target = proc[l].target
          /\ UNCHANGED <<root, overlapped, disturbed>>
      BY <1>0, <1>7, <2>2 DEF ExtractFile, Does, TypeOK, Proc
    <3> QED
      BY <2>2, <3>1 DEF TypeOK, WholeInv, Alone, StageFilled, FolderWhole, Past, Of
  <2> QED
    BY <1>7, <2>1, <2>2 DEF ExtractFile
<1>8. ASSUME NEW f \in Files, CopyFile(l, f) PROVE WholeInv'
  <2>1. CASE overlapped
    BY <1>8, <2>1 DEF CopyFile, WholeInv
  <2>2. CASE ~overlapped
    <3>1. stage[f] = proc[l].target /\ stage[f] # 0
      BY <1>0, <1>8, <2>2, LauncherAssumption DEF CopyFile, WholeInv, StageFilled, Proc
    <3>2. /\ \A m \in Launchers \ {l} : proc'[m] = proc[m]
          /\ proc'[l].at = "copy" /\ At(l) = "copy"
          /\ proc'[l].done = proc[l].done \cup {f} /\ proc'[l].target = proc[l].target
          /\ UNCHANGED <<stage, overlapped, disturbed>>
      BY <1>0, <1>8, <3>1 DEF CopyFile, Does, TypeOK, Proc
    <3>3. root' = [root EXCEPT ![f] = Of(proc[l].target, f)]
      BY <1>8, <3>1 DEF CopyFile, Copied, Of
    <3>4. Alone' /\ StageFilled'
      BY <2>2, <3>2 DEF WholeInv, Alone, StageFilled, Past
    <3>5. ASSUME ~disturbed PROVE FolderWhole'
      <4>1. PICK v \in Versions : \A g \in Files :
              root[g] = Of(IF g \in proc[l].done THEN proc[l].target ELSE v, g)
        BY <2>2, <3>2, <3>5 DEF WholeInv, FolderWhole
      <4>2. \A g \in Files : root'[g] = Of(IF g \in proc'[l].done THEN proc[l].target ELSE v, g)
        BY <3>2, <3>3, <4>1 DEF TypeOK
      <4>3. \A m \in Launchers : proc'[m].at = "copy" => m = l
        BY <2>2, <3>2 DEF WholeInv, Alone, Past
      <4> QED
        BY <3>2, <4>2, <4>3 DEF FolderWhole, Of
    <3> QED
      BY <3>4, <3>5, <3>2 DEF WholeInv
  <2> QED
    BY <2>1, <2>2
<1>9. CASE SpawnHelper(l)
  <2>1. /\ \A m \in Launchers \ {l} : proc'[m] = proc[m]
        /\ proc'[l].at = "copy" /\ At(l) = "extract" /\ proc[l].done = Files
        /\ proc'[l].done = {} /\ proc'[l].target = proc[l].target
        /\ UNCHANGED <<root, stage, overlapped, disturbed>>
    BY <1>0, <1>9 DEF SpawnHelper, Moves, TypeOK, Proc
  <2>2. ~overlapped => \A m \in Launchers : At(m) # "copy"
    BY <2>1 DEF WholeInv, Alone, Past
  <2> QED
    BY <2>1, <2>2 DEF WholeInv, Alone, StageFilled, FolderWhole, Past, Of
<1>10. CASE Relaunch(l)
  <2>1. /\ \A m \in Launchers \ {l} : proc'[m] = proc[m]
        /\ proc'[l].at = "keys" /\ At(l) = "copy" /\ proc[l].done = Files
        /\ UNCHANGED <<root, stage, overlapped, disturbed>>
    BY <1>0, <1>10 DEF Relaunch, Fresh, TypeOK
  <2>2. proc[l].target \in Versions
    BY <1>0 DEF Proc
  <2>3. ~overlapped /\ ~disturbed => \A f \in Files : root[f] = Of(proc[l].target, f)
    BY <2>1 DEF WholeInv, FolderWhole
  <2>4. ~overlapped => \A m \in Launchers : proc'[m].at # "copy"
    BY <2>1 DEF WholeInv, Alone, Past
  <2>5. ~overlapped /\ ~disturbed => FolderWhole'
    BY <2>1, <2>2, <2>3, <2>4 DEF FolderWhole, Of
  <2>6. ~overlapped => Alone' /\ StageFilled'
    BY <2>1 DEF WholeInv, Alone, StageFilled, Past
  <2> QED
    BY <2>1, <2>5, <2>6 DEF WholeInv
<1>11. CASE Killed(l)
  <2>1. /\ \A m \in Launchers \ {l} : proc'[m] = proc[m]
        /\ proc'[l].at = "off" /\ UNCHANGED <<root, stage, overlapped>>
        /\ (~disturbed' => ~disturbed /\ At(l) # "copy")
    BY <1>0, <1>11 DEF Killed, Ends, Goes, Fresh, TypeOK
  <2>2. CASE UNCHANGED disturbed /\ At(l) # "copy"
    BY <2>1, <2>2, LeavesAlone DEF Past
  <2>3. CASE disturbed'
    BY <2>1, <2>3 DEF WholeInv, Alone, StageFilled, Past
  <2>4. ~disturbed' => disturbed' = disturbed
    <3>1. disturbed \in BOOLEAN /\ disturbed' \in BOOLEAN
      BY <1>11, Zenon DEF Killed, TypeOK
    <3>2. ~disturbed' => ~disturbed
      BY <2>1
    <3> QED
      BY <3>1, <3>2, Zenon
  <2> QED
    BY <2>1, <2>2, <2>3, <2>4
<1>12. CASE Steps(l)
  BY <1>1, <1>3, <1>4, <1>5, <1>6, <1>7, <1>8, <1>9, <1>10, <1>12 DEF Steps
<1> QED
  BY <1>1, <1>11, <1>12

\* An update replaces all files of the launcher or none, unless its helper was
\* stopped or two launchers updated at a time.
THEOREM WholeCorrect == Spec => []UpdateIsWhole
<1>1. Init => WholeInv
  <2> SUFFICES ASSUME Init PROVE WholeInv
    OBVIOUS
  <2>1. \A l \in Launchers : At(l) = "off"
    BY DEF Init, At, Fresh
  <2>2. 1 \in Versions /\ Inside[1] = 1
    BY LauncherAssumption
  <2>3. \A f \in Files : root[f] = Of(1, f)
    BY <2>2 DEF Init, Of
  <2> QED
    BY <2>1, <2>2, <2>3 DEF WholeInv, Alone, StageFilled, FolderWhole, Past
<1>2. TypeOK /\ WholeInv /\ [Next]_vars => WholeInv'
  <2> SUFFICES ASSUME TypeOK, WholeInv, [Next]_vars PROVE WholeInv'
    OBVIOUS
  <2>1. CASE Rotate \/ PersistKeyring \/ Restart \/ ReplaceKey \/ PublishPack \/ RevokeLauncher
             \/ \E v \in Versions : PublishLauncher(v)
    <3>1. UNCHANGED <<folder, proc, history>>
      BY <2>1, Zenon DEF Rotate, PersistKeyring, Restart, ReplaceKey, PublishPack, RevokeLauncher,
         PublishLauncher
    <3> QED
      BY <3>1, WholeKept DEF folder, files, history
  <2>2. CASE UNCHANGED vars
    BY <2>2, WholeKept DEF vars, folder, files, history
  <2> QED
    BY <2>1, <2>2, WholeByLauncher DEF Next
<1>3. WholeInv => UpdateIsWhole
  BY DEF WholeInv, FolderWhole, UpdateIsWhole, Of
<1> QED
  BY <1>1, <1>2, <1>3, LauncherIsTyped, PTL DEF Spec


(***************************************************************************)
(* How releases are delivered: the edge, which serves the launcher's       *)
(* channels and the packs, and what game servers are told.                 *)
(***************************************************************************)
CONSTANTS Instances, Packs, Channels, Servers, None, MaxChanges, FirstServers
VARIABLES row, copy, purging, edge, fetching, polling, told, held, building, changes

Hub == INSTANCE Delivery

\* A mutation to a stored state keeps the types of the store.
LEMMA HubMutates ==
  ASSUME Hub!TypeOK, NEW i \in Instances, NEW r \in Hub!Row, Hub!Mutate(i, r)
  PROVE  row' \in Hub!Row /\ copy' \in [Instances -> Hub!Row]
BY DEF Hub!TypeOK, Hub!Mutate

\* A stored state with other releases.
LEMMA HubFields ==
  ASSUME NEW r \in Hub!Row
  PROVE  /\ \A x \in [Hub!Numbers -> Hub!Feeds \cup {None}] : [r EXCEPT !.feed = x] \in Hub!Row
         /\ \A x \in [Hub!Feeds -> 0..MaxChanges] : [r EXCEPT !.latest = x] \in Hub!Row
         /\ \A x \in SUBSET Hub!Numbers : [r EXCEPT !.revoked = x] \in Hub!Row
BY DEF Hub!Row

\* What operators do with releases keeps the types.
LEMMA OperateTyped ==
  ASSUME Hub!DeliveryAssumption, Hub!TypeOK, NEW i \in Instances, Hub!Operate(i)
  PROVE  Hub!TypeOK'
<1> USE DEF Hub!DeliveryAssumption
<1>0. row \in Hub!Row /\ MaxChanges \in Nat /\ changes \in 0..MaxChanges
  BY DEF Hub!TypeOK
<1>1. Hub!Change => changes + 1 \in Hub!Numbers /\ changes' \in 0..MaxChanges
  BY <1>0 DEF Hub!Change, Hub!Numbers
<1>2. ASSUME NEW r \in Hub!Row, Hub!Mutate(i, r), Hub!Change, purging' \subseteq Hub!Feeds,
             UNCHANGED <<edge, fetching, polling, told, held, building>>
      PROVE  Hub!TypeOK'
  <2>1. row' \in Hub!Row /\ copy' \in [Instances -> Hub!Row]
    BY <1>2, HubMutates
  <2> QED
    BY <1>1, <1>2, <2>1 DEF Hub!TypeOK
<1>3. ASSUME NEW f \in Hub!Feeds, NEW n \in Hub!Numbers PROVE Hub!Published(row, f, n) \in Hub!Row
  <2>1. [row.feed EXCEPT ![n] = f] \in [Hub!Numbers -> Hub!Feeds \cup {None}]
    BY <1>0 DEF Hub!Row
  <2>2. [row.latest EXCEPT ![f] = n] \in [Hub!Feeds -> 0..MaxChanges]
    BY <1>0 DEF Hub!Row, Hub!Numbers
  <2> DEFINE r == [row EXCEPT !.feed = [row.feed EXCEPT ![n] = f]]
  <2>3. r \in Hub!Row /\ r.latest = row.latest
    BY <1>0, <2>1, HubFields DEF Hub!Row
  <2>4. Hub!Published(row, f, n) = [r EXCEPT !.latest = [row.latest EXCEPT ![f] = n]]
    BY <1>0 DEF Hub!Published, Hub!Row
  <2> HIDE DEF r
  <2> QED
    BY <2>2, <2>3, <2>4, HubFields
<1>4. ASSUME NEW n \in Hub!Numbers PROVE [row EXCEPT !.revoked = @ \cup {n}] \in Hub!Row
  BY <1>0 DEF Hub!Row
<1>5. purging \subseteq Hub!Feeds
  BY DEF Hub!TypeOK
<1>6. ASSUME NEW p \in Packs, Hub!PublishPack(i, p) PROVE Hub!TypeOK'
  <2>1. Hub!Published(row, p, changes + 1) \in Hub!Row
    BY <1>1, <1>3, <1>6 DEF Hub!PublishPack, Hub!Feeds
  <2> QED
    BY <1>2, <1>5, <1>6, <2>1 DEF Hub!PublishPack, Hub!outside
<1>7. ASSUME NEW c \in Channels, Hub!PublishLauncher(i, c) PROVE Hub!TypeOK'
  <2>1. Hub!Published(row, c, changes + 1) \in Hub!Row
    BY <1>1, <1>3, <1>7 DEF Hub!PublishLauncher, Hub!Feeds
  <2> QED
    BY <1>2, <1>5, <1>7, <2>1 DEF Hub!PublishLauncher, Hub!Feeds
<1>8. ASSUME NEW c \in Channels, Hub!RevokeLauncher(i, c) PROVE Hub!TypeOK'
  <2>1. row.latest[c] \in Hub!Numbers
    BY <1>0, <1>8 DEF Hub!RevokeLauncher, Hub!Row, Hub!Feeds, Hub!Numbers
  <2>2. [row EXCEPT !.revoked = @ \cup {row.latest[c]}] \in Hub!Row
    BY <1>4, <2>1
  <2> QED
    BY <1>2, <1>5, <1>8, <2>2 DEF Hub!RevokeLauncher, Hub!Feeds
<1>9. ASSUME NEW n \in Hub!Numbers, Hub!RevokePack(i, n) PROVE Hub!TypeOK'
  <2>1. [row EXCEPT !.revoked = @ \cup {n}] \in Hub!Row
    BY <1>4
  <2>2. purging' \subseteq Hub!Feeds
    BY <1>5, <1>9 DEF Hub!RevokePack, Hub!Feeds
  <2> QED
    BY <1>2, <1>9, <2>1, <2>2 DEF Hub!RevokePack
<1>10. ASSUME NEW n \in Hub!Numbers, Hub!Rollback(i, n) PROVE Hub!TypeOK'
  <2>1. [row EXCEPT !.latest[row.feed[n]] = n] \in Hub!Row
    <3>1. [row.latest EXCEPT ![row.feed[n]] = n] \in [Hub!Feeds -> 0..MaxChanges]
      <4> DEFINE p == row.feed[n]
      <4>1. p \in Hub!Feeds
        BY <1>10 DEF Hub!Rollback, Hub!Feeds
      <4>2. n \in 0..MaxChanges /\ row.latest \in [Hub!Feeds -> 0..MaxChanges]
        BY <1>0 DEF Hub!Row, Hub!Numbers
      <4> HIDE DEF p
      <4>3. [row.latest EXCEPT ![p] = n] \in [Hub!Feeds -> 0..MaxChanges]
        BY <4>1, <4>2
      <4> QED
        BY <4>3 DEF p
    <3>2. [row EXCEPT !.latest[row.feed[n]] = n] = [row EXCEPT !.latest = [row.latest EXCEPT ![row.feed[n]] = n]]
      OBVIOUS
    <3> QED
      BY <1>0, <3>1, <3>2, HubFields
  <2> QED
    BY <1>2, <1>5, <1>10, <2>1 DEF Hub!Rollback, Hub!outside
<1>11. ASSUME NEW paused \in BOOLEAN, Hub!Pause(i, paused) PROVE Hub!TypeOK'
  <2>1. [row EXCEPT !.paused = paused] \in Hub!Row
    BY <1>0 DEF Hub!Row
  <2> QED
    BY <1>2, <1>5, <1>11, <2>1 DEF Hub!Pause, Hub!outside
<1> QED
  BY <1>6, <1>7, <1>8, <1>9, <1>10, <1>11 DEF Hub!Operate

\* So does what owners do with servers, and the status that servers report.
LEMMA RegisterTyped ==
  ASSUME Hub!DeliveryAssumption, Hub!TypeOK, NEW i \in Instances, NEW s \in Servers, Hub!Register(i, s)
  PROVE  Hub!TypeOK'
<1> USE DEF Hub!DeliveryAssumption
<1>0. row \in Hub!Row /\ MaxChanges \in Nat /\ changes \in 0..MaxChanges
  BY DEF Hub!TypeOK
<1>1. Hub!Change => changes + 1 \in 0..MaxChanges /\ changes' \in 0..MaxChanges
  BY <1>0 DEF Hub!Change
<1>2. ASSUME NEW server \in Hub!Server \cup {None}, Hub!Edited(i, s, server), Hub!Change,
             held' \in [Servers -> 0..MaxChanges], building' \in [Servers -> 0..MaxChanges],
             UNCHANGED <<purging, edge, fetching, polling, told>>
      PROVE  Hub!TypeOK'
  <2>1. [row EXCEPT !.servers[s] = server] \in Hub!Row
    BY <1>0 DEF Hub!Row
  <2>2. row' \in Hub!Row /\ copy' \in [Instances -> Hub!Row]
    BY <1>2, <2>1, HubMutates DEF Hub!Edited
  <2> QED
    BY <1>1, <1>2, <2>2 DEF Hub!TypeOK
<1>3. held \in [Servers -> 0..MaxChanges] /\ building \in [Servers -> 0..MaxChanges]
  BY DEF Hub!TypeOK
<1>4. row.servers[s] # None => row.servers[s] \in Hub!Server
  BY <1>0 DEF Hub!Row
<1>5. ASSUME NEW p \in Packs, Hub!CreateServer(i, s, p) PROVE Hub!TypeOK'
  <2>1. [pack |-> p, token |-> changes + 1, restart |-> FALSE] \in Hub!Server
    BY <1>1, <1>5 DEF Hub!CreateServer, Hub!Server
  <2>2. held' \in [Servers -> 0..MaxChanges]
    BY <1>1, <1>3, <1>5 DEF Hub!CreateServer
  <2> QED
    BY <1>2, <1>3, <1>5, <2>1, <2>2 DEF Hub!CreateServer
<1>6. ASSUME NEW p \in Packs, Hub!PatchServer(i, s, p) PROVE Hub!TypeOK'
  <2>1. [row.servers[s] EXCEPT !.pack = p] \in Hub!Server
    BY <1>4, <1>6 DEF Hub!PatchServer, Hub!Owned, Hub!Server
  <2> QED
    BY <1>2, <1>3, <1>6, <2>1 DEF Hub!PatchServer, Hub!outside
<1>7. CASE Hub!DeleteServer(i, s)
  BY <1>2, <1>3, <1>7 DEF Hub!DeleteServer, Hub!outside
<1>8. CASE Hub!ResetToken(i, s)
  <2>1. [row.servers[s] EXCEPT !.token = changes + 1] \in Hub!Server
    BY <1>1, <1>4, <1>8 DEF Hub!ResetToken, Hub!Owned, Hub!Server
  <2>2. held' \in [Servers -> 0..MaxChanges]
    BY <1>1, <1>3, <1>8 DEF Hub!ResetToken
  <2> QED
    BY <1>2, <1>3, <1>8, <2>1, <2>2 DEF Hub!ResetToken
<1>9. CASE Hub!Bundle(i, s)
  <2>1. [row.servers[s] EXCEPT !.token = changes + 1] \in Hub!Server
    BY <1>1, <1>4, <1>9 DEF Hub!Bundle, Hub!Owned, Hub!Server
  <2>2. building' \in [Servers -> 0..MaxChanges]
    BY <1>1, <1>3, <1>9 DEF Hub!Bundle
  <2> QED
    BY <1>2, <1>3, <1>9, <2>1, <2>2 DEF Hub!Bundle
<1>10. ASSUME NEW restart \in BOOLEAN, Hub!SyncStatus(i, s, restart) PROVE Hub!TypeOK'
  <2>1. [row.servers[s] EXCEPT !.restart = restart] \in Hub!Server
    BY <1>4, <1>10 DEF Hub!SyncStatus, Hub!Server
  <2> QED
    BY <1>2, <1>3, <1>10, <2>1 DEF Hub!SyncStatus, Hub!outside
<1> QED
  BY <1>5, <1>6, <1>7, <1>8, <1>9, <1>10 DEF Hub!Register

\* What a stored state serves, and tells a server, is well typed.
LEMMA ServedTyped ==
  ASSUME Hub!DeliveryAssumption, NEW c \in Hub!Row
  PROVE  /\ \A f \in Hub!Feeds : Hub!Served(c, f) \in 0..MaxChanges
         /\ \A s \in Servers : c.servers[s] # None => Hub!Assignment(c, s) \in Hub!Answer
<1>0. MaxChanges \in Nat /\ \A f \in Hub!Feeds : c.latest[f] \in 0..MaxChanges
  BY DEF Hub!DeliveryAssumption, Hub!Row
<1>1. \A f \in Hub!Feeds : Hub!Active(c, f) \in 0..MaxChanges
  BY <1>0 DEF Hub!Active
<1>2. \A f \in Hub!Feeds : Hub!Served(c, f) \in 0..MaxChanges
  BY <1>0, <1>1 DEF Hub!Served
<1>3. ASSUME NEW s \in Servers, c.servers[s] # None PROVE Hub!Assignment(c, s) \in Hub!Answer
  <2>1. c.servers[s] \in Hub!Server
    BY <1>3 DEF Hub!Row
  <2>2. Hub!Active(c, c.servers[s].pack) \in 0..MaxChanges
    BY <1>1, <2>1 DEF Hub!Server, Hub!Feeds
  <2>3. c.paused \in BOOLEAN /\ c.servers[s].restart \in BOOLEAN
    BY <2>1 DEF Hub!Row, Hub!Server
  <2> QED
    BY <2>2, <2>3 DEF Hub!Assignment, Hub!Answer
<1> QED
  BY <1>2, <1>3

\* And so do the answers, to readers and to servers.
LEMMA AnswersTyped ==
  ASSUME Hub!DeliveryAssumption, Hub!TypeOK,
         \/ \E i \in Instances : \/ \E s \in Servers : Hub!PollRead(i, s)
                                 \/ \E f \in Hub!Feeds : Hub!EdgeFetch(i, f)
         \/ \E f \in Hub!Feeds : Hub!Edge(f)
         \/ \E s \in Servers : Hub!PollAnswer(s) \/ \E delivered \in BOOLEAN : Hub!BundleEnds(s, delivered)
  PROVE  Hub!TypeOK'
<1>0. MaxChanges \in Nat /\ 0 \in 0..MaxChanges
  BY DEF Hub!DeliveryAssumption
<1>1. ASSUME NEW i \in Instances, NEW s \in Servers, Hub!PollRead(i, s) PROVE Hub!TypeOK'
  <2>1. Hub!Assignment(copy[i], s) \in Hub!Answer
    BY <1>1, ServedTyped DEF Hub!TypeOK, Hub!PollRead, Hub!Credential
  <2> QED
    BY <1>1, <2>1 DEF Hub!TypeOK, Hub!PollRead
<1>2. ASSUME NEW i \in Instances, NEW f \in Hub!Feeds, Hub!EdgeFetch(i, f) PROVE Hub!TypeOK'
  <2>1. Hub!Served(copy[i], f) \in 0..MaxChanges
    BY ServedTyped DEF Hub!TypeOK
  <2> QED
    BY <1>2, <2>1 DEF Hub!TypeOK, Hub!EdgeFetch
<1>3. ASSUME NEW f \in Hub!Feeds, Hub!EdgeFill(f) PROVE Hub!TypeOK'
  BY <1>0, <1>3 DEF Hub!TypeOK, Hub!EdgeFill
<1>4. ASSUME NEW f \in Hub!Feeds, Hub!EdgeExpire(f) PROVE Hub!TypeOK'
  BY <1>0, <1>4 DEF Hub!TypeOK, Hub!EdgeExpire
<1>5. ASSUME NEW f \in Hub!Feeds, NEW works \in BOOLEAN, Hub!Purge(f, works) PROVE Hub!TypeOK'
  BY <1>0, <1>5 DEF Hub!TypeOK, Hub!Purge
<1>6. ASSUME NEW s \in Servers, Hub!PollAnswer(s) PROVE Hub!TypeOK'
  <2>1. polling[s].instance \in Instances /\ polling[s].answer \in Hub!Answer
    BY <1>6 DEF Hub!TypeOK, Hub!PollAnswer
  <2>2. polling' \in [Servers -> [instance : Instances, answer : Hub!Answer] \cup {None}]
    BY <1>6 DEF Hub!TypeOK, Hub!PollAnswer
  <2>3. row' \in Hub!Row /\ copy' \in [Instances -> Hub!Row] /\ told' \in [Servers -> Hub!Answer \cup {None}]
    BY <1>6, <2>1 DEF Hub!TypeOK, Hub!PollAnswer, Hub!Mutate
  <2> QED
    BY <1>6, <2>2, <2>3 DEF Hub!TypeOK, Hub!PollAnswer
<1>7. ASSUME NEW s \in Servers, NEW delivered \in BOOLEAN, Hub!BundleEnds(s, delivered) PROVE Hub!TypeOK'
  BY <1>0, <1>7 DEF Hub!TypeOK, Hub!BundleEnds
<1> QED
  BY <1>1, <1>2, <1>3, <1>4, <1>5, <1>6, <1>7 DEF Hub!Edge

\* Every step keeps the types.
LEMMA HubStep == Hub!DeliveryAssumption /\ Hub!TypeOK /\ [Hub!Next]_(Hub!vars) => Hub!TypeOK'
<1> SUFFICES ASSUME Hub!DeliveryAssumption, Hub!TypeOK, [Hub!Next]_(Hub!vars) PROVE Hub!TypeOK'
  OBVIOUS
<1>1. CASE UNCHANGED Hub!vars
  BY <1>1 DEF Hub!TypeOK, Hub!vars
<1> QED
  BY Zenon, <1>1, OperateTyped, RegisterTyped, AnswersTyped DEF Hub!Next

\* A new platform with its first servers is well typed.
LEMMA HubInit == Hub!DeliveryAssumption /\ Hub!Init => Hub!TypeOK
<1> SUFFICES ASSUME Hub!DeliveryAssumption, Hub!Init PROVE Hub!TypeOK
  OBVIOUS
<1>0. MaxChanges \in Nat /\ 0 \in 0..MaxChanges
  BY DEF Hub!DeliveryAssumption
<1> DEFINE first == [s \in Servers |-> IF FirstServers[s] = None THEN None
                                       ELSE [pack |-> FirstServers[s], token |-> 0, restart |-> FALSE]]
<1>1. first \in [Servers -> Hub!Server \cup {None}]
  BY <1>0 DEF Hub!DeliveryAssumption, Hub!Server
<1> HIDE DEF first
<1>2. row = [feed |-> [n \in Hub!Numbers |-> None], latest |-> [f \in Hub!Feeds |-> 0],
             revoked |-> {}, paused |-> FALSE, servers |-> first]
  BY DEF Hub!Init, first
<1>3. row \in Hub!Row
  BY <1>0, <1>1, <1>2 DEF Hub!Row
<1>4. copy \in [Instances -> Hub!Row]
  BY <1>3 DEF Hub!Init
<1> QED
  BY <1>0, <1>3, <1>4 DEF Hub!Init, Hub!TypeOK

\* The store, the edge and the servers are typed.
THEOREM DeliveryIsTyped ==
  ASSUME Hub!DeliveryAssumption
  PROVE  Hub!Init /\ [][Hub!Next]_(Hub!vars) => []Hub!TypeOK
<1>1. Hub!Init => Hub!TypeOK
  BY HubInit
<1>2. Hub!TypeOK /\ [Hub!Next]_(Hub!vars) => Hub!TypeOK'
  BY HubStep
<1> QED
  BY <1>1, <1>2, PTL

\* A release among the first k, 0 for none, of the feed; and one of a pack.
PublishedFor(r, k, n, f) == n # 0 => n <= k /\ r.feed[n] = f
PublishedPack(r, k, n) == n # 0 => n <= k /\ r.feed[n] \in Packs

\* Whatever is stored, copied, on its way or held for a feed was published for
\* it, and what servers are told for a pack.
Apart ==
  /\ \A n \in Hub!Numbers : row.feed[n] \in Packs => n <= changes
  /\ \A f \in Hub!Feeds :
       /\ PublishedFor(row, changes, row.latest[f], f)
       /\ \A i \in Instances : PublishedFor(row, changes, copy[i].latest[f], f)
       /\ PublishedFor(row, changes, edge[f], f) /\ PublishedFor(row, changes, fetching[f], f)
  /\ \A s \in Servers :
       /\ polling[s] # None => PublishedPack(row, changes, polling[s].answer.release)
       /\ told[s] # None => PublishedPack(row, changes, told[s].release)

\* Releases are added to the store only.
Adds ==
  /\ changes' \in Nat /\ changes <= changes'
  /\ \A n \in 1..changes : row'.feed[n] = row.feed[n]
  /\ \A n \in Hub!Numbers : row'.feed[n] \in Packs => n <= changes'
  /\ \A f \in Hub!Feeds : PublishedFor(row', changes', row'.latest[f], f)
  /\ \A i \in Instances : copy'[i] = copy[i] \/ copy'[i] = row'

\* What is on its way comes from a copy, and what arrives was on its way.
Passes ==
  /\ \A f \in Hub!Feeds :
       /\ edge'[f] \in {0, edge[f], fetching[f]}
       /\ fetching'[f] \in {0, fetching[f]} \/ \E i \in Instances : fetching'[f] = Hub!Served(copy[i], f)
  /\ \A s \in Servers :
       /\ \/ polling'[s] \in {None, polling[s]}
          \/ \E i \in Instances : copy[i].servers[s] # None /\ polling'[s].answer = Hub!Assignment(copy[i], s)
       /\ told'[s] = told[s] \/ (polling[s] # None /\ told'[s] = polling[s].answer)

\* What a copy serves was published for the feed.
LEMMA ServedApart ==
  ASSUME Hub!DeliveryAssumption, Hub!TypeOK, Apart, NEW i \in Instances
  PROVE  /\ \A f \in Hub!Feeds : PublishedFor(row, changes, Hub!Served(copy[i], f), f)
         /\ \A s \in Servers : copy[i].servers[s] # None =>
              PublishedPack(row, changes, Hub!Assignment(copy[i], s).release)
<1>1. \A f \in Hub!Feeds : PublishedFor(row, changes, Hub!Active(copy[i], f), f)
  BY DEF Apart, Hub!Active, PublishedFor
<1>2. \A f \in Hub!Feeds : PublishedFor(row, changes, Hub!Served(copy[i], f), f)
  BY <1>1 DEF Hub!Served, PublishedFor
<1>3. ASSUME NEW s \in Servers, copy[i].servers[s] # None
      PROVE  PublishedPack(row, changes, Hub!Assignment(copy[i], s).release)
  <2>1. copy[i].servers[s].pack \in Packs
    BY <1>3 DEF Hub!TypeOK, Hub!Row, Hub!Server
  <2>2. PublishedFor(row, changes, Hub!Active(copy[i], copy[i].servers[s].pack), copy[i].servers[s].pack)
    BY <1>1, <2>1 DEF Hub!Feeds
  <2> QED
    BY <2>1, <2>2 DEF Hub!Assignment, PublishedFor, PublishedPack
<1> QED
  BY <1>2, <1>3

\* A release stays what it was published for.
LEMMA PublishedStays ==
  ASSUME NEW k \in Nat, NEW l \in Nat, k <= l, NEW r, NEW t, \A n \in 1..k : t.feed[n] = r.feed[n],
         NEW n \in Nat
  PROVE  /\ \A f : PublishedFor(r, k, n, f) => PublishedFor(t, l, n, f)
         /\ PublishedPack(r, k, n) => PublishedPack(t, l, n)
BY DEF PublishedFor, PublishedPack

\* Nothing else is needed.
LEMMA ApartKept ==
  ASSUME Hub!DeliveryAssumption, Hub!TypeOK, Apart, Adds, Passes
  PROVE  Apart'
<1>0. changes \in Nat /\ changes' \in Nat /\ changes <= changes'
      /\ \A n \in 1..changes : row'.feed[n] = row.feed[n]
  BY DEF Hub!DeliveryAssumption, Hub!TypeOK, Adds
<1>1. ASSUME NEW n \in Nat
      PROVE  /\ \A f : PublishedFor(row, changes, n, f) => PublishedFor(row', changes', n, f)
             /\ PublishedPack(row, changes, n) => PublishedPack(row', changes', n)
  BY <1>0, PublishedStays
<1>2. /\ \A f \in Hub!Feeds : \A i \in Instances : copy[i].latest[f] \in Nat
      /\ \A f \in Hub!Feeds : \A i \in Instances : Hub!Served(copy[i], f) \in Nat
      /\ \A f \in Hub!Feeds : edge[f] \in Nat /\ fetching[f] \in Nat
  BY ServedTyped, SMTT(30) DEF Hub!DeliveryAssumption, Hub!TypeOK, Hub!Row
<1>3. ASSUME NEW a \in Hub!Answer, PublishedPack(row, changes, a.release)
      PROVE  PublishedPack(row', changes', a.release)
  <2>1. a.release \in Nat
    BY DEF Hub!DeliveryAssumption, Hub!Answer
  <2> QED
    BY <1>1, <1>3, <2>1
<1>4. PublishedFor(row', changes', 0, 0) /\ \A f : PublishedFor(row', changes', 0, f)
  BY DEF PublishedFor
<1>5. ASSUME NEW f \in Hub!Feeds, NEW i \in Instances PROVE PublishedFor(row', changes', copy'[i].latest[f], f)
  <2>1. CASE copy'[i] = row'
    BY <2>1 DEF Adds
  <2>2. CASE copy'[i] = copy[i]
    BY <1>1, <1>2, <2>2 DEF Apart
  <2> QED
    BY <2>1, <2>2 DEF Adds
<1>6. ASSUME NEW f \in Hub!Feeds
      PROVE  PublishedFor(row', changes', edge'[f], f) /\ PublishedFor(row', changes', fetching'[f], f)
  <2>1. PublishedFor(row', changes', edge[f], f) /\ PublishedFor(row', changes', fetching[f], f)
    BY <1>1, <1>2 DEF Apart
  <2>2. \A i \in Instances : PublishedFor(row', changes', Hub!Served(copy[i], f), f)
    BY <1>1, <1>2, ServedApart
  <2>3. /\ edge'[f] \in {0, edge[f], fetching[f]}
        /\ fetching'[f] \in {0, fetching[f]} \/ \E i \in Instances : fetching'[f] = Hub!Served(copy[i], f)
    BY DEF Passes
  <2> QED
    BY <1>4, <2>1, <2>2, <2>3
<1>7. ASSUME NEW s \in Servers, polling[s] # None PROVE PublishedPack(row', changes', polling[s].answer.release)
  BY <1>3, <1>7 DEF Apart, Hub!TypeOK
<1>8. ASSUME NEW s \in Servers, polling'[s] # None PROVE PublishedPack(row', changes', polling'[s].answer.release)
  <2>1. CASE polling'[s] = polling[s]
    BY <1>7, <1>8, <2>1
  <2>2. ASSUME NEW i \in Instances, copy[i].servers[s] # None, polling'[s].answer = Hub!Assignment(copy[i], s)
        PROVE  PublishedPack(row', changes', polling'[s].answer.release)
    <3>1. Hub!Assignment(copy[i], s) \in Hub!Answer /\ PublishedPack(row, changes, Hub!Assignment(copy[i], s).release)
      BY <2>2, ServedTyped, ServedApart DEF Hub!TypeOK
    <3> QED
      BY <1>3, <2>2, <3>1
  <2> QED
    BY <1>8, <2>1, <2>2 DEF Passes
<1>9. ASSUME NEW s \in Servers, told'[s] # None PROVE PublishedPack(row', changes', told'[s].release)
  <2>1. CASE told'[s] = told[s]
    <3>1. told[s] \in Hub!Answer /\ PublishedPack(row, changes, told[s].release)
      BY <1>9, <2>1 DEF Apart, Hub!TypeOK
    <3> QED
      BY <1>3, <2>1, <3>1
  <2>2. CASE polling[s] # None /\ told'[s] = polling[s].answer
    BY <1>7, <2>2
  <2> QED
    BY <2>1, <2>2 DEF Passes
<1>10. /\ \A n \in Hub!Numbers : row'.feed[n] \in Packs => n <= changes'
       /\ \A f \in Hub!Feeds : PublishedFor(row', changes', row'.latest[f], f)
  BY DEF Adds
<1> QED
  BY <1>5, <1>6, <1>8, <1>9, <1>10 DEF Apart

\* Where nothing is on its way, nothing arrives.
LEMMA NothingPasses == UNCHANGED <<edge, fetching, polling, told>> => Passes
BY DEF Passes

\* A mutation that leaves the releases as they are adds none.
LEMMA SameReleases ==
  ASSUME Hub!DeliveryAssumption, Hub!TypeOK, Apart, NEW i \in Instances, NEW r, Hub!Mutate(i, r),
         r.feed = row.feed, r.latest = row.latest, changes' \in Nat, changes <= changes'
  PROVE  Adds
<1>1. changes \in Nat /\ row' = r /\ \A j \in Instances : copy'[j] = copy[j] \/ copy'[j] = r
  BY DEF Hub!DeliveryAssumption, Hub!TypeOK, Hub!Mutate
<1>2. \A n \in Hub!Numbers : row.feed[n] \in Packs => n <= changes'
  BY <1>1 DEF Apart, Hub!DeliveryAssumption, Hub!Numbers
<1>3. ASSUME NEW f \in Hub!Feeds PROVE PublishedFor(row', changes', row.latest[f], f)
  <2>1. row.latest[f] \in Nat /\ PublishedFor(row, changes, row.latest[f], f)
    BY DEF Apart, Hub!DeliveryAssumption, Hub!TypeOK, Hub!Row
  <2> DEFINE n == row.latest[f]
  <2> HIDE DEF n
  <2>2. n \in Nat /\ PublishedFor(row, changes, n, f)
    BY <2>1 DEF n
  <2>3. PublishedFor(row', changes', n, f)
    BY <1>1, <2>2 DEF PublishedFor
  <2> QED
    BY <2>3 DEF n
<1> QED
  BY <1>1, <1>2, <1>3 DEF Adds

\* A new release gets the next number, of no other feed.
LEMMA NewRelease ==
  ASSUME Hub!DeliveryAssumption, Hub!TypeOK, Apart, NEW i \in Instances, NEW f \in Hub!Feeds,
         Hub!Change, Hub!Mutate(i, Hub!Published(row, f, changes + 1))
  PROVE  Adds
<1> DEFINE k == changes + 1
<1>1. changes \in Nat /\ k \in Hub!Numbers /\ changes' = k /\ MaxChanges \in Nat
  BY DEF Hub!DeliveryAssumption, Hub!TypeOK, Hub!Change, Hub!Numbers
<1>2. row' = Hub!Published(row, f, k) /\ \A j \in Instances : copy'[j] = copy[j] \/ copy'[j] = row'
  BY DEF Hub!TypeOK, Hub!Mutate
<1> HIDE DEF k
<1>3. row \in Hub!Row
  BY DEF Hub!TypeOK
<1>4. row'.feed = [row.feed EXCEPT ![k] = f] /\ row'.latest = [row.latest EXCEPT ![f] = k]
  BY <1>2, <1>3 DEF Hub!Published, Hub!Row
<1>5. /\ \A n \in Hub!Numbers : row'.feed[n] = IF n = k THEN f ELSE row.feed[n]
      /\ \A g \in Hub!Feeds : row'.latest[g] = IF g = f THEN k ELSE row.latest[g]
  BY <1>3, <1>4 DEF Hub!Row
<1>6. \A n \in 1..changes : n \in Hub!Numbers /\ n < k
  BY <1>1 DEF Hub!Numbers, k
<1>7. \A n \in 1..changes : row'.feed[n] = row.feed[n]
  BY <1>1, <1>5, <1>6 DEF Hub!Numbers
<1>8. changes <= k /\ k \in Nat /\ k # 0
  BY <1>1 DEF k
<1>9. \A n \in Hub!Numbers : row'.feed[n] \in Packs => n <= k
  BY <1>1, <1>5, <1>8 DEF Apart, Hub!Numbers
<1>10. ASSUME NEW g \in Hub!Feeds PROVE PublishedFor(row', k, row'.latest[g], g)
  <2>1. CASE g = f
    BY <1>1, <1>5, <1>8, <2>1 DEF PublishedFor
  <2>2. CASE g # f
    <3> DEFINE n == row.latest[g]
    <3>1. n \in Nat /\ PublishedFor(row, changes, n, g) /\ row'.latest[g] = n
      BY <1>1, <1>3, <1>5, <2>2 DEF Apart, Hub!Row
    <3> HIDE DEF n
    <3> QED
      BY <1>1, <1>7, <1>8, <3>1 DEF PublishedFor
  <2> QED
    BY <2>1, <2>2
<1> QED
  BY <1>1, <1>2, <1>7, <1>8, <1>9, <1>10 DEF Adds

\* What operators do keeps feeds apart.
LEMMA OperateApart ==
  ASSUME Hub!DeliveryAssumption, Hub!TypeOK, Apart, NEW i \in Instances, Hub!Operate(i)
  PROVE  Apart'
<1>0. row \in Hub!Row /\ changes \in Nat
  BY DEF Hub!DeliveryAssumption, Hub!TypeOK
<1>1. Hub!Change => changes' \in Nat /\ changes <= changes'
  BY <1>0 DEF Hub!Change
<1>2. ASSUME NEW r, Hub!Mutate(i, r), Hub!Change, r.feed = row.feed, r.latest = row.latest,
             UNCHANGED <<edge, fetching, polling, told>>
      PROVE  Apart'
  BY <1>1, <1>2, SameReleases, NothingPasses, ApartKept
<1>3. ASSUME NEW p \in Packs, Hub!PublishPack(i, p) PROVE Apart'
  <2>1. Adds
    BY <1>3, NewRelease DEF Hub!PublishPack, Hub!Feeds
  <2> QED
    BY <1>3, <2>1, NothingPasses, ApartKept DEF Hub!PublishPack, Hub!outside
<1>4. ASSUME NEW c \in Channels, Hub!PublishLauncher(i, c) PROVE Apart'
  <2>1. Adds
    BY <1>4, NewRelease DEF Hub!PublishLauncher, Hub!Feeds
  <2> QED
    BY <1>4, <2>1, NothingPasses, ApartKept DEF Hub!PublishLauncher
<1>5. ASSUME NEW c \in Channels, Hub!RevokeLauncher(i, c) PROVE Apart'
  <2> DEFINE r == [row EXCEPT !.revoked = @ \cup {row.latest[c]}]
  <2>1. r.feed = row.feed /\ r.latest = row.latest
    BY <1>0 DEF Hub!Row
  <2>2. Hub!Mutate(i, r) /\ Hub!Change /\ UNCHANGED <<edge, fetching, polling, told>>
    BY <1>5 DEF Hub!RevokeLauncher
  <2> HIDE DEF r
  <2> QED
    BY <1>2, <2>1, <2>2
<1>6. ASSUME NEW n \in Hub!Numbers, Hub!RevokePack(i, n) PROVE Apart'
  <2> DEFINE r == [row EXCEPT !.revoked = @ \cup {n}]
  <2>1. r.feed = row.feed /\ r.latest = row.latest
    BY <1>0 DEF Hub!Row
  <2>2. Hub!Mutate(i, r) /\ Hub!Change /\ UNCHANGED <<edge, fetching, polling, told>>
    BY <1>6 DEF Hub!RevokePack
  <2> HIDE DEF r
  <2> QED
    BY <1>2, <2>1, <2>2
<1>7. ASSUME NEW n \in Hub!Numbers, Hub!Rollback(i, n) PROVE Apart'
  <2> DEFINE r == [row EXCEPT !.latest[row.feed[n]] = n]
             p == row.feed[n]
  <2>1. p \in Packs /\ p \in Hub!Feeds /\ n <= changes
    BY <1>7 DEF Hub!Rollback, Apart, Hub!Feeds
  <2>2. r.feed = row.feed /\ r.latest = [row.latest EXCEPT ![p] = n]
    BY <1>0 DEF Hub!Row
  <2>3. Hub!Mutate(i, r) /\ Hub!Change /\ UNCHANGED <<edge, fetching, polling, told>>
    BY <1>7 DEF Hub!Rollback, Hub!outside
  <2>4. row' = r /\ \A j \in Instances : copy'[j] = copy[j] \/ copy'[j] = row'
    BY <2>3 DEF Hub!TypeOK, Hub!Mutate
  <2>5. row.feed[n] = p
    OBVIOUS
  <2> HIDE DEF r, p
  <2>6. \A f \in Hub!Feeds : r.latest[f] = IF f = p THEN n ELSE row.latest[f]
    BY <1>0, <2>2 DEF Hub!Row
  <2>7. ASSUME NEW f \in Hub!Feeds PROVE PublishedFor(row', changes', r.latest[f], f)
    <3>1. CASE f = p
      <4>1. n <= changes'
        BY <1>0, <1>1, <2>1, <2>3 DEF Hub!Numbers, Hub!DeliveryAssumption
      <4> QED
        BY <2>2, <2>4, <2>5, <2>6, <3>1, <4>1 DEF PublishedFor
    <3>2. CASE f # p
      <4> DEFINE l == row.latest[f]
      <4>1. l \in Nat /\ PublishedFor(row, changes, l, f) /\ r.latest[f] = l
        BY <1>0, <2>6, <3>2 DEF Apart, Hub!Row, Hub!DeliveryAssumption
      <4> HIDE DEF l
      <4> QED
        BY <1>0, <1>1, <2>2, <2>3, <2>4, <4>1 DEF PublishedFor
    <3> QED
      BY <3>1, <3>2
  <2>8. \A m \in Hub!Numbers : row.feed[m] \in Packs => m <= changes'
    BY <1>0, <1>1, <2>3 DEF Apart, Hub!Numbers, Hub!DeliveryAssumption
  <2>9. Adds
    BY <1>1, <2>2, <2>3, <2>4, <2>7, <2>8 DEF Adds
  <2> QED
    BY <2>3, <2>9, NothingPasses, ApartKept
<1>8. ASSUME NEW paused \in BOOLEAN, Hub!Pause(i, paused) PROVE Apart'
  <2> DEFINE r == [row EXCEPT !.paused = paused]
  <2>1. r.feed = row.feed /\ r.latest = row.latest
    BY <1>0 DEF Hub!Row
  <2>2. Hub!Mutate(i, r) /\ Hub!Change /\ UNCHANGED <<edge, fetching, polling, told>>
    BY <1>8 DEF Hub!Pause, Hub!outside
  <2> HIDE DEF r
  <2> QED
    BY <1>2, <2>1, <2>2
<1> QED
  BY <1>3, <1>4, <1>5, <1>6, <1>7, <1>8 DEF Hub!Operate

\* So does what concerns servers.
LEMMA RegisterApart ==
  ASSUME Hub!DeliveryAssumption, Hub!TypeOK, Apart, NEW i \in Instances, NEW s \in Servers, Hub!Register(i, s)
  PROVE  Apart'
<1>0. row \in Hub!Row /\ changes \in Nat
  BY DEF Hub!DeliveryAssumption, Hub!TypeOK
<1>1. PICK server : Hub!Edited(i, s, server) /\ Hub!Change /\ UNCHANGED <<edge, fetching, polling, told>>
  BY Zenon DEF Hub!Register, Hub!CreateServer, Hub!PatchServer, Hub!DeleteServer, Hub!ResetToken, Hub!Bundle,
               Hub!SyncStatus, Hub!outside
<1> DEFINE r == [row EXCEPT !.servers[s] = server]
<1>2. r.feed = row.feed /\ r.latest = row.latest
  BY <1>0 DEF Hub!Row
<1>3. Hub!Mutate(i, r)
  BY <1>1 DEF Hub!Edited
<1>4. changes' \in Nat /\ changes <= changes'
  BY <1>0, <1>1 DEF Hub!Change
<1> HIDE DEF r
<1> QED
  BY <1>1, <1>2, <1>3, <1>4, SameReleases, NothingPasses, ApartKept

\* And the answers on their way.
LEMMA AnswersApart ==
  ASSUME Hub!DeliveryAssumption, Hub!TypeOK, Apart,
         \/ \E i \in Instances : \/ \E s \in Servers : Hub!PollRead(i, s)
                                 \/ \E f \in Hub!Feeds : Hub!EdgeFetch(i, f)
         \/ \E f \in Hub!Feeds : Hub!Edge(f)
         \/ \E s \in Servers : Hub!PollAnswer(s) \/ \E delivered \in BOOLEAN : Hub!BundleEnds(s, delivered)
  PROVE  Apart'
<1>0. row \in Hub!Row /\ changes \in Nat
  BY DEF Hub!DeliveryAssumption, Hub!TypeOK
<1>1. ASSUME UNCHANGED <<row, copy, changes>> PROVE Adds
  BY <1>0, <1>1 DEF Adds, Apart
<1>2. ASSUME NEW i \in Instances, NEW s \in Servers, Hub!PollRead(i, s) PROVE Apart'
  <2>1. Passes
    BY <1>2 DEF Hub!PollRead, Hub!Credential, Hub!TypeOK, Passes
  <2> QED
    BY <1>1, <1>2, <2>1, ApartKept DEF Hub!PollRead
<1>3. ASSUME NEW i \in Instances, NEW f \in Hub!Feeds, Hub!EdgeFetch(i, f) PROVE Apart'
  <2>1. Passes
    BY <1>3 DEF Hub!EdgeFetch, Hub!TypeOK, Passes
  <2> QED
    BY <1>1, <1>3, <2>1, ApartKept DEF Hub!EdgeFetch
<1>4. ASSUME NEW f \in Hub!Feeds, Hub!EdgeFill(f) PROVE Apart'
  <2>1. Passes
    BY <1>4 DEF Hub!EdgeFill, Hub!TypeOK, Passes
  <2> QED
    BY <1>1, <1>4, <2>1, ApartKept DEF Hub!EdgeFill
<1>5. ASSUME NEW f \in Hub!Feeds, Hub!EdgeExpire(f) PROVE Apart'
  <2>1. Passes
    BY <1>5 DEF Hub!EdgeExpire, Hub!TypeOK, Passes
  <2> QED
    BY <1>1, <1>5, <2>1, ApartKept DEF Hub!EdgeExpire
<1>6. ASSUME NEW f \in Hub!Feeds, NEW works \in BOOLEAN, Hub!Purge(f, works) PROVE Apart'
  <2>1. Passes
    BY <1>6 DEF Hub!Purge, Hub!TypeOK, Passes
  <2> QED
    BY <1>1, <1>6, <2>1, ApartKept DEF Hub!Purge
<1>7. ASSUME NEW s \in Servers, Hub!PollAnswer(s) PROVE Apart'
  <2>1. Passes
    BY <1>7 DEF Hub!PollAnswer, Hub!TypeOK, Passes
  <2>2. CASE row.servers[s] = None
    BY <1>1, <1>7, <2>1, <2>2, ApartKept DEF Hub!PollAnswer
  <2>3. CASE row.servers[s] # None
    <3>1. polling[s].instance \in Instances /\ Hub!Mutate(polling[s].instance, row) /\ changes' = changes
      BY <1>7, <2>3 DEF Hub!PollAnswer, Hub!TypeOK
    <3>2. Adds
      BY <1>0, <3>1, SameReleases
    <3> QED
      BY <2>1, <3>2, ApartKept
  <2> QED
    BY <2>2, <2>3
<1>8. ASSUME NEW s \in Servers, NEW delivered \in BOOLEAN, Hub!BundleEnds(s, delivered) PROVE Apart'
  BY <1>1, <1>8, NothingPasses, ApartKept DEF Hub!BundleEnds
<1> QED
  BY <1>2, <1>3, <1>4, <1>5, <1>6, <1>7, <1>8 DEF Hub!Edge

\* Feeds are not mixed up, whatever answers are on their way while operators
\* publish, revoke and roll back: what the edge holds for a feed was published
\* for it (the routes of app.js behind cloudflare.js), and what a server is
\* told to run is a release of a pack.
FeedsAreApart ==
  /\ \A f \in Hub!Feeds : edge[f] # 0 => row.feed[edge[f]] = f
  /\ \A s \in Servers : told[s] # None /\ told[s].release # 0 => row.feed[told[s].release] \in Packs

\* They never are, from any releases of any feeds.
THEOREM FeedsCorrect ==
  ASSUME Hub!DeliveryAssumption
  PROVE  Hub!Init /\ [][Hub!Next]_(Hub!vars) => []FeedsAreApart
<1>1. Hub!Init => Hub!TypeOK /\ Apart
  <2> SUFFICES ASSUME Hub!Init PROVE Hub!TypeOK /\ Apart
    OBVIOUS
  <2>1. Hub!TypeOK
    BY HubInit
  <2>2. \A n \in Hub!Numbers : row.feed[n] \notin Packs
    BY DEF Hub!Init, Hub!DeliveryAssumption
  <2>3. \A f \in Hub!Feeds : row.latest[f] = 0 /\ edge[f] = 0 /\ fetching[f] = 0
    BY DEF Hub!Init
  <2>4. \A i \in Instances : copy[i] = row
    BY DEF Hub!Init
  <2>5. \A s \in Servers : polling[s] = None /\ told[s] = None
    BY DEF Hub!Init
  <2> QED
    BY <2>1, <2>2, <2>3, <2>4, <2>5 DEF Apart, PublishedFor
<1>2. Hub!TypeOK /\ Apart /\ [Hub!Next]_(Hub!vars) => (Hub!TypeOK /\ Apart)'
  <2> SUFFICES ASSUME Hub!TypeOK, Apart, [Hub!Next]_(Hub!vars) PROVE Hub!TypeOK' /\ Apart'
    OBVIOUS
  <2>1. Hub!TypeOK'
    BY HubStep
  <2>2. CASE UNCHANGED Hub!vars
    <3>1. UNCHANGED <<row, copy, changes, edge, fetching, polling, told>>
      BY <2>2 DEF Hub!vars
    <3> QED
      BY <2>1, <3>1 DEF Apart, PublishedFor, PublishedPack
  <2>3. CASE Hub!Next
    <3>1. ASSUME NEW i \in Instances, Hub!Operate(i) PROVE Apart'
      BY <3>1, OperateApart
    <3>2. ASSUME NEW i \in Instances, NEW s \in Servers, Hub!Register(i, s) PROVE Apart'
      BY <3>2, RegisterApart
    <3> QED
      BY <2>1, <2>3, <3>1, <3>2, AnswersApart DEF Hub!Next
  <2> QED
    BY <2>1, <2>2, <2>3
<1>3. Apart => FeedsAreApart
  BY DEF Apart, FeedsAreApart, PublishedFor, PublishedPack
<1> QED
  BY <1>1, <1>2, <1>3, PTL

\* What the edge holds, and is about to, is what the store serves; and what a
\* server was told, and is about to be, is what the store says.
CopiesAgree == \A i \in Instances : copy[i] = row
EdgeIsRight(f) == {edge[f], fetching[f]} \subseteq {0, Hub!Served(row, f)}
ServerIsRight(s) ==
  /\ row.servers[s] # None /\ told[s] = Hub!Assignment(row, s)
  /\ polling[s] # None => polling[s].answer = Hub!Assignment(row, s)

\* Once right, until an operator does something: no purge, fetch, poll or
\* bundle, in whatever order, takes the edge or a server back to what was.
StaysRight ==
  [][changes' = changes /\ CopiesAgree =>
       /\ CopiesAgree'
       /\ \A f \in Hub!Feeds : EdgeIsRight(f) => EdgeIsRight(f)'
       /\ \A s \in Servers : ServerIsRight(s) => ServerIsRight(s)']_(Hub!vars)

\* The part of EdgeConverges and ServersConverge that concerns single steps:
\* what both claim to be so at last remains so.
THEOREM RightStaysRight ==
  ASSUME Hub!DeliveryAssumption
  PROVE  Hub!Init /\ [][Hub!Next]_(Hub!vars) => StaysRight
<1> DEFINE Keeps == changes' = changes /\ CopiesAgree =>
             /\ CopiesAgree'
             /\ \A f \in Hub!Feeds : EdgeIsRight(f) => EdgeIsRight(f)'
             /\ \A s \in Servers : ServerIsRight(s) => ServerIsRight(s)'
<1>1. Hub!TypeOK /\ [Hub!Next]_(Hub!vars) => [Keeps]_(Hub!vars)
  <2> SUFFICES ASSUME Hub!TypeOK, Hub!Next, changes' = changes, CopiesAgree
               PROVE  /\ CopiesAgree'
                      /\ \A f \in Hub!Feeds : EdgeIsRight(f) => EdgeIsRight(f)'
                      /\ \A s \in Servers : ServerIsRight(s) => ServerIsRight(s)'
    OBVIOUS
  <2>0. changes \in Nat
    BY DEF Hub!DeliveryAssumption, Hub!TypeOK
  <2>1. ~Hub!Change
    BY <2>0 DEF Hub!Change
  <2>2. ASSUME NEW i \in Instances PROVE ~Hub!Operate(i) /\ \A s \in Servers : ~Hub!Register(i, s)
    BY Zenon, <2>1 DEF Hub!Operate, Hub!PublishPack, Hub!PublishLauncher, Hub!RevokeLauncher, Hub!RevokePack,
                       Hub!Rollback, Hub!Pause, Hub!Register, Hub!CreateServer, Hub!PatchServer,
                       Hub!DeleteServer, Hub!ResetToken, Hub!Bundle, Hub!SyncStatus
  <2>3. ASSUME NEW i \in Instances, NEW s \in Servers, Hub!PollRead(i, s)
        PROVE  /\ UNCHANGED <<row, copy, edge, fetching, told>>
               /\ \A t \in Servers : polling'[t] = polling[t] \/ polling'[t].answer = Hub!Assignment(row, t)
    BY <2>3 DEF Hub!PollRead, Hub!TypeOK, CopiesAgree
  <2>4. ASSUME NEW i \in Instances, NEW f \in Hub!Feeds, Hub!EdgeFetch(i, f)
        PROVE  /\ UNCHANGED <<row, copy, edge, polling, told>>
               /\ \A g \in Hub!Feeds : fetching'[g] \in {fetching[g], Hub!Served(row, g)}
    BY <2>4 DEF Hub!EdgeFetch, Hub!TypeOK, CopiesAgree
  <2>5. ASSUME NEW f \in Hub!Feeds, Hub!Edge(f)
        PROVE  /\ UNCHANGED <<row, copy, polling, told>>
               /\ \A g \in Hub!Feeds : edge'[g] \in {0, edge[g], fetching[g]} /\ fetching'[g] \in {0, fetching[g]}
    BY <2>5 DEF Hub!Edge, Hub!EdgeFill, Hub!EdgeExpire, Hub!Purge, Hub!TypeOK
  <2>6. ASSUME NEW s \in Servers, Hub!PollAnswer(s)
        PROVE  /\ UNCHANGED <<row, copy, edge, fetching>>
               /\ \A t \in Servers : polling'[t] \in {None, polling[t]}
               /\ \A t \in Servers : told'[t] = told[t] \/ (polling[t] # None /\ told'[t] = polling[t].answer)
    <3>1. polling[s].instance \in Instances
      BY <2>6 DEF Hub!PollAnswer, Hub!TypeOK
    <3>2. row' = row /\ copy' = copy
      <4>1. copy = [i \in Instances |-> copy[i]]
        BY DEF Hub!TypeOK
      <4> QED
        BY <2>6, <3>1, <4>1 DEF Hub!PollAnswer, Hub!Mutate, CopiesAgree
    <3> QED
      BY <2>6, <3>2 DEF Hub!PollAnswer, Hub!TypeOK
  <2>7. ASSUME NEW s \in Servers, NEW delivered \in BOOLEAN, Hub!BundleEnds(s, delivered)
        PROVE  UNCHANGED <<row, copy, edge, fetching, polling, told>>
    BY <2>7 DEF Hub!BundleEnds
  <2>8. /\ UNCHANGED <<row, copy>>
        /\ \A f \in Hub!Feeds : /\ edge'[f] \in {0, edge[f], fetching[f]}
                                 /\ fetching'[f] \in {0, fetching[f], Hub!Served(row, f)}
        /\ \A s \in Servers :
             /\ polling'[s] \in {None, polling[s]} \/ polling'[s].answer = Hub!Assignment(row, s)
             /\ told'[s] = told[s] \/ (polling[s] # None /\ told'[s] = polling[s].answer)
    BY <2>2, <2>3, <2>4, <2>5, <2>6, <2>7 DEF Hub!Next
  <2> QED
    BY <2>8 DEF CopiesAgree, EdgeIsRight, ServerIsRight
<1>2. Hub!Init /\ [][Hub!Next]_(Hub!vars) => []Hub!TypeOK
  BY DeliveryIsTyped
<1>3. Hub!Init /\ [][Hub!Next]_(Hub!vars) => [][Keeps]_(Hub!vars)
  BY <1>1, <1>2, PTL
<1> QED
  BY <1>3 DEF StaysRight

=============================================================================
