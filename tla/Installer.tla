----------------------------- MODULE Installer -----------------------------
(***************************************************************************)
(* The install transaction of the updater (apps/updater/src/installer.js): *)
(* syncPack, the recoverTransaction that precedes it, and the catch block  *)
(* that undoes it.  One machine, one Mods directory, one control           *)
(* directory; every file-system operation that another one can fail or     *)
(* crash after is a step of its own.                                       *)
(*                                                                         *)
(* A folder's data is abstracted to what the installer compares: the hash  *)
(* of the mod's ZIP and the key of its overlays.  Two roots whose manifest *)
(* entries are equal belong to the same mod.                               *)
(***************************************************************************)
EXTENDS Naturals

CONSTANTS
  Roots,        \* names of top-level folders below Mods
  Shas,         \* hashes of mod ZIPs
  Overlays,     \* keys of overlay lists (overlayKey)
  Manifests,    \* the signed releases the API may serve, Root -> Content
  None,         \* no folder, no entry, no file
  Private,      \* a folder the player put there
  Events,       \* what may happen besides the installer: see EventNames
  MaxBreaks     \* how often one sync and its recovery may be cut short

Content == [sha : Shas, ov : Overlays]

Folder == Content \cup {None, Private}

Entry == Content \cup {None}

\* roots: every item; had: those with hadTarget; inst: those with installed.
Items == [roots : SUBSET Roots, had : SUBSET Roots, inst : SUBSET Roots]

Journal == [items : Items, committed : BOOLEAN]

\* crash: the process is killed; io: an operation of syncPack throws;
\* lock: an operation of an undo fails and .catch swallows it;
\* player: folders are edited while no transaction is pending;
\* late: also while one is; force: syncPack may be called with force.
EventNames == {"crash", "io", "lock", "player", "late", "force"}

ASSUME InstallerAssumption ==
  /\ None \notin Content \cup Journal \cup Roots
  /\ Private \notin Content /\ Private # None
  /\ Manifests \subseteq [Roots -> Entry]
  /\ Events \subseteq EventNames
  /\ MaxBreaks \in Nat

VARIABLES
  disk,       \* the live folder of each root
  backup,     \* the backup directory of the latest transaction
  stateFile,  \* state.json, its managedRoots
  txnFile,    \* transaction.json
  pc,         \* where the process is; idle: no process
  man,        \* manifest: the release being installed
  mem,        \* state: the copy of managedRoots in memory
  items,      \* transaction: the items queued so far
  staged,     \* the roots extracted below stage-<time>
  todo,       \* roots the current loop has still to visit
  cur,        \* the root whose two-operation item is half done
  force,      \* the flag syncPack was called with
  orig,       \* history: what each root held when the sync was planned, as
              \*   edited by the player since
  moved,      \* history: roots the apply loop has reached
  touched,    \* history: roots undone, or emptied by the player, since they
              \*   were last installed or removed
  forced,     \* history: some sync so far was called with force
  breaks,     \* history: failures, kills and journals that an undo left behind
              \*   since the sync was planned
  outcome     \* history: how the latest sync stands

files    == <<disk, backup>>
records  == <<stateFile, txnFile>>
volatile == <<man, mem, items, staged, todo, cur, force>>
history  == <<orig, moved, touched, forced, breaks>>
vars     == <<files, records, pc, volatile, history, outcome>>

Nothing == [r \in Roots |-> None]

NoItems == [roots |-> {}, had |-> {}, inst |-> {}]

Phases == {"idle", "recover", "fetch", "stage", "queue", "apply", "commit",
           "clean", "prune", "rollback"}

Outcomes == {"none", "running", "ok", "failed", "crashed", "recovered"}

TypeOK ==
  /\ disk \in [Roots -> Folder] /\ backup \in [Roots -> Folder]
  /\ stateFile \in [Roots -> Entry] /\ mem \in [Roots -> Entry]
  /\ man \in [Roots -> Entry]
  /\ txnFile \in Journal \cup {None}
  /\ pc \in Phases /\ outcome \in Outcomes
  /\ items \in Items
  /\ staged \subseteq Roots /\ todo \subseteq Roots
  /\ moved \subseteq Roots /\ touched \subseteq Roots
  /\ cur \in Roots \cup {None}
  /\ force \in BOOLEAN /\ forced \in BOOLEAN /\ breaks \in Nat
  /\ orig \in [Roots -> Folder]

Init ==
  /\ disk = Nothing /\ backup = Nothing /\ stateFile = Nothing
  /\ txnFile = None
  /\ pc = "idle" /\ outcome = "none"
  /\ man = Nothing /\ mem = Nothing /\ items = NoItems
  /\ staged = {} /\ todo = {} /\ cur = None
  /\ force = FALSE /\ forced = FALSE /\ breaks = 0
  /\ orig = Nothing /\ moved = {} /\ touched = {}

-----------------------------------------------------------------------------
(* loadVerifiedManifest: recovery first, then the release.                 *)

\* Faulty: a leftover transaction is dropped, not undone.
StartCleanAlways ==
  /\ pc = "idle"
  /\ txnFile' = None
  /\ pc' = "fetch" /\ outcome' = "none"
  /\ UNCHANGED <<files, stateFile, volatile, history>>

\* recoverTransaction has nothing to undo: no file, no items, or committed.
StartClean ==
  /\ pc = "idle"
  /\ \/ txnFile = None
     \/ txnFile # None /\ (txnFile.items.roots = {} \/ txnFile.committed)
  /\ txnFile' = None
  /\ pc' = "fetch"
  /\ outcome' = "none"
  /\ UNCHANGED <<files, stateFile, volatile, history>>

StartRecovery ==
  /\ pc = "idle"
  /\ txnFile # None /\ txnFile.items.roots # {} /\ ~txnFile.committed
  /\ items' = txnFile.items
  /\ todo' = txnFile.items.roots
  /\ pc' = "recover"
  /\ UNCHANGED <<files, records, man, mem, staged, cur, force, history, outcome>>

\* The API answers 503 or an error, a signature does not verify, or the disk
\* is too small: syncPack throws before its try block.
SyncRefused ==
  /\ pc = "fetch"
  /\ pc' = "idle"
  /\ UNCHANGED <<files, records, volatile, history, outcome>>

\* The manifest m is accepted; state.json is read and a fresh backup
\* directory (named after the time) is chosen.
Plan(m, f) ==
  /\ pc = "fetch"
  /\ man' = m /\ mem' = stateFile /\ force' = f
  /\ items' = NoItems /\ staged' = {} /\ todo' = {} /\ cur' = None
  /\ backup' = Nothing
  /\ orig' = disk /\ moved' = {} /\ breaks' = 0 /\ forced' = (forced \/ f)
  /\ outcome' = "running"
  /\ pc' = "stage"
  /\ UNCHANGED <<disk, records, touched>>

-----------------------------------------------------------------------------
(* The try block of syncPack.                                              *)

Desired == {r \in Roots : man[r] # None}

\* Every root of the mod that owns r is recorded with this ZIP and overlays.
ModUnchanged(r) == \A q \in Roots : man[q] = man[r] => mem[q] = man[q]

\* The artifacts of every changed mod are downloaded and extracted.
Stage ==
  /\ pc = "stage"
  /\ staged' = {r \in Desired : ~ModUnchanged(r)}
  /\ todo' = Desired
  /\ pc' = "queue"
  /\ UNCHANGED <<files, records, man, mem, items, cur, force, history, outcome>>

SameArtifact(r) == mem[r] # None /\ mem[r].sha = man[r].sha /\ disk[r] # None

\* Faulty: the check for an unmanaged folder is missing.
RefusedUnstagedOnly(r) == r \notin staged

\* "Staged install root is missing", or an unmanaged folder is in the way
Refused(r) ==
  \/ r \notin staged
  \/ disk[r] # None /\ mem[r] = None /\ ~force

\* Faulty: hadTarget is taken from state.json, not from the disk.
HadEntry(r) == mem[r] # None

HadTarget(r) == disk[r] # None

KeepRoot(r) ==
  /\ pc = "queue" /\ r \in todo
  /\ SameArtifact(r)
  /\ todo' = todo \ {r}
  /\ UNCHANGED <<files, records, pc, man, mem, items, staged, cur, force,
                 history, outcome>>

QueueInstall(r) ==
  /\ pc = "queue" /\ r \in todo
  /\ ~SameArtifact(r) /\ ~Refused(r)
  /\ items' = [roots |-> items.roots \cup {r},
               had   |-> items.had \cup {q \in {r} : HadTarget(q)},
               inst  |-> items.inst \cup {r}]
  /\ todo' = todo \ {r}
  /\ UNCHANGED <<files, records, pc, man, mem, staged, cur, force, history,
                 outcome>>

\* The refusal is thrown, and the catch block undoes the items queued so far.
RefuseRoot(r) ==
  /\ pc = "queue" /\ r \in todo
  /\ ~SameArtifact(r) /\ Refused(r)
  /\ todo' = items.roots
  /\ pc' = "rollback" /\ outcome' = "failed" /\ breaks' = breaks + 1
  /\ UNCHANGED <<files, records, man, mem, items, staged, cur, force, orig,
                 moved, touched, forced>>

\* Faulty: only folders that exist are queued for removal.
UnwantedFolders == {r \in Roots : mem[r] # None /\ man[r] = None /\ disk[r] # None}

Unwanted == {r \in Roots : mem[r] # None /\ man[r] = None}

\* The roots no longer wanted are queued and transaction.json is written.
WriteJournal ==
  /\ pc = "queue" /\ todo = {}
  /\ LET all == [items EXCEPT !.roots = @ \cup Unwanted,
                              !.had = @ \cup {r \in Unwanted : HadTarget(r)}]
     IN  /\ items' = all
         /\ todo' = all.roots
         /\ txnFile' = [items |-> all, committed |-> FALSE]
  /\ pc' = "apply"
  /\ UNCHANGED <<files, stateFile, man, mem, staged, cur, force, history, outcome>>

\* rename(target, backup) of an item to install
MoveOut(r) ==
  /\ pc = "apply" /\ r \in todo /\ cur = None
  /\ r \in items.inst /\ r \in items.had
  /\ backup' = [backup EXCEPT ![r] = disk[r]]
  /\ disk' = [disk EXCEPT ![r] = None]
  /\ cur' = r
  /\ moved' = moved \cup {r}
  /\ UNCHANGED <<records, pc, man, mem, items, staged, todo, force, orig,
                 touched, forced, breaks, outcome>>

\* rename(staged, target)
MoveIn(r) ==
  /\ pc = "apply" /\ r \in todo /\ r \in items.inst
  /\ cur = r \/ (cur = None /\ r \notin items.had)
  /\ disk' = [disk EXCEPT ![r] = man[r]]
  /\ mem' = [mem EXCEPT ![r] = man[r]]
  /\ todo' = todo \ {r}
  /\ cur' = None
  /\ moved' = moved \cup {r} /\ touched' = touched \ {r}
  /\ UNCHANGED <<backup, records, pc, man, items, staged, force, orig, forced,
                 breaks, outcome>>

\* rename(target, backup) of an item to remove, after every install
MoveRemoved(r) ==
  /\ pc = "apply" /\ r \in todo /\ cur = None
  /\ todo \cap items.inst = {}
  /\ IF r \in items.had
       THEN /\ backup' = [backup EXCEPT ![r] = disk[r]]
            /\ disk' = [disk EXCEPT ![r] = None]
       ELSE UNCHANGED files
  /\ mem' = [mem EXCEPT ![r] = None]
  /\ todo' = todo \ {r}
  /\ moved' = moved \cup {r} /\ touched' = touched \ {r}
  /\ UNCHANGED <<records, pc, man, items, staged, cur, force, orig, forced,
                 breaks, outcome>>

SaveState ==
  /\ pc = "apply" /\ todo = {}
  /\ stateFile' = mem
  /\ pc' = "commit"
  /\ UNCHANGED <<files, txnFile, volatile, history, outcome>>

\* Faulty: the second write of transaction.json leaves the status out.
CommitUnmarked ==
  /\ pc = "commit"
  /\ txnFile' = [items |-> items]
  /\ pc' = "clean"
  /\ UNCHANGED <<files, stateFile, volatile, history, outcome>>

Commit ==
  /\ pc = "commit"
  /\ txnFile' = [items |-> items, committed |-> TRUE]
  /\ pc' = "clean"
  /\ UNCHANGED <<files, stateFile, volatile, history, outcome>>

RemoveJournal ==
  /\ pc = "clean"
  /\ txnFile' = None
  /\ pc' = "prune" /\ outcome' = "ok"
  /\ UNCHANGED <<files, stateFile, volatile, history>>

\* The stage directory, old cache files and backups older than cacheDays go;
\* syncPack returns.
Prune ==
  /\ pc = "prune"
  /\ staged' = {}
  /\ pc' = "idle"
  /\ UNCHANGED <<files, records, man, mem, items, todo, cur, force, history,
                 outcome>>

-----------------------------------------------------------------------------
(* Undoing: the catch block (rollback) and recoverTransaction (recover)    *)
(* run the same two operations for each item.                              *)

\* Any operation of the try block throws.
Fail ==
  /\ "io" \in Events
  /\ pc \in {"stage", "queue", "apply", "commit", "clean", "prune"}
  /\ todo' = items.roots /\ cur' = None
  /\ pc' = "rollback" /\ outcome' = "failed" /\ breaks' = breaks + 1
  /\ UNCHANGED <<files, records, man, mem, items, staged, force, orig, moved,
                 touched, forced>>

\* if (item.installed) rm(target)
UndoRemove(r) ==
  /\ pc \in {"rollback", "recover"} /\ r \in todo /\ cur = None
  /\ \/ disk' = [disk EXCEPT ![r] = IF r \in items.inst THEN None ELSE @]
     \/ "lock" \in Events /\ UNCHANGED disk
  /\ cur' = r
  /\ touched' = touched \cup {r}
  /\ UNCHANGED <<backup, records, pc, man, mem, items, staged, todo, force,
                 orig, moved, forced, breaks, outcome>>

CanRestore(r) == r \in items.had /\ backup[r] # None /\ disk[r] = None

\* if (item.hadTarget && exists(backup)) rename(backup, target): a rename onto
\* a folder that still exists fails and the failure is swallowed.
UndoRestore(r) ==
  /\ pc \in {"rollback", "recover"} /\ cur = r
  /\ \/ /\ CanRestore(r)
        /\ disk' = [disk EXCEPT ![r] = backup[r]]
        /\ backup' = [backup EXCEPT ![r] = None]
     \/ /\ ~CanRestore(r) \/ "lock" \in Events
        /\ UNCHANGED files
  /\ todo' = todo \ {r} /\ cur' = None
  /\ UNCHANGED <<records, pc, man, mem, items, staged, force, history, outcome>>

\* Faulty: the catch block expects the journal to have been written.
RollbackDoneJournaled ==
  /\ pc = "rollback" /\ todo = {} /\ txnFile # None
  /\ txnFile' = None
  /\ staged' = {}
  /\ pc' = "idle"
  /\ UNCHANGED <<files, stateFile, man, mem, items, todo, cur, force, history,
                 outcome>>

\* rm(txnFile).catch: a journal that cannot be removed stays, and nobody hears
\* of it; the next recovery undoes once more what is undone.
RollbackDone ==
  /\ pc = "rollback" /\ todo = {}
  /\ \/ txnFile' = None /\ UNCHANGED breaks
     \/ /\ "lock" \in Events /\ txnFile # None
        /\ UNCHANGED txnFile /\ breaks' = breaks + 1
  /\ staged' = {}
  /\ pc' = "idle"
  /\ UNCHANGED <<files, stateFile, man, mem, items, todo, cur, force, orig, moved,
                 touched, forced, outcome>>

\* A removal that throws here ends the process, as Crash does.
RecoverDone ==
  /\ pc = "recover" /\ todo = {}
  /\ txnFile' = None
  /\ pc' = "fetch" /\ outcome' = "recovered"
  /\ UNCHANGED <<files, stateFile, volatile, history>>

-----------------------------------------------------------------------------
(* The environment.                                                        *)

\* The process is killed: what it held in memory is gone, and no later sync
\* looks into its stage directory.
Crash ==
  /\ "crash" \in Events /\ breaks < MaxBreaks
  /\ pc # "idle"
  /\ breaks' = breaks + 1
  /\ pc' = "idle"
  /\ man' = Nothing /\ mem' = Nothing /\ items' = NoItems
  /\ staged' = {} /\ todo' = {} /\ cur' = None /\ force' = FALSE
  /\ outcome' = IF outcome = "running" THEN "crashed" ELSE outcome
  /\ UNCHANGED <<files, records, orig, moved, touched, forced>>

PlayerMayEdit ==
  /\ "player" \in Events /\ pc = "idle"
  /\ txnFile = None \/ "late" \in Events

\* The player unpacks a mod of their own where the updater manages nothing.
PlayerAdds(r) ==
  /\ PlayerMayEdit
  /\ disk[r] = None /\ stateFile[r] = None
  /\ disk' = [disk EXCEPT ![r] = Private]
  /\ orig' = [orig EXCEPT ![r] = Private]
  /\ UNCHANGED <<backup, records, pc, volatile, moved, touched, forced, breaks,
                 outcome>>

PlayerDeletes(r) ==
  /\ PlayerMayEdit
  /\ disk[r] # None
  /\ disk' = [disk EXCEPT ![r] = None]
  /\ orig' = [orig EXCEPT ![r] = None]
  /\ touched' = touched \cup {r}
  /\ UNCHANGED <<backup, records, pc, volatile, moved, forced, breaks, outcome>>

ForceFlags == IF "force" \in Events THEN BOOLEAN ELSE {FALSE}

Installs ==
  \/ StartClean \/ StartRecovery \/ SyncRefused
  \/ \E m \in Manifests, f \in ForceFlags : Plan(m, f)
  \/ Stage \/ WriteJournal \/ SaveState \/ Commit \/ RemoveJournal \/ Prune
  \/ \E r \in Roots : KeepRoot(r) \/ QueueInstall(r) \/ RefuseRoot(r)
  \/ \E r \in Roots : MoveOut(r) \/ MoveIn(r) \/ MoveRemoved(r)
  \/ \E r \in Roots : UndoRemove(r) \/ UndoRestore(r)
  \/ RollbackDone \/ RecoverDone

Next ==
  \/ Installs
  \/ Fail \/ Crash
  \/ \E r \in Roots : PlayerAdds(r) \/ PlayerDeletes(r)

Spec == Init /\ [][Next]_vars

-----------------------------------------------------------------------------
(* Properties.                                                             *)

\* As long as nobody forces a sync, a folder the updater does not manage is
\* never replaced, moved or deleted by it (SECURITY.md: player-private mods are
\* not overwritten by default).  The refusal in the queueing loop is the only
\* guard; neither the apply loop nor an undo may get round it.
PrivateKept ==
  [][\A r \in Roots : disk[r] = Private /\ disk'[r] # Private
                         => pc = "idle" \/ forced]_vars

\* Write-ahead: while a sync runs, and after it was killed, every root that no
\* longer holds what it held is in transaction.json, and is marked hadTarget
\* there if it held something: recovery knows all it has to undo.
JournalCoversMoves ==
  outcome \in {"running", "crashed"} =>
    \A r \in Roots : disk[r] # orig[r] =>
      /\ txnFile # None
      /\ r \in txnFile.items.roots
      /\ orig[r] # None => r \in txnFile.items.had

\* Once the transaction is marked committed, folders, state.json and release
\* agree on every item, and state.json names exactly the roots of the release,
\* each with the release's ZIP.
CommitIsTruthful ==
  pc \in {"clean", "prune"} =>
    /\ \A r \in items.inst : disk[r] = man[r] /\ stateFile[r] = man[r]
    /\ \A r \in items.roots \ items.inst : disk[r] = None
    /\ \A r \in Roots : stateFile[r] # None <=> r \in Desired
    /\ \A r \in Desired : stateFile[r].sha = man[r].sha

\* What a root held when the apply loop reached it is still on the machine,
\* live or in the backup directory, however the sync ends and whichever of the
\* undo's removals and renames fail, if it was cut short at most once and the
\* undo could remove transaction.json.  (With the journal left behind, and
\* likewise after a second cut, what was restored is taken for what was
\* installed and is deleted.)
MovedContentSurvives ==
  breaks <= 1 =>
    \A r \in moved : orig[r] \in {None, disk[r], backup[r]}

\* Between syncs state.json describes the folders (the hello fingerprint is
\* computed from it): what it records for a root that no undo and no player
\* has touched since is what the root holds.
StateMatchesDisk ==
  pc = "idle" /\ txnFile = None =>
    \A r \in Roots \ touched : stateFile[r] # None => disk[r] = stateFile[r]

\* The process takes its next step, the launcher or the guardian starts the
\* updater again, and the API answers now and then.
PlanSome == \E m \in Manifests, f \in ForceFlags : Plan(m, f)

FairSpec == Spec /\ WF_vars(Installs) /\ SF_vars(PlanSome)

\* A sync that was started ends, whatever fails in it.
SyncEnds == pc # "idle" ~> pc = "idle"

=============================================================================
